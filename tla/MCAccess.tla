------------------------------ MODULE MCAccess ------------------------------
(***************************************************************************)
(* Who may act: the backend's accounts with the browsers signed in to      *)
(* them, and the admins' panels.  The two share nothing, so a behaviour is *)
(* one of either, with the other one at rest.                              *)
(***************************************************************************)
EXTENDS Accounts, AdminPanel
CONSTANTS r1, r2, r3, r4, b1, b2, k1, k2, m1

Four(a, b, c, d) == (r1 :> a) @@ (r2 :> b) @@ (r3 :> c) @@ (r4 :> d)
NoTrouble == [crash |-> 0, redis |-> 0, db |-> 0, timeout |-> 0, expiry |-> 0, minute |-> 0]
ForEmail(route, b, e, proof) ==
  [route |-> route, browser |-> b, email |-> e, wallet |-> None, proof |-> proof]
ForWallet(route, b, w, proof) ==
  [route |-> route, browser |-> b, email |-> "w@wallet.lynx", wallet |-> w, proof |-> proof]
OfSession(route, b) == ForEmail(route, b, None, None)

Ann == [NewUser("ann@mail", "email") EXCEPT !.hash = "ann", !.verified = TRUE, !.managed = TRUE]
Bob == [NewUser("bob@mail", "email") EXCEPT !.hash = "bob", !.verifyToken = TRUE]
Accounts0 == [ann |-> Ann, bob |-> Bob]
SignedIn == [cookie |-> "ann", user |-> "ann", token |-> "ann"]
Both == (b1 :> SignedIn) @@ (b2 :> NoSession)
Story(cs, t) == [calls |-> cs, trouble |-> t, users |-> Accounts0, browsers |-> Both]

\* the accounts at rest
Quiet == [calls |-> << >>, trouble |-> NoTrouble, users |-> << >>, browsers |-> Both]

MCStories == {
  Quiet,
  \* one email registered from two browsers
  Story(Four(ForEmail("register", b2, "new@mail", None), ForEmail("register", b2, "new@mail", None),
             ForEmail("verifyEmail", b2, None, r1), ForEmail("login", b2, "new@mail", r1)),
        [NoTrouble EXCEPT !.crash = 1, !.db = 1]),
  \* a reset link used twice
  Story(Four(ForEmail("requestReset", b2, "ann@mail", None), ForEmail("resetPassword", b2, None, r1),
             ForEmail("resetPassword", b2, None, r1), ForEmail("login", b2, "ann@mail", r2)),
        [NoTrouble EXCEPT !.crash = 1, !.expiry = 1]),
  \* a login message dated ahead, sent again when its marker is gone
  Story(Four(ForWallet("walletLogin", b2, "w1", "ahead"), ForWallet("walletLogin", b2, "w1", "ahead"),
             ForWallet("linkWallet", b1, "w2", None), OfSession("logout", b1)),
        [NoTrouble EXCEPT !.minute = 1]),
  \* a wallet's login message sent twice while another account links the wallet
  Story(Four(ForWallet("walletLogin", b2, "w1", "sig"), ForWallet("walletLogin", b2, "w1", "sig"),
             ForWallet("linkWallet", b1, "w1", None), OfSession("refresh", b1)),
        [NoTrouble EXCEPT !.crash = 1, !.redis = 1, !.minute = 1]),
  \* an account that changes its wallet and its password at once
  Story(Four(ForWallet("linkWallet", b1, "w1", None), ForWallet("linkWallet", b1, "w2", None),
             ForEmail("changePassword", b1, None, "ann"), ForWallet("walletLogin", b2, "w1", "sig")),
        [NoTrouble EXCEPT !.crash = 1]),
  \* a browser that signs out while it refreshes
  Story(Four(OfSession("refresh", b1), OfSession("logout", b1), OfSession("refresh", b1),
             ForEmail("login", b1, "ann@mail", "ann")),
        [NoTrouble EXCEPT !.crash = 1, !.redis = 1, !.timeout = 1]),
  \* a verification mail opened twice
  Story(Four(ForEmail("verifyEmail", b2, None, "bob"), ForEmail("verifyEmail", b2, None, "bob"),
             ForEmail("requestReset", b2, "bob@mail", None), ForEmail("login", b2, "bob@mail", "bob")),
        [NoTrouble EXCEPT !.crash = 1, !.db = 1, !.expiry = 1])}

\* The clock starts at 1, and a message is good until one minute after its date.
MCIssuedAt == [sig |-> 0, ahead |-> 2]
MCEmails == {"ann@mail", "bob@mail", "new@mail", "w@wallet.lynx"}
MCWallets == {"w1", "w2"}
MCAdmins == {"w2"}
MCRequests == {r1, r2, r3, r4}
MCBrowsers == {b1, b2}

MCKeys == {k1, k2}
MCMarkets == {m1}
MCResults == {"Yes"}
MCSignerLists == {<<k1, k2>>}
MCProposable == [type : {"ResolveMarketAdmin"}, market : MCMarkets, result : MCResults]
NoClicks == [what \in {"password", "code", "logout", "initMultisig"} \cup Pages |-> 0]
\* the panels at rest
AtRest == [cookie |-> [k \in Keys |-> NoCookie], restarts |-> 0, oracleCalls |-> 0,
           clicks |-> [k \in Keys |-> NoClicks]]
MCPanelStories == {
  AtRest,
  \* one admin who signs in twice, around a restart
  [cookie |-> [k \in Keys |-> NoCookie], restarts |-> 1, oracleCalls |-> 0,
   clicks |-> (k1 :> [NoClicks EXCEPT !.password = 2, !.code = 2, !.logout = 1, !.load = 1])
           @@ (k2 :> NoClicks)],
  \* two admins at work on one market, each with a list of his own
  [cookie |-> [k \in Keys |-> [kind |-> "admin", at |-> 0]], restarts |-> 0, oracleCalls |-> 1,
   clicks |-> (k1 :> [NoClicks EXCEPT !.initMultisig = 1, !.load = 2, !.propose = 1,
                                      !.execute = 1, !.finalize = 1])
           @@ (k2 :> [NoClicks EXCEPT !.load = 1, !.approve = 1, !.dispute = 1])]}

ServerRests == calls = << >>
PanelRests == left = AtRest.clicks
MCInit == AccountsInit /\ PanelInit /\ (ServerRests # PanelRests)
MCNext ==
  \/ ~ServerRests /\ AccountsNext /\ UNCHANGED panelVars
  \/ ServerRests /\ PanelNext /\ UNCHANGED accountVars
MCSpec == MCInit /\ [][MCNext]_<<accountVars, panelVars>>

-----------------------------------------------------------------------------
\* What proves who somebody is -- a wallet's signature, a mailed token, a code of
\* the authenticator -- is good for one time (server.ts:971 and :1419, totp.ts:72),
\* but for the causes ProofsAreOneTime names.
SpentStaysSpent == ProofsAreOneTime /\ CodesAreOneTime

\* Who signed out stays out, of the site and of a panel, until he asks for
\* something again (AuthContext.tsx:298, logout/route.ts:4).
SignedOut == SignedOutStaysOut /\ PanelSignedOut
=============================================================================
