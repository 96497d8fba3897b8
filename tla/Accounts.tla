------------------------------ MODULE Accounts ------------------------------
(* The /auth routes of server.ts split at their awaits, the table they save  *)
(* accounts in, and the browsers whose AuthContext calls them: what a        *)
(* request read before it waited for a hash, for Redis or for the database   *)
(* may have changed when it goes on.                                         *)
EXTENDS Naturals, FiniteSets, TLC

CONSTANTS
  Requests,       \* the calls of a behaviour
  Browsers,
  Emails, Wallets,
  adminWallets,   \* ADMIN_WALLETS
  Stories,        \* bound: the calls, the faults and the accounts to begin with
  MaxHits,        \* the auth limiter's requests per window
  IssuedAt,       \* when the message of a login's signature is dated
  WALLET_LOGIN_WINDOW_MS

None == "none"

\* What an account is stored with.
IsUser(user) ==
  user = [email |-> user.email, hash |-> user.hash, method |-> user.method,
          verified |-> user.verified, verifyToken |-> user.verifyToken,
          verifyFresh |-> user.verifyFresh, resetToken |-> user.resetToken,
          resetFresh |-> user.resetFresh, wallet |-> user.wallet,
          managed |-> user.managed, admin |-> user.admin]

\* An account to begin with, or of a configured wallet, has a name that is no
\* request's, and no reset token a request asked for.
ASSUME StoriesAssumption ==
  /\ None \notin Requests /\ adminWallets \cap Requests = {}
  /\ \A s \in Stories :
       /\ DOMAIN s.users \cap Requests = {}
       /\ \A id \in DOMAIN s.users : IsUser(s.users[id]) /\ s.users[id].resetToken = None
       /\ s.calls # << >> => \A r \in Requests :
            /\ s.calls[r].browser \in Browsers
            /\ s.calls[r].route = "walletLogin" => IssuedAt[s.calls[r].proof] \in Nat

ASSUME WindowAssumption == WALLET_LOGIN_WINDOW_MS \in Nat \ {0}

VARIABLES
  calls,              \* the [route, browser, email, wallet, proof] of each request
  req,                \* where each request is and what it holds
  users, usersByEmail, usersByWallet,
  rows,               \* the table User
  usedSignatures,     \* until when a login signature is spent: in Redis, and in the process
  revokedTokens,      \* refresh tokens revoked: in Redis, and in the process
  hits,               \* the limiter's counter of each browser
  clock,              \* what a login's message and its marker are held against
  browser,            \* its refresh cookie, and AuthContext's user and token
  trouble,            \* the faults of each kind that may still happen
  past                \* history, for the properties

serverVars == <<users, usersByEmail, usersByWallet, usedSignatures, revokedTokens, hits,
                clock>>
accountVars == <<calls, req, serverVars, rows, browser, trouble, past>>

\* A function at one more value, or with another one there.
With(f, x, value) == [y \in DOMAIN f \cup {x} |-> IF y = x THEN value ELSE f[y]]

\* An account is known by the request that created it, or by a name of its
\* own; so is a refresh token, and a password hash by who set it.
NewUser(email, method) ==
  [email |-> email, hash |-> None, method |-> method, verified |-> FALSE,
   verifyToken |-> FALSE, verifyFresh |-> TRUE, resetToken |-> None, resetFresh |-> TRUE,
   wallet |-> None, managed |-> FALSE, admin |-> FALSE]

Call(r) == calls[r]
At(r, route, where) == Call(r).route = route /\ req[r].pc = where

NoSession == [cookie |-> None, user |-> None, token |-> None]
ClearedSession_TokenKept(b) == [b EXCEPT !.user = None]
ClearedSession(b) == [NoSession EXCEPT !.cookie = b.cookie]
EmailIndex(us) ==
  [e \in Emails |-> IF \E id \in DOMAIN us : us[id].email = e
                    THEN CHOOSE id \in DOMAIN us : us[id].email = e ELSE None]
WalletIndex(us) ==
  [w \in Wallets |-> IF \E id \in DOMAIN us : us[id].wallet = w
                     THEN CHOOSE id \in DOMAIN us : us[id].wallet = w ELSE None]

AccountsInit ==
  /\ \E s \in Stories :
       /\ calls = s.calls /\ trouble = s.trouble /\ users = s.users
       /\ browser = [b \in Browsers |-> s.browsers[b]]
  /\ rows = users
  /\ usersByEmail = EmailIndex(users) /\ usersByWallet = WalletIndex(users)
  /\ req = [r \in Requests |-> [pc |-> "idle", id |-> None, held |-> None, row |-> None,
                                aborted |-> FALSE]]
  /\ usedSignatures = [redis |-> << >>, memory |-> << >>]
  /\ revokedTokens = [redis |-> {}, memory |-> {}]
  /\ hits = [b \in Browsers |-> 0] /\ clock = 1
  /\ past = [accepted |-> [r \in Requests |-> None], overlapped |-> {}, raced |-> {},
             relinked |-> {}, lastHash |-> << >>, lastWallet |-> << >>, ended |-> {},
             revoked |-> {}, revived |-> FALSE, out |-> {}, alone |-> {}, doubtful |-> {},
             shared |-> {}]

Trouble(k) == trouble[k] > 0 /\ trouble' = [trouble EXCEPT ![k] = @ - 1]
Go(r, where) == req' = [req EXCEPT ![r].pc = where]
Answer(r, answer) == Go(r, answer)
Answers == {"ok", "session", "cleared", "expired", "refused", "failed"}
InServer(r) == req[r].pc \notin Answers \cup {"idle", "received"}
InFlight(r) == req[r].pc \notin {"idle", "received"} /\ ~req[r].aborted

Server == UNCHANGED <<calls, rows, hits, browser, trouble>>
Maps == UNCHANGED <<users, usersByEmail, usersByWallet>>
Guards == UNCHANGED <<usedSignatures, revokedTokens, clock>>

-----------------------------------------------------------------------------
(* The browser: AuthContext.tsx                                              *)

NeedsToken == {"changePassword", "linkWallet"}
SignsIn == {"login", "verifyEmail", "walletLogin", "refresh"}
Of(b) == {r \in Requests : Call(r).browser = b}

\* A request leaves with the cookie or the access token the browser has then.
Send(r) ==
  LET b == Call(r).browser IN
  /\ req[r].pc = "idle"
  /\ Call(r).route \in NeedsToken => browser[b].token # None
  /\ req' = [req EXCEPT ![r].pc = "sent",
                        ![r].held = IF Call(r).route \in NeedsToken THEN browser[b].token
                                    ELSE browser[b].cookie]
  /\ browser' = IF Call(r).route = "logout"
                THEN [browser EXCEPT ![b] = ClearedSession(browser[b])]
                ELSE browser
  /\ past' = [past EXCEPT !.out = @ \ {b},
                !.alone = IF /\ Call(r).route = "logout"
                             /\ \A q \in Of(b) : ~InFlight(q)
                          THEN @ \cup {b} ELSE @ \ {b}]
  /\ UNCHANGED <<calls, serverVars, rows, trouble>>

\* What a browser makes of an answer.  linkWallet remembers the user of the
\* render that called it; a logout's failure is ignored.
Session(r) ==
  LET b == browser[Call(r).browser]
  IN  CASE req[r].pc = "session" -> [cookie |-> r, user |-> req[r].id, token |-> req[r].id]
        [] req[r].pc = "cleared" -> [b EXCEPT !.cookie = None]
        [] req[r].pc = "expired" -> NoSession
        [] req[r].pc \in {"refused", "failed"} /\ Call(r).route = "refresh" ->
             ClearedSession(b)
        [] req[r].pc = "ok" /\ Call(r).route = "linkWallet" -> [b EXCEPT !.user = req[r].id]
        [] OTHER -> b

\* A logout is over when it is answered.  It was alone if nothing else was on
\* its way since it was sent.
Receive(r) ==
  LET b == Call(r).browser IN
  /\ req[r].pc \in Answers
  /\ Go(r, "received")
  /\ browser' = IF req[r].aborted THEN browser ELSE [browser EXCEPT ![b] = Session(r)]
  /\ past' = IF req[r].pc = "cleared" /\ ~req[r].aborted /\ b \in past.alone
             THEN [past EXCEPT !.out = @ \cup {b}] ELSE past
  /\ UNCHANGED <<calls, serverVars, rows, trouble>>

\* AUTH_FETCH_TIMEOUT_MS: the browser stops waiting, the server does not know.
TimeOut(r) ==
  LET b == Call(r).browser IN
  /\ InServer(r) /\ ~req[r].aborted
  /\ Trouble("timeout")
  /\ req' = [req EXCEPT ![r].aborted = TRUE]
  /\ browser' = IF Call(r).route = "refresh"
                THEN [browser EXCEPT ![b] = ClearedSession(browser[b])]
                ELSE browser
  /\ UNCHANGED <<calls, serverVars, rows, past>>

-----------------------------------------------------------------------------
(* Saving an account: the store, then the row                                *)

\* The limiter counts the request before its route runs, and refuses it when
\* Redis does not answer.
Admit(r) ==
  LET b == Call(r).browser IN
  /\ req[r].pc = "sent"
  /\ \/ /\ hits' = [hits EXCEPT ![b] = @ + 1]
        /\ Go(r, IF hits'[b] > MaxHits THEN "refused" ELSE "admitted")
        /\ UNCHANGED trouble
     \/ Trouble("redis") /\ Go(r, "refused") /\ UNCHANGED hits
  /\ UNCHANGED <<calls, rows, browser, past>> /\ Maps /\ Guards

SavingOf(id) == {r \in Requests : req[r].pc = "saving" /\ req[r].id = id}

\* persistAuthUser passes the account as it is now.
StartSave(r, id, user) ==
  /\ req' = [req EXCEPT ![r].pc = "saving", ![r].id = id, ![r].row = user]
  /\ past' = IF SavingOf(id) = {} THEN past ELSE [past EXCEPT !.overlapped = @ \cup {id}]

\* Approving a wallet changes the store, which is saved first.
StartStore(r, id) == req' = [req EXCEPT ![r].pc = "storing", ![r].id = id]

StoreSaved(r) ==
  /\ req[r].pc = "storing"
  /\ StartSave(r, req[r].id, users[req[r].id])
  /\ Server /\ Maps /\ Guards

\* What verification does not save is when it expires.
Row(user) == [user EXCEPT !.verifyFresh = TRUE]

\* email and walletAddress are unique columns.
Conflicts(user, id) ==
  \E other \in DOMAIN rows \ {id} :
    \/ rows[other].email = user.email
    \/ user.wallet # None /\ rows[other].wallet = user.wallet

Outcome(r) ==
  IF Call(r).route \in SignsIn THEN "session" ELSE "ok"

\* The rows of one account may be written in another order than they were sent.
CommitUser(r) ==
  /\ req[r].pc = "saving"
  /\ IF Conflicts(req[r].row, req[r].id)
     THEN Answer(r, "refused") /\ UNCHANGED <<rows, past>>
     ELSE /\ rows' = With(rows, req[r].id, Row(req[r].row))
          /\ Answer(r, Outcome(r))
          /\ past' = [past EXCEPT !.accepted[r] = Call(r).proof, !.ended = @ \cup {r}]
  /\ UNCHANGED <<calls, hits, browser, trouble>> /\ Maps /\ Guards

FailSave(r) ==
  /\ req[r].pc \in {"storing", "saving"}
  /\ Trouble("db")
  /\ Answer(r, "refused")
  /\ UNCHANGED <<calls, rows, hits, browser, past>> /\ Maps /\ Guards

Refuse(r) == Answer(r, "refused") /\ Server /\ Maps /\ Guards /\ UNCHANGED past
Wait(r, where, id, held) ==
  /\ req' = [req EXCEPT ![r].pc = where, ![r].id = id, ![r].held = held]
  /\ Server /\ Maps /\ Guards /\ UNCHANGED past

-----------------------------------------------------------------------------
(* Email accounts                                                            *)

register(r) ==
  /\ At(r, "register", "admitted")
  /\ IF usersByEmail[Call(r).email] # None THEN Refuse(r) ELSE Wait(r, "hashing", r, None)

\* The email may have been taken while the password was hashed.
createUser(r) ==
  LET e == Call(r).email
      user == [NewUser(e, "email") EXCEPT !.hash = r, !.verifyToken = TRUE]
  IN  /\ At(r, "register", "hashing")
      /\ users' = With(users, r, user)
      /\ usersByEmail' = [usersByEmail EXCEPT ![e] = r]
      /\ req' = [req EXCEPT ![r].pc = "saving", ![r].row = user]
      /\ past' = [past EXCEPT !.lastHash = With(@, r, r),
                    !.raced = IF usersByEmail[e] # None THEN @ \cup {e} ELSE @]
      /\ UNCHANGED usersByWallet /\ Server /\ Guards

\* The hash compared is the one read before the comparison started.
login(r) ==
  /\ At(r, "login", "admitted")
  /\ LET id == usersByEmail[Call(r).email]
     IN  IF id \in DOMAIN users THEN Wait(r, "verifying", id, users[id].hash) ELSE Refuse(r)

signIn(r) ==
  /\ At(r, "login", "verifying")
  /\ IF req[r].held = Call(r).proof /\ users[req[r].id].verified
     THEN Answer(r, "session") /\ Server /\ Maps /\ Guards /\ UNCHANGED past
     ELSE Refuse(r)

Verified_TokenKept(user) == [user EXCEPT !.verified = TRUE, !.managed = TRUE]
Verified(user) == [user EXCEPT !.verified = TRUE, !.verifyToken = FALSE, !.managed = TRUE]

\* The token in the mail names the account.
verifyEmail(r) ==
  LET id == Call(r).proof IN
  /\ At(r, "verifyEmail", "admitted")
  /\ IF id \in DOMAIN users /\ users[id].verifyToken /\ users[id].verifyFresh
     THEN /\ users' = [users EXCEPT ![id] = Verified(@)]
          /\ StartStore(r, id)
          /\ UNCHANGED <<usersByEmail, usersByWallet, past>> /\ Server /\ Guards
     ELSE Refuse(r)

requestPasswordReset(r) ==
  LET id == usersByEmail[Call(r).email]
      user == [users[id] EXCEPT !.resetToken = r, !.resetFresh = TRUE]
  IN  /\ At(r, "requestReset", "admitted")
      /\ IF id \in DOMAIN users /\ users[id].method = "email"
         THEN /\ users' = [users EXCEPT ![id] = user]
              /\ StartSave(r, id, user)
              /\ UNCHANGED <<usersByEmail, usersByWallet>> /\ Server /\ Guards
         ELSE Answer(r, "ok") /\ Server /\ Maps /\ Guards /\ UNCHANGED past

HoldsReset(id, token) == users[id].resetToken = token /\ users[id].resetFresh

Finders(token) == {q \in Requests : At(q, "resetPassword", "hashing") /\ Call(q).proof = token}

resetPassword(r) ==
  LET token == Call(r).proof IN
  /\ At(r, "resetPassword", "admitted")
  /\ IF \E id \in DOMAIN users : HoldsReset(id, token)
     THEN /\ \E id \in DOMAIN users :
               /\ HoldsReset(id, token)
               /\ req' = [req EXCEPT ![r].pc = "hashing", ![r].id = id]
          /\ past' = IF Finders(token) = {} THEN past
                     ELSE [past EXCEPT !.shared = @ \cup {token}]
          /\ Server /\ Maps /\ Guards
     ELSE Refuse(r)

\* The token was found before the hash was waited for, and is cleared after.
setPassword(r) ==
  LET id == req[r].id
      user == [users[id] EXCEPT !.hash = r, !.resetToken = None]
  IN  /\ At(r, "resetPassword", "hashing")
      /\ users' = [users EXCEPT ![id] = user]
      /\ req' = [req EXCEPT ![r].pc = "saving", ![r].row = user]
      /\ past' = [past EXCEPT !.lastHash = With(@, id, r),
                    !.overlapped = IF SavingOf(id) = {} THEN @ ELSE @ \cup {id}]
      /\ UNCHANGED <<usersByEmail, usersByWallet>> /\ Server /\ Guards

changePassword(r) ==
  LET id == req[r].held IN
  /\ At(r, "changePassword", "admitted")
  /\ IF id \in DOMAIN users /\ users[id].method = "email"
     THEN Wait(r, "verifying", id, users[id].hash) ELSE Refuse(r)

checkPassword(r) ==
  /\ At(r, "changePassword", "verifying")
  /\ IF req[r].held = Call(r).proof THEN Wait(r, "hashing", req[r].id, None) ELSE Refuse(r)

changeHash(r) ==
  LET id == req[r].id
      user == [users[id] EXCEPT !.hash = r]
  IN  /\ At(r, "changePassword", "hashing")
      /\ users' = [users EXCEPT ![id] = user]
      /\ req' = [req EXCEPT ![r].pc = "saving", ![r].row = user]
      /\ past' = [past EXCEPT !.lastHash = With(@, id, r),
                    !.overlapped = IF SavingOf(id) = {} THEN @ ELSE @ \cup {id}]
      /\ UNCHANGED <<usersByEmail, usersByWallet>> /\ Server /\ Guards

-----------------------------------------------------------------------------
(* Wallets                                                                   *)

isAdminWallet(w) ==
  \/ w \in adminWallets
  \/ w # None /\ usersByWallet[w] \in DOMAIN users /\ users[usersByWallet[w]].admin

\* A message is too old some time after its date. One dated ahead is not.
TooOld(sig, time) == time > IssuedAt[sig] + WALLET_LOGIN_WINDOW_MS

checkMessage(r) ==
  /\ At(r, "walletLogin", "admitted")
  /\ IF TooOld(Call(r).proof, clock) THEN Refuse(r)
     ELSE Go(r, "checked") /\ Server /\ Maps /\ Guards /\ UNCHANGED past

Spent(marks, sig) == sig \in DOMAIN marks /\ marks[sig] > clock
Marked(marks, sig) ==
  IF Spent(marks, sig) THEN marks ELSE With(marks, sig, clock + WALLET_LOGIN_WINDOW_MS)

\* SET NX in Redis; the process's own map when Redis fails.
consumeWalletLoginSignature(r) ==
  LET sig == Call(r).proof IN
  /\ At(r, "walletLogin", "checked")
  /\ \/ /\ usedSignatures' = [usedSignatures EXCEPT !.redis = Marked(@, sig)]
        /\ Answer(r, IF Spent(usedSignatures.redis, sig) THEN "refused" ELSE "consumed")
        /\ UNCHANGED <<trouble, past>>
     \/ /\ Trouble("redis")
        /\ usedSignatures' = [usedSignatures EXCEPT !.memory = Marked(@, sig)]
        /\ Answer(r, IF Spent(usedSignatures.memory, sig) THEN "refused" ELSE "consumed")
        /\ past' = [past EXCEPT !.doubtful = @ \cup {sig}]
  /\ UNCHANGED <<calls, revokedTokens, rows, hits, browser, clock>> /\ Maps

\* A wallet's account is found or made in one go, after the wait.
walletLogin(r) ==
  LET w == Call(r).wallet
      id == usersByWallet[w]
      user == IF isAdminWallet(w) THEN [users[id] EXCEPT !.admin = TRUE] ELSE users[id]
  IN  /\ At(r, "walletLogin", "consumed")
      /\ IF id \in DOMAIN users
         THEN /\ users' = [users EXCEPT ![id] = user]
              /\ StartSave(r, id, user)
              /\ UNCHANGED <<usersByEmail, usersByWallet>>
         ELSE /\ users' = With(users, r, [NewUser(Call(r).email, "wallet") EXCEPT
                                       !.verified = TRUE, !.wallet = w,
                                       !.admin = isAdminWallet(w)])
              /\ usersByEmail' = [usersByEmail EXCEPT ![Call(r).email] = r]
              /\ usersByWallet' = [usersByWallet EXCEPT ![w] = r]
              /\ StartStore(r, r)
              /\ past' = [past EXCEPT !.lastWallet = With(@, r, w)]
      /\ Server /\ Guards

WalletTaken_ByNobody(w, id) == FALSE
WalletTaken(w, id) == usersByWallet[w] \notin {None, id}

\* The old wallet's entry stays in the map.
linkWallet(r) ==
  LET id == req[r].held
      w == Call(r).wallet
  IN  /\ At(r, "linkWallet", "admitted")
      /\ IF id \in DOMAIN users /\ ~WalletTaken(w, id)
         THEN /\ users' = [users EXCEPT ![id].wallet = w,
                             ![id].admin = isAdminWallet(w) \/ @]
              /\ usersByWallet' = [usersByWallet EXCEPT ![w] = id]
              /\ StartStore(r, id)
              /\ past' = [past EXCEPT !.lastWallet = With(@, id, w),
                            !.relinked = IF users[id].wallet \in {None, w} THEN @
                                         ELSE @ \cup {users[id].wallet}]
              /\ UNCHANGED usersByEmail /\ Server /\ Guards
         ELSE Refuse(r)

-----------------------------------------------------------------------------
(* Refresh tokens                                                            *)

HolderOf(token) == IF token \in Requests THEN req[token].id ELSE token

isRefreshTokenRevoked(token) == token \in revokedTokens.redis

\* Redis decides; when it fails, the token counts as revoked.
refresh(r) ==
  LET token == req[r].held IN
  /\ At(r, "refresh", "admitted")
  /\ \/ /\ UNCHANGED trouble
        /\ IF token = None THEN Answer(r, "refused") /\ UNCHANGED past
           ELSE IF isRefreshTokenRevoked(token) \/ HolderOf(token) \notin DOMAIN users
           THEN Answer(r, "expired") /\ UNCHANGED past
           ELSE /\ req' = [req EXCEPT ![r].pc = "session", ![r].id = HolderOf(token)]
                /\ past' = [past EXCEPT !.revived = @ \/ token \in past.revoked]
     \/ Trouble("redis") /\ token # None /\ Answer(r, "expired") /\ UNCHANGED past
  /\ UNCHANGED <<calls, rows, hits, browser>> /\ Maps /\ Guards

\* Revoked in Redis, or in the process when Redis fails; refresh reads Redis.
logout(r) ==
  LET token == req[r].held IN
  /\ At(r, "logout", "admitted")
  /\ \/ /\ revokedTokens' = IF token = None THEN revokedTokens
                            ELSE [revokedTokens EXCEPT !.redis = @ \cup {token}]
        /\ past' = [past EXCEPT !.revoked = (@ \cup {token}) \ {None}]
        /\ UNCHANGED trouble
     \/ /\ Trouble("redis") /\ token # None
        /\ revokedTokens' = [revokedTokens EXCEPT !.memory = @ \cup {token}]
        /\ UNCHANGED past
  /\ Answer(r, "cleared")
  /\ UNCHANGED <<calls, rows, hits, browser, usedSignatures, clock>> /\ Maps

-----------------------------------------------------------------------------
(* Time and restarts                                                         *)

\* A reset token expires wherever it is, a verification only in the process.
Expire(id) ==
  /\ id \in DOMAIN users
  /\ Trouble("expiry")
  /\ users' = [users EXCEPT ![id].verifyFresh = FALSE, ![id].resetFresh = FALSE]
  /\ rows' = IF id \in DOMAIN rows THEN [rows EXCEPT ![id].resetFresh = FALSE] ELSE rows
  /\ UNCHANGED <<calls, req, usersByEmail, usersByWallet, hits, browser, past>> /\ Guards

\* A marker lapses while its message could still be taken, or is being checked.
LapsesEarly(sig) ==
  /\ sig \in DOMAIN usedSignatures.redis /\ usedSignatures.redis[sig] = clock + 1
  /\ \/ ~TooOld(sig, clock + 1)
     \/ \E r \in Requests : At(r, "walletLogin", "checked") /\ Call(r).proof = sig

MinutePasses ==
  /\ Trouble("minute")
  /\ clock' = clock + 1
  /\ past' = [past EXCEPT !.doubtful = @ \cup
                {sig \in DOMAIN usedSignatures.redis : LapsesEarly(sig)}]
  /\ UNCHANGED <<calls, req, rows, hits, browser, usedSignatures, revokedTokens>> /\ Maps

\* The accounts of the configured wallets are made or promoted at the start.
ensureConfiguredAdminWalletUsers(us) ==
  LET held == {id \in DOMAIN us : us[id].wallet \in adminWallets}
      free == {w \in adminWallets : \A id \in held : us[id].wallet # w}
      made(w) == [NewUser(w, "wallet") EXCEPT !.verified = TRUE, !.wallet = w, !.admin = TRUE]
  IN  [id \in DOMAIN us \cup free |->
         IF id \in held THEN [us[id] EXCEPT !.admin = TRUE, !.verified = TRUE]
         ELSE IF id \in DOMAIN us THEN us[id] ELSE made(id)]

loadPersistedAuthUsers == rows

\* A new process has the rows; the requests of the old one fail.
Restart ==
  /\ Trouble("crash")
  /\ users' = ensureConfiguredAdminWalletUsers(loadPersistedAuthUsers)
  /\ usersByEmail' = EmailIndex(users') /\ usersByWallet' = WalletIndex(users')
  /\ usedSignatures' = [usedSignatures EXCEPT !.memory = << >>]
  /\ revokedTokens' = [revokedTokens EXCEPT !.memory = {}]
  /\ req' = [r \in Requests |-> IF InServer(r) THEN [req[r] EXCEPT !.pc = "failed"] ELSE req[r]]
  /\ past' = [past EXCEPT !.raced = {}, !.relinked = {}]
  /\ UNCHANGED <<calls, rows, hits, browser, clock>>

ServerStep(r) ==
  \/ Admit(r) \/ StoreSaved(r) \/ CommitUser(r) \/ FailSave(r)
  \/ register(r) \/ createUser(r) \/ login(r) \/ signIn(r) \/ verifyEmail(r)
  \/ requestPasswordReset(r) \/ resetPassword(r) \/ setPassword(r)
  \/ changePassword(r) \/ checkPassword(r) \/ changeHash(r)
  \/ checkMessage(r) \/ consumeWalletLoginSignature(r) \/ walletLogin(r) \/ linkWallet(r)
  \/ refresh(r) \/ logout(r)

AccountsNext ==
  \/ \E r \in Requests : Send(r) \/ Receive(r) \/ TimeOut(r) \/ ServerStep(r)
  \/ \E id \in DOMAIN users : Expire(id)
  \/ MinutePasses \/ Restart

-----------------------------------------------------------------------------
(* Properties                                                                *)

\* The three maps agree: an email or a wallet leads to the account that has it,
\* and no wallet is in two accounts, whatever the routes waited for in between.
\* But for an email two registrations raced for, and a wallet its account left
\* for another one: its entry leads to that account until the next restart.
MapsAgree ==
  /\ \A id \in DOMAIN users :
       /\ users[id].wallet # None => usersByWallet[users[id].wallet] = id
       /\ users[id].email \in Emails \ past.raced => usersByEmail[users[id].email] = id
  /\ \A w \in Wallets \ past.relinked :
       usersByWallet[w] # None => users[usersByWallet[w]].wallet = w

\* What a route answered for is in the account's row: the password, the
\* verification and the wallet set last survive a restart - but for an account
\* whose rows were on their way together.
AnsweredIsStored ==
  \A r \in Requests \cap past.ended :
    LET id == req[r].id
    IN  id \notin past.overlapped =>
          /\ id \in DOMAIN rows
          /\ Call(r).route = "verifyEmail" => rows[id].verified
          /\ id \in DOMAIN past.lastHash /\ past.lastHash[id] = r => rows[id].hash = r
          /\ Call(r).route \in {"linkWallet", "walletLogin"} /\ id \in DOMAIN past.lastWallet
               /\ past.lastWallet[id] = Call(r).wallet => rows[id].wallet = Call(r).wallet

AccountsKept == MapsAgree /\ AnsweredIsStored

\* A mail's token or a login's signature is answered for once, and a refresh
\* token a logout revoked in Redis is not taken again. What breaks it:
\*  - two resets that both found the token before either had a hash to clear it
\*    with (server.ts:1425-1434);
\*  - Redis failing at a login's check, which the process's own map answers;
\*  - a login's marker, which lasts as long as a message may be old, lapsing while
\*    the message could still be taken, because it is dated ahead of the clock,
\*    or while a check of it was on its way to Redis;
\*  - rows of the account that were on their way together.
ProofsAreOneTime ==
  /\ ~past.revived
  /\ \A r, q \in Requests :
       /\ r # q /\ past.accepted[r] # None
       /\ past.accepted[r] \notin past.shared \cup past.doubtful
       /\ Call(r).route = Call(q).route
       /\ Call(r).route \in {"verifyEmail", "walletLogin", "resetPassword"}
       => \/ past.accepted[r] # past.accepted[q]
          \/ req[r].id \in past.overlapped

\* Once a logout was answered with nothing else on its way, the browser has no
\* session until it signs in again.
SignedOutStaysOut == \A b \in past.out : browser[b] = NoSession
=============================================================================
