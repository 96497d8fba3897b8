---------------------------- MODULE Persistence ----------------------------
(* How the store reaches the database: the diff against what was last       *)
(* written, one transaction per save, the queue in front of it, and the     *)
(* load at boot (src/backend/src/persistence.ts, server.ts).  A save can    *)
(* fail whatever it holds.                                                  *)
EXTENDS Integers, Sequences, FiniteSets, SequencesExt

CONSTANTS
  Rows,              \* the keys of the rows of every table
  BatchedRows,       \* those of transactions, inserted with skipDuplicates
  DuelRows,          \* those of duels, whose status is not written
  Absent,            \* no row
  OpenStatus         \* the status the database gives a duel

VARIABLES
  store,             \* the rows the memory would write
  db,                \* the rows of the database
  lastWritten,       \* the snapshots last*: the rows save believes in the database
  saves,             \* the saves in flight
  persistMutexBusy,
  persistMutexQueue, \* the callers whose persist waits
  abandoned,         \* callers whose queued persist was discarded
  swallowed,         \* callers whose queued persist failed and was called done
  overlapped,        \* two saves were in flight at once
  loaded             \* the rows that the last boot found in the database

persistVars == <<db, lastWritten, saves, persistMutexBusy, persistMutexQueue,
                 abandoned, swallowed, overlapped, loaded>>

PersistInit ==
  /\ db = store
  /\ lastWritten = store
  /\ saves = {}
  /\ persistMutexBusy = FALSE
  /\ persistMutexQueue = << >>
  /\ abandoned = {}
  /\ swallowed = {}
  /\ overlapped = FALSE
  /\ loaded = {}

\* What the database holds of a row once it is written.
Written(r, value) == IF r \in DuelRows /\ value # Absent THEN OpenStatus ELSE value

diffRows(rows, snapshot) ==
  [changed |-> {r \in Rows : rows[r] # Absent /\ rows[r] # snapshot[r]},
   deleted |-> {r \in Rows : rows[r] = Absent /\ snapshot[r] # Absent}]

Save(caller, queued, rows, snapshot) ==
  LET diff == diffRows(rows, snapshot)
  IN  [by |-> caller, queued |-> queued, rows |-> rows, committed |-> FALSE,
       changed |-> diff.changed, deleted |-> diff.deleted]

Start(others, save) ==
  /\ saves' = others \cup {save}
  /\ overlapped' = (overlapped \/ others # {})

\* The caller saves these rows now, or waits for the save in flight.
persistAfterMutation(caller, rows) ==
  /\ IF persistMutexBusy
     THEN /\ persistMutexQueue' = Append(persistMutexQueue, caller)
          /\ UNCHANGED <<saves, persistMutexBusy, overlapped>>
     ELSE /\ persistMutexBusy' = TRUE
          /\ Start(saves, Save(caller, FALSE, rows, lastWritten))
          /\ UNCHANGED persistMutexQueue
  /\ UNCHANGED <<db, lastWritten, abandoned, swallowed, loaded>>

\* The transaction commits.  A row of a batched table the snapshot does not
\* know is inserted, and skipped when the database has one already.
CommitSave(s) ==
  LET Skipped(r) == r \in BatchedRows /\ lastWritten[r] = Absent /\ db[r] # Absent
  IN  /\ ~s.committed
      /\ db' = [r \in Rows |->
                 IF r \in s.deleted THEN Absent
                 ELSE IF r \in s.changed /\ ~Skipped(r) THEN Written(r, s.rows[r])
                 ELSE db[r]]
      /\ saves' = (saves \ {s}) \cup {[s EXCEPT !.committed = TRUE]}
      /\ UNCHANGED <<store, lastWritten, persistMutexBusy, persistMutexQueue,
                     abandoned, swallowed, overlapped, loaded>>

\* The snapshots once the rows of a save are known to be written.
Advanced(s) ==
  [r \in Rows |-> IF r \in s.changed THEN s.rows[r]
                  ELSE IF r \in s.deleted THEN Absent ELSE lastWritten[r]]

\* save() returned: the first caller runs the newest of the queue and drops
\* the others; a queued save drains nothing.
Drain_Dropped(s) ==
  /\ saves' = saves \ {s}
  /\ persistMutexBusy' = FALSE
  /\ persistMutexQueue' = << >>
  /\ UNCHANGED <<abandoned, overlapped>>
Drain(s) ==
  IF s.queued \/ persistMutexQueue = << >>
  THEN /\ saves' = saves \ {s}
       /\ persistMutexBusy' = (s.queued /\ persistMutexBusy)
       /\ UNCHANGED <<persistMutexQueue, abandoned, overlapped>>
  ELSE /\ Start(saves \ {s}, Save(Last(persistMutexQueue), TRUE, store, lastWritten'))
       /\ persistMutexBusy' = FALSE
       /\ abandoned' = abandoned \cup Range(Front(persistMutexQueue))
       /\ persistMutexQueue' = << >>

\* The snapshots advance once the transaction is known to have committed.
FinishSave(s) ==
  /\ s.committed
  /\ lastWritten' = Advanced(s)
  /\ Drain(s)
  /\ UNCHANGED <<store, db, swallowed, loaded>>

\* The transaction is rolled back, and the snapshots stay; only a caller that
\* did not queue is told.
SnapshotsAfterFailure_Advanced(s) == Advanced(s)
SnapshotsAfterFailure(s) == lastWritten

FailSave(s) ==
  /\ ~s.committed
  /\ lastWritten' = SnapshotsAfterFailure(s)
  /\ Drain(s)
  /\ swallowed' = IF s.queued THEN swallowed \cup {s.by} ELSE swallowed
  /\ UNCHANGED <<store, db, loaded>>

\* A new process loads the database; its snapshots are empty.
load ==
  /\ store' = db
  /\ lastWritten' = [r \in Rows |-> Absent]
  /\ loaded' = {r \in Rows : db[r] # Absent}
  /\ saves' = {}
  /\ persistMutexBusy' = FALSE
  /\ persistMutexQueue' = << >>
  /\ UNCHANGED <<db, abandoned, swallowed, overlapped>>

-----------------------------------------------------------------------------
(* Nothing is forgotten: when no save is in flight, a row the snapshots call *)
(* written is in the database, so that the next save will not skip a change. *)
(* Two causes break it: saves that overlapped, and the row of a transaction  *)
(* found at boot, whose later change is inserted and skipped as a duplicate. *)
NothingForgotten ==
  (saves = {} /\ ~overlapped) =>
    \A r \in Rows \ (BatchedRows \cap loaded) :
      lastWritten[r] = store[r] => db[r] = Written(r, store[r])
=============================================================================
