--------------------------- MODULE VectorCompanion ---------------------------
(* The rows of memories and their vector records (vector_runtime.py, the stores
   behind it, and the operations of memory_ops.py, capture.py and journal.py that
   change both).  Row and record are in two databases: every operation changes
   one after the other.  A row's state is its lifecycle and the version of its
   text, a record is the version it was made of, 0 for none. *)
EXTENDS Naturals, FiniteSets

CONSTANTS Memory,
          Agents,     \* threads that run the tools of one provider
          Writers,    \* its capture writer
          Digests,    \* digests: own connection, own companion, own locks
          Backends,   \* the backends that may be configured
          MaxVersion, \* bound: rewrites of a text
          MaxOps,     \* bound: operations begun
          MaxFaults   \* bound: failed calls of a database, and deaths

Thread == Agents \cup Writers \cup Digests
Local == Agents \cup Writers

ASSUME CompanionAssumption ==
    /\ Memory # {}
    /\ MaxVersion \in Nat \ {0} /\ MaxOps \in Nat /\ MaxFaults \in Nat
    /\ Agents \cap Digests = {} /\ Writers \cap Digests = {}
    /\ Backends \subseteq {"lancedb", "sqlite-bruteforce", "pgvector"}

VARIABLES backend,  \* the configured one
          row,      \* memories: lifecycle and version
          record,   \* the index
          store,    \* the provider's companion: closed, open (needs_repair), ready
          lock,     \* provider._lock: the threads that hold it across steps
          vlock,    \* provider._vector_lock
          task,     \* program point and locals of each thread
          ops, faults,  \* bounds
          excused   \* history: see CompanionPromise

vvars == <<backend, row, record, store, lock, vlock, task, ops, faults, excused>>
data == <<row, record>>
locks == <<lock, vlock>>

Idle(ready) == [pc |-> "idle", op |-> "none", m |-> CHOOSE m \in Memory : TRUE, ver |-> 0,
                snapshot |-> [m \in Memory |-> 0], ready |-> ready]

Points == {"idle", "reread", "mark", "index", "embed", "unindex", "drop", "remove", "hide", "commit",
           "open", "read", "sync", "report"}

VTypeOK ==
    /\ backend \in Backends
    /\ row \in [Memory -> [life : {"absent", "visible", "hidden"}, ver : 0..MaxVersion]]
    /\ record \in [Memory -> 0..MaxVersion]
    /\ store \in {"closed", "open", "ready"}
    /\ lock = {t \in Agents : task[t].pc \in {"drop", "remove", "hide", "commit"}} /\ Cardinality(lock) <= 1
    /\ vlock = {t \in Local : task[t].pc \in {"embed", "unindex"}} /\ Cardinality(vlock) <= 1
    /\ task \in [Thread -> [pc : Points, op : {"none", "store", "update", "delete", "archive", "repair", "start"},
                            m : Memory, ver : 0..MaxVersion,
                            snapshot : [Memory -> 0..MaxVersion], ready : BOOLEAN]]
    /\ ops \in 0..MaxOps /\ faults \in 0..MaxFaults
    /\ excused \subseteq Memory

VInit ==
    /\ backend \in Backends
    /\ row = [m \in Memory |-> [life |-> "absent", ver |-> 0]]
    /\ record = [m \in Memory |-> 0]
    /\ store = "ready" /\ lock = {} /\ vlock = {}
    /\ task = [t \in Thread |-> Idle(FALSE)]
    /\ ops = 0 /\ faults = 0 /\ excused = {}

Fault == faults < MaxFaults /\ faults' = faults + 1
Well == UNCHANGED faults

Goes(t, pc) == task' = [task EXCEPT ![t].pc = pc]
Ends(t) == task' = [task EXCEPT ![t] = Idle(@.ready)]

(* A digest's connection is its own, so no lock keeps it waiting and a row that is
   archived but not committed is still visible to it. *)
FreeLock(t) == t \in Digests \/ lock = {}
FreeVectors(t) == t \in Digests \/ vlock = {}
TakeVectors(t) == vlock' = IF t \in Digests THEN vlock ELSE {t}
\* Mutant: the vector lock is kept.
KeepVectors(t) == vlock' = vlock
DropVectors(t) == vlock' = vlock \ {t}
Uncommitted(m) == \E t \in Agents : task[t].pc = "commit" /\ task[t].m = m
Life(t, m) == IF t \in Digests /\ Uncommitted(m) THEN "visible" ELSE row[m].life

\* The companion a thread works with; a failure is marked on that one alone.
Ready(t) == IF t \in Digests THEN task[t].ready ELSE store = "ready"
MarkNeedsRepair(t) == store' = IF t \in Local /\ store = "ready" THEN "open" ELSE store

OnMemory(t) == task[t].op \in {"store", "update", "delete", "archive"}
Busy == {m \in Memory : \E t \in Thread : OnMemory(t) /\ task[t].m = m}
Snapshots(t) == {u \in Thread \ {t} : task[u].pc \in {"sync", "report"}}

\* What the promise does not cover: two actors at one memory, and digests; and,
\* further down, what fails without a mark on the companion.
Begins(t, op, m) ==
    /\ task[t].pc = "idle" /\ ops < MaxOps /\ ops' = ops + 1
    /\ \A u \in Local : t \in Local => task[u].op # "start"
    /\ excused' = IF t \in Digests \/ m \in Busy \/ Snapshots(t) # {} THEN excused \cup {m} ELSE excused
On(t, op, m, pc, ver) == task' = [task EXCEPT ![t] = [@ EXCEPT !.pc = pc, !.op = op, !.m = m, !.ver = ver]]

------------------------------------------------------------------------------
(* The stores behind the companion: what a call that raises may leave.  A failed
   commit of SQLite stays open and a later one completes it; that of Postgres may
   have arrived. *)

Empty == [m \in Memory |-> 0]
Without(index, ms) == [m \in Memory |-> IF m \in ms THEN 0 ELSE index[m]]
With(index, ms, wanted) == [m \in Memory |-> IF m \in ms THEN wanted[m] ELSE index[m]]

DeleteFails(index, ms) == {index, Without(index, ms)}

\* LanceDB replaces by a delete and an add, the others by one transaction.
LanceUpsertFails(index, ms, wanted) == {index, Without(index, ms), With(index, ms, wanted)}
SQLiteUpsertFails(index, ms, wanted) == {index, With(index, ms, wanted)}
PGUpsertFails(index, ms, wanted) == {index, With(index, ms, wanted)}
UpsertFails(index, ms, wanted) ==
    CASE backend = "lancedb" -> LanceUpsertFails(index, ms, wanted)
      [] backend = "sqlite-bruteforce" -> SQLiteUpsertFails(index, ms, wanted)
      [] backend = "pgvector" -> PGUpsertFails(index, ms, wanted)

\* repair_records keeps the wanted records that are current; that of Postgres
\* only drops the unwanted ones.  The others empty the index before they refill it.
Unwanted(index, wanted) == {m \in Memory : index[m] # 0 /\ wanted[m] = 0}
Outdated(index, wanted) == {m \in Memory : wanted[m] # 0 /\ index[m] # wanted[m]}
LanceRepaired(index, wanted) == Without(index, {m \in Memory : index[m] # wanted[m]})
SQLiteRepaired(index, wanted) == Without(index, {m \in Memory : index[m] # wanted[m]})
PGRepaired(index, wanted) == Without(index, Unwanted(index, wanted))
Repaired(index, wanted) ==
    CASE backend = "lancedb" -> LanceRepaired(index, wanted)
      [] backend = "sqlite-bruteforce" -> SQLiteRepaired(index, wanted)
      [] backend = "pgvector" -> PGRepaired(index, wanted)

\* A store that was made for other dimensions is emptied; Postgres keeps its table.
Opened == IF backend = "pgvector" THEN {record} ELSE {record, Empty}

\* sync_vector_index: drop the unwanted, repair if there were any, embed the outdated.
Tidied(wanted) ==
    IF Unwanted(record, wanted) = {} THEN record
    ELSE Repaired(Without(record, Unwanted(record, wanted)), wanted)
Synced(wanted) == With(Tidied(wanted), Outdated(Tidied(wanted), wanted), wanted)
Rewrites(wanted) == Unwanted(record, wanted) # {} /\ backend # "pgvector"
SyncFails(wanted) ==
    DeleteFails(record, Unwanted(record, wanted)) \cup (IF Rewrites(wanted) THEN {Empty} ELSE {})
    \cup UpsertFails(Tidied(wanted), Outdated(Tidied(wanted), wanted), wanted)

------------------------------------------------------------------------------
(* Storing and updating: first the row, then its record *)

\* store_row inserts; a duplicate is only touched, which changes no text.
StoreRow(t, m) ==
    /\ Begins(t, "store", m) /\ FreeLock(t)
    /\ row[m] = [life |-> "absent", ver |-> 0]
    /\ row' = [row EXCEPT ![m] = [life |-> "visible", ver |-> 1]]
    /\ On(t, "store", m, "index", 1)
    /\ UNCHANGED <<record, store, locks, faults>>

\* update_row writes the lifecycle of a fresh classification: the row is visible,
\* even if it was archived.
UpdateRow(t, m) ==
    /\ t \notin Writers /\ Begins(t, "update", m) /\ FreeLock(t)
    /\ t \in Digests => ~Uncommitted(m)
    /\ row[m].life # "absent" /\ row[m].ver < MaxVersion
    /\ row' = [row EXCEPT ![m] = [life |-> "visible", ver |-> @.ver + 1]]
    /\ On(t, "update", m, IF t \in Digests THEN "index" ELSE "reread", row[m].ver + 1)
    /\ UNCHANGED <<record, store, locks, faults>>

\* update_memory reads the row back without the lock.
Reread(t) ==
    /\ task[t].pc = "reread" /\ Well
    /\ IF row[task[t].m].life = "absent" THEN Ends(t)
       ELSE task' = [task EXCEPT ![t].pc = "mark", ![t].ver = row[task[t].m].ver]
    /\ UNCHANGED <<data, store, locks, ops, excused>>

\* ... and marks its conflicts under it.
MarkConflicts(t) ==
    /\ task[t].pc = "mark" /\ FreeLock(t) /\ Well
    /\ Goes(t, "index")
    /\ UNCHANGED <<data, store, locks, ops, excused>>

\* Nothing guards these two: an exception ends the update after its row and before
\* its record, and leaves no mark on the companion.
UpdateBreaks(t) ==
    /\ task[t].pc \in {"reread", "mark"} /\ Fault
    /\ excused' = excused \cup {task[t].m}
    /\ Ends(t)
    /\ UNCHANGED <<data, store, locks, ops>>

\* upsert_vector_record: a row that is gone, or cannot be read, counts as visible.
Enter(t) ==
    /\ task[t].pc = "index" /\ FreeVectors(t)
    /\ \/ ~Ready(t) /\ Ends(t) /\ Well /\ UNCHANGED vlock
       \/ /\ Ready(t) /\ TakeVectors(t)
          /\ \/ Well /\ Goes(t, IF Life(t, task[t].m) = "hidden" THEN "unindex" ELSE "embed")
             \/ Fault /\ Goes(t, "embed")
    /\ UNCHANGED <<data, store, lock, ops, excused>>

\* Mutant: the row's metadata is read under provider._lock.
EmbedUnderLock(t) ==
    LET m == task[t].m IN
    /\ task[t].pc = "embed" /\ FreeLock(t)
    /\ Well /\ record' = [record EXCEPT ![m] = task[t].ver] /\ UNCHANGED store
    /\ DropVectors(t) /\ Ends(t)
    /\ UNCHANGED <<row, lock, ops, excused>>

Embed(t) ==
    LET m == task[t].m IN
    /\ task[t].pc = "embed"
    /\ \/ Well /\ record' = [record EXCEPT ![m] = task[t].ver] /\ UNCHANGED store
       \/ Fault /\ MarkNeedsRepair(t)
          /\ record' \in UpsertFails(record, {m}, [record EXCEPT ![m] = task[t].ver])
    /\ DropVectors(t) /\ Ends(t)
    /\ UNCHANGED <<row, lock, ops, excused>>

Unindex(t) ==
    /\ task[t].pc = "unindex"
    /\ \/ Well /\ record' = [record EXCEPT ![task[t].m] = 0] /\ UNCHANGED store
       \/ Fault /\ record' \in DeleteFails(record, {task[t].m}) /\ MarkNeedsRepair(t)
    /\ DropVectors(t) /\ Ends(t)
    /\ UNCHANGED <<row, lock, ops, excused>>

------------------------------------------------------------------------------
(* Forgetting: first the record, then the row, all under provider._lock *)

\* Without an open companion nothing is forgotten.
BeginForget(t, op, m) ==
    /\ t \in Agents /\ Begins(t, op, m) /\ lock = {} /\ row[m].life # "absent"
    /\ store # "closed"
    /\ lock' = {t} /\ On(t, op, m, "drop", 0)
    /\ UNCHANGED <<data, store, vlock, faults>>

Drop(t) ==
    /\ task[t].pc = "drop" /\ vlock = {}
    /\ \/ /\ Well /\ record' = [record EXCEPT ![task[t].m] = 0]
          /\ Goes(t, IF task[t].op = "delete" THEN "remove" ELSE "hide")
          /\ UNCHANGED <<lock, store>>
       \/ /\ Fault /\ MarkNeedsRepair(t)
          /\ Ends(t) /\ lock' = {}
          /\ record' \in DeleteFails(record, {task[t].m})
    /\ UNCHANGED <<row, vlock, ops, excused>>

\* An exception of delete_rows leaves the row without its record, and no mark.
Remove(t) ==
    LET m == task[t].m IN
    /\ task[t].pc = "remove"
    /\ \/ Well /\ row' = [row EXCEPT ![m].life = "absent"] /\ UNCHANGED excused
       \/ Fault /\ excused' = excused \cup {m} /\ UNCHANGED row
    /\ lock' = {} /\ Ends(t)
    /\ UNCHANGED <<record, store, vlock, ops>>

Hide(t) ==
    LET m == task[t].m IN
    /\ task[t].pc = "hide"
    /\ IF row[m].life = "hidden"
         THEN Ends(t) /\ lock' = {} /\ UNCHANGED row
         ELSE Goes(t, "commit") /\ row' = [row EXCEPT ![m].life = "hidden"] /\ UNCHANGED lock
    /\ UNCHANGED <<record, store, vlock, ops, faults, excused>>

\* Mutant: the companion is trusted after a rollback.
CommitUnmarked(t) ==
    /\ task[t].pc = "commit"
    /\ \/ Well /\ UNCHANGED row
       \/ Fault /\ row' = [row EXCEPT ![task[t].m].life = "visible"]
    /\ UNCHANGED store
    /\ lock' = {} /\ Ends(t)
    /\ UNCHANGED <<record, vlock, ops, excused>>

\* A failed transaction is rolled back, and the companion no longer trusted.
Commit(t) ==
    /\ task[t].pc = "commit"
    /\ \/ Well /\ UNCHANGED <<row, store>>
       \/ Fault /\ row' = [row EXCEPT ![task[t].m].life = "visible"] /\ MarkNeedsRepair(t)
    /\ lock' = {} /\ Ends(t)
    /\ UNCHANGED <<record, vlock, ops, excused>>

------------------------------------------------------------------------------
(* Setting up and repairing *)

\* setup_vector_layer, for a repair or at the start of a digest.
BeginSetup(t) ==
    /\ t \in Agents \cup Digests /\ task[t].pc = "idle"
    /\ ops < MaxOps /\ ops' = ops + 1
    /\ \A u \in Local : t \in Local => task[u].op # "start"
    /\ store' = IF t \in Agents THEN "closed" ELSE store
    /\ task' = [task EXCEPT ![t] = [Idle(FALSE) EXCEPT !.pc = "open", !.op = "repair"]]
    /\ UNCHANGED <<data, locks, faults, excused>>

\* No embedder, or no store: degraded.  With the fallback embedder, or back from
\* it, the store is opened for other dimensions, by a digest for itself alone.
OpenStore(t) ==
    /\ task[t].pc = "open"
    /\ \/ /\ \/ Well /\ UNCHANGED record
             \/ Fault /\ record' \in Opened
          /\ Goes(t, "read")
          /\ store' = IF t \in Agents THEN "open" ELSE store
          /\ excused' = IF t \in Digests /\ record' # record THEN Memory ELSE excused
       \/ Fault /\ Ends(t) /\ UNCHANGED <<store, record, excused>>
    /\ UNCHANGED <<row, locks, ops>>

ReadRows(t) ==
    /\ task[t].pc = "read" /\ FreeLock(t)
    /\ task' = [task EXCEPT ![t].pc = "sync",
                            ![t].snapshot = [m \in Memory |-> IF Life(t, m) = "visible" THEN row[m].ver ELSE 0]]
    /\ excused' = IF t \in Agents /\ Snapshots(t) = {} THEN Busy ELSE excused \cup Busy
    /\ UNCHANGED <<data, store, locks, ops, faults>>

\* The index becomes what the rows were.  A digest that fails in the middle of a
\* repair may have emptied it, and the provider does not learn of it.
Sync(t) ==
    LET wanted == task[t].snapshot IN
    /\ task[t].pc = "sync" /\ FreeVectors(t)
    /\ \/ Well /\ record' = Synced(wanted) /\ Goes(t, "report") /\ UNCHANGED <<store, excused>>
       \/ /\ Fault /\ Ends(t) /\ record' \in SyncFails(wanted)
          /\ store' = IF t \in Agents THEN "closed" ELSE store
          /\ excused' = IF t \in Digests /\ Rewrites(wanted) THEN Memory ELSE excused
    /\ UNCHANGED <<row, locks, ops>>

Report(t) ==
    /\ task[t].pc = "report"
    /\ task' = [task EXCEPT ![t] = Idle(t \in Digests)]
    /\ store' = IF t \in Agents THEN "ready" ELSE store
    /\ UNCHANGED <<data, locks, ops, faults, excused>>

\* A digest's run ends: its companion is closed.
EndDigest(t) ==
    /\ t \in Digests /\ task[t].pc = "idle" /\ task[t].ready
    /\ task' = [task EXCEPT ![t] = Idle(FALSE)]
    /\ UNCHANGED <<data, store, locks, ops, faults, excused>>

\* The provider's process dies and starts again; a digest lives on.
Restart(t) ==
    /\ t \in Agents /\ Fault
    /\ row' = [m \in Memory |-> IF Uncommitted(m) THEN [row[m] EXCEPT !.life = "visible"] ELSE row[m]]
    /\ store' = "closed" /\ lock' = {} /\ vlock' = {}
    /\ task' = [u \in Thread |->
                   IF u \in Digests THEN task[u]
                   ELSE IF u = t THEN [Idle(FALSE) EXCEPT !.pc = "open", !.op = "start"] ELSE Idle(FALSE)]
    /\ UNCHANGED <<record, ops, excused>>

Step(t) ==
    /\ UNCHANGED backend
    /\ \/ Reread(t) \/ MarkConflicts(t) \/ UpdateBreaks(t) \/ Enter(t) \/ Embed(t) \/ Unindex(t)
       \/ Drop(t) \/ Remove(t) \/ Hide(t) \/ Commit(t)
       \/ OpenStore(t) \/ ReadRows(t) \/ Sync(t) \/ Report(t)

VNext ==
    /\ UNCHANGED backend
    /\ \E t \in Thread :
        \/ \E m \in Memory :
               StoreRow(t, m) \/ UpdateRow(t, m) \/ BeginForget(t, "delete", m) \/ BeginForget(t, "archive", m)
        \/ BeginSetup(t) \/ EndDigest(t) \/ Restart(t) \/ Step(t)

VSpec == VInit /\ [][VNext]_vvars

\* A thread is scheduled, and a database answers or fails.
VFairSpec == VSpec /\ \A t \in Thread : WF_vvars(Step(t))

------------------------------------------------------------------------------
Agrees(m) == record[m] = (IF row[m].life = "visible" THEN row[m].ver ELSE 0)

Promise == INSTANCE CompanionPromise WITH
    differs <- {m \in Memory : ~Agrees(m)}, busy <- Busy, trusted <- store = "ready"

(* The index agrees with the rows, an operation is about to make it so, or the
   provider says that it must be repaired: through failures of either database
   between the two writes, deaths, and repairs that race with stores
   (upsert_vector_record, archive_memories, setup_vector_layer).  Excused are
   the failures that no code marks (Remove, UpdateBreaks, a digest's), two
   actors at one memory, and no others. *)
KeepsCompanionPromise == Promise!Spec

(* A memory that a forget operation has reported archived or deleted has no record
   while the companion is called ready: the comment in archive_memories. *)
ForgottenStaysOut ==
    store = "ready" => \A m \in Memory :
        record[m] # 0 /\ m \notin Busy => row[m].life = "visible"

(* Every operation ends, although forgetting takes the vector lock inside
   provider._lock and a record is made under the vector lock. *)
OperationsFinish == \A t \in Thread : (task[t].pc # "idle") ~> (task[t].pc = "idle")
=============================================================================
