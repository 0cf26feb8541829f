------------------------ MODULE ProviderConnections ------------------------
(* The SQLite connections of the truth database, as provider.py, capture.py,
   tooling.py and journal_store.py use them.  Every provider of the process
   keeps one connection, shared by the host's thread ("agent": hooks and tools)
   and its background writer; provider._lock serialises them, but not every
   code path takes it.  A digest works on a connection of its own.  SQLite has
   one write lock; a statement that does not get it within the busy timeout
   fails with "database is locked", and scope_recall_store then recovers: it
   rolls back the other providers, probes, reopens and tries once more. *)
EXTENDS Naturals, FiniteSets

CONSTANTS Provider,      \* providers of this process, all on one database
          Writers,       \* those whose background writer is at work
          Run,           \* connections that are not a provider's (digests, cron)
          Nobody,        \* "no thread holds this lock"
          RelationSync,  \* relation_extraction_enabled
          Duplicates,    \* whether a journal entry may be staged a second time
          MaxOps         \* bound: operations each thread starts

ASSUME ConnectionsAssumption ==
    /\ Provider \cap Run = {} /\ Writers \subseteq Provider
    /\ Nobody \notin Provider \X {"agent", "writer"}
    /\ RelationSync \in BOOLEAN /\ Duplicates \in BOOLEAN
    /\ MaxOps \in Nat

VARIABLES mutex,    \* provider._lock
          tx,       \* transaction state of every connection
          gen,      \* how often a provider's connection was reopened
          pending,  \* writes of the open transaction of a provider's connection
          durable,  \* committed writes
          task,     \* what each thread is doing
          left,     \* operations a thread may still start (bound)
          touched   \* history: connections used since a recovery began

vars == <<mutex, tx, gen, pending, durable, task, left, touched>>

Conn == Provider \cup Run
Thread == (Provider \X {"agent"}) \cup (Writers \X {"writer"})
Home(t) == t[1]
IsAgent(t) == t[2] = "agent"
Write == Thread \X {"row", "index", "erase", "relate"}
Stored(t) == {<<t, "row">>, <<t, "index">>}

\* "open": BEGIN was executed but the statement after it failed, so the
\* connection is in a transaction without the write lock.
TxState == {"none", "open", "write", "closed"}
Holding == {"append", "insert", "row", "index", "commit", "reopen", "reprobe"}
Location == Holding \cup {"idle", "dead", "enter", "mark", "erase", "relate", "settle", "failed", "peers"}
\* Back from its operation, or ended by an exception that nothing caught.
Over == {"idle", "dead"}

Task == [pc : Location, conn : Nat, retry : BOOLEAN, locked : BOOLEAN, ok : BOOLEAN,
         todo : SUBSET Provider]
IdleTask == [pc |-> "idle", conn |-> 0, retry |-> FALSE, locked |-> FALSE, ok |-> FALSE, todo |-> {}]

\* provider._lock is held exactly in the sections of Holding.
LockMatchesControl ==
    \A t \in Thread : task[t].pc \in Holding <=> mutex[Home(t)] = t

TypeOK ==
    /\ LockMatchesControl
    /\ mutex \in [Provider -> Thread \cup {Nobody}]
    /\ tx \in [Conn -> TxState]
    /\ gen \in [Provider -> Nat]
    /\ pending \in [Provider -> SUBSET Write]
    /\ durable \in SUBSET Write
    /\ task \in [Thread -> Task]
    /\ left \in [Thread -> 0..MaxOps]
    /\ touched \in [Thread -> SUBSET Conn]

Init ==
    /\ mutex = [p \in Provider |-> Nobody]
    /\ tx = [c \in Conn |-> "none"]
    /\ gen = [p \in Provider |-> 0]
    /\ pending = [p \in Provider |-> {}]
    /\ durable = {}
    /\ task = [t \in Thread |-> IdleTask]
    /\ left = [t \in Thread |-> MaxOps]
    /\ touched = [t \in Thread |-> {}]

------------------------------------------------------------------------------
(* Connections *)

CanWrite(c) == \A d \in Conn \ {c} : tx[d] # "write"
InTransaction(c) == tx[c] \in {"open", "write"}
\* A statement works on the connection object its thread read earlier.
Usable(t) == tx[Home(t)] # "closed" /\ task[t].conn = gen[Home(t)]

Recovering(t) == (task[t].retry /\ task[t].pc \notin Over) \/ task[t].pc \in {"peers", "reopen", "reprobe"}
Touch(c) == touched' = [u \in Thread |-> IF Recovering(u) THEN touched[u] \cup {c} ELSE {}]

Goto(t, pc) == task' = [task EXCEPT ![t].pc = pc]
Free(p) == mutex[p] = Nobody
Acquire(t) == Free(Home(t)) /\ mutex' = [mutex EXCEPT ![Home(t)] = t]
Release(t) == mutex' = [mutex EXCEPT ![Home(t)] = Nobody]

Commit(p) ==
    /\ durable' = durable \cup pending[p]
    /\ pending' = [pending EXCEPT ![p] = {}]
    /\ tx' = [tx EXCEPT ![p] = "none"]

Rollback(p) ==
    /\ pending' = [pending EXCEPT ![p] = {}]
    /\ tx' = [tx EXCEPT ![p] = IF @ = "closed" THEN "closed" ELSE "none"]

Execute(t, what) ==
    /\ Usable(t) /\ CanWrite(Home(t))
    /\ pending' = [pending EXCEPT ![Home(t)] = @ \cup {<<t, what>>}]
    /\ tx' = [tx EXCEPT ![Home(t)] = "write"]
    /\ Touch(Home(t))
    /\ UNCHANGED <<gen, durable, left>>

Starts(t) == task[t].pc = "idle" /\ left[t] > 0 /\ left' = [left EXCEPT ![t] = @ - 1]

------------------------------------------------------------------------------
(* Staging: sync_turn, on_pre_compress and the tool journal hold the lock for all
   their entries.  An exception leaves them without a rollback. *)

\* ensure_journal_schema, before the first and before every entry, ends the
\* transaction the connection was in.
StartAppend(t) ==
    /\ IsAgent(t) /\ tx[Home(t)] # "closed"
    /\ Starts(t) /\ Acquire(t)
    /\ Commit(Home(t)) /\ Touch(Home(t))
    /\ task' = [task EXCEPT ![t] = [IdleTask EXCEPT !.pc = "insert"]]
    /\ UNCHANGED gen

\* The further chunks of a long entry do not ensure the schema again.
NextEntry(t) ==
    /\ task[t].pc = "append" /\ left[t] > 0
    /\ left' = [left EXCEPT ![t] = @ - 1]
    /\ \/ Commit(Home(t)) /\ Touch(Home(t))
       \/ UNCHANGED <<tx, pending, durable, touched>>
    /\ Goto(t, "insert")
    /\ UNCHANGED <<mutex, gen>>

\* INSERT OR IGNORE: a new entry is committed, a known one returns before that.
InsertEntry(t) ==
    /\ task[t].pc = "insert" /\ CanWrite(Home(t))
    /\ \E known \in (IF Duplicates THEN BOOLEAN ELSE {FALSE}) :
           tx' = [tx EXCEPT ![Home(t)] = IF known THEN "write" ELSE "none"]
    /\ Touch(Home(t)) /\ Goto(t, "append")
    /\ UNCHANGED <<mutex, gen, pending, durable, left>>

InsertRefused(t) ==
    /\ task[t].pc = "insert" /\ ~CanWrite(Home(t))
    /\ tx' = [tx EXCEPT ![Home(t)] = "open"]
    /\ Touch(Home(t)) /\ Goto(t, "idle") /\ Release(t)
    /\ UNCHANGED <<gen, pending, durable, left>>

EndAppend(t) ==
    /\ task[t].pc = "append"
    /\ Goto(t, "idle") /\ Release(t)
    /\ UNCHANGED <<tx, gen, pending, durable, left, touched>>

------------------------------------------------------------------------------
(* Storing: store_now, by the writer thread or by scope_recall_store.  The
   connection is read before the lock is taken. *)

Attempt(t, again) ==
    task' = [task EXCEPT ![t] = [IdleTask EXCEPT !.pc = "enter", !.conn = gen'[Home(t)], !.retry = again]]

StartStore(t) ==
    /\ Starts(t)
    /\ durable' = durable \ ({t} \X {"row", "index", "erase", "relate"})
    /\ UNCHANGED gen /\ Attempt(t, FALSE)
    /\ UNCHANGED <<mutex, tx, pending, touched>>

Enter(t) ==
    /\ task[t].pc = "enter" /\ Acquire(t) /\ Goto(t, "row")
    /\ UNCHANGED <<tx, gen, pending, durable, left, touched>>

\* Mutant: the row is committed before its index entry.
InsertRowCommitted(t) ==
    /\ task[t].pc = "row" /\ <<t, "row">> \notin durable /\ Usable(t) /\ CanWrite(Home(t))
    /\ durable' = durable \cup {<<t, "row">>}
    /\ Touch(Home(t)) /\ Goto(t, "index")
    /\ UNCHANGED <<mutex, tx, gen, pending, left>>

InsertRow(t) ==
    /\ task[t].pc = "row" /\ <<t, "row">> \notin durable
    /\ Execute(t, "row") /\ Goto(t, "index")
    /\ UNCHANGED mutex

\* A second attempt finds what the first one stored: it only touches updated_at.
TouchDuplicate(t) ==
    /\ task[t].pc = "row" /\ <<t, "row">> \in durable
    /\ Usable(t) /\ CanWrite(Home(t))
    /\ Commit(Home(t)) /\ Touch(Home(t)) /\ Release(t)
    /\ task' = [task EXCEPT ![t] = [@ EXCEPT !.ok = TRUE, !.pc = "idle"]]
    /\ UNCHANGED <<gen, left>>

IndexRow(t) ==
    task[t].pc = "index" /\ Execute(t, "index") /\ Goto(t, "commit") /\ UNCHANGED mutex

CommitStore(t) ==
    /\ task[t].pc = "commit" /\ Usable(t)
    /\ Commit(Home(t)) /\ Touch(Home(t)) /\ Release(t)
    /\ task' = [task EXCEPT ![t] = [@ EXCEPT !.ok = TRUE,
                                     !.pc = IF IsAgent(t) THEN "mark" ELSE "idle"]]
    /\ UNCHANGED <<gen, left>>

\* _mark_conflicts_for_memory: one transaction under the lock, if there are any.
MarkConflicts(t) ==
    /\ task[t].pc = "mark" /\ Usable(t) /\ Free(Home(t))
    /\ \/ UNCHANGED <<tx, pending, durable, touched>>
       \/ CanWrite(Home(t)) /\ Commit(Home(t)) /\ Touch(Home(t))
    /\ Goto(t, IF RelationSync THEN "erase" ELSE "idle")
    /\ UNCHANGED <<mutex, gen, left>>

\* rebuild_extracted_relations, on the same connection but without the lock.
EraseEdges(t) ==
    task[t].pc = "erase" /\ Execute(t, "erase") /\ Goto(t, "relate") /\ UNCHANGED mutex

InsertEdges(t) ==
    task[t].pc = "relate" /\ Execute(t, "relate") /\ Goto(t, "settle") /\ UNCHANGED mutex

CommitEdges(t) ==
    /\ task[t].pc = "settle" /\ Usable(t)
    /\ Commit(Home(t)) /\ Touch(Home(t)) /\ Goto(t, "idle")
    /\ UNCHANGED <<mutex, gen, left>>

\* Mutant: a failure leaves the lock held.
LeaveHeld(t) == UNCHANGED mutex

Leave(t) == IF task[t].pc \in Holding THEN Release(t) ELSE UNCHANGED mutex

\* "database is locked"; the failure of a relation update is only logged.
StatementRefused(t) ==
    /\ task[t].pc \in {"row", "index", "mark", "erase", "relate"}
    /\ Usable(t) /\ ~CanWrite(Home(t))
    /\ task[t].pc = "mark" => Free(Home(t))
    /\ tx' = [tx EXCEPT ![Home(t)] = "open"]
    /\ task' = [task EXCEPT ![t] = [@ EXCEPT !.pc = "failed",
                    !.locked = task[t].pc \in {"row", "index", "mark"}]]
    /\ Leave(t) /\ Touch(Home(t))
    /\ UNCHANGED <<gen, pending, durable, left>>

\* "Cannot operate on a closed database": nobody recovers from that.
StatementOnClosed(t) ==
    /\ task[t].pc \in {"row", "index", "commit", "mark", "erase", "relate", "settle"}
    /\ ~Usable(t)
    /\ task' = [task EXCEPT ![t] = [@ EXCEPT !.pc = "failed", !.locked = FALSE]]
    /\ Leave(t)
    /\ UNCHANGED <<tx, gen, pending, durable, left, touched>>

------------------------------------------------------------------------------
(* After a failure: _rollback_conn_after_error, then the recovery of
   scope_recall_store for a first failure that was a lock. *)

\* Mutant: the recovery of 1.6.3, without the peers.
NoPeers(t) == {}

Peers(t) == Provider \ {Home(t)}
MayRecover(t) == IsAgent(t) /\ task[t].locked /\ ~task[t].retry

\* Asking a closed connection for in_transaction raises, out of the handler of the
\* failure.  A tool reports that to its caller; the writer has no caller, and ends.
AfterRollback(t) ==
    IF MayRecover(t) THEN "peers"
    ELSE IF IsAgent(t) \/ tx[Home(t)] # "closed" THEN "idle" ELSE "dead"

RollbackAfterError(t) ==
    /\ task[t].pc = "failed" /\ Free(Home(t))
    /\ Rollback(Home(t))
    /\ task' = [task EXCEPT ![t] = [@ EXCEPT !.retry = FALSE,
                    !.pc = AfterRollback(t),
                    !.todo = IF MayRecover(t) THEN Peers(t) ELSE {}]]
    /\ touched' = [touched EXCEPT ![t] = {}]
    /\ UNCHANGED <<mutex, gen, durable, left>>

\* Mutant: the peer's lock is not taken.
RollbackPeerUnlocked(t, q) ==
    /\ task[t].pc = "peers" /\ q \in task[t].todo
    /\ Rollback(q)
    /\ task' = [task EXCEPT ![t] = [@ EXCEPT !.todo = task[t].todo \ {q},
                            !.pc = IF tx[q] = "closed" THEN "idle" ELSE "peers"]]
    /\ UNCHANGED <<mutex, gen, durable, left, touched>>

\* Mutant: the peers' locks are taken under the provider's own.
RollbackPeerHoldingOwn(t, q) ==
    /\ task[t].pc = "peers" /\ q \in task[t].todo
    /\ \/ /\ Acquire(t)
          /\ UNCHANGED <<tx, gen, pending, durable, task, left, touched>>
       \/ /\ mutex[Home(t)] = t /\ Free(q)
          /\ Rollback(q) /\ Release(t)
          /\ task' = [task EXCEPT ![t] = [@ EXCEPT !.todo = task[t].todo \ {q},
                                  !.pc = IF tx[q] = "closed" THEN "idle" ELSE "peers"]]
          /\ UNCHANGED <<gen, durable, left, touched>>

\* A closed peer raises as well, which ends the recovery and the tool call: the
\* peers that are still to be rolled back stay as they are.
RollbackPeer(t, q) ==
    /\ task[t].pc = "peers" /\ q \in task[t].todo /\ Free(q)
    /\ Rollback(q)
    /\ task' = [task EXCEPT ![t] = [@ EXCEPT !.todo = task[t].todo \ {q},
                            !.pc = IF tx[q] = "closed" THEN "idle" ELSE "peers"]]
    /\ UNCHANGED <<mutex, gen, durable, left, touched>>

AllPeersDone(t) == task[t].pc = "peers" /\ task[t].todo = {}

ProbeOpen(t) ==
    /\ AllPeersDone(t) /\ Free(Home(t)) /\ CanWrite(Home(t))
    /\ Rollback(Home(t)) /\ UNCHANGED gen /\ Attempt(t, TRUE)
    /\ UNCHANGED <<mutex, durable, left, touched>>

ProbeBusy(t) ==
    /\ AllPeersDone(t) /\ Acquire(t) /\ ~CanWrite(Home(t))
    /\ pending' = [pending EXCEPT ![Home(t)] = {}]
    /\ tx' = [tx EXCEPT ![Home(t)] = "closed"]
    /\ Goto(t, "reopen")
    /\ UNCHANGED <<gen, durable, left, touched>>

\* ensure_schema on the new connection writes; the provider takes the connection
\* over only after that.
Reopen(t) ==
    /\ task[t].pc = "reopen" /\ CanWrite(Home(t))
    /\ tx' = [tx EXCEPT ![Home(t)] = "none"]
    /\ gen' = [gen EXCEPT ![Home(t)] = @ + 1]
    /\ Goto(t, "reprobe")
    /\ UNCHANGED <<mutex, pending, durable, left, touched>>

ReopenFails(t) ==
    /\ task[t].pc = "reopen" /\ ~CanWrite(Home(t))
    /\ Goto(t, "idle") /\ Release(t)
    /\ UNCHANGED <<tx, gen, pending, durable, left, touched>>

ReprobeOpen(t) ==
    /\ task[t].pc = "reprobe" /\ CanWrite(Home(t))
    /\ UNCHANGED gen /\ Attempt(t, TRUE) /\ Release(t)
    /\ UNCHANGED <<tx, pending, durable, left, touched>>

ReprobeBusy(t) ==
    /\ task[t].pc = "reprobe" /\ ~CanWrite(Home(t))
    /\ Goto(t, "idle") /\ Release(t)
    /\ UNCHANGED <<tx, gen, pending, durable, left, touched>>

------------------------------------------------------------------------------
(* A digest's own connection takes the write lock for a while. *)

RunBegins(r) ==
    /\ tx[r] = "none" /\ CanWrite(r)
    /\ tx' = [tx EXCEPT ![r] = "write"]
    /\ UNCHANGED <<mutex, gen, pending, durable, task, left, touched>>

RunEnds(r) ==
    /\ tx[r] = "write"
    /\ tx' = [tx EXCEPT ![r] = "none"]
    /\ UNCHANGED <<mutex, gen, pending, durable, task, left, touched>>

------------------------------------------------------------------------------
Appending(t) == NextEntry(t) \/ InsertEntry(t) \/ InsertRefused(t) \/ EndAppend(t)
Store(t) ==
    \/ Enter(t) \/ InsertRow(t) \/ TouchDuplicate(t) \/ IndexRow(t)
    \/ CommitStore(t) \/ MarkConflicts(t)
Relate(t) == EraseEdges(t) \/ InsertEdges(t) \/ CommitEdges(t)
Fail(t) == StatementRefused(t) \/ StatementOnClosed(t) \/ RollbackAfterError(t)
Recover(t) ==
    \/ \E q \in Provider : RollbackPeer(t, q)
    \/ ProbeOpen(t) \/ ProbeBusy(t)
    \/ Reopen(t) \/ ReopenFails(t) \/ ReprobeOpen(t) \/ ReprobeBusy(t)

Step(t) == Appending(t) \/ Store(t) \/ Relate(t) \/ Fail(t) \/ Recover(t)
Start(t) == StartAppend(t) \/ StartStore(t)

Next ==
    \/ \E t \in Thread : Start(t) \/ Step(t)
    \/ \E r \in Run : RunBegins(r) \/ RunEnds(r)

Spec == Init /\ [][Next]_vars

\* Threads are scheduled and every statement returns within the busy timeout; no
\* thread has to start anything, and no digest has to run.
FairSpec ==
    /\ Spec
    /\ \A t \in Thread : WF_vars(Step(t))
    /\ \A r \in Run : WF_vars(RunEnds(r))

------------------------------------------------------------------------------
(* A store that returned has its row and its index entry on disk, whatever the
   recoveries of other providers and the failures of other threads roll back
   meanwhile (provider._lock in _rollback_peer_provider_transactions). *)
AckedIsDurable ==
    \A t \in Thread : task[t].ok => Stored(t) \subseteq durable

(* A store that failed has left nothing behind, or all of what it stores when the
   failure came after the commit: nobody else's commit on the connection tears it.
   For a capture this needs that every writer of the connection takes
   provider._lock, which relation extraction does not. *)
StoreAllOrNothing ==
    \A t \in Thread : task[t].pc \in Over /\ (RelationSync => IsAgent(t)) =>
        Stored(t) \subseteq durable \/ Stored(t) \cap durable = {}

(* scope_recall_store gives up on a locked database only because of a connection
   that was used after its recovery began, of one that is not a provider's, or of
   a peer that is left without an open connection, which ends the recovery when it
   comes to that peer: peers that are merely left dirty cannot make it fail.  A
   peer is left like that when its own recovery gives up in the middle of a reopen,
   so one defeat that outlives its cause defeats the others too. *)
GivesUp(t) ==
    \/ task[t].pc \in {"row", "index", "mark"} /\ task[t].retry /\ task'[t].pc = "failed"
    \/ task[t].pc \in {"peers", "reopen", "reprobe"} /\ task'[t].pc \in Over
MeetsWriter(t) == \E c \in Conn \ {Home(t)} : tx[c] = "write" /\ c \in touched[t] \cup Run
MeetsClosedPeer(t) == task[t].pc = "peers" /\ \E q \in task[t].todo : tx[q] = "closed" /\ Free(q)
RecoveryIsEnough ==
    [][\A t \in Thread : GivesUp(t) => MeetsWriter(t) \/ MeetsClosedPeer(t)]_vars

(* Every operation ends, if only with its thread: no cycle of provider locks and of
   the write lock, also with several recoveries that each roll back the other's
   connection. *)
OperationsEnd ==
    \A t \in Thread : task[t].pc \notin Over ~> task[t].pc \in Over

(* A provider none of whose threads is at work is in no write transaction: the
   write lock never outlives the operation that took it. *)
Busy(p) == \E t \in Thread : Home(t) = p /\ task[t].pc \notin Over
IdleHoldsNothing ==
    \A p \in Provider : tx[p] = "write" => Busy(p)

(* The provider keeps its connection open for the lifetime of the process: no
   operation ends with the provider left on a closed connection. *)
ConnectionKeptOpen ==
    \A p \in Provider : tx[p] = "closed" => Busy(p)

==============================================================================
