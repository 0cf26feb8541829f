------------------------ MODULE VectorCompanionProofs ------------------------
(* Theorems about VectorCompanion for any memories, writers, digests, backends
   and bounds: its types, and that it implements CompanionPromise when the
   provider runs one tool at a time. *)
EXTENDS VectorCompanion, FiniteSetTheorems, TLAPS

USE CompanionAssumption DEF CompanionAssumption

Job == [pc : Points, op : {"none", "store", "update", "delete", "archive", "repair", "start"},
        m : Memory, ver : 0..MaxVersion, snapshot : [Memory -> 0..MaxVersion], ready : BOOLEAN]
Row == [life : {"absent", "visible", "hidden"}, ver : 0..MaxVersion]
Index == [Memory -> 0..MaxVersion]

Types ==
    /\ backend \in Backends /\ row \in [Memory -> Row] /\ record \in Index
    /\ store \in {"closed", "open", "ready"} /\ task \in [Thread -> Job]
    /\ ops \in 0..MaxOps /\ faults \in 0..MaxFaults /\ excused \subseteq Memory

Forgetters == {"drop", "remove", "hide", "commit"}
Recorders == {"index", "embed", "unindex"}
Rebuilders == {"open", "read", "sync", "report"}

\* The steps between a row and its record.
Recording(t) ==
    \/ Reread(t) \/ MarkConflicts(t) \/ UpdateBreaks(t)
    \/ Enter(t) \/ Embed(t) \/ Unindex(t)

\* Whoever holds a lock is at a place where it is held, and alone there.
LockHeld(t) == t \in Agents /\ task[t].pc \in Forgetters
VectorsHeld(t) == t \in Local /\ task[t].pc \in {"embed", "unindex"}
Held ==
    /\ lock = {t \in Agents : LockHeld(t)} /\ vlock = {t \in Local : VectorsHeld(t)}
    /\ \A t, u \in Thread : LockHeld(t) /\ LockHeld(u) => t = u
    /\ \A t, u \in Thread : VectorsHeld(t) /\ VectorsHeld(u) => t = u

\* Where a thread may be in each operation.
InPlace(t) ==
    /\ task[t].pc = "idle" => task[t].op = "none"
    /\ task[t].pc \in {"reread", "mark"} => task[t].op = "update" /\ t \in Agents
    /\ task[t].pc \in Recorders => task[t].op \in {"store", "update"}
    /\ task[t].pc \in Forgetters => task[t].op \in {"delete", "archive"} /\ t \in Agents
    /\ task[t].pc \in Rebuilders => task[t].op \in {"repair", "start"} /\ t \in Agents \cup Digests

VInv == Types /\ Held /\ \A t \in Thread : InPlace(t)

LEMMA IdleType ==
  ASSUME NEW b \in BOOLEAN
  PROVE  /\ Idle(b) \in Job /\ Idle(b).pc = "idle" /\ Idle(b).op = "none" /\ Idle(b).ready = b
<1>1. (CHOOSE m \in Memory : TRUE) \in Memory  OBVIOUS
<1>2. [m \in Memory |-> 0] \in [Memory -> 0..MaxVersion]  OBVIOUS
<1> QED  BY <1>1, <1>2 DEF Idle, Job, Points

\* t alone moves, and works on what it worked on before.
Moves(t, pc) ==
    /\ task' \in [Thread -> Job]
    /\ \A u \in Thread : u # t => task'[u] = task[u]
    /\ task'[t].pc = pc /\ task'[t].op = task[t].op /\ task'[t].m = task[t].m
    /\ task'[t].ver = task[t].ver /\ task'[t].snapshot = task[t].snapshot

\* t alone moves, to where it has nothing in hand.
Rests(t) ==
    /\ task' \in [Thread -> Job]
    /\ \A u \in Thread : u # t => task'[u] = task[u]
    /\ task'[t].pc = "idle" /\ task'[t].op = "none"

LEMMA GoesMoves == ASSUME Types, NEW t \in Thread, NEW pc \in Points, Goes(t, pc) PROVE Moves(t, pc)
<1> DEFINE j == [task[t] EXCEPT !.pc = pc]
<1>0. task[t] \in Job /\ task \in [Thread -> Job]  BY DEF Types
<1>1. task' = [task EXCEPT ![t] = j]  BY <1>0 DEF Goes
<1>2. /\ j \in Job /\ j.pc = pc /\ j.op = task[t].op /\ j.m = task[t].m
      /\ j.ver = task[t].ver /\ j.snapshot = task[t].snapshot
  BY <1>0 DEF Job
<1> HIDE DEF j
<1> QED  BY <1>0, <1>1, <1>2 DEF Moves

LEMMA EndsRests == ASSUME Types, NEW t \in Thread, Ends(t) PROVE Rests(t)
<1> DEFINE j == Idle(task[t].ready)
<1>0. task[t] \in Job /\ task \in [Thread -> Job] /\ task[t].ready \in BOOLEAN  BY DEF Types, Job
<1>1. task' = [task EXCEPT ![t] = j]  BY <1>0 DEF Ends
<1>2. j \in Job /\ j.pc = "idle" /\ j.op = "none"  BY <1>0, IdleType
<1> HIDE DEF j
<1> QED  BY <1>0, <1>1, <1>2 DEF Rests

LEMMA IdleRests ==
  ASSUME Types, NEW t \in Thread, NEW b \in BOOLEAN, task' = [task EXCEPT ![t] = Idle(b)]
  PROVE  Rests(t)
<1> DEFINE j == Idle(b)
<1>0. task \in [Thread -> Job]  BY DEF Types
<1>1. j \in Job /\ j.pc = "idle" /\ j.op = "none"  BY IdleType
<1>2. task' = [task EXCEPT ![t] = j]  OBVIOUS
<1> HIDE DEF j
<1> QED  BY <1>0, <1>1, <1>2 DEF Rests

\* t alone moves, and takes up an operation.
TakesUp(t, op, m, pc, ver) ==
    /\ task' \in [Thread -> Job]
    /\ \A u \in Thread : u # t => task'[u] = task[u]
    /\ task'[t].pc = pc /\ task'[t].op = op /\ task'[t].m = m /\ task'[t].ver = ver

LEMMA OnTakesUp ==
  ASSUME Types, NEW t \in Thread, NEW op \in {"store", "update", "delete", "archive"}, NEW m \in Memory,
         NEW pc \in Points, NEW ver \in 0..MaxVersion, On(t, op, m, pc, ver)
  PROVE  TakesUp(t, op, m, pc, ver)
<1> DEFINE j == [task[t] EXCEPT !.pc = pc, !.op = op, !.m = m, !.ver = ver]
<1>0. task[t] \in Job /\ task \in [Thread -> Job]  BY DEF Types
<1>1. task' = [task EXCEPT ![t] = j]  BY <1>0 DEF On
<1>2. j \in Job /\ j.pc = pc /\ j.op = op /\ j.m = m /\ j.ver = ver  BY <1>0 DEF Job
<1> HIDE DEF j
<1> QED  BY <1>0, <1>1, <1>2 DEF TakesUp

\* What the stores leave is an index again.
LEMMA BackendIs == Types => backend \in {"lancedb", "sqlite-bruteforce", "pgvector"}
  BY DEF Types

LEMMA WithinIndex ==
  ASSUME NEW index \in Index, NEW wanted \in Index, NEW ms \in SUBSET Memory
  PROVE  /\ Without(index, ms) \in Index /\ With(index, ms, wanted) \in Index
         /\ \A m \in Memory : /\ Without(index, ms)[m] = IF m \in ms THEN 0 ELSE index[m]
                              /\ With(index, ms, wanted)[m] = IF m \in ms THEN wanted[m] ELSE index[m]
  BY DEF Index, Without, With

LEMMA UpsertFailsIs ==
  ASSUME Types, NEW index \in Index, NEW wanted \in Index, NEW ms \in SUBSET Memory,
         NEW left \in UpsertFails(index, ms, wanted)
  PROVE  left \in {index, Without(index, ms), With(index, ms, wanted)}
<1>1. CASE backend = "lancedb"
  <2>1. UpsertFails(index, ms, wanted) = LanceUpsertFails(index, ms, wanted)  BY <1>1, Zenon DEF UpsertFails
  <2> QED  BY <2>1 DEF LanceUpsertFails
<1>2. CASE backend = "sqlite-bruteforce"
  <2>1. UpsertFails(index, ms, wanted) = SQLiteUpsertFails(index, ms, wanted)  BY <1>2, Zenon DEF UpsertFails
  <2> QED  BY <2>1 DEF SQLiteUpsertFails
<1>3. CASE backend = "pgvector"
  <2>1. UpsertFails(index, ms, wanted) = PGUpsertFails(index, ms, wanted)  BY <1>3, Zenon DEF UpsertFails
  <2> QED  BY <2>1 DEF PGUpsertFails
<1> QED  BY <1>1, <1>2, <1>3, BackendIs

\* Whichever store it is, a repair takes out what is unwanted, may take out what
\* is outdated, and leaves the rest.
LEMMA RepairedIs ==
  ASSUME Types, NEW index \in Index, NEW wanted \in Index
  PROVE  /\ Repaired(index, wanted) \in Index
         /\ \A m \in Memory : /\ wanted[m] = 0 => Repaired(index, wanted)[m] = 0
                              /\ index[m] = wanted[m] => Repaired(index, wanted)[m] = index[m]
<1> DEFINE D == {m \in Memory : index[m] # wanted[m]}
           U == {m \in Memory : index[m] # 0 /\ wanted[m] = 0}
<1>0. /\ Without(index, D) \in Index /\ Without(index, U) \in Index
      /\ \A m \in Memory : /\ Without(index, D)[m] = IF m \in D THEN 0 ELSE index[m]
                           /\ Without(index, U)[m] = IF m \in U THEN 0 ELSE index[m]
  BY WithinIndex
<1>1. Repaired(index, wanted) = Without(index, D) \/ Repaired(index, wanted) = Without(index, U)
  <2>1. CASE backend = "lancedb"
    <3>1. Repaired(index, wanted) = LanceRepaired(index, wanted)  BY <2>1, Zenon DEF Repaired
    <3> QED  BY <3>1 DEF LanceRepaired
  <2>2. CASE backend = "sqlite-bruteforce"
    <3>1. Repaired(index, wanted) = SQLiteRepaired(index, wanted)  BY <2>2, Zenon DEF Repaired
    <3> QED  BY <3>1 DEF SQLiteRepaired
  <2>3. CASE backend = "pgvector"
    <3>1. Repaired(index, wanted) = PGRepaired(index, wanted)  BY <2>3, Zenon DEF Repaired
    <3> QED  BY <3>1 DEF PGRepaired, Unwanted
  <2> QED  BY <2>1, <2>2, <2>3, BackendIs
<1>2. \A m \in Memory : index[m] \in Nat /\ wanted[m] \in Nat  BY DEF Index
<1> QED  BY <1>0, <1>1, <1>2

LEMMA TidiedIs ==
  ASSUME Types, NEW wanted \in Index
  PROVE  /\ Tidied(wanted) \in Index
         /\ \A m \in Memory : /\ wanted[m] = 0 => Tidied(wanted)[m] = 0
                              /\ record[m] = wanted[m] => Tidied(wanted)[m] = record[m]
<1> DEFINE U == Unwanted(record, wanted)
           X == Without(record, U)
<1>0. record \in Index  BY DEF Types
<1>1. \A m \in Memory : record[m] \in Nat /\ wanted[m] \in Nat  BY <1>0 DEF Index
<1>2. CASE U = {}
  <2>1. Tidied(wanted) = record  BY <1>2 DEF Tidied
  <2> QED  BY <1>0, <1>1, <1>2, <2>1 DEF Unwanted
<1>3. CASE U # {}
  <2>0. U \in SUBSET Memory  BY DEF Unwanted
  <2>1. X \in Index /\ \A m \in Memory : X[m] = IF m \in U THEN 0 ELSE record[m]
    BY <1>0, <2>0, WithinIndex
  <2>2. Tidied(wanted) = Repaired(X, wanted)  BY <1>3 DEF Tidied
  <2>3. \A m \in Memory : m \in U => record[m] # wanted[m]  BY DEF Unwanted
  <2> HIDE DEF X, U
  <2>4. /\ Repaired(X, wanted) \in Index
        /\ \A m \in Memory : /\ wanted[m] = 0 => Repaired(X, wanted)[m] = 0
                             /\ X[m] = wanted[m] => Repaired(X, wanted)[m] = X[m]
    BY <2>1, RepairedIs
  <2> QED  BY <2>1, <2>2, <2>3, <2>4
<1> QED  BY <1>2, <1>3

\* A rebuild that succeeds leaves exactly what it wants, and one that fails
\* nothing that differs from it where the index was right, unless it rewrites all.
LEMMA SyncedIs == ASSUME Types, NEW wanted \in Index PROVE Synced(wanted) = wanted
<1> DEFINE T == Tidied(wanted)
           O == Outdated(T, wanted)
<1>0. T \in Index /\ \A m \in Memory : wanted[m] = 0 => T[m] = 0  BY TidiedIs
<1> HIDE DEF T
<1>1. O \in SUBSET Memory /\ \A m \in Memory : m \in O <=> wanted[m] # 0 /\ T[m] # wanted[m]
  BY DEF Outdated
<1> HIDE DEF O
<1>2. /\ With(T, O, wanted) \in Index
      /\ \A m \in Memory : With(T, O, wanted)[m] = IF m \in O THEN wanted[m] ELSE T[m]
  BY <1>0, <1>1, WithinIndex
<1>3. \A m \in Memory : With(T, O, wanted)[m] = wanted[m]  BY <1>0, <1>1, <1>2
<1>4. With(T, O, wanted) = wanted  BY <1>2, <1>3 DEF Index
<1> QED  BY <1>4 DEF Synced, T, O

LEMMA SyncFailsIs ==
  ASSUME Types, NEW wanted \in Index, NEW left \in SyncFails(wanted)
  PROVE  /\ left \in Index
         /\ ~Rewrites(wanted) => \A m \in Memory : record[m] = wanted[m] => left[m] = record[m]
<1> DEFINE T == Tidied(wanted)
           O == Outdated(T, wanted)
           U == Unwanted(record, wanted)
<1>0. record \in Index /\ Empty \in Index  BY DEF Types, Empty, Index
<1>1. T \in Index /\ \A m \in Memory : record[m] = wanted[m] => T[m] = record[m]  BY TidiedIs
<1>2. U \in SUBSET Memory /\ \A m \in Memory : m \in U => record[m] # wanted[m]  BY DEF Unwanted
<1>3. \/ left \in DeleteFails(record, U)
      \/ Rewrites(wanted) /\ left = Empty
      \/ left \in UpsertFails(T, O, wanted)
  <2> DEFINE A == DeleteFails(record, U)
             B == IF Rewrites(wanted) THEN {Empty} ELSE {}
             C == UpsertFails(T, O, wanted)
  <2>1. left \in A \cup B \cup C  BY Zenon DEF SyncFails
  <2>2. left \in B => Rewrites(wanted) /\ left = Empty  OBVIOUS
  <2> HIDE DEF A, B, C
  <2>3. left \in A \/ left \in B \/ left \in C  BY <2>1
  <2> QED  BY <2>2, <2>3 DEF A, C
<1> HIDE DEF T, U
<1>4. O \in SUBSET Memory /\ \A m \in Memory : m \in O => T[m] # wanted[m]  BY DEF Outdated
<1> HIDE DEF O
<1>5. CASE left \in DeleteFails(record, U)
  BY <1>0, <1>2, <1>5, WithinIndex DEF DeleteFails
<1>6. CASE left \in UpsertFails(T, O, wanted)
  <2>1. left \in {T, Without(T, O), With(T, O, wanted)}  BY <1>1, <1>4, <1>6, UpsertFailsIs
  <2>2. /\ Without(T, O) \in Index /\ With(T, O, wanted) \in Index
        /\ \A m \in Memory : /\ Without(T, O)[m] = IF m \in O THEN 0 ELSE T[m]
                             /\ With(T, O, wanted)[m] = IF m \in O THEN wanted[m] ELSE T[m]
    BY <1>1, <1>4, WithinIndex
  <2> QED  BY <1>1, <1>4, <2>1, <2>2
<1> QED  BY <1>0, <1>3, <1>5, <1>6

\* A step of one thread keeps the locks in order when the locks follow it.
LEMMA ThreadSteps ==
  ASSUME VInv, Types', NEW t \in Thread, \A u \in Thread : u # t => task'[u] = task[u],
         lock' \ {t} = lock \ {t}, vlock' \ {t} = vlock \ {t},
         t \in lock' <=> LockHeld(t)', t \in vlock' <=> VectorsHeld(t)',
         LockHeld(t)' => lock \subseteq {t}, VectorsHeld(t)' => vlock \subseteq {t}, InPlace(t)'
  PROVE  VInv'
<1>1. \A u \in Thread : u # t => /\ LockHeld(u)' <=> LockHeld(u)
                                 /\ VectorsHeld(u)' <=> VectorsHeld(u)
                                 /\ InPlace(u)' <=> InPlace(u)
  BY DEF LockHeld, VectorsHeld, InPlace
<1>2. \A u : (u \in lock <=> u \in Thread /\ LockHeld(u)) /\ (u \in vlock <=> u \in Thread /\ VectorsHeld(u))
  BY DEF VInv, Held, LockHeld, VectorsHeld, Thread, Local
<1>3. \A u : (u \in lock' <=> u \in Thread /\ LockHeld(u)') /\ (u \in vlock' <=> u \in Thread /\ VectorsHeld(u)')
  <2> SUFFICES ASSUME NEW u
               PROVE  /\ u \in lock' <=> u \in Thread /\ LockHeld(u)'
                      /\ u \in vlock' <=> u \in Thread /\ VectorsHeld(u)'
    OBVIOUS
  <2>1. CASE u = t  BY <2>1
  <2>2. CASE u # t
    <3>1. (u \in lock' <=> u \in lock) /\ (u \in vlock' <=> u \in vlock)  BY <2>2
    <3> QED  BY <1>1, <1>2, <2>2, <3>1
  <2> QED  BY <2>1, <2>2
<1>4. lock' = {u \in Agents : LockHeld(u)'} /\ vlock' = {u \in Local : VectorsHeld(u)'}
  BY <1>3 DEF LockHeld, VectorsHeld, Thread, Local
<1>5. /\ \A v, u \in Thread : LockHeld(v)' /\ LockHeld(u)' => v = u
      /\ \A v, u \in Thread : VectorsHeld(v)' /\ VectorsHeld(u)' => v = u
  <2>1. \A v, u \in Thread : LockHeld(v) /\ LockHeld(u) => v = u  BY DEF VInv, Held
  <2>2. \A v, u \in Thread : VectorsHeld(v) /\ VectorsHeld(u) => v = u  BY DEF VInv, Held
  <2> QED  BY <1>1, <1>2, <2>1, <2>2
<1>6. \A u \in Thread : InPlace(u)'  BY <1>1 DEF VInv
<1>7. Held'  BY <1>4, <1>5 DEF Held
<1> QED  BY <1>6, <1>7 DEF VInv

\* The same, of a thread that neither takes nor lets go of a lock.
LEMMA FreeSteps ==
  ASSUME VInv, Types', NEW t \in Thread, \A u \in Thread : u # t => task'[u] = task[u],
         UNCHANGED locks, InPlace(t)', ~LockHeld(t), ~LockHeld(t)', ~VectorsHeld(t), ~VectorsHeld(t)'
  PROVE  VInv'
<1>1. t \notin lock /\ t \notin vlock /\ lock' = lock /\ vlock' = vlock  BY DEF VInv, Held, locks
<1> QED  BY <1>1, ThreadSteps

LEMMA InitVInv == VInit => VInv
<1> SUFFICES ASSUME VInit PROVE VInv  OBVIOUS
<1>0. Idle(FALSE) \in Job /\ Idle(FALSE).pc = "idle" /\ Idle(FALSE).op = "none"  BY IdleType
<1> DEFINE j == Idle(FALSE)
<1>1. task = [t \in Thread |-> j] /\ j \in Job /\ j.pc = "idle" /\ j.op = "none"  BY <1>0 DEF VInit
<1> HIDE DEF j
<1>2. task \in [Thread -> Job] /\ \A t \in Thread : task[t].pc = "idle" /\ task[t].op = "none"  BY <1>1
<1>3. [m \in Memory |-> [life |-> "absent", ver |-> 0]] \in [Memory -> Row] /\ [m \in Memory |-> 0] \in Index
  BY DEF Row, Index
<1>4. Types
  <2>1. row \in [Memory -> Row] /\ record \in Index  BY <1>3, Zenon DEF VInit
  <2>2. backend \in Backends /\ store \in {"closed", "open", "ready"} /\ excused \subseteq Memory
    BY DEF VInit
  <2>3. ops \in 0..MaxOps /\ faults \in 0..MaxFaults  BY DEF VInit
  <2> QED  BY <1>2, <2>1, <2>2, <2>3 DEF Types
<1>5. \A t \in Thread : InPlace(t) /\ ~LockHeld(t) /\ ~VectorsHeld(t)
  BY <1>2 DEF InPlace, LockHeld, VectorsHeld, Recorders, Forgetters, Rebuilders
<1>6. Held  BY <1>5 DEF Held, VInit, Thread, Local
<1> QED  BY <1>4, <1>5, <1>6 DEF VInv

LEMMA StoringVInv ==
  ASSUME VInv, UNCHANGED backend, NEW t \in Thread, NEW m \in Memory, StoreRow(t, m) \/ UpdateRow(t, m)
  PROVE  VInv'
<1>0. Types /\ InPlace(t) /\ task[t].pc = "idle"  BY DEF VInv, StoreRow, UpdateRow, Begins
<1>1. ops' \in 0..MaxOps /\ excused' \subseteq Memory
  BY <1>0 DEF StoreRow, UpdateRow, Begins, Types
<1>2. /\ row' \in [Memory -> Row] /\ record' = record /\ store' = store /\ faults' = faults
      /\ UNCHANGED locks
      /\ \/ TakesUp(t, "store", m, "index", 1)
         \/ t \notin Digests /\ t \notin Writers /\ TakesUp(t, "update", m, "reread", row[m].ver + 1)
         \/ TakesUp(t, "update", m, "index", row[m].ver + 1)
  <2>1. CASE StoreRow(t, m)
    <3>1. [life |-> "visible", ver |-> 1] \in Row  BY DEF Row
    <3>2. row' \in [Memory -> Row]  BY <1>0, <2>1, <3>1 DEF StoreRow, Types
    <3>3. TakesUp(t, "store", m, "index", 1)  BY <1>0, <2>1, OnTakesUp DEF StoreRow, Points
    <3> QED  BY <2>1, <3>2, <3>3 DEF StoreRow
  <2>2. CASE UpdateRow(t, m)
    <3>1. row[m].ver + 1 \in 0..MaxVersion  BY <1>0, <2>2 DEF UpdateRow, Types, Row
    <3>2. row' \in [Memory -> Row]  BY <1>0, <2>2, <3>1 DEF UpdateRow, Types, Row
    <3>3. CASE t \in Digests
      <4>1. On(t, "update", m, "index", row[m].ver + 1)  BY <2>2, <3>3 DEF UpdateRow
      <4> QED  BY <1>0, <2>2, <3>1, <3>2, <4>1, OnTakesUp DEF UpdateRow, Points
    <3>4. CASE t \notin Digests
      <4>1. On(t, "update", m, "reread", row[m].ver + 1)  BY <2>2, <3>4 DEF UpdateRow
      <4> QED  BY <1>0, <2>2, <3>1, <3>2, <3>4, <4>1, OnTakesUp DEF UpdateRow, Points
    <3> QED  BY <3>3, <3>4
  <2> QED  BY <2>1, <2>2
<1>3. Types'  BY <1>0, <1>1, <1>2 DEF Types, TakesUp
<1>4. InPlace(t)' /\ task'[t].pc \in {"index", "reread"}
  BY <1>2 DEF InPlace, TakesUp, Recorders, Forgetters, Rebuilders, Thread
<1>5. ~LockHeld(t) /\ ~LockHeld(t)' /\ ~VectorsHeld(t) /\ ~VectorsHeld(t)'
  BY <1>0, <1>4 DEF LockHeld, VectorsHeld, Forgetters
<1> QED  BY <1>2, <1>3, <1>4, <1>5, FreeSteps DEF TakesUp

LEMMA RecordingVInv ==
  ASSUME VInv, UNCHANGED backend, NEW t \in Thread, Recording(t)
  PROVE  VInv'
<1>0. Types /\ InPlace(t) /\ task[t] \in Job  BY DEF VInv, Types
<1>1. CASE Reread(t)
  <2>1. CASE Ends(t)
    <3>1. Rests(t)  BY <1>0, <2>1, EndsRests
    <3>2. Types'  BY <1>0, <1>1, <3>1 DEF Types, Rests, Reread, data, Well
    <3>3. InPlace(t)' /\ ~LockHeld(t) /\ ~LockHeld(t)' /\ ~VectorsHeld(t) /\ ~VectorsHeld(t)'
      BY <1>1, <3>1 DEF Rests, InPlace, LockHeld, VectorsHeld, Recorders, Forgetters, Rebuilders, Reread
    <3> QED  BY <1>1, <3>1, <3>2, <3>3, FreeSteps DEF Rests, Reread
  <2>2. CASE ~Ends(t)
    <3> DEFINE v == row[task[t].m].ver
               j == [task[t] EXCEPT !.pc = "mark", !.ver = v]
    <3>1. v \in 0..MaxVersion  BY <1>0 DEF Types, Row, Job
    <3>2. task' = [task EXCEPT ![t] = j]
      <4>1. task' = [task EXCEPT ![t].pc = "mark", ![t].ver = v]  BY <1>1, <2>2 DEF Reread
      <4> QED  BY <1>0, <4>1 DEF Types
    <3>3. j \in Job /\ j.pc = "mark" /\ j.op = task[t].op  BY <1>0, <3>1 DEF Job, Points
    <3> HIDE DEF j
    <3>4. /\ task' \in [Thread -> Job] /\ task'[t] = j /\ \A u \in Thread : u # t => task'[u] = task[u]
      BY <1>0, <3>2, <3>3 DEF Types
    <3>5. Types'  BY <1>0, <1>1, <3>4 DEF Types, Reread, data, Well
    <3>6. InPlace(t)' /\ ~LockHeld(t) /\ ~LockHeld(t)' /\ ~VectorsHeld(t) /\ ~VectorsHeld(t)'
      BY <1>0, <1>1, <3>3, <3>4 DEF InPlace, LockHeld, VectorsHeld, Recorders, Forgetters, Rebuilders, Reread
    <3> QED  BY <1>1, <3>4, <3>5, <3>6, FreeSteps DEF Reread
  <2> QED  BY <2>1, <2>2
<1>4. CASE MarkConflicts(t)
  <2>1. Moves(t, "index")  BY <1>0, <1>4, GoesMoves DEF MarkConflicts, Points
  <2>2. Types'  BY <1>0, <1>4, <2>1 DEF Types, Moves, MarkConflicts, data, Well
  <2>3. InPlace(t)' /\ ~LockHeld(t) /\ ~LockHeld(t)' /\ ~VectorsHeld(t) /\ ~VectorsHeld(t)'
    BY <1>0, <1>4, <2>1
    DEF Moves, InPlace, LockHeld, VectorsHeld, Recorders, Forgetters, Rebuilders, MarkConflicts
  <2> QED  BY <1>4, <2>1, <2>2, <2>3, FreeSteps DEF Moves, MarkConflicts
<1>5. CASE UpdateBreaks(t)
  <2>1. Rests(t)  BY <1>0, <1>5, EndsRests DEF UpdateBreaks
  <2>2. task[t].m \in Memory /\ faults' \in 0..MaxFaults  BY <1>0, <1>5 DEF Job, UpdateBreaks, Fault, Types
  <2>3. Types'  BY <1>0, <1>5, <2>1, <2>2 DEF Types, Rests, UpdateBreaks, data
  <2>4. InPlace(t)' /\ ~LockHeld(t) /\ ~LockHeld(t)' /\ ~VectorsHeld(t) /\ ~VectorsHeld(t)'
    BY <1>5, <2>1 DEF Rests, InPlace, LockHeld, VectorsHeld, Recorders, Forgetters, Rebuilders, UpdateBreaks
  <2> QED  BY <1>5, <2>1, <2>3, <2>4, FreeSteps DEF Rests, UpdateBreaks
<1>2. CASE Enter(t)
  <2>f. faults' \in 0..MaxFaults  BY <1>0, <1>2 DEF Enter, Well, Fault, Types
  <2>0. task[t].pc = "index" /\ lock' = lock /\ ~VectorsHeld(t) /\ ~LockHeld(t) /\ t \notin lock /\ t \notin vlock
    BY <1>2 DEF Enter, VectorsHeld, LockHeld, Forgetters, VInv, Held
  <2>1. CASE ~Ready(t) /\ Ends(t) /\ UNCHANGED vlock
    <3>1. Rests(t)  BY <1>0, <2>1, EndsRests
    <3>2. Types'  BY <1>0, <1>2, <2>f, <3>1 DEF Types, Rests, Enter, data
    <3>3. InPlace(t)' /\ ~LockHeld(t)' /\ ~VectorsHeld(t)'
      BY <3>1 DEF Rests, InPlace, LockHeld, VectorsHeld, Recorders, Forgetters, Rebuilders
    <3> QED  BY <2>0, <2>1, <3>1, <3>2, <3>3, FreeSteps DEF Rests, locks
  <2>2. CASE TakeVectors(t) /\ \E pc \in {"unindex", "embed"} : Goes(t, pc)
    <3>1. PICK pc \in {"unindex", "embed"} : Goes(t, pc)  BY <2>2
    <3>2. Moves(t, pc)  BY <1>0, <3>1, GoesMoves DEF Points
    <3>3. Types'  BY <1>0, <1>2, <2>f, <3>2 DEF Types, Moves, Enter, data
    <3>4. InPlace(t)' /\ ~LockHeld(t)' /\ (VectorsHeld(t)' <=> t \in Local)
      BY <1>0, <2>0, <3>2 DEF Moves, InPlace, LockHeld, VectorsHeld, Recorders, Forgetters, Rebuilders
    <3>5. CASE t \in Digests
      <4>1. vlock' = vlock /\ t \notin Local  BY <2>2, <3>5 DEF TakeVectors, Local
      <4> QED  BY <2>0, <3>2, <3>3, <3>4, <4>1, ThreadSteps DEF Moves
    <3>6. CASE t \notin Digests
      <4>1. vlock' = {t} /\ t \in Local /\ vlock = {}
        BY <1>2, <2>2, <3>6 DEF TakeVectors, Local, Thread, Enter, FreeVectors
      <4> QED  BY <2>0, <3>2, <3>3, <3>4, <4>1, ThreadSteps DEF Moves
    <3> QED  BY <3>5, <3>6
  <2> QED  BY <1>2, <2>1, <2>2 DEF Enter
<1>3. CASE Embed(t) \/ Unindex(t)
  <2>0. task[t].m \in Memory /\ task[t].ver \in 0..MaxVersion /\ record \in Index  BY <1>0 DEF Job, Types
  <2>1. Rests(t)  BY <1>0, <1>3, EndsRests DEF Embed, Unindex
  <2>2. record' \in Index
    <3> DEFINE wanted == [record EXCEPT ![task[t].m] = task[t].ver]
    <3>1. {task[t].m} \in SUBSET Memory /\ wanted \in Index /\ [record EXCEPT ![task[t].m] = 0] \in Index
      BY <2>0 DEF Index
    <3>2. \/ record' = wanted
          \/ record' = [record EXCEPT ![task[t].m] = 0]
          \/ record' \in UpsertFails(record, {task[t].m}, wanted)
          \/ record' \in DeleteFails(record, {task[t].m})
      BY <1>3 DEF Embed, Unindex
    <3> HIDE DEF wanted
    <3>3. /\ Without(record, {task[t].m}) \in Index /\ With(record, {task[t].m}, wanted) \in Index
      BY <2>0, <3>1, WithinIndex
    <3>4. record' \in UpsertFails(record, {task[t].m}, wanted) => record' \in Index
      BY <1>0, <2>0, <3>1, <3>3, UpsertFailsIs
    <3>5. record' \in DeleteFails(record, {task[t].m}) => record' \in Index
      BY <2>0, <3>3 DEF DeleteFails
    <3> QED  BY <3>1, <3>2, <3>4, <3>5
  <2>3. /\ store' \in {"closed", "open", "ready"} /\ faults' \in 0..MaxFaults
        /\ row' = row /\ lock' = lock /\ ops' = ops /\ excused' = excused /\ vlock' = vlock \ {t}
    BY <1>0, <1>3 DEF Embed, Unindex, Well, Fault, MarkNeedsRepair, Types, DropVectors
  <2>4. Types'  BY <1>0, <2>1, <2>2, <2>3 DEF Types, Rests
  <2>5. /\ InPlace(t)' /\ ~LockHeld(t) /\ ~LockHeld(t)' /\ ~VectorsHeld(t)' /\ t \notin lock
    BY <1>3, <2>1 DEF Rests, InPlace, LockHeld, VectorsHeld, Recorders, Forgetters, Rebuilders, Embed, Unindex, VInv, Held
  <2> QED  BY <2>1, <2>3, <2>4, <2>5, ThreadSteps DEF Rests
<1> QED  BY <1>1, <1>2, <1>3, <1>4, <1>5 DEF Recording

LEMMA ForgettingVInv ==
  ASSUME VInv, UNCHANGED backend, NEW t \in Thread,
         \/ \E op \in {"delete", "archive"}, m \in Memory : BeginForget(t, op, m)
         \/ Drop(t) \/ Remove(t) \/ Hide(t) \/ Commit(t)
  PROVE  VInv'
<1>0. Types /\ InPlace(t) /\ task[t] \in Job  BY DEF VInv, Types
<1>1. CASE \E op \in {"delete", "archive"}, m \in Memory : BeginForget(t, op, m)
  <2>1. PICK op \in {"delete", "archive"}, m \in Memory : BeginForget(t, op, m)  BY <1>1
  <2>2. TakesUp(t, op, m, "drop", 0)  BY <1>0, <2>1, OnTakesUp DEF BeginForget, Points
  <2>3. Types'  BY <1>0, <2>1, <2>2 DEF BeginForget, Begins, Types, TakesUp, data
  <2>4. InPlace(t)' /\ LockHeld(t)' /\ ~VectorsHeld(t) /\ ~VectorsHeld(t)'
    BY <2>1, <2>2 DEF BeginForget, Begins, TakesUp, InPlace, LockHeld, VectorsHeld, Recorders, Forgetters, Rebuilders
  <2>5. lock = {} /\ lock' = {t} /\ vlock' = vlock /\ t \notin vlock
    BY <2>1, <2>4 DEF BeginForget, VInv, Held
  <2> QED  BY <2>2, <2>3, <2>4, <2>5, ThreadSteps DEF TakesUp
<1>2. CASE Drop(t) \/ Remove(t) \/ Hide(t) \/ Commit(t)
  <2>0. task[t].m \in Memory /\ record \in Index /\ task[t].pc \in Forgetters /\ t \in Agents
    BY <1>0, <1>2 DEF Job, Types, Drop, Remove, Hide, Commit, Forgetters, InPlace
  <2>1. LockHeld(t) /\ ~VectorsHeld(t) /\ lock = {t} /\ t \notin vlock
    BY <2>0 DEF LockHeld, VectorsHeld, Forgetters, VInv, Held, Thread
  <2>2. vlock' = vlock /\ ops' = ops /\ store' \in {"closed", "open", "ready"} /\ faults' \in 0..MaxFaults
        /\ excused' \subseteq Memory
    BY <1>0, <1>2, <2>0 DEF Drop, Remove, Hide, Commit, Well, Fault, MarkNeedsRepair, Types
  <2>3. record' \in Index
    <3>1. Without(record, {task[t].m}) \in Index /\ [record EXCEPT ![task[t].m] = 0] \in Index
      BY <2>0, WithinIndex DEF Index
    <3> QED  BY <1>2, <2>0, <3>1 DEF Drop, Remove, Hide, Commit, DeleteFails
  <2>4. row' \in [Memory -> Row]
    <3>1. \A life \in {"absent", "visible", "hidden"} : [row EXCEPT ![task[t].m].life = life] \in [Memory -> Row]
      BY <1>0, <2>0 DEF Types, Row
    <3> QED  BY <1>0, <1>2, <3>1 DEF Drop, Remove, Hide, Commit, Types
  <2>5. CASE lock' = {} /\ Ends(t)
    <3>1. Rests(t)  BY <1>0, <2>5, EndsRests
    <3>2. Types'  BY <1>0, <2>2, <2>3, <2>4, <3>1 DEF Types, Rests
    <3>3. InPlace(t)' /\ ~LockHeld(t)' /\ ~VectorsHeld(t)'
      BY <3>1 DEF Rests, InPlace, LockHeld, VectorsHeld, Recorders, Forgetters, Rebuilders
    <3> QED  BY <2>1, <2>2, <2>5, <3>1, <3>2, <3>3, ThreadSteps DEF Rests
  <2>6. CASE lock' = lock /\ \E pc \in {"remove", "hide", "commit"} : Goes(t, pc)
    <3>1. PICK pc \in {"remove", "hide", "commit"} : Goes(t, pc)  BY <2>6
    <3>2. Moves(t, pc)  BY <1>0, <3>1, GoesMoves DEF Points
    <3>3. Types'  BY <1>0, <2>2, <2>3, <2>4, <3>2 DEF Types, Moves
    <3>4. InPlace(t)' /\ LockHeld(t)' /\ ~VectorsHeld(t)'
      BY <1>0, <2>0, <3>2 DEF Moves, InPlace, LockHeld, VectorsHeld, Recorders, Forgetters, Rebuilders
    <3> QED  BY <2>1, <2>2, <2>6, <3>2, <3>3, <3>4, ThreadSteps DEF Moves
  <2> QED  BY <1>2, <2>5, <2>6 DEF Drop, Remove, Hide, Commit
<1> QED  BY <1>1, <1>2

\* Of a thread that rebuilds, whatever it leaves in the index.
LEMMA RebuilderSteps ==
  ASSUME VInv, Types', NEW t \in Thread, UNCHANGED locks, \A u \in Thread : u # t => task'[u] = task[u],
         task[t].pc \in Rebuilders \cup {"idle"},
         \/ task'[t].pc = "idle" /\ task'[t].op = "none"
         \/ task'[t].pc \in Rebuilders /\ task'[t].op \in {"repair", "start"} /\ t \in Agents \cup Digests
  PROVE  VInv'
<1>1. ~LockHeld(t) /\ ~LockHeld(t)' /\ ~VectorsHeld(t) /\ ~VectorsHeld(t)' /\ InPlace(t)'
  BY DEF InPlace, LockHeld, VectorsHeld, Recorders, Forgetters, Rebuilders
<1> QED  BY <1>1, FreeSteps

\* What is wanted of the index: the text of the rows that a thread sees as visible.
WantedBy(t) == [m \in Memory |-> IF Life(t, m) = "visible" THEN row[m].ver ELSE 0]

LEMMA ReadsRows ==
  ASSUME Types, NEW t \in Thread, ReadRows(t)
  PROVE  /\ task' \in [Thread -> Job] /\ \A u \in Thread : u # t => task'[u] = task[u]
         /\ task'[t].pc = "sync" /\ task'[t].op = task[t].op /\ task'[t].m = task[t].m
         /\ task'[t].ver = task[t].ver /\ task'[t].snapshot = WantedBy(t)
<1> DEFINE w == WantedBy(t)
           j == [task[t] EXCEPT !.pc = "sync", !.snapshot = w]
<1>0. task[t] \in Job /\ task \in [Thread -> Job]  BY DEF Types
<1>1. w \in [Memory -> 0..MaxVersion]  BY DEF Types, Row, WantedBy
<1>2. task' = [task EXCEPT ![t].pc = "sync", ![t].snapshot = w]  BY DEF ReadRows, WantedBy
<1> HIDE DEF w
<1>3. j \in Job /\ j.pc = "sync" /\ j.op = task[t].op /\ j.m = task[t].m /\ j.ver = task[t].ver /\ j.snapshot = w
  BY <1>0, <1>1 DEF Job, Points
<1>4. task' = [task EXCEPT ![t] = j]  BY <1>0, <1>2
<1> HIDE DEF j
<1>5. task' \in [Thread -> Job] /\ task'[t] = j /\ \A u \in Thread : u # t => task'[u] = task[u]
  BY <1>0, <1>3, <1>4
<1> QED  BY <1>3, <1>5 DEF w

\* t alone moves, to the start of a rebuild.
LEMMA SetupBegins ==
  ASSUME Types, NEW t \in Thread, BeginSetup(t)
  PROVE  /\ task' \in [Thread -> Job] /\ \A u \in Thread : u # t => task'[u] = task[u]
         /\ task'[t].pc = "open" /\ task'[t].op = "repair"
<1> DEFINE i == Idle(FALSE)
           j == [i EXCEPT !.pc = "open", !.op = "repair"]
<1>0. task \in [Thread -> Job]  BY DEF Types
<1>1. i \in Job  BY IdleType
<1>2. task' = [task EXCEPT ![t] = j]  BY DEF BeginSetup
<1> HIDE DEF i
<1>3. j \in Job /\ j.pc = "open" /\ j.op = "repair"  BY <1>1 DEF Job, Points
<1> HIDE DEF j
<1> QED  BY <1>0, <1>2, <1>3

LEMMA OpenedIs == ASSUME Types PROVE Opened \subseteq Index
<1>1. Empty \in Index /\ record \in Index  BY DEF Types, Empty, Index
<1> QED  BY <1>1 DEF Opened

LEMMA SetupVInv ==
  ASSUME VInv, UNCHANGED backend, NEW t \in Thread,
         BeginSetup(t) \/ OpenStore(t) \/ ReadRows(t) \/ Sync(t) \/ Report(t) \/ EndDigest(t)
  PROVE  VInv'
<1>0. Types /\ InPlace(t) /\ task[t] \in Job  BY DEF VInv, Types
<1>1. CASE BeginSetup(t)
  <2>0. /\ ops' \in 0..MaxOps /\ store' \in {"closed", "open", "ready"} /\ UNCHANGED <<row, record, faults, excused>>
    BY <1>0, <1>1 DEF Types, BeginSetup, data
  <2>1. Types'  BY <1>0, <1>1, <2>0, SetupBegins DEF Types
  <2> QED  BY <1>0, <1>1, <2>1, SetupBegins, RebuilderSteps DEF BeginSetup, Rebuilders
<1>2. CASE OpenStore(t)
  <2>1. /\ record' \in Index /\ store' \in {"closed", "open", "ready"} /\ faults' \in 0..MaxFaults
        /\ excused' \subseteq Memory /\ row' = row /\ ops' = ops /\ UNCHANGED locks
    BY <1>0, <1>2, OpenedIs DEF OpenStore, Well, Fault, Types
  <2>2. task[t].op \in {"repair", "start"} /\ t \in Agents \cup Digests /\ task[t].pc \in Rebuilders
    BY <1>0, <1>2 DEF OpenStore, InPlace, Rebuilders
  <2>3. Moves(t, "read") \/ Rests(t)  BY <1>0, <1>2, GoesMoves, EndsRests DEF OpenStore, Points
  <2>4. Types'  BY <1>0, <2>1, <2>3 DEF Types, Moves, Rests
  <2> QED  BY <2>1, <2>2, <2>3, <2>4, RebuilderSteps DEF Moves, Rests, Rebuilders
<1>3. CASE ReadRows(t)
  <2>1. task[t].op \in {"repair", "start"} /\ t \in Agents \cup Digests /\ task[t].pc \in Rebuilders
    BY <1>0, <1>3 DEF ReadRows, InPlace, Rebuilders
  <2>2. excused' \subseteq Memory  BY <1>0, <1>3 DEF ReadRows, Types, Busy
  <2>3. Types'  BY <1>0, <1>3, <2>2, ReadsRows DEF Types, ReadRows, data
  <2> QED  BY <1>0, <1>3, <2>1, <2>3, ReadsRows, RebuilderSteps DEF ReadRows, Rebuilders
<1>4. CASE Sync(t)
  <2>0. task[t].snapshot \in Index  BY <1>0 DEF Job, Index
  <2>1. record' \in Index  BY <1>0, <1>4, <2>0, SyncedIs, SyncFailsIs DEF Sync
  <2>2. /\ store' \in {"closed", "open", "ready"} /\ faults' \in 0..MaxFaults
        /\ excused' \subseteq Memory /\ row' = row /\ ops' = ops /\ UNCHANGED locks
    BY <1>0, <1>4 DEF Sync, Well, Fault, Types
  <2>3. task[t].op \in {"repair", "start"} /\ t \in Agents \cup Digests /\ task[t].pc \in Rebuilders
    BY <1>0, <1>4 DEF Sync, InPlace, Rebuilders
  <2>4. Moves(t, "report") \/ Rests(t)  BY <1>0, <1>4, GoesMoves, EndsRests DEF Sync, Points
  <2>5. Types'  BY <1>0, <2>1, <2>2, <2>4 DEF Types, Moves, Rests
  <2> QED  BY <2>2, <2>3, <2>4, <2>5, RebuilderSteps DEF Moves, Rests, Rebuilders
<1>5. CASE Report(t) \/ EndDigest(t)
  <2>0. \E b \in BOOLEAN : task' = [task EXCEPT ![t] = Idle(b)]
    <3>1. (t \in Digests) \in BOOLEAN  OBVIOUS
    <3> QED  BY <1>5, <3>1, Zenon DEF Report, EndDigest
  <2>1. Rests(t)  BY <1>0, <2>0, IdleRests
  <2>2. Types'  BY <1>0, <1>5, <2>1 DEF Types, Rests, Report, EndDigest, data
  <2> QED  BY <1>5, <2>1, <2>2, RebuilderSteps DEF Rests, Rebuilders, Report, EndDigest
<1> QED  BY <1>1, <1>2, <1>3, <1>4, <1>5

\* A restart puts the threads of the provider where they have nothing in hand,
\* and its own at the start of a rebuild.
LEMMA Restarted ==
  ASSUME Types, NEW t \in Thread, Restart(t)
  PROVE  /\ task' \in [Thread -> Job] /\ \A u \in Digests : task'[u] = task[u]
         /\ task'[t].pc = "open" /\ task'[t].op = "start" /\ t \in Agents
         /\ \A u \in Local : u # t => task'[u].pc = "idle" /\ task'[u].op = "none"
<1> DEFINE i == Idle(FALSE)
           j == [i EXCEPT !.pc = "open", !.op = "start"]
<1>0. task \in [Thread -> Job]  BY DEF Types
<1>1. i \in Job /\ i.pc = "idle" /\ i.op = "none"  BY IdleType
<1>2. task' = [u \in Thread |-> IF u \in Digests THEN task[u] ELSE IF u = t THEN j ELSE i]  BY DEF Restart
<1> HIDE DEF i
<1>3. j \in Job /\ j.pc = "open" /\ j.op = "start"  BY <1>1 DEF Job, Points
<1> HIDE DEF j
<1>4. t \in Agents  BY DEF Restart
<1> QED  BY <1>0, <1>1, <1>2, <1>3, <1>4 DEF Thread, Local

LEMMA RestartVInv == ASSUME VInv, UNCHANGED backend, NEW t \in Thread, Restart(t) PROVE VInv'
<1>0. Types  BY DEF VInv
<1>1. row' \in [Memory -> Row]
  <2>1. \A m \in Memory : [row[m] EXCEPT !.life = "visible"] \in Row /\ row[m] \in Row
    BY <1>0 DEF Types, Row
  <2>2. row' = [m \in Memory |-> IF Uncommitted(m) THEN [row[m] EXCEPT !.life = "visible"] ELSE row[m]]
    BY DEF Restart
  <2> QED  BY <2>1, <2>2, Zenon
<1>2. Types'
  <2>1. /\ store' = "closed" /\ faults' \in 0..MaxFaults /\ UNCHANGED <<record, ops, excused>>
    BY <1>0 DEF Types, Restart, Fault
  <2> QED  BY <1>0, <1>1, <2>1, Restarted DEF Types
<1>3. \A u \in Digests : InPlace(u)' /\ ~LockHeld(u)' /\ ~VectorsHeld(u)'
  BY <1>0, Restarted DEF VInv, Held, InPlace, LockHeld, VectorsHeld, Thread, Local
<1>4. \A u \in Local : InPlace(u)' /\ ~LockHeld(u)' /\ ~VectorsHeld(u)'
  <2> SUFFICES ASSUME NEW u \in Local PROVE InPlace(u)' /\ ~LockHeld(u)' /\ ~VectorsHeld(u)'  OBVIOUS
  <2>1. /\ u # t => task'[u].pc = "idle" /\ task'[u].op = "none"
        /\ task'[t].pc = "open" /\ task'[t].op = "start" /\ t \in Agents
    BY <1>0, Restarted
  <2>2. CASE u = t
    BY <2>1, <2>2 DEF InPlace, LockHeld, VectorsHeld, Recorders, Forgetters, Rebuilders
  <2>3. CASE u # t
    BY <2>1, <2>3 DEF InPlace, LockHeld, VectorsHeld, Recorders, Forgetters, Rebuilders
  <2> QED  BY <2>2, <2>3
<1>5. \A u \in Thread : InPlace(u)' /\ ~LockHeld(u)' /\ ~VectorsHeld(u)'
  BY <1>3, <1>4 DEF Thread, Local
<1>6. lock' = {} /\ vlock' = {}  BY DEF Restart
<1>7. Held'  BY <1>5, <1>6 DEF Held, Thread, Local
<1> QED  BY <1>2, <1>5, <1>7 DEF VInv

LEMMA VInvNext == VInv /\ [VNext]_vvars => VInv'
<1> SUFFICES ASSUME VInv, [VNext]_vvars PROVE VInv'  OBVIOUS
<1>1. CASE VNext
  <2>1. PICK t \in Thread :
            \/ \E m \in Memory :
                   StoreRow(t, m) \/ UpdateRow(t, m) \/ BeginForget(t, "delete", m) \/ BeginForget(t, "archive", m)
            \/ BeginSetup(t) \/ EndDigest(t) \/ Restart(t) \/ Step(t)
    BY <1>1, Zenon DEF VNext
  <2>2. UNCHANGED backend  BY <1>1 DEF VNext
  <2>3. CASE \E m \in Memory : StoreRow(t, m) \/ UpdateRow(t, m)
    BY <2>2, <2>3, StoringVInv
  <2>4. CASE \E m \in Memory : BeginForget(t, "delete", m) \/ BeginForget(t, "archive", m)
    <3>1. \E op \in {"delete", "archive"}, m \in Memory : BeginForget(t, op, m)  BY <2>4
    <3> QED  BY <2>2, <3>1, ForgettingVInv
  <2>5. CASE BeginSetup(t) \/ EndDigest(t)  BY <2>2, <2>5, SetupVInv
  <2>6. CASE Restart(t)  BY <2>2, <2>6, RestartVInv
  <2>7. CASE Step(t)
    <3>1. CASE Recording(t)  BY <2>2, <3>1, RecordingVInv
    <3>2. CASE Drop(t) \/ Remove(t) \/ Hide(t) \/ Commit(t)  BY <2>2, <3>2, ForgettingVInv
    <3>3. CASE OpenStore(t) \/ ReadRows(t) \/ Sync(t) \/ Report(t)  BY <2>2, <3>3, SetupVInv
    <3> QED  BY <2>7, <3>1, <3>2, <3>3 DEF Step, Recording
  <2> QED  BY <2>1, <2>3, <2>4, <2>5, <2>6, <2>7
<1>2. CASE UNCHANGED vvars
  <2>1. Types'  BY <1>2 DEF vvars, VInv, Types
  <2>2. Held'  BY <1>2 DEF vvars, VInv, Held, LockHeld, VectorsHeld
  <2>3. \A t \in Thread : InPlace(t)'  BY <1>2 DEF vvars, VInv, InPlace
  <2> QED  BY <2>1, <2>2, <2>3 DEF VInv
<1> QED  BY <1>1, <1>2

LEMMA AtMostOne ==
  ASSUME NEW S, \A a, b \in S : a = b
  PROVE  Cardinality(S) <= 1
<1>1. CASE S = {}  BY <1>1, FS_EmptySet
<1>2. CASE S # {}
  <2>1. PICK a : a \in S  BY <1>2
  <2>2. S = {a}  BY <2>1
  <2>3. Cardinality(S) = 1  BY <2>2, FS_Singleton
  <2> QED  BY <2>3
<1> QED  BY <1>1, <1>2

LEMMA VInvTypes == VInv => VTypeOK
<1> SUFFICES ASSUME VInv PROVE VTypeOK  OBVIOUS
<1>1. /\ lock = {t \in Agents : task[t].pc \in {"drop", "remove", "hide", "commit"}}
      /\ vlock = {t \in Local : task[t].pc \in {"embed", "unindex"}}
  BY DEF VInv, Held, LockHeld, VectorsHeld, Forgetters
<1>2. (\A a, b \in lock : a = b) /\ (\A a, b \in vlock : a = b)
  BY DEF VInv, Held, Thread, Local
<1>3. Cardinality(lock) <= 1 /\ Cardinality(vlock) <= 1  BY <1>2, AtMostOne
<1> QED  BY <1>1, <1>3 DEF VInv, Types, VTypeOK, Job, Row, Index

(* Every thread is at a point of its operation, and holds provider._lock or
   provider._vector_lock exactly where the code does, alone. *)
THEOREM CompanionTypesHold == VSpec => []VTypeOK
<1>1. VInit => VInv  BY InitVInv
<1>2. VInv /\ [VNext]_vvars => VInv'  BY VInvNext
<1>3. VInv => VTypeOK  BY VInvTypes
<1> QED  BY <1>1, <1>2, <1>3, PTL DEF VSpec

------------------------------------------------------------------------------
(* The refinement: what the operations under way and the rebuilds know of the
   rows, from which every step is a step of the promise. *)

Want(m) == IF row[m].life = "visible" THEN row[m].ver ELSE 0

\* An operation on a memory that is not excused is in step with row and record.
InStep(t) ==
    LET m == task[t].m IN
    /\ task[t].op \in {"store", "update"} => row[m].life = "visible"
    /\ task[t].pc \in {"mark", "index", "embed"} => row[m].ver = task[t].ver
    /\ task[t].pc # "unindex"
    /\ task[t].pc \in {"remove", "hide", "commit"} => record[m] = 0
    /\ task[t].pc = "commit" => row[m].life = "hidden"

\* It is the provider's, and nobody else is at that memory.
Alone(t) ==
    OnMemory(t) /\ task[t].m \notin excused =>
        /\ t \notin Digests /\ InStep(t)
        /\ \A u \in Thread : OnMemory(u) /\ task[u].m = task[t].m => u = t

\* Whoever has read the rows for a rebuild wants what they still say, except of
\* memories that are excused.
Looked(t) ==
    task[t].pc \in {"sync", "report"} =>
        /\ Busy \subseteq excused
        /\ \A m \in Memory : m \notin excused => task[t].snapshot[m] = Want(m)

\* While the provider rebuilds, it does not trust its companion.
Rebuilding(t) ==
    t \in Agents /\ task[t].pc \in Rebuilders =>
        /\ store # "ready"
        /\ task[t].pc = "report" => \A m \in Memory : m \notin excused => Agrees(m)

CInv == VInv /\ \A t \in Thread : Alone(t) /\ Looked(t) /\ Rebuilding(t)

OneAgent == \A a, b \in Agents : a = b

\* t begins an operation on m, goes on with it or ends it.
Works(t, m) ==
    /\ \A u \in Thread : u # t => task'[u] = task[u]
    /\ \A n \in Memory : n # m => row'[n] = row[n] /\ record'[n] = record[n]
    /\ excused' = excused \/ excused' = excused \cup {m}
    /\ store' = "ready" => store = "ready"
    /\ task[t].pc \notin Rebuilders /\ task'[t].pc \notin Rebuilders
    /\ OnMemory(t) => task[t].m = m
    /\ task'[t].op \in {"store", "update", "delete", "archive"} => task'[t].m = m
    /\ task'[t].op \in {"store", "update", "delete", "archive"} /\ m \notin excused' => t \notin Digests /\ InStep(t)'
    /\ \/ OnMemory(t)
       \/ /\ ~OnMemory(t)
          /\ m \notin excused' => t \notin Digests /\ m \notin Busy /\ Snapshots(t) = {}

\* Nobody else is at m then, and nobody has read its row.
LEMMA WorksAlone ==
  ASSUME CInv, NEW t \in Thread, NEW m \in Memory, Works(t, m), m \notin excused'
  PROVE  \A u \in Thread : u # t => /\ ~(OnMemory(u) /\ task[u].m = m)
                                    /\ task[u].pc \notin {"sync", "report"}
<1> SUFFICES ASSUME NEW u \in Thread, u # t
             PROVE  ~(OnMemory(u) /\ task[u].m = m) /\ task[u].pc \notin {"sync", "report"}
  OBVIOUS
<1>0. m \notin excused  BY DEF Works
<1>1. CASE OnMemory(t)
  <2>1. task[t].m = m  BY <1>1 DEF Works
  <2>2. Alone(t) /\ Looked(u)  BY DEF CInv
  <2>3. m \in Busy  BY <1>1, <2>1 DEF Busy
  <2> QED  BY <1>0, <1>1, <2>1, <2>2, <2>3 DEF Alone, Looked
<1>2. CASE ~OnMemory(t)
  <2>1. m \notin Busy /\ Snapshots(t) = {}  BY <1>2 DEF Works
  <2> QED  BY <2>1 DEF Busy, Snapshots
<1> QED  BY <1>1, <1>2

LEMMA WorksCInv ==
  ASSUME CInv, VInv', NEW t \in Thread, NEW m \in Memory, Works(t, m)
  PROVE  CInv'
<1>0. \A u \in Thread : Alone(u) /\ Looked(u) /\ Rebuilding(u)  BY DEF CInv
<1>a. /\ \A u \in Thread : u # t => task'[u] = task[u]
      /\ \A n \in Memory : n # m => row'[n] = row[n] /\ record'[n] = record[n]
      /\ \A n : n \notin excused' => n \notin excused
      /\ store' = "ready" => store = "ready"
      /\ task'[t].pc \notin Rebuilders
  BY DEF Works
<1>b. \A n : n \in excused' => n \in excused \/ n = m  BY DEF Works
<1>1. \A u \in Thread : Alone(u)'
  <2> SUFFICES ASSUME NEW u \in Thread,
                      task'[u].op \in {"store", "update", "delete", "archive"}, task'[u].m \notin excused'
               PROVE  /\ u \notin Digests /\ InStep(u)'
                      /\ \A v \in Thread : /\ task'[v].op \in {"store", "update", "delete", "archive"}
                                           /\ task'[v].m = task'[u].m
                                           => v = u
    BY DEF Alone, OnMemory
  <2>1. CASE u = t
    <3>1. task'[t].m = m /\ m \notin excused' /\ t \notin Digests /\ InStep(t)'  BY <2>1 DEF Works
    <3>2. \A v \in Thread : v # t => ~(OnMemory(v) /\ task[v].m = m)  BY <3>1, WorksAlone
    <3>3. \A v \in Thread : v # t => ~(task'[v].op \in {"store", "update", "delete", "archive"} /\ task'[v].m = m)
      BY <1>a, <3>2 DEF OnMemory
    <3> QED  BY <2>1, <3>1, <3>3
  <2>2. CASE u # t
    <3>1. task'[u] = task[u] /\ OnMemory(u) /\ task[u].m \notin excused  BY <1>a, <2>2 DEF OnMemory
    <3>2. /\ u \notin Digests /\ InStep(u)
          /\ \A v \in Thread : OnMemory(v) /\ task[v].m = task[u].m => v = u
      BY <1>0, <3>1 DEF Alone
    <3>3. task[u].m # m
      BY <2>2, <3>1, WorksAlone
    <3>4. task[u].m \in Memory  BY DEF CInv, VInv, Types, Job
    <3>5. row'[task[u].m] = row[task[u].m] /\ record'[task[u].m] = record[task[u].m]  BY <1>a, <3>3, <3>4
    <3>6. InStep(u)'  BY <3>1, <3>2, <3>5 DEF InStep
    <3>7. ASSUME NEW v \in Thread, task'[v].op \in {"store", "update", "delete", "archive"},
                 task'[v].m = task'[u].m
          PROVE  v = u
      <4>1. CASE v = t
        <5>1. task'[t].m = m  BY <3>7, <4>1 DEF Works
        <5> QED  BY <3>1, <3>3, <3>7, <4>1, <5>1
      <4>2. CASE v # t  BY <1>a, <3>1, <3>2, <3>7, <4>2 DEF OnMemory
      <4> QED  BY <4>1, <4>2
    <3> QED  BY <3>2, <3>6, <3>7
  <2> QED  BY <2>1, <2>2
<1>2. \A u \in Thread : Looked(u)'
  <2> SUFFICES ASSUME NEW u \in Thread, task'[u].pc \in {"sync", "report"}
               PROVE  /\ \A n \in Busy' : n \in excused'
                      /\ \A n \in Memory : n \notin excused' => task'[u].snapshot[n] = Want(n)'
    BY DEF Looked
  <2>1. u # t /\ task'[u] = task[u] /\ task[u].pc \in {"sync", "report"}  BY <1>a DEF Rebuilders
  <2>2. m \in excused'  BY <2>1, WorksAlone
  <2>3. Busy \subseteq excused /\ \A n \in Memory : n \notin excused => task[u].snapshot[n] = Want(n)
    BY <1>0, <2>1 DEF Looked
  <2>4. \A n \in Busy' : n \in Busy \/ n = m
    <3> SUFFICES ASSUME NEW n \in Busy', n # m PROVE n \in Busy  OBVIOUS
    <3>1. PICK v \in Thread : n \in Memory /\ task'[v].op \in {"store", "update", "delete", "archive"} /\ task'[v].m = n
      BY DEF Busy, OnMemory
    <3>2. v # t  BY <3>1 DEF Works
    <3> QED  BY <1>a, <3>1, <3>2 DEF Busy, OnMemory
  <2>5. excused \subseteq excused'  BY DEF Works
  <2>6. \A n \in Memory : n # m => Want(n)' = Want(n)  BY <1>a DEF Want
  <2> QED  BY <1>a, <2>1, <2>2, <2>3, <2>4, <2>5, <2>6
<1>3. \A u \in Thread : Rebuilding(u)'
  <2> SUFFICES ASSUME NEW u \in Thread, u \in Agents, task'[u].pc \in Rebuilders
               PROVE  /\ store' # "ready"
                      /\ task'[u].pc = "report" => \A n \in Memory : n \notin excused' => Agrees(n)'
    BY DEF Rebuilding
  <2>1. u # t /\ task'[u] = task[u]  BY <1>a
  <2>2. store # "ready" /\ (task[u].pc = "report" => \A n \in Memory : n \notin excused => Agrees(n))
    BY <1>0, <2>1 DEF Rebuilding
  <2>3. task'[u].pc = "report" => m \in excused'  BY <2>1, WorksAlone
  <2>4. \A n \in Memory : n # m => (Agrees(n)' <=> Agrees(n))  BY <1>a DEF Agrees
  <2> QED  BY <1>a, <2>1, <2>2, <2>3, <2>4
<1> QED  BY <1>1, <1>2, <1>3 DEF CInv

\* What such a step is to the promise.
LEMMA WorksKept ==
  ASSUME CInv, NEW t \in Thread, NEW m \in Memory, Works(t, m),
         \/ /\ store' = store /\ m \in Busy \cup Busy'
            /\ store = "ready" /\ ~Agrees(m)' => m \in Busy' \cup excused'
         \/ store' # "ready" /\ m \in Busy /\ excused' = excused /\ Busy' \subseteq Busy
  PROVE  Promise!Next
<1> DEFINE D == {n \in Memory : ~Agrees(n)}
<1>a. /\ \A u \in Thread : u # t => task'[u] = task[u]
      /\ \A n \in Memory : n # m => row'[n] = row[n] /\ record'[n] = record[n]
  BY DEF Works
<1>1. \A n \in Memory : n # m => (n \in D <=> n \in D')  BY <1>a DEF Agrees
<1>2. D \subseteq Memory /\ D' \subseteq Memory /\ (m \in D' <=> ~Agrees(m)')  OBVIOUS
<1>3. Busy \subseteq Memory /\ Busy' \subseteq Memory /\ \A n \in Memory : n # m => (n \in Busy <=> n \in Busy')
  <2>1. ASSUME NEW n \in Memory, n # m PROVE n \in Busy => n \in Busy'
    <3> SUFFICES ASSUME NEW v \in Thread, OnMemory(v), task[v].m = n PROVE n \in Busy'  BY DEF Busy
    <3>1. v # t  BY <2>1 DEF Works
    <3> QED  BY <1>a, <3>1 DEF Busy, OnMemory
  <2>2. ASSUME NEW n \in Memory, n # m PROVE n \in Busy' => n \in Busy
    <3> SUFFICES ASSUME NEW v \in Thread, task'[v].op \in {"store", "update", "delete", "archive"}, task'[v].m = n
                 PROVE n \in Busy
      BY DEF Busy, OnMemory
    <3>1. v # t  BY <2>2 DEF Works
    <3> QED  BY <1>a, <3>1 DEF Busy, OnMemory
  <2>3. Busy \subseteq Memory /\ Busy' \subseteq Memory  BY DEF Busy
  <2> QED  BY <2>1, <2>2, <2>3
<1>4. CASE /\ store' = store /\ m \in Busy \cup Busy'
           /\ store = "ready" /\ ~Agrees(m)' => m \in Busy' \cup excused'
  <2>1. excused' = excused \/ excused' = excused \cup {m}  BY DEF Works
  <2>2. Promise!Only(m, D, D') /\ Promise!Only(m, Busy, Busy')
    <3> HIDE DEF D
    <3> QED  BY <1>1, <1>2, <1>3 DEF Promise!Only
  <2> HIDE DEF D
  <2>3. Promise!Operate(m)  BY <1>2, <1>4, <2>1, <2>2 DEF Promise!Operate, D
  <2> QED  BY <2>3 DEF Promise!Next
<1>5. CASE store' # "ready" /\ m \in Busy /\ excused' = excused /\ Busy' \subseteq Busy
  <2>1. \A n \in Memory : (n \in D) # (n \in D') => n \in Busy
    <3> HIDE DEF D
    <3> QED  BY <1>1, <1>5
  <2>2. Promise!Distrust  BY <1>5, <2>1 DEF Promise!Distrust, D
  <2> QED  BY <2>2 DEF Promise!Next
<1> QED  BY <1>4, <1>5

LEMMA BusyIs ==
  ASSUME Types, NEW t \in Thread
  PROVE  /\ OnMemory(t) => task[t].m \in Busy
         /\ Rests(t) => ~OnMemory(t)' /\ Busy' \subseteq Busy
<1>1. OnMemory(t) => task[t].m \in Busy  BY DEF Types, Job, Busy
<1>2. ASSUME Rests(t) PROVE ~OnMemory(t)' /\ Busy' \subseteq Busy
  <2>1. ~OnMemory(t)'  BY <1>2 DEF Rests, OnMemory
  <2>2. \A u \in Thread : OnMemory(u)' => task'[u] = task[u] /\ OnMemory(u)
    BY <1>2, <2>1 DEF Rests, OnMemory
  <2> QED  BY <2>1, <2>2 DEF Busy, OnMemory
<1> QED  BY <1>1, <1>2

\* Who begins an operation on a memory that stays unexcused is alone there.
LEMMA BeginsIs ==
  ASSUME NEW t \in Thread, NEW m \in Memory, NEW op, VInv, Begins(t, op, m)
  PROVE  /\ excused' = excused \/ excused' = excused \cup {m}
         /\ ~OnMemory(t) /\ task[t].pc = "idle"
         /\ m \notin excused' => t \notin Digests /\ m \notin Busy /\ Snapshots(t) = {}
  BY DEF Begins, VInv, InPlace, OnMemory

LEMMA StoringKept ==
  ASSUME CInv, VInv', NEW t \in Thread, NEW m \in Memory,
         StoreRow(t, m) \/ UpdateRow(t, m) \/ \E op \in {"delete", "archive"} : BeginForget(t, op, m)
  PROVE  CInv' /\ Promise!Next
<1>0. VInv /\ Types /\ Types'  BY DEF CInv, VInv
<1>1. /\ \E op \in {"store", "update", "delete", "archive"} : Begins(t, op, m)
      /\ \A n \in Memory : n # m => row'[n] = row[n]
      /\ record' = record /\ store' = store
  BY <1>0 DEF StoreRow, UpdateRow, BeginForget, Types, data
<1>2. /\ excused' = excused \/ excused' = excused \cup {m}
      /\ ~OnMemory(t) /\ task[t].pc = "idle"
      /\ m \notin excused' => t \notin Digests /\ m \notin Busy /\ Snapshots(t) = {}
  BY <1>0, <1>1, BeginsIs
<1>3. CASE StoreRow(t, m)
  <2>1. TakesUp(t, "store", m, "index", 1)  BY <1>0, <1>3, OnTakesUp DEF StoreRow, Points
  <2>2. row'[m].life = "visible" /\ row'[m].ver = 1  BY <1>0, <1>3 DEF StoreRow, Types
  <2>3. InStep(t)'  BY <2>1, <2>2 DEF TakesUp, InStep
  <2>4. Works(t, m) /\ OnMemory(t)' /\ task'[t].m = m
    BY <1>1, <1>2, <2>1, <2>3 DEF Works, TakesUp, OnMemory, Rebuilders
  <2>5. m \in Busy'  BY <2>4 DEF Busy
  <2> QED  BY <1>1, <2>4, <2>5, WorksCInv, WorksKept
<1>4. CASE UpdateRow(t, m)
  <2>1. \E pc \in {"reread", "index"} : TakesUp(t, "update", m, pc, row[m].ver + 1)
    <3>1. row[m].ver + 1 \in 0..MaxVersion  BY <1>0, <1>4 DEF UpdateRow, Types, Row
    <3>2. \E pc \in {"reread", "index"} : On(t, "update", m, pc, row[m].ver + 1)
      BY <1>4 DEF UpdateRow
    <3> QED  BY <1>0, <3>1, <3>2, OnTakesUp DEF Points
  <2>2. row'[m].life = "visible" /\ row'[m].ver = row[m].ver + 1  BY <1>0, <1>4 DEF UpdateRow, Types, Row
  <2>3. InStep(t)'  BY <2>1, <2>2 DEF TakesUp, InStep
  <2>4. Works(t, m) /\ OnMemory(t)' /\ task'[t].m = m
    BY <1>1, <1>2, <2>1, <2>3 DEF Works, TakesUp, OnMemory, Rebuilders
  <2>5. m \in Busy'  BY <2>4 DEF Busy
  <2> QED  BY <1>1, <2>4, <2>5, WorksCInv, WorksKept
<1>5. CASE \E op \in {"delete", "archive"} : BeginForget(t, op, m)
  <2>1. \E op \in {"delete", "archive"} : TakesUp(t, op, m, "drop", 0)
    BY <1>0, <1>5, OnTakesUp DEF BeginForget, Points
  <2>2. InStep(t)'  BY <2>1 DEF TakesUp, InStep
  <2>3. Works(t, m) /\ OnMemory(t)' /\ task'[t].m = m
    BY <1>1, <1>2, <2>1, <2>2 DEF Works, TakesUp, OnMemory, Rebuilders
  <2>4. m \in Busy'  BY <2>3 DEF Busy
  <2> QED  BY <1>1, <2>3, <2>4, WorksCInv, WorksKept
<1> QED  BY <1>3, <1>4, <1>5

\* t is at m, and changes nothing but that row or record.
Touches(t, m) ==
    /\ OnMemory(t) /\ m = task[t].m /\ task[t].pc \notin Rebuilders
    /\ \A n \in Memory : n # m => row'[n] = row[n] /\ record'[n] = record[n]
    /\ excused' = excused \/ excused' = excused \cup {m}

\* Such an operation goes on,
LEMMA GoesOnKept ==
  ASSUME CInv, VInv', NEW t \in Thread, NEW m \in Memory, Touches(t, m), store' = store,
         \A u \in Thread : u # t => task'[u] = task[u],
         task'[t].op = task[t].op, task'[t].m = m, task'[t].pc \notin Rebuilders,
         m \notin excused' => InStep(t)'
  PROVE  CInv' /\ Promise!Next
<1>1. m \notin excused' => t \notin Digests  BY DEF CInv, Alone, Touches
<1>2. Works(t, m)  BY <1>1 DEF Works, Touches, OnMemory
<1>3. m \in Busy'  BY DEF Touches, OnMemory, Busy
<1> QED  BY <1>2, <1>3, WorksCInv, WorksKept

\* or ends: with a record that agrees, or the provider no longer trusts its companion.
LEMMA EndsKept ==
  ASSUME CInv, VInv', NEW t \in Thread, NEW m \in Memory, Touches(t, m), Ends(t),
         \/ store' = store /\ (store = "ready" /\ m \notin excused' => Agrees(m)')
         \/ store' # "ready" /\ excused' = excused
  PROVE  CInv' /\ Promise!Next
<1>0. Types  BY DEF CInv, VInv
<1>1. Rests(t)  BY <1>0, EndsRests
<1>2. m \in Busy /\ Busy' \subseteq Busy /\ ~OnMemory(t)'  BY <1>0, <1>1, BusyIs DEF Touches
<1>3. Works(t, m)  BY <1>1 DEF Works, Touches, Rests, Rebuilders
<1> QED  BY <1>2, <1>3, WorksCInv, WorksKept

\* Only the provider's own threads are at a memory that is not excused, and a
\* failure makes it distrust the companion they share.
LEMMA MarksLocal ==
  ASSUME CInv, NEW t \in Local, MarkNeedsRepair(t) PROVE store' # "ready"
  BY DEF MarkNeedsRepair

LEMMA RecordingKept ==
  ASSUME CInv, VInv', NEW t \in Thread, Recording(t)
  PROVE  CInv' /\ Promise!Next
<1>m. task[t].m \in Memory  BY DEF CInv, VInv, Types, Job
<1> SUFFICES ASSUME NEW m \in Memory, m = task[t].m PROVE CInv' /\ Promise!Next
  BY <1>m
<1>0. /\ VInv /\ Types /\ Types' /\ InPlace(t) /\ task[t] \in Job /\ m \in Memory /\ record \in Index
      /\ Alone(t)
  BY DEF CInv, VInv, Types, Job
<1>1. task[t].op \in {"store", "update"} /\ OnMemory(t) /\ task[t].pc \notin Rebuilders
  BY <1>0
  DEF Recording, Reread, MarkConflicts, UpdateBreaks, Enter, Embed, Unindex, InPlace, Recorders, OnMemory, Rebuilders
<1>8. CASE UpdateBreaks(t)
  <2>1. row' = row /\ record' = record /\ store' = store /\ excused' = excused \cup {m} /\ Ends(t)
    BY <1>8 DEF UpdateBreaks, data
  <2>2. Touches(t, m)  BY <1>1, <2>1 DEF Touches
  <2> QED  BY <1>0, <2>1, <2>2, EndsKept
<1> SUFFICES ASSUME ~UpdateBreaks(t) PROVE CInv' /\ Promise!Next  BY <1>8
<1>2. /\ row' = row /\ excused' = excused
      /\ \A n \in Memory : n # m => record'[n] = record[n]
  <2>1. row' = row /\ excused' = excused
    BY DEF Recording, Reread, MarkConflicts, Enter, Embed, Unindex, data
  <2>2. CASE Reread(t) \/ MarkConflicts(t) \/ Enter(t)  BY <2>1, <2>2 DEF Reread, MarkConflicts, Enter, data
  <2>3. CASE Embed(t) \/ Unindex(t)
    <3> DEFINE wanted == [record EXCEPT ![m] = task[t].ver]
    <3>1. {m} \in SUBSET Memory /\ wanted \in Index /\ \A n \in Memory : n # m => wanted[n] = record[n]
      BY <1>0 DEF Index, Job
    <3>2. \/ record' = wanted
          \/ record' = [record EXCEPT ![m] = 0]
          \/ record' \in UpsertFails(record, {m}, wanted)
          \/ record' \in {record, Without(record, {m})}
      BY <2>3 DEF Embed, Unindex, DeleteFails
    <3> HIDE DEF wanted
    <3>3. record' \in UpsertFails(record, {m}, wanted)
          => record' \in {record, Without(record, {m}), With(record, {m}, wanted)}
      BY <1>0, <3>1, UpsertFailsIs
    <3>4. \A n \in Memory : /\ Without(record, {m})[n] = IF n \in {m} THEN 0 ELSE record[n]
                            /\ With(record, {m}, wanted)[n] = IF n \in {m} THEN wanted[n] ELSE record[n]
      BY <1>0, <3>1, WithinIndex
    <3>5. \A n \in Memory : n # m => [record EXCEPT ![m] = 0][n] = record[n]  BY <1>0 DEF Index
    <3> QED  BY <2>1, <3>1, <3>2, <3>3, <3>4, <3>5
  <2> QED  BY <2>2, <2>3, <2>1 DEF Recording
<1>3. Touches(t, m)  BY <1>1, <1>2 DEF Touches
<1>4. m \notin excused => t \in Local /\ row[m].life = "visible" /\ InStep(t)
  BY <1>0, <1>1 DEF Alone, InStep, Thread, Local
<1>5. CASE Reread(t)
  <2>1. CASE Ends(t) /\ row[m].life = "absent"
    <3>1. m \in excused'  BY <1>2, <1>4, <2>1
    <3> QED  BY <1>0, <1>3, <1>5, <2>1, <3>1, EndsKept DEF Reread
  <2>2. CASE task' = [task EXCEPT ![t].pc = "mark", ![t].ver = row[m].ver]
    <3>1. /\ \A u \in Thread : u # t => task'[u] = task[u]
          /\ task'[t].op = task[t].op /\ task'[t].m = m /\ task'[t].pc = "mark" /\ task'[t].ver = row[m].ver
      BY <1>0, <2>2 DEF Types, Job
    <3>2. m \notin excused' => InStep(t)'  BY <1>1, <1>2, <1>4, <3>1 DEF InStep
    <3> QED  BY <1>0, <1>3, <1>5, <3>1, <3>2, GoesOnKept DEF Reread, Rebuilders
  <2> QED  BY <1>5, <2>1, <2>2 DEF Reread
<1>9. CASE MarkConflicts(t)
  <2>1. Moves(t, "index")  BY <1>0, <1>9, GoesMoves DEF MarkConflicts, Points
  <2>2. m \notin excused => row[m].ver = task[t].ver
    BY <1>4, <1>9 DEF InStep, MarkConflicts
  <2>3. m \notin excused' => InStep(t)'  BY <1>1, <1>2, <1>4, <2>1, <2>2 DEF InStep, Moves
  <2> QED  BY <1>0, <1>3, <1>9, <2>1, <2>3, GoesOnKept DEF MarkConflicts, Rebuilders, Moves
<1>6. CASE Enter(t)
  <2>1. CASE ~Ready(t) /\ Ends(t)
    <3>1. store = "ready" => m \in excused'  BY <1>2, <1>4, <2>1, CompanionAssumption DEF Ready, Local
    <3> QED  BY <1>0, <1>3, <1>6, <2>1, <3>1, EndsKept DEF Enter
  <2>2. CASE \E pc \in {"unindex", "embed"} : Goes(t, pc) /\ (pc = "unindex" => Life(t, task[t].m) = "hidden")
    <3>1. PICK pc \in {"unindex", "embed"} : Goes(t, pc) /\ (pc = "unindex" => Life(t, task[t].m) = "hidden")
      BY <2>2
    <3>2. Moves(t, pc)  BY <1>0, <3>1, GoesMoves DEF Points
    <3>3. m \notin excused => pc = "embed"
      BY <1>4, <3>1 DEF Life
    <3>4. record' = record /\ task[t].pc = "index"  BY <1>6 DEF Enter, data
    <3>5. m \notin excused' => InStep(t)'  BY <1>1, <1>2, <1>4, <3>2, <3>3, <3>4 DEF InStep, Moves
    <3> QED  BY <1>0, <1>3, <1>6, <3>2, <3>5, GoesOnKept DEF Enter, Rebuilders, Moves
  <2>3. CASE Goes(t, IF Life(t, task[t].m) = "hidden" THEN "unindex" ELSE "embed")  BY <2>2, <2>3
  <2>4. CASE Goes(t, "embed")  BY <2>2, <2>4
  <2> QED  BY <1>6, <2>1, <2>3, <2>4 DEF Enter
<1>7. CASE Embed(t) \/ Unindex(t)
  <2>1. Ends(t)  BY <1>7 DEF Embed, Unindex
  <2>2. CASE m \in excused
    <3>1. CASE store' = store  BY <1>0, <1>2, <1>3, <2>1, <2>2, <3>1, EndsKept
    <3>2. CASE store' # "ready"  BY <1>0, <1>2, <1>3, <2>1, <3>2, EndsKept
    <3>3. store' = store \/ store' # "ready"  BY <1>7 DEF Embed, Unindex, MarkNeedsRepair
    <3> QED  BY <3>1, <3>2, <3>3
  <2>3. CASE m \notin excused
    <3>1. t \in Local /\ Embed(t) /\ row[m].life = "visible" /\ row[m].ver = task[t].ver
      BY <1>4, <1>7, <2>3 DEF InStep, Unindex, Embed
    <3>2. CASE record' = [record EXCEPT ![m] = task[t].ver] /\ store' = store
      <4>1. Agrees(m)'  BY <1>0, <1>2, <3>1, <3>2 DEF Agrees, Index
      <4> QED  BY <1>0, <1>3, <2>1, <3>2, <4>1, EndsKept
    <3>3. CASE MarkNeedsRepair(t)
      <4>1. store' # "ready"  BY <3>1, <3>3, MarksLocal
      <4> QED  BY <1>0, <1>2, <1>3, <2>1, <4>1, EndsKept
    <3> QED  BY <3>1, <3>2, <3>3 DEF Embed
  <2> QED  BY <2>2, <2>3
<1> QED  BY <1>5, <1>6, <1>7, <1>9 DEF Recording

LEMMA ForgettingKept ==
  ASSUME CInv, VInv', NEW t \in Thread, Drop(t) \/ Remove(t) \/ Hide(t) \/ Commit(t)
  PROVE  CInv' /\ Promise!Next
<1>m. task[t].m \in Memory  BY DEF CInv, VInv, Types, Job
<1> SUFFICES ASSUME NEW m \in Memory, m = task[t].m PROVE CInv' /\ Promise!Next
  BY <1>m
<1>0. /\ VInv /\ Types /\ Types' /\ InPlace(t) /\ task[t] \in Job /\ m \in Memory /\ record \in Index
      /\ Alone(t)
  BY DEF CInv, VInv, Types, Job
<1>1. task[t].op \in {"delete", "archive"} /\ OnMemory(t) /\ task[t].pc \notin Rebuilders /\ t \in Local
  BY <1>0 DEF Drop, Remove, Hide, Commit, InPlace, Forgetters, OnMemory, Rebuilders, Local
<1>2. \A n \in Memory : n # m => row'[n] = row[n] /\ record'[n] = record[n]
  <2>1. \A n \in Memory : n # m => row'[n] = row[n]
    BY <1>0 DEF Drop, Remove, Hide, Commit, Types
  <2>2. \A n \in Memory : n # m => record'[n] = record[n]
    <3>1. \A n \in Memory : Without(record, {m})[n] = IF n \in {m} THEN 0 ELSE record[n]
      BY <1>0, WithinIndex
    <3>2. record' \in {record, [record EXCEPT ![m] = 0], Without(record, {m})}
      BY DEF Drop, Remove, Hide, Commit, DeleteFails
    <3>3. \A n \in Memory : n # m => [record EXCEPT ![m] = 0][n] = record[n]  BY <1>0 DEF Index
    <3> QED  BY <3>1, <3>2, <3>3
  <2> QED  BY <2>1, <2>2
<1>3. Touches(t, m)  BY <1>1, <1>2 DEF Touches, Drop, Remove, Hide, Commit
<1>4. m \notin excused => InStep(t)
  BY <1>0, <1>1 DEF Alone
<1>r. row \in [Memory -> Row] /\ record[m] \in Nat  BY <1>0 DEF Types, Index
<1>5. CASE Drop(t)
  <2>1. CASE record' = [record EXCEPT ![m] = 0] /\ store' = store /\ \E pc \in {"remove", "hide"} : Goes(t, pc)
    <3>1. PICK pc \in {"remove", "hide"} : Goes(t, pc)  BY <2>1
    <3>2. Moves(t, pc)  BY <1>0, <3>1, GoesMoves DEF Points
    <3>3. record'[m] = 0  BY <1>0, <2>1 DEF Index
    <3>4. InStep(t)'  BY <1>1, <3>2, <3>3 DEF InStep, Moves
    <3> QED  BY <1>0, <1>3, <2>1, <3>2, <3>4, GoesOnKept DEF Rebuilders, Moves
  <2>2. CASE MarkNeedsRepair(t) /\ Ends(t)
    <3>1. store' # "ready"  BY <1>1, <2>2, MarksLocal
    <3> QED  BY <1>0, <1>3, <1>5, <2>2, <3>1, EndsKept DEF Drop
  <2> QED  BY <1>5, <2>1, <2>2 DEF Drop
<1>6. CASE Remove(t)
  <2>1. m \notin excused' => Agrees(m)'
    <3> SUFFICES ASSUME m \notin excused' PROVE Agrees(m)'  OBVIOUS
    <3>1. m \notin excused /\ row' = [row EXCEPT ![m].life = "absent"] /\ record' = record
      BY <1>6 DEF Remove
    <3>2. record[m] = 0  BY <1>4, <1>6, <3>1 DEF InStep, Remove
    <3>3. row'[m].life = "absent"  BY <1>0, <1>r, <3>1 DEF Row
    <3> QED  BY <3>1, <3>2, <3>3 DEF Agrees
  <2> QED  BY <1>0, <1>3, <1>6, <2>1, EndsKept DEF Remove
<1>7. CASE Hide(t)
  <2>1. m \notin excused => record[m] = 0  BY <1>4, <1>7 DEF InStep, Hide
  <2>2. CASE row[m].life = "hidden" /\ Ends(t)
    <3>1. row' = row /\ record' = record /\ excused' = excused /\ store' = store
      BY <1>7, <2>2 DEF Hide
    <3>2. m \notin excused' => Agrees(m)'  BY <2>1, <2>2, <3>1 DEF Agrees
    <3> QED  BY <1>0, <1>3, <2>2, <3>1, <3>2, EndsKept
  <2>3. CASE Goes(t, "commit") /\ row' = [row EXCEPT ![m].life = "hidden"]
    <3>1. Moves(t, "commit")  BY <1>0, <2>3, GoesMoves DEF Points
    <3>2. row'[m].life = "hidden" /\ record' = record /\ excused' = excused /\ store' = store
      BY <1>0, <1>r, <1>7, <2>3 DEF Row, Hide
    <3>3. m \notin excused' => InStep(t)'  BY <1>1, <2>1, <3>1, <3>2 DEF InStep, Moves
    <3> QED  BY <1>0, <1>3, <3>1, <3>2, <3>3, GoesOnKept DEF Rebuilders, Moves
  <2> QED  BY <1>7, <2>2, <2>3 DEF Hide
<1>8. CASE Commit(t)
  <2>1. CASE UNCHANGED <<row, store>>
    <3>1. m \notin excused' => Agrees(m)'  BY <1>4, <1>8, <2>1 DEF InStep, Commit, Agrees
    <3> QED  BY <1>0, <1>3, <1>8, <2>1, <3>1, EndsKept DEF Commit
  <2>2. CASE MarkNeedsRepair(t)
    <3>1. store' # "ready"  BY <1>1, <2>2, MarksLocal
    <3> QED  BY <1>0, <1>3, <1>8, <3>1, EndsKept DEF Commit
  <2> QED  BY <1>8, <2>1, <2>2 DEF Commit
<1> QED  BY <1>5, <1>6, <1>7, <1>8

\* A step of a rebuild leaves the operations under way alone.
Rebuilds(t) ==
    /\ \A u \in Thread : u # t => task'[u] = task[u]
    /\ ~OnMemory(t) /\ ~OnMemory(t)' /\ row' = row
    /\ \/ excused \subseteq excused'
       \/ excused' = Busy /\ Snapshots(t) = {}
    /\ \A n \in Busy : n \notin excused' => (record'[n] = 0 \/ record'[n] = record[n])
    /\ Looked(t)'

LEMMA SetupSteps ==
  ASSUME CInv, VInv', NEW t \in Thread, Rebuilds(t), Rebuilding(t)',
         \A u \in Agents : u # t /\ task[u].pc \in Rebuilders =>
             /\ store' # "ready"
             /\ task[u].pc = "report" => \A n \in Memory : n \notin excused' => Agrees(n)'
  PROVE  CInv' /\ Busy' = Busy
<1>0. /\ \A u \in Thread : u # t => task'[u] = task[u]
      /\ ~OnMemory(t) /\ ~OnMemory(t)' /\ row' = row /\ Looked(t)'
  BY DEF Rebuilds
<1>1. \A u \in Thread : OnMemory(u)' <=> OnMemory(u)  BY <1>0 DEF OnMemory
<1>2. Busy' = Busy
  <2>1. \A u \in Thread : OnMemory(u) => task'[u] = task[u]  BY <1>0
  <2> QED  BY <1>1, <2>1 DEF Busy, OnMemory
<1>3. ASSUME NEW u \in Thread PROVE Alone(u)'
  <2> SUFFICES ASSUME OnMemory(u)', task'[u].m \notin excused'
               PROVE  /\ u \notin Digests /\ InStep(u)'
                      /\ \A v \in Thread : OnMemory(v)' /\ task'[v].m = task'[u].m => v = u
    BY DEF Alone, OnMemory
  <2>1. OnMemory(u) /\ u # t /\ task'[u] = task[u]  BY <1>0, <1>1
  <2>2. task[u].m \in Busy  BY <2>1 DEF CInv, VInv, Types, Job, Busy
  <2>3. task[u].m \notin excused  BY <2>1, <2>2 DEF Rebuilds
  <2>4. /\ u \notin Digests /\ InStep(u)
        /\ \A v \in Thread : OnMemory(v) /\ task[v].m = task[u].m => v = u
    BY <2>1, <2>3 DEF CInv, Alone
  <2>5. record'[task[u].m] = 0 \/ record'[task[u].m] = record[task[u].m]  BY <2>1, <2>2 DEF Rebuilds
  <2>6. InStep(u)'  BY <1>0, <2>1, <2>4, <2>5 DEF InStep
  <2>7. \A v \in Thread : OnMemory(v)' => OnMemory(v) /\ task'[v] = task[v]  BY <1>0, <1>1
  <2> QED  BY <2>1, <2>4, <2>6, <2>7
<1>4. ASSUME NEW u \in Thread PROVE Looked(u)'
  <2>1. CASE u = t  BY <1>0, <2>1
  <2>2. CASE u # t
    <3>1. task'[u] = task[u] /\ Looked(u)  BY <1>0, <2>2 DEF CInv
    <3>2. task[u].pc \in {"sync", "report"} => excused \subseteq excused'  BY <2>2 DEF Rebuilds, Snapshots
    <3>3. \A n \in Memory : Want(n)' = Want(n)  BY <1>0 DEF Want
    <3> QED  BY <1>2, <3>1, <3>2, <3>3 DEF Looked
  <2> QED  BY <2>1, <2>2
<1>5. ASSUME NEW u \in Thread PROVE Rebuilding(u)'
  <2>1. CASE u = t  BY <2>1
  <2>2. CASE u # t
    <3>1. task'[u] = task[u]  BY <1>0, <2>2
    <3> QED  BY <2>2, <3>1 DEF Rebuilding
  <2> QED  BY <2>1, <2>2
<1> QED  BY <1>2, <1>3, <1>4, <1>5 DEF CInv

\* The provider's own rebuild: there is no other agent that could trust its companion.
LEMMA OwnSetup ==
  ASSUME CInv, VInv', OneAgent, NEW t \in Agents, Rebuilds(t), Rebuilding(t)'
  PROVE  CInv' /\ Busy' = Busy
<1>1. \A u \in Agents : u = t  BY DEF OneAgent
<1>2. t \in Thread  BY DEF Thread
<1> QED  BY <1>1, <1>2, SetupSteps

\* A digest's rebuild: the provider rebuilds its own companion meanwhile, or does not.
LEMMA OtherSetup ==
  ASSUME CInv, VInv', NEW t \in Digests, Rebuilds(t), store' = store, excused \subseteq excused',
         \A n \in Memory : n \notin excused' => (Agrees(n) => Agrees(n)')
  PROVE  CInv' /\ Busy' = Busy
<1>1. t \in Thread /\ t \notin Agents  BY DEF Thread
<1>2. Rebuilding(t)'  BY <1>1 DEF Rebuilding
<1>3. ASSUME NEW u \in Agents, u # t, task[u].pc \in Rebuilders
      PROVE  /\ store' # "ready"
             /\ task[u].pc = "report" => \A n \in Memory : n \notin excused' => Agrees(n)'
  <2>1. /\ store # "ready"
        /\ task[u].pc = "report" => \A n \in Memory : n \notin excused => Agrees(n)
    BY <1>3 DEF CInv, Rebuilding, Thread
  <2> QED  BY <2>1
<1> QED  BY <1>1, <1>2, <1>3, SetupSteps

LEMMA AgentSetupKept ==
  ASSUME CInv, VInv', OneAgent, NEW t \in Agents,
         BeginSetup(t) \/ OpenStore(t) \/ ReadRows(t) \/ Sync(t) \/ Report(t)
  PROVE  CInv' /\ Promise!Next
<1>0. /\ VInv /\ Types /\ InPlace(t) /\ task[t] \in Job /\ t \in Thread /\ t \notin Digests
      /\ Looked(t) /\ Rebuilding(t) /\ ~OnMemory(t)
  <2>1. t \in Thread /\ t \notin Digests  BY DEF Thread
  <2>2. VInv /\ Types /\ InPlace(t) /\ task[t] \in Job /\ Looked(t) /\ Rebuilding(t)
    BY <2>1 DEF CInv, VInv, Types
  <2>3. ~OnMemory(t)
    BY <2>2 DEF OnMemory, InPlace, Rebuilders, BeginSetup, OpenStore, ReadRows, Sync, Report
  <2> QED  BY <2>1, <2>2, <2>3
<1>1. CASE BeginSetup(t)
  <2>1. /\ \A u \in Thread : u # t => task'[u] = task[u]
        /\ task'[t].pc = "open" /\ task'[t].op = "repair"
    BY <1>0, <1>1, SetupBegins
  <2>2. row' = row /\ record' = record /\ excused' = excused /\ store' = "closed"
    BY <1>1 DEF BeginSetup, data
  <2>3. Looked(t)' /\ Rebuilding(t)' /\ ~OnMemory(t)'  BY <2>1, <2>2 DEF Looked, Rebuilding, OnMemory
  <2>4. CInv' /\ Busy' = Busy  BY <1>0, <2>1, <2>2, <2>3, OwnSetup DEF Rebuilds
  <2>5. \A n \in Memory : Agrees(n)' = Agrees(n)  BY <2>2 DEF Agrees
  <2>6. Promise!Distrust  BY <2>2, <2>4, <2>5 DEF Promise!Distrust
  <2> QED  BY <2>4, <2>6 DEF Promise!Next
<1>2. CASE OpenStore(t)
  <2>0. store # "ready" /\ row' = row  BY <1>0, <1>2 DEF Rebuilding, OpenStore, Rebuilders
  <2>1. \/ Moves(t, "read") /\ store' = "open"
        \/ Rests(t) /\ store' = store
    BY <1>0, <1>2, GoesMoves, EndsRests DEF OpenStore, Points
  <2>2. Looked(t)' /\ Rebuilding(t)' /\ ~OnMemory(t)' /\ store' # "ready"
    BY <1>0, <2>0, <2>1 DEF Looked, Rebuilding, OnMemory, Moves, Rests, Rebuilders
  <2>3. excused' = excused /\ (record' = record \/ record' = Empty)
    BY <1>0, <1>2 DEF OpenStore, Opened
  <2>4. Busy \subseteq Memory /\ \A n \in Memory : Empty[n] = 0  BY DEF Busy, Empty
  <2>5. CInv' /\ Busy' = Busy  BY <1>0, <2>0, <2>1, <2>2, <2>3, <2>4, OwnSetup DEF Rebuilds, Moves, Rests
  <2>6. Promise!Rebuild  BY <2>0, <2>2, <2>5 DEF Promise!Rebuild
  <2> QED  BY <2>5, <2>6 DEF Promise!Next
<1>3. CASE ReadRows(t)
  <2>0. /\ store # "ready" /\ row' = row /\ record' = record /\ store' = store
        /\ excused' = IF Snapshots(t) = {} THEN Busy ELSE excused \cup Busy
    BY <1>0, <1>3 DEF Rebuilding, ReadRows, Rebuilders, data
  <2>1. /\ \A u \in Thread : u # t => task'[u] = task[u]
        /\ task'[t].pc = "sync" /\ task'[t].op = task[t].op /\ task'[t].snapshot = WantedBy(t)
    BY <1>0, <1>3, ReadsRows
  <2>2. ~OnMemory(t)'  BY <1>0, <2>1 DEF OnMemory
  <2>3. Busy' = Busy
    <3>1. \A u \in Thread : OnMemory(u)' <=> OnMemory(u)  BY <1>0, <2>1, <2>2 DEF OnMemory
    <3>2. \A u \in Thread : OnMemory(u) => task'[u] = task[u]  BY <1>0, <2>1
    <3> QED  BY <3>1, <3>2 DEF Busy, OnMemory
  <2>4. \A n \in Memory : task'[t].snapshot[n] = Want(n)'
    BY <1>0, <2>0, <2>1 DEF WantedBy, Want, Life
  <2>5. Looked(t)' /\ Rebuilding(t)'  BY <2>0, <2>1, <2>3, <2>4 DEF Looked, Rebuilding
  <2>6. CInv'  BY <1>0, <2>0, <2>1, <2>2, <2>5, OwnSetup DEF Rebuilds
  <2>7. Promise!Rebuild  BY <2>0, <2>3 DEF Promise!Rebuild
  <2> QED  BY <2>6, <2>7 DEF Promise!Next
<1>4. CASE Sync(t)
  <2> DEFINE wanted == task[t].snapshot
  <2>0. store # "ready" /\ row' = row /\ excused' = excused /\ wanted \in Index /\ Busy \subseteq excused
    BY <1>0, <1>4 DEF Rebuilding, Looked, Sync, Rebuilders, Job, Index
  <2>1. CASE record' = Synced(wanted) /\ Goes(t, "report") /\ store' = store
    <3>1. Moves(t, "report")  BY <1>0, <2>1, GoesMoves DEF Points
    <3>2. record' = wanted /\ \A n \in Memory : n \notin excused => wanted[n] = Want(n)
      BY <1>0, <1>4, <2>0, <2>1, SyncedIs DEF Looked, Sync
    <3>3. \A n \in Memory : n \notin excused' => Agrees(n)'
      BY <2>0, <3>2 DEF Agrees, Want
    <3>5. ~OnMemory(t)'  BY <1>0, <3>1 DEF OnMemory, Moves
    <3>6. Busy' = Busy
      <4>1. \A u \in Thread : OnMemory(u)' <=> OnMemory(u)  BY <1>0, <3>1, <3>5 DEF OnMemory, Moves
      <4>2. \A u \in Thread : OnMemory(u) => task'[u] = task[u]  BY <1>0, <3>1 DEF Moves
      <4> QED  BY <4>1, <4>2 DEF Busy, OnMemory
    <3>7. \A n \in Memory : Want(n)' = Want(n)  BY <2>0 DEF Want
    <3>8. Looked(t)'  BY <2>0, <3>1, <3>2, <3>6, <3>7 DEF Looked, Moves
    <3>9. Rebuilding(t)'  BY <2>0, <2>1, <3>3 DEF Rebuilding
    <3>10. CInv'  BY <1>0, <2>0, <3>1, <3>5, <3>8, <3>9, OwnSetup DEF Rebuilds, Moves
    <3>11. Promise!Rebuild  BY <2>0, <2>1, <3>6 DEF Promise!Rebuild
    <3> QED  BY <3>10, <3>11 DEF Promise!Next
  <2>2. CASE Ends(t) /\ store' = "closed"
    <3>1. Rests(t)  BY <1>0, <2>2, EndsRests
    <3>2. ~OnMemory(t)' /\ Looked(t)' /\ Rebuilding(t)'
      BY <3>1 DEF Rests, OnMemory, Looked, Rebuilding, Rebuilders
    <3>3. CInv' /\ Busy' = Busy  BY <1>0, <2>0, <3>1, <3>2, OwnSetup DEF Rebuilds, Rests
    <3>4. Promise!Rebuild  BY <2>0, <2>2, <3>3 DEF Promise!Rebuild
    <3> QED  BY <3>3, <3>4 DEF Promise!Next
  <2> QED  BY <1>4, <2>1, <2>2 DEF Sync
<1>5. CASE Report(t)
  <2>0. row' = row /\ record' = record /\ excused' = excused /\ store' = "ready"
    BY <1>0, <1>5 DEF Report, data
  <2>1. Rests(t)
    <3>1. \E b \in BOOLEAN : task' = [task EXCEPT ![t] = Idle(b)]
      <4>1. (t \in Digests) \in BOOLEAN  OBVIOUS
      <4> QED  BY <1>5, <4>1, Zenon DEF Report
    <3> QED  BY <1>0, <3>1, IdleRests
  <2>2. ~OnMemory(t)' /\ Looked(t)' /\ Rebuilding(t)'
    BY <2>1 DEF Rests, OnMemory, Looked, Rebuilding, Rebuilders
  <2>3. CInv' /\ Busy' = Busy  BY <1>0, <2>0, <2>1, <2>2, OwnSetup DEF Rebuilds, Rests
  <2>4. \A n \in Memory : Agrees(n)' = Agrees(n)  BY <2>0 DEF Agrees
  <2>5. \A n \in Memory : ~Agrees(n) => n \in excused
    BY <1>0, <1>5 DEF Report, Rebuilding, Rebuilders
  <2>6. Promise!Trust  BY <2>0, <2>3, <2>4, <2>5 DEF Promise!Trust
  <2> QED  BY <2>3, <2>6 DEF Promise!Next
<1> QED  BY <1>1, <1>2, <1>3, <1>4, <1>5

\* To the promise, a digest's rebuild is another process's.
LEMMA DigestSetupKept ==
  ASSUME CInv, VInv', NEW t \in Digests,
         BeginSetup(t) \/ EndDigest(t) \/ OpenStore(t) \/ ReadRows(t) \/ Sync(t) \/ Report(t)
  PROVE  CInv' /\ [Promise!Next]_(Promise!cvars)
<1>0. /\ VInv /\ Types /\ InPlace(t) /\ task[t] \in Job /\ t \in Thread /\ t \notin Agents
      /\ Looked(t) /\ ~OnMemory(t)
  <2>1. t \in Thread /\ t \notin Agents  BY DEF Thread
  <2>2. VInv /\ Types /\ InPlace(t) /\ task[t] \in Job /\ Looked(t)
    BY <2>1 DEF CInv, VInv, Types
  <2>3. ~OnMemory(t)
    BY <2>2 DEF OnMemory, InPlace, Rebuilders, BeginSetup, EndDigest, OpenStore, ReadRows, Sync, Report
  <2> QED  BY <2>1, <2>2, <2>3
\* A step that touches neither the index nor what is excused.
<1>1. ASSUME row' = row, record' = record, store' = store, excused' = excused,
             \A u \in Thread : u # t => task'[u] = task[u], ~OnMemory(t)', Looked(t)'
      PROVE  CInv' /\ [Promise!Next]_(Promise!cvars)
  <2>1. \A n \in Memory : Agrees(n)' = Agrees(n)  BY <1>1 DEF Agrees
  <2>2. CInv' /\ Busy' = Busy
    <3>1. Rebuilds(t)  BY <1>0, <1>1 DEF Rebuilds
    <3> QED  BY <1>1, <2>1, <3>1, OtherSetup
  <2>3. UNCHANGED Promise!cvars  BY <1>1, <2>1, <2>2 DEF Promise!cvars
  <2> QED  BY <2>2, <2>3
\* One that empties the index, or may have.
<1>2. ASSUME row' = row, store' = store, excused' = Memory,
             \A u \in Thread : u # t => task'[u] = task[u], ~OnMemory(t)', Looked(t)'
      PROVE  CInv' /\ [Promise!Next]_(Promise!cvars)
  <2>0. excused \subseteq Memory /\ Busy \subseteq Memory  BY <1>0 DEF Types, Busy
  <2>1. Rebuilds(t)  BY <1>0, <1>2, <2>0 DEF Rebuilds
  <2>2. CInv' /\ Busy' = Busy  BY <1>2, <2>0, <2>1, OtherSetup
  <2>3. Promise!Emptied  BY <1>2, <2>2 DEF Promise!Emptied
  <2> QED  BY <2>2, <2>3 DEF Promise!Next
\* One that makes records agree, except of excused memories.
<1>3. ASSUME row' = row, store' = store, excused \subseteq excused', excused' \subseteq excused \cup Busy,
             \A n \in Memory : n \notin excused => (Agrees(n) => Agrees(n)'),
             \A n \in Busy : n \notin excused' => record'[n] = record[n],
             \A u \in Thread : u # t => task'[u] = task[u], ~OnMemory(t)', Looked(t)'
      PROVE  CInv' /\ [Promise!Next]_(Promise!cvars)
  <2>1. Rebuilds(t)  BY <1>0, <1>3 DEF Rebuilds
  <2>2. CInv' /\ Busy' = Busy  BY <1>3, <2>1, OtherSetup
  <2>3. {n \in Memory : ~Agrees(n)}' \subseteq {n \in Memory : ~Agrees(n)} \cup excused  BY <1>3
  <2>4. Promise!Foreign  BY <1>3, <2>2, <2>3 DEF Promise!Foreign
  <2> QED  BY <2>2, <2>4 DEF Promise!Next
<1>4. CASE BeginSetup(t)
  <2>1. /\ \A u \in Thread : u # t => task'[u] = task[u]
        /\ task'[t].pc = "open" /\ task'[t].op = "repair"
    BY <1>0, <1>4, SetupBegins
  <2>2. Looked(t)' /\ ~OnMemory(t)'  BY <2>1 DEF Looked, OnMemory
  <2> QED  BY <1>0, <1>1, <1>4, <2>1, <2>2 DEF BeginSetup, data
<1>5. CASE EndDigest(t) \/ Report(t)
  <2>1. Rests(t)
    <3>1. \E b \in BOOLEAN : task' = [task EXCEPT ![t] = Idle(b)]
      <4>1. (t \in Digests) \in BOOLEAN  OBVIOUS
      <4> QED  BY <1>5, <4>1, Zenon DEF Report, EndDigest
    <3> QED  BY <1>0, <3>1, IdleRests
  <2>2. Looked(t)' /\ ~OnMemory(t)'  BY <2>1 DEF Looked, OnMemory, Rests
  <2>3. row' = row /\ record' = record /\ store' = store /\ excused' = excused
    BY <1>0, <1>5 DEF Report, EndDigest, data
  <2> QED  BY <1>1, <2>1, <2>2, <2>3 DEF Rests
<1>6. CASE OpenStore(t)
  <2>1. Moves(t, "read") \/ Rests(t)  BY <1>0, <1>6, GoesMoves, EndsRests DEF OpenStore, Points
  <2>2. Looked(t)' /\ ~OnMemory(t)' /\ \A u \in Thread : u # t => task'[u] = task[u]
    BY <1>0, <2>1 DEF Looked, OnMemory, Moves, Rests
  <2>3. row' = row /\ store' = store  BY <1>0, <1>6 DEF OpenStore
  <2>4. \/ record' = record /\ excused' = excused
        \/ excused' = Memory
    BY <1>6 DEF OpenStore
  <2> QED  BY <1>1, <1>2, <2>2, <2>3, <2>4
<1>7. CASE ReadRows(t)
  <2>0. /\ row' = row /\ record' = record /\ store' = store /\ excused' = excused \cup Busy
    BY <1>0, <1>7 DEF ReadRows, data
  <2>1. /\ \A u \in Thread : u # t => task'[u] = task[u]
        /\ task'[t].pc = "sync" /\ task'[t].op = task[t].op /\ task'[t].snapshot = WantedBy(t)
    BY <1>0, <1>7, ReadsRows
  <2>2. ~OnMemory(t)'  BY <1>0, <2>1 DEF OnMemory
  <2>3. Busy' = Busy
    <3>1. \A u \in Thread : OnMemory(u)' <=> OnMemory(u)  BY <1>0, <2>1, <2>2 DEF OnMemory
    <3>2. \A u \in Thread : OnMemory(u) => task'[u] = task[u]  BY <1>0, <2>1
    <3> QED  BY <3>1, <3>2 DEF Busy, OnMemory
  <2>4. \A n \in Memory : n \notin Busy => task'[t].snapshot[n] = Want(n)'
    <3> SUFFICES ASSUME NEW n \in Memory, n \notin Busy PROVE task'[t].snapshot[n] = Want(n)'  OBVIOUS
    <3>1. ~Uncommitted(n)
      <4>1. \A u \in Agents : task[u].pc = "commit" => OnMemory(u)
        BY <1>0 DEF VInv, InPlace, Forgetters, OnMemory, Thread
      <4> QED  BY <4>1 DEF Uncommitted, Busy, Thread
    <3>2. Life(t, n) = row[n].life  BY <3>1 DEF Life
    <3> QED  BY <2>0, <2>1, <3>2 DEF WantedBy, Want
  <2>5. Looked(t)'  BY <2>0, <2>1, <2>3, <2>4 DEF Looked
  <2>6. \A n \in Memory : Agrees(n)' = Agrees(n)  BY <2>0 DEF Agrees
  <2> QED  BY <1>3, <2>0, <2>1, <2>2, <2>5, <2>6
<1>8. CASE Sync(t)
  <2> DEFINE wanted == task[t].snapshot
  <2>0. /\ row' = row /\ store' = store /\ wanted \in Index /\ Busy \subseteq excused
        /\ \A n \in Memory : n \notin excused => wanted[n] = Want(n)
    BY <1>0, <1>8 DEF Looked, Sync, Job, Index
  <2>1. CASE record' = Synced(wanted) /\ Goes(t, "report") /\ excused' = excused
    <3>1. Moves(t, "report")  BY <1>0, <2>1, GoesMoves DEF Points
    <3>2. record' = wanted  BY <1>0, <2>0, <2>1, SyncedIs
    <3>3. \A n \in Memory : n \notin excused => Agrees(n)'
      BY <2>0, <3>2 DEF Agrees, Want
    <3>4. ~OnMemory(t)'  BY <1>0, <3>1 DEF OnMemory, Moves
    <3>5. Busy' = Busy
      <4>1. \A u \in Thread : OnMemory(u)' <=> OnMemory(u)  BY <1>0, <3>1, <3>4 DEF OnMemory, Moves
      <4>2. \A u \in Thread : OnMemory(u) => task'[u] = task[u]  BY <1>0, <3>1 DEF Moves
      <4> QED  BY <4>1, <4>2 DEF Busy, OnMemory
    <3>6. \A n \in Memory : Want(n)' = Want(n)  BY <2>0 DEF Want
    <3>7. Looked(t)'  BY <2>0, <2>1, <3>1, <3>5, <3>6 DEF Looked, Moves
    <3> QED  BY <1>3, <2>0, <2>1, <3>1, <3>3, <3>4, <3>7 DEF Moves
  <2>2. CASE Ends(t) /\ record' \in SyncFails(wanted) /\ excused' = IF Rewrites(wanted) THEN Memory ELSE excused
    <3>1. Rests(t)  BY <1>0, <2>2, EndsRests
    <3>2. ~OnMemory(t)' /\ Looked(t)'  BY <3>1 DEF Rests, OnMemory, Looked
    <3>3. CASE Rewrites(wanted)  BY <1>2, <2>0, <2>2, <3>1, <3>2, <3>3 DEF Rests
    <3>4. CASE ~Rewrites(wanted)
      <4>1. \A n \in Memory : record[n] = wanted[n] => record'[n] = record[n]
        BY <1>0, <2>0, <2>2, <3>4, SyncFailsIs
      <4>2. \A n \in Memory : n \notin excused => (Agrees(n) => Agrees(n)')
        BY <2>0, <4>1 DEF Agrees, Want
      <4> QED  BY <1>3, <2>0, <2>2, <3>1, <3>2, <3>4, <4>2 DEF Rests
    <3> QED  BY <3>3, <3>4
  <2> QED  BY <1>0, <1>8, <2>1, <2>2 DEF Sync
<1> QED  BY <1>4, <1>5, <1>6, <1>7, <1>8

LEMMA RestartKept ==
  ASSUME CInv, VInv', OneAgent, NEW t \in Agents, Restart(t)
  PROVE  CInv' /\ Promise!Next
<1>0. VInv /\ Types /\ t \in Thread  BY DEF CInv, VInv, Thread
<1>1. /\ \A u \in Digests : task'[u] = task[u]
      /\ task'[t].pc = "open" /\ task'[t].op = "start"
      /\ \A u \in Local : u # t => task'[u].pc = "idle" /\ task'[u].op = "none"
  BY <1>0, Restarted
<1>2. record' = record /\ excused' = excused /\ store' = "closed"  BY DEF Restart
<1>3. \A u \in Thread : OnMemory(u)' => u \in Digests /\ OnMemory(u) /\ task'[u] = task[u]
  <2> SUFFICES ASSUME NEW u \in Thread, OnMemory(u)' PROVE u \in Digests /\ OnMemory(u) /\ task'[u] = task[u]
    OBVIOUS
  <2>1. u \in Digests \/ u \in Local  BY DEF Thread, Local
  <2>2. u \notin Local
    <3>1. CASE u = t  BY <1>1, <3>1 DEF OnMemory
    <3>2. CASE u # t  BY <1>1, <3>2 DEF OnMemory
    <3> QED  BY <3>1, <3>2
  <2> QED  BY <1>1, <2>1, <2>2 DEF OnMemory
<1>4. Busy' \subseteq Busy  BY <1>3 DEF Busy, OnMemory
<1>5. \A n \in Memory : n \notin Busy => row'[n] = row[n]
  <2> SUFFICES ASSUME NEW n \in Memory, n \notin Busy PROVE row'[n] = row[n]  OBVIOUS
  <2>1. ~Uncommitted(n)
    <3>1. \A u \in Agents : task[u].pc = "commit" => OnMemory(u)
      BY <1>0 DEF VInv, InPlace, Forgetters, OnMemory, Thread
    <3> QED  BY <3>1 DEF Uncommitted, Busy, Thread
  <2> QED  BY <2>1 DEF Restart
<1>6. ASSUME NEW u \in Thread PROVE Alone(u)'
  <2>1. OnMemory(u)' => task'[u].m \in excused'
    BY <1>2, <1>3 DEF CInv, Alone
  <2> QED  BY <2>1 DEF Alone, OnMemory
<1>7. ASSUME NEW u \in Thread PROVE Looked(u)'
  <2> SUFFICES ASSUME task'[u].pc \in {"sync", "report"} PROVE Looked(u)'  BY DEF Looked
  <2>1. u \in Digests
    <3>1. CASE u = t  BY <1>1, <3>1
    <3>2. CASE u # t  BY <1>1, <3>2 DEF Thread, Local
    <3> QED  BY <3>1, <3>2
  <2>2. task'[u] = task[u] /\ Looked(u)  BY <1>1, <2>1 DEF CInv
  <2>3. Busy \subseteq excused /\ \A n \in Memory : n \notin excused => task[u].snapshot[n] = Want(n)
    BY <2>2 DEF Looked
  <2>4. \A n \in Memory : n \notin excused => Want(n)' = Want(n)  BY <1>5, <2>3 DEF Want
  <2> QED  BY <1>2, <1>4, <2>2, <2>3, <2>4 DEF Looked
<1>8. ASSUME NEW u \in Thread PROVE Rebuilding(u)'
  <2>1. u \in Agents => u = t  BY DEF OneAgent
  <2> QED  BY <1>1, <1>2, <2>1 DEF Rebuilding
<1>9. CInv'  BY <1>6, <1>7, <1>8 DEF CInv
<1>10. \A n \in Memory : n \notin Busy => Agrees(n)' = Agrees(n)  BY <1>2, <1>5 DEF Agrees
<1>11. Promise!Distrust  BY <1>2, <1>4, <1>10 DEF Promise!Distrust
<1> QED  BY <1>9, <1>11 DEF Promise!Next

LEMMA CompanionStep ==
  ASSUME CInv, OneAgent, [VNext]_vvars
  PROVE  CInv' /\ [Promise!Next]_(Promise!cvars)
<1>0. VInv'  BY VInvNext DEF CInv
<1>1. CASE VNext
  <2>1. PICK t \in Thread :
            \/ \E m \in Memory :
                   StoreRow(t, m) \/ UpdateRow(t, m) \/ BeginForget(t, "delete", m) \/ BeginForget(t, "archive", m)
            \/ BeginSetup(t) \/ EndDigest(t) \/ Restart(t) \/ Step(t)
    BY <1>1, Zenon DEF VNext
  <2>2. CASE \E m \in Memory :
                 StoreRow(t, m) \/ UpdateRow(t, m) \/ BeginForget(t, "delete", m) \/ BeginForget(t, "archive", m)
    <3>1. PICK m \in Memory :
              StoreRow(t, m) \/ UpdateRow(t, m) \/ \E op \in {"delete", "archive"} : BeginForget(t, op, m)
      BY <2>2
    <3> QED  BY <1>0, <3>1, StoringKept
  <2>3. CASE Recording(t)  BY <1>0, <2>3, RecordingKept
  <2>4. CASE Drop(t) \/ Remove(t) \/ Hide(t) \/ Commit(t)  BY <1>0, <2>4, ForgettingKept
  <2>5. CASE BeginSetup(t) \/ EndDigest(t) \/ OpenStore(t) \/ ReadRows(t) \/ Sync(t) \/ Report(t)
    <3>1. t \in Agents \cup Digests
      BY <2>5 DEF CInv, VInv, InPlace, Rebuilders, BeginSetup, EndDigest, OpenStore, ReadRows, Sync, Report
    <3>2. CASE t \in Digests  BY <1>0, <2>5, <3>2, DigestSetupKept
    <3>3. CASE t \in Agents /\ t \notin Digests
      BY <1>0, <2>5, <3>3, AgentSetupKept DEF EndDigest
    <3> QED  BY <3>1, <3>2, <3>3
  <2>6. CASE Restart(t)
    <3>1. t \in Agents  BY <2>6 DEF Restart
    <3> QED  BY <1>0, <2>6, <3>1, RestartKept
  <2> QED  BY <2>1, <2>2, <2>3, <2>4, <2>5, <2>6 DEF Step, Recording
<1>2. CASE UNCHANGED vvars
  <2>0. row' = row /\ record' = record /\ store' = store /\ task' = task /\ excused' = excused
    BY <1>2 DEF vvars
  <2>1. Busy' = Busy /\ \A n \in Memory : Agrees(n)' = Agrees(n) /\ Want(n)' = Want(n)
    BY <2>0 DEF Busy, OnMemory, Agrees, Want
  <2>2. UNCHANGED Promise!cvars  BY <2>0, <2>1 DEF Promise!cvars
  <2>3. ASSUME NEW u \in Thread PROVE Alone(u)' /\ Looked(u)' /\ Rebuilding(u)'
    <3>0. Alone(u) /\ Looked(u) /\ Rebuilding(u)  BY DEF CInv
    <3>1. Alone(u)'  BY <2>0, <3>0 DEF Alone, InStep, OnMemory
    <3>2. Looked(u)'  BY <2>0, <2>1, <3>0 DEF Looked
    <3>3. Rebuilding(u)'  BY <2>0, <2>1, <3>0 DEF Rebuilding
    <3> QED  BY <3>1, <3>2, <3>3
  <2> QED  BY <1>0, <2>2, <2>3 DEF CInv
<1> QED  BY <1>1, <1>2

LEMMA InitCInv == VInit => CInv /\ Promise!Init
<1> SUFFICES ASSUME VInit PROVE CInv /\ Promise!Init  OBVIOUS
<1>1. VInv  BY InitVInv
<1>2. \A t \in Thread : task[t].pc = "idle" /\ task[t].op = "none"
  <2>1. \A t \in Thread : task[t] = Idle(FALSE)  BY DEF VInit
  <2> QED  BY <2>1, IdleType
<1>3. \A t \in Thread : Alone(t) /\ Looked(t) /\ Rebuilding(t)
  BY <1>2 DEF Alone, Looked, Rebuilding, OnMemory, Rebuilders
<1>4. \A m \in Memory : Agrees(m)  BY DEF VInit, Agrees
<1>5. Busy = {}  BY <1>2 DEF Busy, OnMemory
<1>6. {m \in Memory : ~Agrees(m)} = {}  BY <1>4
<1>7. excused = {} /\ (store = "ready") \in BOOLEAN  BY DEF VInit
<1>8. Promise!Init  BY <1>5, <1>6, <1>7 DEF Promise!Init
<1> QED  BY <1>1, <1>3, <1>8 DEF CInv

(* With one agent at a time the companion keeps its promise, whatever the capture
   writer, any number of digests, failures of either database and deaths do. *)
THEOREM CompanionPromiseKept == ASSUME OneAgent PROVE VSpec => KeepsCompanionPromise
<1>1. VInit => CInv /\ Promise!Init  BY InitCInv
<1>2. CInv /\ [VNext]_vvars => CInv' /\ [Promise!Next]_(Promise!cvars)  BY CompanionStep
<1> QED  BY <1>1, <1>2, PTL DEF VSpec, KeepsCompanionPromise, Promise!Spec
=============================================================================
