---------------------------- MODULE ProviderProofs ----------------------------
(* Theorems about a provider, for any values of the constants.  The first part is
   about ProviderConnections, its connections and their transactions: its types and
   lock, the durability of the stores that returned, no torn store among those
   that failed, and the recovery from a locked database.  The second part is about
   ProviderLifecycle, the hooks of the host: its types, background digests in step
   with the provider, truthful flushes, and a shutdown that loses nothing. *)
EXTENDS ProviderConnections, ProviderLifecycle, SequenceTheorems, TLAPS

(***************************************************************************)
(* ProviderConnections: first what every step does to the types, the lock  *)
(* and the stores that returned; then to the stores of all others; then to *)
(* what a recovery knows of its peers.                                     *)
(***************************************************************************)

\* What a store has written so far is on disk or in its own open transaction.
Progress ==
    \A t \in Thread :
        /\ task[t].pc = "index" /\ Usable(t) =>
               <<t, "row">> \in pending[Home(t)] \cup durable
        /\ task[t].pc = "commit" /\ Usable(t) =>
               Stored(t) \subseteq pending[Home(t)] \cup durable

IInv == TypeOK /\ Progress /\ AckedIsDurable

USE ConnectionsAssumption

LEMMA ThreadFacts ==
    ASSUME NEW t \in Thread
    PROVE  Home(t) \in Provider /\ Home(t) \in Conn /\ t # Nobody /\ Stored(t) \subseteq Write
<1>1. t \in Provider \X {"agent", "writer"}  BY DEF Thread
<1>2. QED  BY <1>1 DEF Home, Conn, Stored, Write

LEMMA InitIInv == Init => IInv
<1> SUFFICES ASSUME Init PROVE IInv  OBVIOUS
<1>0. IdleTask \in Task  BY DEF IdleTask, Task, Location, Holding
<1>1. \A t \in Thread : task[t] = IdleTask  BY DEF Init
<1>2. \A t \in Thread : task[t].pc = "idle" /\ task[t].ok = FALSE  BY <1>1 DEF IdleTask
<1>3. LockMatchesControl
  BY <1>2, ThreadFacts DEF LockMatchesControl, Init, Holding
<1>4. TypeOK  BY <1>0, <1>3, ThreadFacts DEF TypeOK, Init, TxState, Conn
<1>5. Progress /\ AckedIsDurable  BY <1>2 DEF Progress, AckedIsDurable
<1>6. QED  BY <1>4, <1>5 DEF IInv

------------------------------------------------------------------------------
(* Frames: what a step of thread t leaves alone. *)

Only(t) == task' \in [Thread -> Task] /\ \A u \in Thread : u # t => task'[u] = task[u]

LEMMA OneLocation ==
    ASSUME TypeOK, NEW t \in Thread, NEW pc \in Location, Goto(t, pc)
    PROVE  Only(t) /\ task'[t].pc = pc /\ task'[t].ok = task[t].ok
<1>1. task[t] \in Task  BY DEF TypeOK
<1>2. [task[t] EXCEPT !.pc = pc] \in Task  BY <1>1 DEF Task
<1>3. task' = [task EXCEPT ![t] = [task[t] EXCEPT !.pc = pc]]  BY DEF Goto
<1>4. task \in [Thread -> Task]  BY DEF TypeOK
<1>5. task'[t] = [task[t] EXCEPT !.pc = pc]  BY <1>3, <1>4
<1>6. task'[t].pc = pc /\ task'[t].ok = task[t].ok  BY <1>1, <1>5 DEF Task
<1>7. QED  BY <1>2, <1>3, <1>4, <1>6 DEF Only

LEMMA OneTask ==
    ASSUME TypeOK, NEW t \in Thread, NEW k \in Task, task' = [task EXCEPT ![t] = k]
    PROVE  Only(t) /\ task'[t] = k
BY DEF TypeOK, Only

\* The lock moves with the section its thread enters or leaves.
LEMMA LockKept ==
    ASSUME TypeOK, NEW t \in Thread, Only(t),
           \/ UNCHANGED mutex /\ (task[t].pc \in Holding <=> task'[t].pc \in Holding)
           \/ Acquire(t) /\ task'[t].pc \in Holding
           \/ Release(t) /\ task[t].pc \in Holding /\ task'[t].pc \notin Holding
    PROVE  LockMatchesControl' /\ mutex' \in [Provider -> Thread \cup {Nobody}]
<1> USE ThreadFacts
<1>0. LockMatchesControl /\ mutex \in [Provider -> Thread \cup {Nobody}]  BY DEF TypeOK
<1>1. CASE UNCHANGED mutex /\ (task[t].pc \in Holding <=> task'[t].pc \in Holding)
  BY <1>0, <1>1 DEF LockMatchesControl, Only
<1>2. CASE Acquire(t) /\ task'[t].pc \in Holding
  BY <1>0, <1>2 DEF LockMatchesControl, Only, Acquire, Free
<1>3. CASE Release(t) /\ task[t].pc \in Holding /\ task'[t].pc \notin Holding
  BY <1>0, <1>3 DEF LockMatchesControl, Only, Release
<1>4. QED  BY <1>1, <1>2, <1>3

Writing == {"index", "commit"}

\* For the store thread u is in the middle of, nothing is lost.
Kept(u) ==
    /\ gen'[Home(u)] = gen[Home(u)]
    /\ tx[Home(u)] = "closed" => tx'[Home(u)] = "closed"
    /\ \A w \in Stored(u) : w \in pending[Home(u)] \cup durable => w \in pending'[Home(u)] \cup durable'

LEMMA ProgressKept ==
    ASSUME TypeOK, Progress, NEW t \in Thread, Only(t), task'[t].pc \notin Writing,
           \A u \in Thread : u # t /\ task[u].pc \in Writing => Kept(u)
    PROVE  Progress'
<1> SUFFICES ASSUME NEW u \in Thread
             PROVE  /\ task'[u].pc = "index" /\ Usable(u)' =>
                           <<u, "row">> \in pending'[Home(u)] \cup durable'
                    /\ task'[u].pc = "commit" /\ Usable(u)' =>
                           Stored(u) \subseteq pending'[Home(u)] \cup durable'
  BY DEF Progress
<1>1. CASE u = t  BY <1>1 DEF Writing
<1>2. CASE u # t /\ task[u].pc \in Writing
  <2>1. task'[u] = task[u] /\ Kept(u)  BY <1>2 DEF Only
  <2>2. Usable(u)' => Usable(u)  BY <2>1 DEF Usable, Kept
  <2>3. QED  BY <2>1, <2>2 DEF Progress, Kept, Stored
<1>3. CASE u # t /\ task[u].pc \notin Writing
  BY <1>3 DEF Only, Writing
<1>4. QED  BY <1>1, <1>2, <1>3

LEMMA AckedKept ==
    ASSUME AckedIsDurable, NEW t \in Thread, Only(t),
           \A u \in Thread : u # t => Stored(u) \cap durable \subseteq durable',
           task'[t].ok => Stored(t) \subseteq durable'
    PROVE  AckedIsDurable'
BY DEF AckedIsDurable, Only

\* Nobody writes on a connection whose provider's lock is free or somebody else's.
LEMMA WriterHolds ==
    ASSUME TypeOK, NEW u \in Thread, task[u].pc \in Writing
    PROVE  mutex[Home(u)] = u
BY DEF TypeOK, LockMatchesControl, Writing, Holding

------------------------------------------------------------------------------
(* What the connection operators do. *)

\* The connection whose lock t has, or which is free, is no other thread's to write on.
LEMMA OthersKept ==
    ASSUME TypeOK, NEW t \in Thread, mutex[Home(t)] = t \/ Free(Home(t)),
           \A q \in Provider : q # Home(t) =>
               gen'[q] = gen[q] /\ tx'[q] = tx[q] /\ pending'[q] = pending[q],
           \A u \in Thread : u # t => Stored(u) \cap durable \subseteq durable'
    PROVE  \A u \in Thread : u # t /\ task[u].pc \in Writing => Kept(u)
<1> USE ThreadFacts
<1> SUFFICES ASSUME NEW u \in Thread, u # t, task[u].pc \in Writing PROVE Kept(u)
  OBVIOUS
<1>1. Home(u) # Home(t)  BY WriterHolds DEF Free
<1>2. QED  BY <1>1 DEF Kept

LEMMA CommitKeeps ==
    ASSUME TypeOK, NEW p \in Provider, Commit(p)
    PROVE  /\ tx' \in [Conn -> TxState] /\ pending' \in [Provider -> SUBSET Write]
           /\ durable' \in SUBSET Write /\ durable \subseteq durable'
           /\ tx[p] # "closed" /\ gen' = gen => \A u \in Thread : Kept(u)
           /\ \A q \in Provider : q # p => tx'[q] = tx[q] /\ pending'[q] = pending[q]
<1> USE ThreadFacts DEF TypeOK
<1>1. tx' \in [Conn -> TxState] /\ pending' \in [Provider -> SUBSET Write]
  BY DEF Commit, TxState
<1>2. durable' \in SUBSET Write /\ durable \subseteq durable'  BY DEF Commit
<1>3. tx[p] # "closed" /\ gen' = gen => \A u \in Thread : Kept(u)  BY DEF Commit, Kept, Conn
<1>4. \A q \in Provider : q # p => tx'[q] = tx[q] /\ pending'[q] = pending[q]
  BY DEF Commit, Conn
<1>5. QED  BY <1>1, <1>2, <1>3, <1>4

LEMMA RollbackKeeps ==
    ASSUME TypeOK, NEW p \in Provider, Free(p), Rollback(p), UNCHANGED <<gen, durable>>
    PROVE  /\ tx' \in [Conn -> TxState] /\ pending' \in [Provider -> SUBSET Write]
           /\ \A u \in Thread : task[u].pc \in Writing => Kept(u)
<1> USE ThreadFacts
<1>1. tx' \in [Conn -> TxState] /\ pending' \in [Provider -> SUBSET Write]
  BY DEF Rollback, TxState, TypeOK
<1>2. ASSUME NEW u \in Thread, task[u].pc \in Writing PROVE Kept(u)
  <2>1. Home(u) # p  BY <1>2, WriterHolds DEF Free
  <2>2. pending'[Home(u)] = pending[Home(u)]  BY <2>1 DEF Rollback, TypeOK
  <2>3. tx'[Home(u)] = tx[Home(u)]  BY <2>1 DEF Rollback, TypeOK
  <2>4. QED  BY <2>2, <2>3 DEF Kept
<1>3. QED  BY <1>1, <1>2

LEMMA ExecuteKeeps ==
    ASSUME TypeOK, NEW t \in Thread, NEW what \in {"row", "index", "erase", "relate"},
           Execute(t, what)
    PROVE  /\ tx' \in [Conn -> TxState] /\ pending' \in [Provider -> SUBSET Write]
           /\ UNCHANGED <<gen, durable, left>> /\ touched' \in [Thread -> SUBSET Conn]
           /\ <<t, what>> \in pending'[Home(t)]
           /\ \A u \in Thread : Kept(u)
<1> USE ThreadFacts DEF TypeOK
<1>1. <<t, what>> \in Write  BY DEF Write
<1>2. tx' \in [Conn -> TxState] /\ pending' \in [Provider -> SUBSET Write]
  BY <1>1 DEF Execute, TxState
<1>3. touched' \in [Thread -> SUBSET Conn]  BY DEF Execute, Touch
<1>4. <<t, what>> \in pending'[Home(t)]  BY DEF Execute
<1>5. \A u \in Thread : Kept(u)  BY DEF Execute, Kept, Usable, Conn
<1>6. QED  BY <1>2, <1>3, <1>4, <1>5 DEF Execute

LEMMA TouchType ==
    ASSUME TypeOK, NEW c \in Conn, Touch(c)
    PROVE  touched' \in [Thread -> SUBSET Conn]
BY DEF TypeOK, Touch

------------------------------------------------------------------------------
(* Steps. *)

\* A thread's own step neither revokes a commit nor acknowledges anything.
LEMMA AckedStays ==
    ASSUME AckedIsDurable, NEW t \in Thread, Only(t), task'[t].ok => task[t].ok,
           durable \subseteq durable'
    PROVE  AckedIsDurable'
BY DEF AckedIsDurable, Only

LEMMA EndAppendStep ==
    ASSUME IInv, NEW t \in Thread, EndAppend(t)
    PROVE  IInv' /\ Only(t) /\ task'[t].pc = "idle"
<1> USE ThreadFacts
<1>0. TypeOK /\ Progress /\ AckedIsDurable  BY DEF IInv
<1>1. Only(t) /\ task'[t].pc = "idle" /\ task'[t].ok = task[t].ok
  BY <1>0, OneLocation DEF EndAppend, Location, Holding
<1>2. LockMatchesControl' /\ mutex' \in [Provider -> Thread \cup {Nobody}]
  BY <1>0, <1>1, LockKept DEF EndAppend, Holding
<1>3. /\ tx' \in [Conn -> TxState] /\ gen' \in [Provider -> Nat]
      /\ pending' \in [Provider -> SUBSET Write] /\ durable' \in SUBSET Write
      /\ touched' \in [Thread -> SUBSET Conn]
      /\ \A u \in Thread : u # t /\ task[u].pc \in Writing => Kept(u)
  BY <1>0 DEF EndAppend, TypeOK, Kept
<1>4. left' \in [Thread -> 0..MaxOps]  BY <1>0 DEF EndAppend, TypeOK
<1>5. TypeOK'  BY <1>1, <1>2, <1>3, <1>4 DEF TypeOK, Only
<1>6. Progress'
  BY <1>0, <1>1, <1>3, ProgressKept DEF Writing
<1>7. AckedIsDurable'
  BY <1>0, <1>1, AckedKept DEF EndAppend, AckedIsDurable
<1>8. QED  BY <1>1, <1>5, <1>6, <1>7 DEF IInv

LEMMA EnterStep ==
    ASSUME IInv, NEW t \in Thread, Enter(t)
    PROVE  IInv' /\ Only(t) /\ task'[t].pc = "row"
<1> USE ThreadFacts
<1>0. TypeOK /\ Progress /\ AckedIsDurable  BY DEF IInv
<1>1. Only(t) /\ task'[t].pc = "row" /\ task'[t].ok = task[t].ok
  BY <1>0, OneLocation DEF Enter, Location, Holding
<1>2. LockMatchesControl' /\ mutex' \in [Provider -> Thread \cup {Nobody}]
  BY <1>0, <1>1, LockKept DEF Enter, Holding
<1>3. /\ tx' \in [Conn -> TxState] /\ gen' \in [Provider -> Nat]
      /\ pending' \in [Provider -> SUBSET Write] /\ durable' \in SUBSET Write
      /\ touched' \in [Thread -> SUBSET Conn]
      /\ \A u \in Thread : u # t /\ task[u].pc \in Writing => Kept(u)
  BY <1>0 DEF Enter, TypeOK, Kept
<1>4. left' \in [Thread -> 0..MaxOps]  BY <1>0 DEF Enter, TypeOK
<1>5. TypeOK'  BY <1>1, <1>2, <1>3, <1>4 DEF TypeOK, Only
<1>6. Progress'
  BY <1>0, <1>1, <1>3, ProgressKept DEF Writing
<1>7. AckedIsDurable'
  BY <1>0, <1>1, AckedKept DEF Enter, AckedIsDurable
<1>8. QED  BY <1>1, <1>5, <1>6, <1>7 DEF IInv

LEMMA ReopenFailsStep ==
    ASSUME IInv, NEW t \in Thread, ReopenFails(t)
    PROVE  IInv' /\ Only(t) /\ task'[t].pc = "idle"
<1> USE ThreadFacts
<1>0. TypeOK /\ Progress /\ AckedIsDurable  BY DEF IInv
<1>1. Only(t) /\ task'[t].pc = "idle" /\ task'[t].ok = task[t].ok
  BY <1>0, OneLocation DEF ReopenFails, Location, Holding
<1>2. LockMatchesControl' /\ mutex' \in [Provider -> Thread \cup {Nobody}]
  BY <1>0, <1>1, LockKept DEF ReopenFails, Holding
<1>3. /\ tx' \in [Conn -> TxState] /\ gen' \in [Provider -> Nat]
      /\ pending' \in [Provider -> SUBSET Write] /\ durable' \in SUBSET Write
      /\ touched' \in [Thread -> SUBSET Conn]
      /\ \A u \in Thread : u # t /\ task[u].pc \in Writing => Kept(u)
  BY <1>0 DEF ReopenFails, TypeOK, Kept
<1>4. left' \in [Thread -> 0..MaxOps]  BY <1>0 DEF ReopenFails, TypeOK
<1>5. TypeOK'  BY <1>1, <1>2, <1>3, <1>4 DEF TypeOK, Only
<1>6. Progress'
  BY <1>0, <1>1, <1>3, ProgressKept DEF Writing
<1>7. AckedIsDurable'
  BY <1>0, <1>1, AckedKept DEF ReopenFails, AckedIsDurable
<1>8. QED  BY <1>1, <1>5, <1>6, <1>7 DEF IInv

LEMMA ReprobeBusyStep ==
    ASSUME IInv, NEW t \in Thread, ReprobeBusy(t)
    PROVE  IInv' /\ Only(t) /\ task'[t].pc = "idle"
<1> USE ThreadFacts
<1>0. TypeOK /\ Progress /\ AckedIsDurable  BY DEF IInv
<1>1. Only(t) /\ task'[t].pc = "idle" /\ task'[t].ok = task[t].ok
  BY <1>0, OneLocation DEF ReprobeBusy, Location, Holding
<1>2. LockMatchesControl' /\ mutex' \in [Provider -> Thread \cup {Nobody}]
  BY <1>0, <1>1, LockKept DEF ReprobeBusy, Holding
<1>3. /\ tx' \in [Conn -> TxState] /\ gen' \in [Provider -> Nat]
      /\ pending' \in [Provider -> SUBSET Write] /\ durable' \in SUBSET Write
      /\ touched' \in [Thread -> SUBSET Conn]
      /\ \A u \in Thread : u # t /\ task[u].pc \in Writing => Kept(u)
  BY <1>0 DEF ReprobeBusy, TypeOK, Kept
<1>4. left' \in [Thread -> 0..MaxOps]  BY <1>0 DEF ReprobeBusy, TypeOK
<1>5. TypeOK'  BY <1>1, <1>2, <1>3, <1>4 DEF TypeOK, Only
<1>6. Progress'
  BY <1>0, <1>1, <1>3, ProgressKept DEF Writing
<1>7. AckedIsDurable'
  BY <1>0, <1>1, AckedKept DEF ReprobeBusy, AckedIsDurable
<1>8. QED  BY <1>1, <1>5, <1>6, <1>7 DEF IInv

LEMMA InsertEntryStep ==
    ASSUME IInv, NEW t \in Thread, InsertEntry(t)
    PROVE  IInv' /\ Only(t) /\ task'[t].pc = "append"
<1> USE ThreadFacts
<1>0. TypeOK /\ Progress /\ AckedIsDurable  BY DEF IInv
<1>1. Only(t) /\ task'[t].pc = "append" /\ task'[t].ok = task[t].ok
  BY <1>0, OneLocation DEF InsertEntry, Location, Holding
<1>2. LockMatchesControl' /\ mutex' \in [Provider -> Thread \cup {Nobody}]
  BY <1>0, <1>1, LockKept DEF InsertEntry, Holding
<1>a. mutex[Home(t)] = t  BY <1>0 DEF InsertEntry, TypeOK, LockMatchesControl, Holding
<1>b. tx' \in [Conn -> TxState]  BY <1>0 DEF InsertEntry, TypeOK, TxState
<1>c. touched' \in [Thread -> SUBSET Conn]  BY <1>0, TouchType DEF InsertEntry
<1>d. \A q \in Provider : q # Home(t) => tx'[q] = tx[q]  BY <1>0 DEF InsertEntry, TypeOK, Conn
<1>3. /\ tx' \in [Conn -> TxState] /\ gen' \in [Provider -> Nat]
      /\ pending' \in [Provider -> SUBSET Write] /\ durable' \in SUBSET Write
      /\ touched' \in [Thread -> SUBSET Conn]
      /\ \A u \in Thread : u # t /\ task[u].pc \in Writing => Kept(u)
  BY <1>0, <1>a, <1>b, <1>c, <1>d, OthersKept DEF InsertEntry, TypeOK
<1>4. left' \in [Thread -> 0..MaxOps]  BY <1>0 DEF InsertEntry, TypeOK
<1>5. TypeOK'  BY <1>1, <1>2, <1>3, <1>4 DEF TypeOK, Only
<1>6. Progress'
  BY <1>0, <1>1, <1>3, ProgressKept DEF Writing
<1>7. AckedIsDurable'
  BY <1>0, <1>1, AckedKept DEF InsertEntry, AckedIsDurable
<1>8. QED  BY <1>1, <1>5, <1>6, <1>7 DEF IInv

LEMMA InsertRefusedStep ==
    ASSUME IInv, NEW t \in Thread, InsertRefused(t)
    PROVE  IInv' /\ Only(t) /\ task'[t].pc = "idle"
<1> USE ThreadFacts
<1>0. TypeOK /\ Progress /\ AckedIsDurable  BY DEF IInv
<1>1. Only(t) /\ task'[t].pc = "idle" /\ task'[t].ok = task[t].ok
  BY <1>0, OneLocation DEF InsertRefused, Location, Holding
<1>2. LockMatchesControl' /\ mutex' \in [Provider -> Thread \cup {Nobody}]
  BY <1>0, <1>1, LockKept DEF InsertRefused, Holding
<1>a. mutex[Home(t)] = t  BY <1>0 DEF InsertRefused, TypeOK, LockMatchesControl, Holding
<1>b. tx' \in [Conn -> TxState]  BY <1>0 DEF InsertRefused, TypeOK, TxState
<1>c. touched' \in [Thread -> SUBSET Conn]  BY <1>0, TouchType DEF InsertRefused
<1>d. \A q \in Provider : q # Home(t) => tx'[q] = tx[q]  BY <1>0 DEF InsertRefused, TypeOK, Conn
<1>3. /\ tx' \in [Conn -> TxState] /\ gen' \in [Provider -> Nat]
      /\ pending' \in [Provider -> SUBSET Write] /\ durable' \in SUBSET Write
      /\ touched' \in [Thread -> SUBSET Conn]
      /\ \A u \in Thread : u # t /\ task[u].pc \in Writing => Kept(u)
  BY <1>0, <1>a, <1>b, <1>c, <1>d, OthersKept DEF InsertRefused, TypeOK
<1>4. left' \in [Thread -> 0..MaxOps]  BY <1>0 DEF InsertRefused, TypeOK
<1>5. TypeOK'  BY <1>1, <1>2, <1>3, <1>4 DEF TypeOK, Only
<1>6. Progress'
  BY <1>0, <1>1, <1>3, ProgressKept DEF Writing
<1>7. AckedIsDurable'
  BY <1>0, <1>1, AckedKept DEF InsertRefused, AckedIsDurable
<1>8. QED  BY <1>1, <1>5, <1>6, <1>7 DEF IInv

LEMMA EraseEdgesStep ==
    ASSUME IInv, NEW t \in Thread, EraseEdges(t)
    PROVE  IInv' /\ Only(t) /\ task'[t].pc = "relate"
<1> USE ThreadFacts
<1>0. TypeOK /\ Progress /\ AckedIsDurable  BY DEF IInv
<1>1. Only(t) /\ task'[t].pc = "relate" /\ task'[t].ok = task[t].ok
  BY <1>0, OneLocation DEF EraseEdges, Location, Holding
<1>2. LockMatchesControl' /\ mutex' \in [Provider -> Thread \cup {Nobody}]
  BY <1>0, <1>1, LockKept DEF EraseEdges, Holding
<1>a. Execute(t, "erase")  BY DEF EraseEdges
<1>3. /\ tx' \in [Conn -> TxState] /\ gen' \in [Provider -> Nat]
      /\ pending' \in [Provider -> SUBSET Write] /\ durable' \in SUBSET Write
      /\ touched' \in [Thread -> SUBSET Conn]
      /\ \A u \in Thread : u # t /\ task[u].pc \in Writing => Kept(u)
      /\ left' = left /\ durable' = durable
  BY <1>0, <1>a, ExecuteKeeps DEF TypeOK
<1>4. left' \in [Thread -> 0..MaxOps]  BY <1>0 DEF EraseEdges, TypeOK, Execute
<1>5. TypeOK'  BY <1>1, <1>2, <1>3, <1>4 DEF TypeOK, Only
<1>6. Progress'
  BY <1>0, <1>1, <1>3, ProgressKept DEF Writing
<1>7. AckedIsDurable'
  BY <1>0, <1>1, AckedKept DEF EraseEdges, AckedIsDurable, Execute
<1>8. QED  BY <1>1, <1>5, <1>6, <1>7 DEF IInv

LEMMA InsertEdgesStep ==
    ASSUME IInv, NEW t \in Thread, InsertEdges(t)
    PROVE  IInv' /\ Only(t) /\ task'[t].pc = "settle"
<1> USE ThreadFacts
<1>0. TypeOK /\ Progress /\ AckedIsDurable  BY DEF IInv
<1>1. Only(t) /\ task'[t].pc = "settle" /\ task'[t].ok = task[t].ok
  BY <1>0, OneLocation DEF InsertEdges, Location, Holding
<1>2. LockMatchesControl' /\ mutex' \in [Provider -> Thread \cup {Nobody}]
  BY <1>0, <1>1, LockKept DEF InsertEdges, Holding
<1>a. Execute(t, "relate")  BY DEF InsertEdges
<1>3. /\ tx' \in [Conn -> TxState] /\ gen' \in [Provider -> Nat]
      /\ pending' \in [Provider -> SUBSET Write] /\ durable' \in SUBSET Write
      /\ touched' \in [Thread -> SUBSET Conn]
      /\ \A u \in Thread : u # t /\ task[u].pc \in Writing => Kept(u)
      /\ left' = left /\ durable' = durable
  BY <1>0, <1>a, ExecuteKeeps DEF TypeOK
<1>4. left' \in [Thread -> 0..MaxOps]  BY <1>0 DEF InsertEdges, TypeOK, Execute
<1>5. TypeOK'  BY <1>1, <1>2, <1>3, <1>4 DEF TypeOK, Only
<1>6. Progress'
  BY <1>0, <1>1, <1>3, ProgressKept DEF Writing
<1>7. AckedIsDurable'
  BY <1>0, <1>1, AckedKept DEF InsertEdges, AckedIsDurable, Execute
<1>8. QED  BY <1>1, <1>5, <1>6, <1>7 DEF IInv

LEMMA InsertRowStep ==
    ASSUME IInv, NEW t \in Thread, InsertRow(t)
    PROVE  IInv' /\ Only(t) /\ task'[t].pc = "index"
<1> USE ThreadFacts
<1>0. TypeOK /\ Progress /\ AckedIsDurable  BY DEF IInv
<1>1. Only(t) /\ task'[t].pc = "index" /\ task'[t].ok = task[t].ok
  BY <1>0, OneLocation DEF InsertRow, Location, Holding
<1>2. LockMatchesControl' /\ mutex' \in [Provider -> Thread \cup {Nobody}]
  BY <1>0, <1>1, LockKept DEF InsertRow, Holding
<1>a. Execute(t, "row")  BY DEF InsertRow
<1>3. /\ tx' \in [Conn -> TxState] /\ gen' \in [Provider -> Nat]
      /\ pending' \in [Provider -> SUBSET Write] /\ durable' \in SUBSET Write
      /\ touched' \in [Thread -> SUBSET Conn]
      /\ \A u \in Thread : Kept(u)
      /\ left' = left /\ durable' = durable
      /\ <<t, "row">> \in pending'[Home(t)]
  BY <1>0, <1>a, ExecuteKeeps DEF TypeOK
<1>4. left' \in [Thread -> 0..MaxOps]  BY <1>0 DEF InsertRow, TypeOK, Execute
<1>5. TypeOK'  BY <1>1, <1>2, <1>3, <1>4 DEF TypeOK, Only
<1>b. task'[t].pc = "index" => <<t, "row">> \in pending'[Home(t)] \cup durable'
  BY <1>1, <1>3
<1>c. \A u \in Thread : u # t => task'[u] = task[u]  BY <1>1 DEF Only
<1>d. \A u \in Thread : u # t /\ Usable(u)' => Usable(u)
  BY <1>3, <1>c DEF Usable, Kept
<1>6. Progress'
  <2> SUFFICES ASSUME NEW u \in Thread
               PROVE  /\ task'[u].pc = "index" /\ Usable(u)' =>
                             <<u, "row">> \in pending'[Home(u)] \cup durable'
                      /\ task'[u].pc = "commit" /\ Usable(u)' =>
                             Stored(u) \subseteq pending'[Home(u)] \cup durable'
    BY DEF Progress
  <2>1. CASE u = t  BY <2>1, <1>1, <1>b
  <2>2. CASE u # t  BY <2>2, <1>0, <1>3, <1>c, <1>d DEF Progress, Kept, Stored
  <2>3. QED  BY <2>1, <2>2
<1>7. AckedIsDurable'
  BY <1>0, <1>1, AckedKept DEF InsertRow, AckedIsDurable, Execute
<1>8. QED  BY <1>1, <1>5, <1>6, <1>7 DEF IInv

LEMMA IndexRowStep ==
    ASSUME IInv, NEW t \in Thread, IndexRow(t)
    PROVE  IInv' /\ Only(t) /\ task'[t].pc = "commit"
<1> USE ThreadFacts
<1>0. TypeOK /\ Progress /\ AckedIsDurable  BY DEF IInv
<1>1. Only(t) /\ task'[t].pc = "commit" /\ task'[t].ok = task[t].ok
  BY <1>0, OneLocation DEF IndexRow, Location, Holding
<1>2. LockMatchesControl' /\ mutex' \in [Provider -> Thread \cup {Nobody}]
  BY <1>0, <1>1, LockKept DEF IndexRow, Holding
<1>a. Execute(t, "index")  BY DEF IndexRow
<1>3. /\ tx' \in [Conn -> TxState] /\ gen' \in [Provider -> Nat]
      /\ pending' \in [Provider -> SUBSET Write] /\ durable' \in SUBSET Write
      /\ touched' \in [Thread -> SUBSET Conn]
      /\ \A u \in Thread : Kept(u)
      /\ left' = left /\ durable' = durable
      /\ <<t, "index">> \in pending'[Home(t)]
  BY <1>0, <1>a, ExecuteKeeps DEF TypeOK
<1>4. left' \in [Thread -> 0..MaxOps]  BY <1>0 DEF IndexRow, TypeOK, Execute
<1>5. TypeOK'  BY <1>1, <1>2, <1>3, <1>4 DEF TypeOK, Only
<1>b. Usable(t)' => Stored(t) \subseteq pending'[Home(t)] \cup durable'
  <2>1. task[t].pc = "index" /\ Usable(t)  BY DEF IndexRow, Execute
  <2>2. <<t, "row">> \in pending[Home(t)] \cup durable  BY <1>0, <2>1 DEF Progress
  <2>3. <<t, "row">> \in pending'[Home(t)] \cup durable'  BY <1>3, <2>2 DEF Kept, Stored
  <2>4. QED  BY <1>3, <2>3 DEF Stored
<1>c. \A u \in Thread : u # t => task'[u] = task[u]  BY <1>1 DEF Only
<1>d. \A u \in Thread : u # t /\ Usable(u)' => Usable(u)
  BY <1>3, <1>c DEF Usable, Kept
<1>6. Progress'
  <2> SUFFICES ASSUME NEW u \in Thread
               PROVE  /\ task'[u].pc = "index" /\ Usable(u)' =>
                             <<u, "row">> \in pending'[Home(u)] \cup durable'
                      /\ task'[u].pc = "commit" /\ Usable(u)' =>
                             Stored(u) \subseteq pending'[Home(u)] \cup durable'
    BY DEF Progress
  <2>1. CASE u = t  BY <2>1, <1>1, <1>b
  <2>2. CASE u # t  BY <2>2, <1>0, <1>3, <1>c, <1>d DEF Progress, Kept, Stored
  <2>3. QED  BY <2>1, <2>2
<1>7. AckedIsDurable'
  BY <1>0, <1>1, AckedKept DEF IndexRow, AckedIsDurable, Execute
<1>8. QED  BY <1>1, <1>5, <1>6, <1>7 DEF IInv

LEMMA NextEntryStep ==
    ASSUME IInv, NEW t \in Thread, NextEntry(t)
    PROVE  IInv' /\ Only(t) /\ task'[t].pc = "insert"
<1> USE ThreadFacts
<1>0. TypeOK /\ Progress /\ AckedIsDurable  BY DEF IInv
<1>1. Only(t) /\ task'[t].pc = "insert" /\ task'[t].ok = task[t].ok
  BY <1>0, OneLocation DEF NextEntry, Location, Holding
<1>2. LockMatchesControl' /\ mutex' \in [Provider -> Thread \cup {Nobody}]
  BY <1>0, <1>1, LockKept DEF NextEntry, Holding
<1>a. mutex[Home(t)] = t  BY <1>0 DEF NextEntry, TypeOK, LockMatchesControl, Holding
<1>b. touched' \in [Thread -> SUBSET Conn]  BY <1>0, TouchType DEF NextEntry, TypeOK
<1>3. /\ tx' \in [Conn -> TxState] /\ gen' \in [Provider -> Nat]
      /\ pending' \in [Provider -> SUBSET Write] /\ durable' \in SUBSET Write
      /\ touched' \in [Thread -> SUBSET Conn]
      /\ \A u \in Thread : u # t /\ task[u].pc \in Writing => Kept(u)
      /\ durable \subseteq durable'
  <2>1. CASE Commit(Home(t))
    BY <1>0, <1>a, <1>b, <2>1, CommitKeeps, OthersKept DEF NextEntry, TypeOK
  <2>2. CASE UNCHANGED <<tx, pending, durable, touched>>
    BY <1>0, <2>2 DEF NextEntry, TypeOK, Kept
  <2>3. QED  BY <2>1, <2>2 DEF NextEntry
<1>4. left' \in [Thread -> 0..MaxOps]  BY <1>0 DEF NextEntry, TypeOK
<1>5. TypeOK'  BY <1>1, <1>2, <1>3, <1>4 DEF TypeOK, Only
<1>6. Progress'
  BY <1>0, <1>1, <1>3, ProgressKept DEF Writing
<1>7. AckedIsDurable'
  <2>1. task'[t].ok => task[t].ok  BY <1>1
  <2>2. durable \subseteq durable'  BY <1>3
  <2>3. QED  BY <1>0, <1>1, <2>1, <2>2, AckedStays
<1>8. QED  BY <1>1, <1>5, <1>6, <1>7 DEF IInv

LEMMA CommitEdgesStep ==
    ASSUME IInv, NEW t \in Thread, CommitEdges(t)
    PROVE  IInv' /\ Only(t) /\ task'[t].pc = "idle"
<1> USE ThreadFacts
<1>0. TypeOK /\ Progress /\ AckedIsDurable  BY DEF IInv
<1>1. Only(t) /\ task'[t].pc = "idle" /\ task'[t].ok = task[t].ok
  BY <1>0, OneLocation DEF CommitEdges, Location, Holding
<1>2. LockMatchesControl' /\ mutex' \in [Provider -> Thread \cup {Nobody}]
  BY <1>0, <1>1, LockKept DEF CommitEdges, Holding
<1>b. touched' \in [Thread -> SUBSET Conn]  BY <1>0, TouchType DEF CommitEdges
<1>3. /\ tx' \in [Conn -> TxState] /\ gen' \in [Provider -> Nat]
      /\ pending' \in [Provider -> SUBSET Write] /\ durable' \in SUBSET Write
      /\ touched' \in [Thread -> SUBSET Conn]
      /\ \A u \in Thread : u # t /\ task[u].pc \in Writing => Kept(u)
      /\ durable \subseteq durable'
  BY <1>0, <1>b, CommitKeeps DEF CommitEdges, TypeOK, Usable
<1>4. left' \in [Thread -> 0..MaxOps]  BY <1>0 DEF CommitEdges, TypeOK
<1>5. TypeOK'  BY <1>1, <1>2, <1>3, <1>4 DEF TypeOK, Only
<1>6. Progress'
  BY <1>0, <1>1, <1>3, ProgressKept DEF Writing
<1>7. AckedIsDurable'
  <2>1. task'[t].ok => task[t].ok  BY <1>1
  <2>2. durable \subseteq durable'  BY <1>3
  <2>3. QED  BY <1>0, <1>1, <2>1, <2>2, AckedStays
<1>8. QED  BY <1>1, <1>5, <1>6, <1>7 DEF IInv

LEMMA MarkConflictsStep ==
    ASSUME IInv, NEW t \in Thread, MarkConflicts(t)
    PROVE  IInv' /\ Only(t) /\ task'[t].pc = (IF RelationSync THEN "erase" ELSE "idle")
<1> USE ThreadFacts
<1>0. TypeOK /\ Progress /\ AckedIsDurable  BY DEF IInv
<1>p. (IF RelationSync THEN "erase" ELSE "idle") \in Location \ (Holding \cup Writing)
  BY DEF Location, Holding, Writing
<1>1. Only(t) /\ task'[t].pc = (IF RelationSync THEN "erase" ELSE "idle") /\ task'[t].ok = task[t].ok
  BY <1>0, <1>p, OneLocation DEF MarkConflicts
<1>2. LockMatchesControl' /\ mutex' \in [Provider -> Thread \cup {Nobody}]
  BY <1>0, <1>1, <1>p, LockKept DEF MarkConflicts, Holding
<1>b. touched' \in [Thread -> SUBSET Conn]  BY <1>0, TouchType DEF MarkConflicts, TypeOK
<1>3. /\ tx' \in [Conn -> TxState] /\ gen' \in [Provider -> Nat]
      /\ pending' \in [Provider -> SUBSET Write] /\ durable' \in SUBSET Write
      /\ touched' \in [Thread -> SUBSET Conn]
      /\ \A u \in Thread : u # t /\ task[u].pc \in Writing => Kept(u)
      /\ durable \subseteq durable'
  <2>1. CASE Commit(Home(t))
    BY <1>0, <1>b, <2>1, CommitKeeps DEF MarkConflicts, TypeOK, Usable
  <2>2. CASE UNCHANGED <<tx, pending, durable, touched>>
    BY <1>0, <2>2 DEF MarkConflicts, TypeOK, Kept
  <2>3. QED  BY <2>1, <2>2 DEF MarkConflicts
<1>4. left' \in [Thread -> 0..MaxOps]  BY <1>0 DEF MarkConflicts, TypeOK
<1>5. TypeOK'  BY <1>1, <1>2, <1>3, <1>4 DEF TypeOK, Only
<1>6. Progress'
  BY <1>0, <1>1, <1>3, <1>p, ProgressKept
<1>7. AckedIsDurable'
  <2>1. task'[t].ok => task[t].ok  BY <1>1
  <2>2. durable \subseteq durable'  BY <1>3
  <2>3. QED  BY <1>0, <1>1, <2>1, <2>2, AckedStays
<1>8. QED  BY <1>1, <1>5, <1>6, <1>7 DEF IInv

LEMMA StartAppendStep ==
    ASSUME IInv, NEW t \in Thread, StartAppend(t)
    PROVE  IInv' /\ Only(t) /\ task'[t].pc = "insert"
<1> USE ThreadFacts
<1>0. TypeOK /\ Progress /\ AckedIsDurable  BY DEF IInv
<1>m. task[t] \in Task  BY <1>0 DEF TypeOK
<1> DEFINE k == [IdleTask EXCEPT !.pc = "insert"]
<1>k. k \in Task  BY <1>m DEF Task, IdleTask, Location, Holding
<1>f. k.pc = "insert" /\ ~k.ok
  BY <1>m DEF Task, IdleTask
<1>e. task' = [task EXCEPT ![t] = k]  BY DEF StartAppend
<1> HIDE DEF k
<1>1. Only(t) /\ task'[t].pc = "insert" /\ ~task'[t].ok
  BY <1>0, <1>k, <1>f, <1>e, OneTask
<1>2. LockMatchesControl' /\ mutex' \in [Provider -> Thread \cup {Nobody}]
  BY <1>0, <1>1, LockKept DEF StartAppend, Holding
<1>b. touched' \in [Thread -> SUBSET Conn]  BY <1>0, TouchType DEF StartAppend
<1>3. /\ tx' \in [Conn -> TxState] /\ gen' \in [Provider -> Nat]
      /\ pending' \in [Provider -> SUBSET Write] /\ durable' \in SUBSET Write
      /\ touched' \in [Thread -> SUBSET Conn]
      /\ \A u \in Thread : u # t /\ task[u].pc \in Writing => Kept(u)
      /\ durable \subseteq durable'
  BY <1>0, <1>b, CommitKeeps DEF StartAppend, TypeOK
<1>4. left' \in [Thread -> 0..MaxOps]  BY <1>0 DEF StartAppend, TypeOK, Starts
<1>5. TypeOK'  BY <1>1, <1>2, <1>3, <1>4 DEF TypeOK, Only
<1>6. Progress'
  BY <1>0, <1>1, <1>3, ProgressKept DEF Writing
<1>7. AckedIsDurable'
  <2>1. task'[t].ok => task[t].ok  BY <1>1
  <2>2. durable \subseteq durable'  BY <1>3
  <2>3. QED  BY <1>0, <1>1, <2>1, <2>2, AckedStays
<1>8. QED  BY <1>1, <1>5, <1>6, <1>7 DEF IInv

LEMMA CommitStoreStep ==
    ASSUME IInv, NEW t \in Thread, CommitStore(t)
    PROVE  IInv' /\ Only(t) /\ task'[t].pc = (IF IsAgent(t) THEN "mark" ELSE "idle")
<1> USE ThreadFacts
<1>0. TypeOK /\ Progress /\ AckedIsDurable  BY DEF IInv
<1>m. task[t] \in Task  BY <1>0 DEF TypeOK
<1> DEFINE k == [task[t] EXCEPT !.ok = TRUE, !.pc = IF IsAgent(t) THEN "mark" ELSE "idle"]
<1>k. k \in Task  BY <1>m DEF Task, IdleTask, Location, Holding
<1>f. k.pc = (IF IsAgent(t) THEN "mark" ELSE "idle") /\ k.ok
  BY <1>m DEF Task, IdleTask
<1>e. task' = [task EXCEPT ![t] = k]  BY DEF CommitStore
<1> HIDE DEF k
<1>1. Only(t) /\ task'[t].pc = (IF IsAgent(t) THEN "mark" ELSE "idle") /\ task'[t].ok
  BY <1>0, <1>k, <1>f, <1>e, OneTask
<1>2. LockMatchesControl' /\ mutex' \in [Provider -> Thread \cup {Nobody}]
  BY <1>0, <1>1, LockKept DEF CommitStore, Holding
<1>b. touched' \in [Thread -> SUBSET Conn]  BY <1>0, TouchType DEF CommitStore
<1>3. /\ tx' \in [Conn -> TxState] /\ gen' \in [Provider -> Nat]
      /\ pending' \in [Provider -> SUBSET Write] /\ durable' \in SUBSET Write
      /\ touched' \in [Thread -> SUBSET Conn]
      /\ \A u \in Thread : u # t /\ task[u].pc \in Writing => Kept(u)
      /\ durable \subseteq durable'
  BY <1>0, <1>b, CommitKeeps DEF CommitStore, TypeOK, Usable
<1>c. Stored(t) \subseteq durable'
  BY <1>0 DEF CommitStore, Commit, Progress
<1>4. left' \in [Thread -> 0..MaxOps]  BY <1>0 DEF CommitStore, TypeOK
<1>5. TypeOK'  BY <1>1, <1>2, <1>3, <1>4 DEF TypeOK, Only
<1>6. Progress'
  BY <1>0, <1>1, <1>3, ProgressKept DEF Writing
<1>7. AckedIsDurable'
  <2>1. \A u \in Thread : u # t => Stored(u) \cap durable \subseteq durable'  BY <1>3
  <2>2. QED  BY <1>0, <1>1, <1>c, <2>1, AckedKept
<1>8. QED  BY <1>1, <1>5, <1>6, <1>7 DEF IInv

LEMMA TouchDuplicateStep ==
    ASSUME IInv, NEW t \in Thread, TouchDuplicate(t),
           <<t, "row">> \in durable => Stored(t) \subseteq durable
    PROVE  IInv' /\ Only(t) /\ task'[t].pc = "idle"
<1> USE ThreadFacts
<1>0. TypeOK /\ Progress /\ AckedIsDurable  BY DEF IInv
<1>m. task[t] \in Task  BY <1>0 DEF TypeOK
<1> DEFINE k == [task[t] EXCEPT !.ok = TRUE, !.pc = "idle"]
<1>k. k \in Task  BY <1>m DEF Task, IdleTask, Location, Holding
<1>f. k.pc = "idle" /\ k.ok
  BY <1>m DEF Task, IdleTask
<1>e. task' = [task EXCEPT ![t] = k]  BY DEF TouchDuplicate
<1> HIDE DEF k
<1>1. Only(t) /\ task'[t].pc = "idle" /\ task'[t].ok
  BY <1>0, <1>k, <1>f, <1>e, OneTask
<1>2. LockMatchesControl' /\ mutex' \in [Provider -> Thread \cup {Nobody}]
  BY <1>0, <1>1, LockKept DEF TouchDuplicate, Holding
<1>b. touched' \in [Thread -> SUBSET Conn]  BY <1>0, TouchType DEF TouchDuplicate
<1>3. /\ tx' \in [Conn -> TxState] /\ gen' \in [Provider -> Nat]
      /\ pending' \in [Provider -> SUBSET Write] /\ durable' \in SUBSET Write
      /\ touched' \in [Thread -> SUBSET Conn]
      /\ \A u \in Thread : u # t /\ task[u].pc \in Writing => Kept(u)
      /\ durable \subseteq durable'
  BY <1>0, <1>b, CommitKeeps DEF TouchDuplicate, TypeOK, Usable
<1>c. Stored(t) \subseteq durable'
  BY <1>3 DEF TouchDuplicate
<1>4. left' \in [Thread -> 0..MaxOps]  BY <1>0 DEF TouchDuplicate, TypeOK
<1>5. TypeOK'  BY <1>1, <1>2, <1>3, <1>4 DEF TypeOK, Only
<1>6. Progress'
  BY <1>0, <1>1, <1>3, ProgressKept DEF Writing
<1>7. AckedIsDurable'
  <2>1. \A u \in Thread : u # t => Stored(u) \cap durable \subseteq durable'  BY <1>3
  <2>2. QED  BY <1>0, <1>1, <1>c, <2>1, AckedKept
<1>8. QED  BY <1>1, <1>5, <1>6, <1>7 DEF IInv

LEMMA StatementRefusedStep ==
    ASSUME IInv, NEW t \in Thread, StatementRefused(t)
    PROVE  IInv' /\ Only(t) /\ task'[t].pc = "failed"
<1> USE ThreadFacts
<1>0. TypeOK /\ Progress /\ AckedIsDurable  BY DEF IInv
<1> DEFINE b == task[t].pc \in {"row", "index", "mark"}
<1>l. b \in BOOLEAN  OBVIOUS
<1>m. task[t] \in Task  BY <1>0 DEF TypeOK
<1> DEFINE k == [task[t] EXCEPT !.pc = "failed", !.locked = b]
<1>k. k \in Task  BY <1>m, <1>l DEF Task, IdleTask, Location, Holding
<1>f. k.pc = "failed" /\ k.ok = task[t].ok
  BY <1>m, <1>l DEF Task, IdleTask
<1>e. task' = [task EXCEPT ![t] = k]  BY DEF StatementRefused
<1> HIDE DEF k
<1>1. Only(t) /\ task'[t].pc = "failed" /\ task'[t].ok = task[t].ok
  BY <1>0, <1>k, <1>f, <1>e, OneTask
<1>2. LockMatchesControl' /\ mutex' \in [Provider -> Thread \cup {Nobody}]
  BY <1>0, <1>1, LockKept DEF StatementRefused, Holding, Leave
<1>a. task[t].pc \in Writing => mutex[Home(t)] = t  BY <1>0, WriterHolds
<1>b. touched' \in [Thread -> SUBSET Conn]  BY <1>0, TouchType DEF StatementRefused
<1>c. tx' \in [Conn -> TxState]  BY <1>0 DEF StatementRefused, TypeOK, TxState
<1>d. \A u \in Thread : u # t /\ task[u].pc \in Writing => Kept(u)
  BY <1>0 DEF StatementRefused, TypeOK, Kept, Usable, Conn
<1>3. /\ tx' \in [Conn -> TxState] /\ gen' \in [Provider -> Nat]
      /\ pending' \in [Provider -> SUBSET Write] /\ durable' \in SUBSET Write
      /\ touched' \in [Thread -> SUBSET Conn]
      /\ \A u \in Thread : u # t /\ task[u].pc \in Writing => Kept(u)
      /\ durable \subseteq durable'
  BY <1>0, <1>b, <1>c, <1>d DEF StatementRefused, TypeOK
<1>4. left' \in [Thread -> 0..MaxOps]  BY <1>0 DEF StatementRefused, TypeOK
<1>5. TypeOK'  BY <1>1, <1>2, <1>3, <1>4 DEF TypeOK, Only
<1>6. Progress'
  BY <1>0, <1>1, <1>3, ProgressKept DEF Writing
<1>7. AckedIsDurable'
  <2>1. task'[t].ok => task[t].ok  BY <1>1
  <2>2. durable \subseteq durable'  BY <1>3
  <2>3. QED  BY <1>0, <1>1, <2>1, <2>2, AckedStays
<1>8. QED  BY <1>1, <1>5, <1>6, <1>7 DEF IInv

LEMMA StatementOnClosedStep ==
    ASSUME IInv, NEW t \in Thread, StatementOnClosed(t)
    PROVE  IInv' /\ Only(t) /\ task'[t].pc = "failed"
<1> USE ThreadFacts
<1>0. TypeOK /\ Progress /\ AckedIsDurable  BY DEF IInv
<1> DEFINE b == FALSE
<1>l. b \in BOOLEAN  OBVIOUS
<1>m. task[t] \in Task  BY <1>0 DEF TypeOK
<1> DEFINE k == [task[t] EXCEPT !.pc = "failed", !.locked = b]
<1>k. k \in Task  BY <1>m, <1>l DEF Task, IdleTask, Location, Holding
<1>f. k.pc = "failed" /\ k.ok = task[t].ok
  BY <1>m, <1>l DEF Task, IdleTask
<1>e. task' = [task EXCEPT ![t] = k]  BY DEF StatementOnClosed
<1> HIDE DEF k
<1>1. Only(t) /\ task'[t].pc = "failed" /\ task'[t].ok = task[t].ok
  BY <1>0, <1>k, <1>f, <1>e, OneTask
<1>2. LockMatchesControl' /\ mutex' \in [Provider -> Thread \cup {Nobody}]
  BY <1>0, <1>1, LockKept DEF StatementOnClosed, Holding, Leave
<1>3. /\ tx' \in [Conn -> TxState] /\ gen' \in [Provider -> Nat]
      /\ pending' \in [Provider -> SUBSET Write] /\ durable' \in SUBSET Write
      /\ touched' \in [Thread -> SUBSET Conn]
      /\ \A u \in Thread : u # t /\ task[u].pc \in Writing => Kept(u)
      /\ durable \subseteq durable'
  BY <1>0 DEF StatementOnClosed, TypeOK, Kept
<1>4. left' \in [Thread -> 0..MaxOps]  BY <1>0 DEF StatementOnClosed, TypeOK
<1>5. TypeOK'  BY <1>1, <1>2, <1>3, <1>4 DEF TypeOK, Only
<1>6. Progress'
  BY <1>0, <1>1, <1>3, ProgressKept DEF Writing
<1>7. AckedIsDurable'
  <2>1. task'[t].ok => task[t].ok  BY <1>1
  <2>2. durable \subseteq durable'  BY <1>3
  <2>3. QED  BY <1>0, <1>1, <2>1, <2>2, AckedStays
<1>8. QED  BY <1>1, <1>5, <1>6, <1>7 DEF IInv

LEMMA RollbackAfterErrorStep ==
    ASSUME IInv, NEW t \in Thread, RollbackAfterError(t)
    PROVE  IInv' /\ Only(t) /\ task'[t].pc = AfterRollback(t)
<1> USE ThreadFacts
<1>0. TypeOK /\ Progress /\ AckedIsDurable  BY DEF IInv
<1>m. task[t] \in Task  BY <1>0 DEF TypeOK
<1>p. AfterRollback(t) \in {"peers"} \cup Over  BY DEF AfterRollback, Over
<1> DEFINE k == [task[t] EXCEPT !.retry = FALSE, !.pc = AfterRollback(t),
         !.todo = IF MayRecover(t) THEN Peers(t) ELSE {}]
<1>k. k \in Task  BY <1>m, <1>p DEF Task, IdleTask, Location, Holding, Over, Peers
<1>f. k.pc = AfterRollback(t) /\ k.ok = task[t].ok
  BY <1>m DEF Task, IdleTask
<1>e. task' = [task EXCEPT ![t] = k]  BY DEF RollbackAfterError
<1> HIDE DEF k
<1>1. Only(t) /\ task'[t].pc = AfterRollback(t) /\ task'[t].ok = task[t].ok
  BY <1>0, <1>k, <1>f, <1>e, OneTask
<1>2. LockMatchesControl' /\ mutex' \in [Provider -> Thread \cup {Nobody}]
  BY <1>0, <1>1, <1>p, LockKept DEF RollbackAfterError, Holding, Over
<1>3. /\ tx' \in [Conn -> TxState] /\ gen' \in [Provider -> Nat]
      /\ pending' \in [Provider -> SUBSET Write] /\ durable' \in SUBSET Write
      /\ touched' \in [Thread -> SUBSET Conn]
      /\ \A u \in Thread : u # t /\ task[u].pc \in Writing => Kept(u)
      /\ durable \subseteq durable'
  BY <1>0, RollbackKeeps DEF RollbackAfterError, TypeOK
<1>4. left' \in [Thread -> 0..MaxOps]  BY <1>0 DEF RollbackAfterError, TypeOK
<1>5. TypeOK'  BY <1>1, <1>2, <1>3, <1>4 DEF TypeOK, Only
<1>6. Progress'
  BY <1>0, <1>1, <1>3, <1>p, ProgressKept DEF Writing, Over
<1>7. AckedIsDurable'
  <2>1. task'[t].ok => task[t].ok  BY <1>1
  <2>2. durable \subseteq durable'  BY <1>3
  <2>3. QED  BY <1>0, <1>1, <2>1, <2>2, AckedStays
<1>8. QED  BY <1>1, <1>5, <1>6, <1>7 DEF IInv

LEMMA RollbackPeerStep ==
    ASSUME IInv, NEW t \in Thread, NEW q \in Provider, RollbackPeer(t, q)
    PROVE  IInv' /\ Only(t) /\ task'[t].pc \in {"peers", "idle"}
<1> USE ThreadFacts
<1>0. TypeOK /\ Progress /\ AckedIsDurable  BY DEF IInv
<1> DEFINE l == IF tx[q] = "closed" THEN "idle" ELSE "peers"
<1>l. l \in {"peers", "idle"}  OBVIOUS
<1> HIDE DEF l
<1>m. task[t] \in Task  BY <1>0 DEF TypeOK
<1> DEFINE k == [task[t] EXCEPT !.todo = task[t].todo \ {q}, !.pc = l]
<1>k. k \in Task  BY <1>m, <1>l DEF Task, IdleTask, Location, Holding
<1>f. k.pc \in {"peers", "idle"} /\ k.ok = task[t].ok
  BY <1>m, <1>l DEF Task, IdleTask
<1>e. task' = [task EXCEPT ![t] = k]  BY DEF RollbackPeer, l
<1> HIDE DEF k
<1>1. Only(t) /\ task'[t].pc \in {"peers", "idle"} /\ task'[t].ok = task[t].ok
  BY <1>0, <1>k, <1>f, <1>e, OneTask
<1>2. LockMatchesControl' /\ mutex' \in [Provider -> Thread \cup {Nobody}]
  BY <1>0, <1>1, LockKept DEF RollbackPeer, Holding
<1>3. /\ tx' \in [Conn -> TxState] /\ gen' \in [Provider -> Nat]
      /\ pending' \in [Provider -> SUBSET Write] /\ durable' \in SUBSET Write
      /\ touched' \in [Thread -> SUBSET Conn]
      /\ \A u \in Thread : u # t /\ task[u].pc \in Writing => Kept(u)
      /\ durable \subseteq durable'
  BY <1>0, RollbackKeeps DEF RollbackPeer, TypeOK
<1>4. left' \in [Thread -> 0..MaxOps]  BY <1>0 DEF RollbackPeer, TypeOK
<1>5. TypeOK'  BY <1>1, <1>2, <1>3, <1>4 DEF TypeOK, Only
<1>6. Progress'
  BY <1>0, <1>1, <1>3, ProgressKept DEF Writing
<1>7. AckedIsDurable'
  <2>1. task'[t].ok => task[t].ok  BY <1>1
  <2>2. durable \subseteq durable'  BY <1>3
  <2>3. QED  BY <1>0, <1>1, <2>1, <2>2, AckedStays
<1>8. QED  BY <1>1, <1>5, <1>6, <1>7 DEF IInv

LEMMA ProbeOpenStep ==
    ASSUME IInv, NEW t \in Thread, ProbeOpen(t)
    PROVE  IInv' /\ Only(t) /\ task'[t].pc = "enter"
<1> USE ThreadFacts
<1>0. TypeOK /\ Progress /\ AckedIsDurable  BY DEF IInv
<1>g. gen[Home(t)] \in Nat /\ gen' = gen  BY <1>0 DEF ProbeOpen, TypeOK
<1> DEFINE k == [IdleTask EXCEPT !.pc = "enter", !.conn = gen[Home(t)], !.retry = TRUE]
<1>k. k \in Task /\ k.pc = "enter" /\ ~k.ok  BY <1>g DEF Task, IdleTask, Location
<1>e. task' = [task EXCEPT ![t] = k]  BY <1>g DEF ProbeOpen, Attempt
<1> HIDE DEF k
<1>1. Only(t) /\ task'[t].pc = "enter" /\ ~task'[t].ok
  BY <1>0, <1>k, <1>e, OneTask
<1>2. LockMatchesControl' /\ mutex' \in [Provider -> Thread \cup {Nobody}]
  BY <1>0, <1>1, LockKept DEF ProbeOpen, Holding, AllPeersDone
<1>3. /\ tx' \in [Conn -> TxState] /\ gen' \in [Provider -> Nat]
      /\ pending' \in [Provider -> SUBSET Write] /\ durable' \in SUBSET Write
      /\ touched' \in [Thread -> SUBSET Conn]
      /\ \A u \in Thread : u # t /\ task[u].pc \in Writing => Kept(u)
      /\ durable \subseteq durable'
  BY <1>0, RollbackKeeps DEF ProbeOpen, TypeOK
<1>4. left' \in [Thread -> 0..MaxOps]  BY <1>0 DEF ProbeOpen, TypeOK
<1>5. TypeOK'  BY <1>1, <1>2, <1>3, <1>4 DEF TypeOK, Only
<1>6. Progress'
  BY <1>0, <1>1, <1>3, ProgressKept DEF Writing
<1>7. AckedIsDurable'
  <2>1. task'[t].ok => task[t].ok  BY <1>1
  <2>2. durable \subseteq durable'  BY <1>3
  <2>3. QED  BY <1>0, <1>1, <2>1, <2>2, AckedStays
<1>8. QED  BY <1>1, <1>5, <1>6, <1>7 DEF IInv

LEMMA ReprobeOpenStep ==
    ASSUME IInv, NEW t \in Thread, ReprobeOpen(t)
    PROVE  IInv' /\ Only(t) /\ task'[t].pc = "enter"
<1> USE ThreadFacts
<1>0. TypeOK /\ Progress /\ AckedIsDurable  BY DEF IInv
<1>g. gen[Home(t)] \in Nat /\ gen' = gen  BY <1>0 DEF ReprobeOpen, TypeOK
<1> DEFINE k == [IdleTask EXCEPT !.pc = "enter", !.conn = gen[Home(t)], !.retry = TRUE]
<1>k. k \in Task /\ k.pc = "enter" /\ ~k.ok  BY <1>g DEF Task, IdleTask, Location
<1>e. task' = [task EXCEPT ![t] = k]  BY <1>g DEF ReprobeOpen, Attempt
<1> HIDE DEF k
<1>1. Only(t) /\ task'[t].pc = "enter" /\ ~task'[t].ok
  BY <1>0, <1>k, <1>e, OneTask
<1>2. LockMatchesControl' /\ mutex' \in [Provider -> Thread \cup {Nobody}]
  BY <1>0, <1>1, LockKept DEF ReprobeOpen, Holding, AllPeersDone
<1>3. /\ tx' \in [Conn -> TxState] /\ gen' \in [Provider -> Nat]
      /\ pending' \in [Provider -> SUBSET Write] /\ durable' \in SUBSET Write
      /\ touched' \in [Thread -> SUBSET Conn]
      /\ \A u \in Thread : u # t /\ task[u].pc \in Writing => Kept(u)
      /\ durable \subseteq durable'
  BY <1>0 DEF ReprobeOpen, TypeOK, Kept
<1>4. left' \in [Thread -> 0..MaxOps]  BY <1>0 DEF ReprobeOpen, TypeOK
<1>5. TypeOK'  BY <1>1, <1>2, <1>3, <1>4 DEF TypeOK, Only
<1>6. Progress'
  BY <1>0, <1>1, <1>3, ProgressKept DEF Writing
<1>7. AckedIsDurable'
  <2>1. task'[t].ok => task[t].ok  BY <1>1
  <2>2. durable \subseteq durable'  BY <1>3
  <2>3. QED  BY <1>0, <1>1, <2>1, <2>2, AckedStays
<1>8. QED  BY <1>1, <1>5, <1>6, <1>7 DEF IInv

LEMMA StartStoreStep ==
    ASSUME IInv, NEW t \in Thread, StartStore(t)
    PROVE  IInv' /\ Only(t) /\ task'[t].pc = "enter"
<1> USE ThreadFacts
<1>0. TypeOK /\ Progress /\ AckedIsDurable  BY DEF IInv
<1>g. gen[Home(t)] \in Nat /\ gen' = gen  BY <1>0 DEF StartStore, TypeOK
<1> DEFINE k == [IdleTask EXCEPT !.pc = "enter", !.conn = gen[Home(t)], !.retry = FALSE]
<1>k. k \in Task /\ k.pc = "enter" /\ ~k.ok  BY <1>g DEF Task, IdleTask, Location
<1>e. task' = [task EXCEPT ![t] = k]  BY <1>g DEF StartStore, Attempt
<1> HIDE DEF k
<1>1. Only(t) /\ task'[t].pc = "enter" /\ ~task'[t].ok
  BY <1>0, <1>k, <1>e, OneTask
<1>2. LockMatchesControl' /\ mutex' \in [Provider -> Thread \cup {Nobody}]
  BY <1>0, <1>1, LockKept DEF StartStore, Holding, Starts
<1>o. \A u \in Thread : u # t => Stored(u) \cap durable \subseteq durable'
  BY DEF StartStore, Stored
<1>3. /\ tx' \in [Conn -> TxState] /\ gen' \in [Provider -> Nat]
      /\ pending' \in [Provider -> SUBSET Write] /\ durable' \in SUBSET Write
      /\ touched' \in [Thread -> SUBSET Conn]
      /\ \A u \in Thread : u # t /\ task[u].pc \in Writing => Kept(u)
  BY <1>0, <1>o DEF StartStore, TypeOK, Kept
<1>4. left' \in [Thread -> 0..MaxOps]  BY <1>0 DEF StartStore, TypeOK, Starts
<1>5. TypeOK'  BY <1>1, <1>2, <1>3, <1>4 DEF TypeOK, Only
<1>6. Progress'
  BY <1>0, <1>1, <1>3, ProgressKept DEF Writing
<1>7. AckedIsDurable'
  BY <1>0, <1>1, <1>o, AckedKept
<1>8. QED  BY <1>1, <1>5, <1>6, <1>7 DEF IInv

LEMMA ProbeBusyStep ==
    ASSUME IInv, NEW t \in Thread, ProbeBusy(t)
    PROVE  IInv' /\ Only(t) /\ task'[t].pc = "reopen"
<1> USE ThreadFacts
<1>0. TypeOK /\ Progress /\ AckedIsDurable  BY DEF IInv
<1>1. Only(t) /\ task'[t].pc = "reopen" /\ task'[t].ok = task[t].ok
  BY <1>0, OneLocation DEF ProbeBusy, Location, Holding
<1>2. LockMatchesControl' /\ mutex' \in [Provider -> Thread \cup {Nobody}]
  BY <1>0, <1>1, LockKept DEF ProbeBusy, Holding
<1>a. Free(Home(t))  BY DEF ProbeBusy, Acquire
<1>b. tx' \in [Conn -> TxState] /\ pending' \in [Provider -> SUBSET Write]
  BY <1>0 DEF ProbeBusy, TypeOK, TxState
<1>d. \A q \in Provider : q # Home(t) => tx'[q] = tx[q] /\ pending'[q] = pending[q]
  BY <1>0 DEF ProbeBusy, TypeOK, Conn
<1>3. /\ tx' \in [Conn -> TxState] /\ gen' \in [Provider -> Nat]
      /\ pending' \in [Provider -> SUBSET Write] /\ durable' \in SUBSET Write
      /\ touched' \in [Thread -> SUBSET Conn]
      /\ \A u \in Thread : u # t /\ task[u].pc \in Writing => Kept(u)
      /\ durable \subseteq durable'
  BY <1>0, <1>a, <1>b, <1>d, OthersKept DEF ProbeBusy, TypeOK
<1>4. left' \in [Thread -> 0..MaxOps]  BY <1>0 DEF ProbeBusy, TypeOK
<1>5. TypeOK'  BY <1>1, <1>2, <1>3, <1>4 DEF TypeOK, Only
<1>6. Progress'
  BY <1>0, <1>1, <1>3, ProgressKept DEF Writing
<1>7. AckedIsDurable'
  <2>1. task'[t].ok => task[t].ok  BY <1>1
  <2>2. durable \subseteq durable'  BY <1>3
  <2>3. QED  BY <1>0, <1>1, <2>1, <2>2, AckedStays
<1>8. QED  BY <1>1, <1>5, <1>6, <1>7 DEF IInv

LEMMA ReopenStep ==
    ASSUME IInv, NEW t \in Thread, Reopen(t)
    PROVE  IInv' /\ Only(t) /\ task'[t].pc = "reprobe"
<1> USE ThreadFacts
<1>0. TypeOK /\ Progress /\ AckedIsDurable  BY DEF IInv
<1>1. Only(t) /\ task'[t].pc = "reprobe" /\ task'[t].ok = task[t].ok
  BY <1>0, OneLocation DEF Reopen, Location, Holding
<1>2. LockMatchesControl' /\ mutex' \in [Provider -> Thread \cup {Nobody}]
  BY <1>0, <1>1, LockKept DEF Reopen, Holding
<1>a. mutex[Home(t)] = t  BY <1>0 DEF Reopen, TypeOK, LockMatchesControl, Holding
<1>b. tx' \in [Conn -> TxState] /\ gen' \in [Provider -> Nat]
  BY <1>0 DEF Reopen, TypeOK, TxState
<1>d. \A q \in Provider : q # Home(t) => tx'[q] = tx[q] /\ gen'[q] = gen[q]
  BY <1>0 DEF Reopen, TypeOK, Conn
<1>3. /\ tx' \in [Conn -> TxState] /\ gen' \in [Provider -> Nat]
      /\ pending' \in [Provider -> SUBSET Write] /\ durable' \in SUBSET Write
      /\ touched' \in [Thread -> SUBSET Conn]
      /\ \A u \in Thread : u # t /\ task[u].pc \in Writing => Kept(u)
      /\ durable \subseteq durable'
  BY <1>0, <1>a, <1>b, <1>d, OthersKept DEF Reopen, TypeOK
<1>4. left' \in [Thread -> 0..MaxOps]  BY <1>0 DEF Reopen, TypeOK
<1>5. TypeOK'  BY <1>1, <1>2, <1>3, <1>4 DEF TypeOK, Only
<1>6. Progress'
  BY <1>0, <1>1, <1>3, ProgressKept DEF Writing
<1>7. AckedIsDurable'
  <2>1. task'[t].ok => task[t].ok  BY <1>1
  <2>2. durable \subseteq durable'  BY <1>3
  <2>3. QED  BY <1>0, <1>1, <2>1, <2>2, AckedStays
<1>8. QED  BY <1>1, <1>5, <1>6, <1>7 DEF IInv

LEMMA RunStep ==
    ASSUME IInv, NEW r \in Run, RunBegins(r) \/ RunEnds(r)
    PROVE  IInv'
<1> USE ThreadFacts
<1>0. TypeOK /\ Progress /\ AckedIsDurable  BY DEF IInv
<1>1. UNCHANGED <<mutex, gen, pending, durable, task, left, touched>>  BY DEF RunBegins, RunEnds
<1>2. tx' \in [Conn -> TxState] /\ \A p \in Provider : tx'[p] = tx[p]
  BY <1>0, ConnectionsAssumption DEF RunBegins, RunEnds, TypeOK, TxState, Conn
<1>3. TypeOK'  BY <1>0, <1>1, <1>2 DEF TypeOK, LockMatchesControl
<1>4. Progress'  BY <1>0, <1>1, <1>2 DEF Progress, Usable
<1>5. AckedIsDurable'  BY <1>0, <1>1 DEF AckedIsDurable
<1>6. QED  BY <1>3, <1>4, <1>5 DEF IInv

(* ------------------------------ atomicity ----------------------------- *)

Clean == {"append", "insert", "reopen", "reprobe"}
Unlocked == {"erase", "relate", "settle"}
AgentOnly == Clean \cup Unlocked \cup {"mark", "peers"}

OneWriter == \A c, d \in Conn : tx[c] = "write" /\ tx[d] = "write" => c = d

\* What is pending is protected by SQLite's write lock.
PendingWrites == \A p \in Provider : pending[p] # {} => tx[p] = "write"

Places ==
    \A t \in Thread :
        /\ task[t].pc \in AgentOnly => IsAgent(t)
        /\ task[t].pc \in Unlocked => RelationSync

\* Nobody commits t's connection in the middle of its store.
Alone(t) == RelationSync => IsAgent(t)

\* The store of t is on disk as a whole or not at all, and while it is written
\* it is pending on a connection that t still uses.
Intact(t) ==
    /\ task[t].pc \in Clean => pending[Home(t)] = {}
    /\ task[t].pc \in Writing => Usable(t)
    /\ \A p \in Provider : Stored(t) \cap pending[p] # {} => p = Home(t) /\ task[t].pc \in Writing
    /\ ~IsAgent(t) /\ task[t].pc \in {"enter", "row"} => Stored(t) \cap durable = {}
    /\ Alone(t) =>
           /\ Stored(t) \subseteq durable \/ Stored(t) \cap durable = {}
           /\ task[t].pc = "index" => <<t, "row">> \in pending[Home(t)] /\ Stored(t) \cap durable = {}
           /\ task[t].pc = "commit" => Stored(t) \subseteq pending[Home(t)] /\ Stored(t) \cap durable = {}

Untorn == \A t \in Thread : Intact(t)

Rest == OneWriter /\ PendingWrites /\ Places /\ Untorn
Inv == IInv /\ Rest

LEMMA AgentOfProvider ==
    ASSUME NEW t \in Thread, NEW u \in Thread, IsAgent(t), IsAgent(u), Home(t) = Home(u)
    PROVE  t = u
<1>1. t \in Provider \X {"agent", "writer"} /\ u \in Provider \X {"agent", "writer"}
  BY DEF Thread
<1>2. QED  BY <1>1 DEF IsAgent, Home

LEMMA InitInv == Init => Inv
<1> SUFFICES ASSUME Init PROVE Inv  OBVIOUS
<1>1. \A t \in Thread : task[t].pc = "idle"  BY DEF Init, IdleTask
<1>2. OneWriter /\ PendingWrites  BY DEF Init, OneWriter, PendingWrites, Conn
<1>3. Places  BY <1>1 DEF Places, AgentOnly, Clean, Unlocked
<1>4. ASSUME NEW t \in Thread PROVE Intact(t)
  <2>1. durable = {} /\ \A p \in Provider : pending[p] = {}  BY DEF Init
  <2>2. QED  BY <1>1, <2>1, ThreadFacts DEF Intact, Clean, Writing
<1>5. QED  BY <1>2, <1>3, <1>4, InitIInv DEF Inv, Rest, Untorn

------------------------------------------------------------------------------
(* Frames. *)

\* A step that changes one connection.
LEMMA OneConn ==
    ASSUME Inv, NEW c \in Conn, NEW s, tx' = [tx EXCEPT ![c] = s],
           s = "write" => CanWrite(c),
           c \in Provider => pending'[c] = {} \/ s = "write",
           \A q \in Provider : q # c => pending'[q] = pending[q]
    PROVE  OneWriter' /\ PendingWrites'
<1>1. tx \in [Conn -> TxState]  BY DEF Inv, IInv, TypeOK
<1>2. \A d \in Conn : tx'[d] = IF d = c THEN s ELSE tx[d]  BY <1>1
<1>3. OneWriter'  BY <1>2 DEF Inv, Rest, OneWriter, CanWrite
<1>4. \A q \in Provider : q \in Conn  BY DEF Conn
<1>5. PendingWrites'  BY <1>2, <1>4 DEF Inv, Rest, PendingWrites
<1>6. QED  BY <1>3, <1>5

LEMMA NoConn ==
    ASSUME Inv, UNCHANGED <<tx, pending>>
    PROVE  OneWriter' /\ PendingWrites'
BY DEF Inv, Rest, OneWriter, PendingWrites

LEMMA PlacesKept ==
    ASSUME Inv, NEW t \in Thread, Only(t), task'[t].pc \in AgentOnly => IsAgent(t),
           task'[t].pc \in Unlocked => RelationSync
    PROVE  Places'
BY DEF Inv, Rest, Places, Only

\* A step that leaves the store of u as it is.
Calm(u) ==
    /\ \A p \in Provider : Stored(u) \cap pending'[p] \subseteq pending[p]
    /\ Stored(u) \cap durable \subseteq durable'
    /\ Stored(u) \cap durable' \subseteq durable \cup pending[Home(u)]
    /\ task[u].pc \in Holding =>
           /\ gen'[Home(u)] = gen[Home(u)]
           /\ tx'[Home(u)] = "closed" => tx[Home(u)] = "closed"
           /\ \/ pending'[Home(u)] = pending[Home(u)] /\ Stored(u) \cap durable' \subseteq durable
              \/ RelationSync /\ ~IsAgent(u)

LEMMA CalmKeeps ==
    ASSUME Inv, NEW u \in Thread, task'[u] = task[u], Calm(u)
    PROVE  Intact(u)'
<1> USE ThreadFacts
<1>0. Intact(u)  BY DEF Inv, Rest, Untorn
<1>1. CASE task[u].pc \notin Holding
  <2>1. task[u].pc \notin Clean /\ task[u].pc \notin Writing  BY <1>1 DEF Clean, Writing, Holding
  <2>2. \A p \in Provider : Stored(u) \cap pending'[p] = {}
    BY <1>0, <2>1 DEF Intact, Calm
  <2>3. Stored(u) \cap durable' = Stored(u) \cap durable
    BY <1>0, <2>1 DEF Intact, Calm
  <2>4. (Stored(u) \subseteq durable => Stored(u) \subseteq durable')
        /\ (Stored(u) \cap durable = {} => Stored(u) \cap durable' = {})
    BY <2>3
  <2>5. QED  BY <1>0, <2>1, <2>2, <2>4 DEF Intact, Alone, Writing
<1>2. CASE task[u].pc \in Holding
  <2>1. task[u].pc \in Writing => Usable(u)'
    BY <1>0, <1>2 DEF Intact, Calm, Usable
  <2>2. \A p \in Provider : Stored(u) \cap pending'[p] # {} => p = Home(u) /\ task[u].pc \in Writing
    BY <1>0 DEF Intact, Calm
  <2>3. CASE pending'[Home(u)] = pending[Home(u)] /\ Stored(u) \cap durable' \subseteq durable
    <3>1. Stored(u) \cap durable' = Stored(u) \cap durable  BY <2>3 DEF Calm
    <3>2. (Stored(u) \subseteq durable => Stored(u) \subseteq durable')
          /\ (Stored(u) \cap durable = {} => Stored(u) \cap durable' = {})
      BY <3>1
    <3>3. QED  BY <1>0, <2>1, <2>2, <2>3, <3>2 DEF Intact, Alone
  <2>4. CASE RelationSync /\ ~IsAgent(u)
    <3>1. task[u].pc \notin Clean  BY <2>4 DEF Inv, Rest, Places, AgentOnly
    <3>2. ~Alone(u)  BY <2>4 DEF Alone
    <3>3. task[u].pc \in {"enter", "row"} => Stored(u) \cap durable' = {}
      BY <1>0, <2>4 DEF Intact, Calm, Writing
    <3>4. QED  BY <2>1, <2>2, <3>1, <3>2, <3>3 DEF Intact, Alone
  <2>5. QED  BY <1>2, <2>3, <2>4 DEF Calm
<1>3. QED  BY <1>1, <1>2

\* A step on the connection of q, by a thread that has q's lock or finds it free.
LEMMA LockedCalm ==
    ASSUME Inv, NEW t \in Thread, NEW q \in Provider, mutex[q] = t \/ Free(q),
           \A p \in Provider : p # q =>
               gen'[p] = gen[p] /\ tx'[p] = tx[p] /\ pending'[p] = pending[p],
           pending'[q] \subseteq pending[q] \cup ({t} \X {"row", "index", "erase", "relate"}),
           \A u \in Thread : u # t => Stored(u) \cap durable \subseteq durable',
           \A u \in Thread : u # t => Stored(u) \cap durable' \subseteq durable \cup pending[q]
    PROVE  \A u \in Thread : u # t => Calm(u)
<1> USE ThreadFacts
<1> SUFFICES ASSUME NEW u \in Thread, u # t PROVE Calm(u)  OBVIOUS
<1>0. Intact(u)  BY DEF Inv, Rest, Untorn
<1>1. \A p \in Provider : Stored(u) \cap pending'[p] \subseteq pending[p]
  BY DEF Stored
<1>2. Stored(u) \cap pending[q] # {} => q = Home(u)  BY <1>0 DEF Intact
<1>3. Stored(u) \cap durable' \subseteq durable \cup pending[Home(u)]  BY <1>2
<1>4. task[u].pc \in Holding => Home(u) # q
  BY DEF Inv, IInv, TypeOK, LockMatchesControl, Free
<1>5. QED  BY <1>1, <1>2, <1>3, <1>4 DEF Calm

\* A step that writes nothing.
LEMMA StillCalm ==
    ASSUME Inv, NEW t \in Thread, UNCHANGED <<gen, pending>>,
           \A p \in Provider : tx'[p] = "closed" => tx[p] = "closed",
           \A u \in Thread : u # t => Stored(u) \cap durable' = Stored(u) \cap durable
    PROVE  \A u \in Thread : u # t => Calm(u)
BY ThreadFacts DEF Calm

\* A step on the connection without the lock.
LEMMA UnlockedCalm ==
    ASSUME Inv, NEW t \in Thread, task[t].pc \in Unlocked, gen' = gen,
           \A p \in Provider : tx'[p] = "closed" => tx[p] = "closed",
           \A p \in Provider : p # Home(t) => pending'[p] = pending[p],
           pending'[Home(t)] \subseteq
               pending[Home(t)] \cup ({t} \X {"row", "index", "erase", "relate"}),
           durable \subseteq durable', durable' \subseteq durable \cup pending[Home(t)]
    PROVE  \A u \in Thread : u # t => Calm(u)
<1> USE ThreadFacts
<1> SUFFICES ASSUME NEW u \in Thread, u # t PROVE Calm(u)  OBVIOUS
<1>0. Intact(u)  BY DEF Inv, Rest, Untorn
<1>1. IsAgent(t) /\ RelationSync  BY DEF Inv, Rest, Places, AgentOnly
<1>2. \A p \in Provider : Stored(u) \cap pending'[p] \subseteq pending[p]
  BY DEF Stored
<1>3. Stored(u) \cap pending[Home(t)] # {} => Home(t) = Home(u)  BY <1>0 DEF Intact
<1>4. Stored(u) \cap durable' \subseteq durable \cup pending[Home(u)]  BY <1>3
<1>5. Home(u) = Home(t) => ~IsAgent(u)  BY <1>1, AgentOfProvider
<1>6. Home(u) # Home(t) => Stored(u) \cap durable' \subseteq durable  BY <1>3
<1>7. QED  BY <1>1, <1>2, <1>4, <1>5, <1>6 DEF Calm

\* What is left to show of the thread that takes the step, once it is not writing.
LEMMA OwnIntact ==
    ASSUME NEW t \in Thread, task'[t].pc \notin Writing,
           task'[t].pc \in Clean => pending'[Home(t)] = {},
           \A p \in Provider : Stored(t) \cap pending'[p] = {},
           ~IsAgent(t) /\ task'[t].pc \in {"enter", "row"} => Stored(t) \cap durable' = {},
           Alone(t) => Stored(t) \subseteq durable' \/ Stored(t) \cap durable' = {}
    PROVE  Intact(t)'
BY DEF Intact, Alone, Writing

LEMMA TogetherRest ==
    ASSUME Inv, NEW t \in Thread, Only(t), OneWriter' /\ PendingWrites', Places',
           \A u \in Thread : u # t => Calm(u), Intact(t)'
    PROVE  Rest'
<1>1. \A u \in Thread : u # t => Intact(u)'  BY CalmKeeps DEF Only
<1>2. Untorn'  BY <1>1 DEF Untorn
<1>3. QED  BY <1>2 DEF Rest

------------------------------------------------------------------------------
(* What the connection operators do to this. *)

LEMMA CommitEffect ==
    ASSUME Inv, NEW p \in Provider, Commit(p)
    PROVE  /\ OneWriter' /\ PendingWrites'
           /\ \A q \in Provider : q # p => tx'[q] = tx[q] /\ pending'[q] = pending[q]
           /\ pending'[p] = {} /\ tx'[p] = "none" /\ durable' = durable \cup pending[p]
<1>1. p \in Conn /\ tx \in [Conn -> TxState] /\ pending \in [Provider -> SUBSET Write]
  BY DEF Inv, IInv, TypeOK, Conn
<1>2. /\ \A q \in Provider : q # p => tx'[q] = tx[q] /\ pending'[q] = pending[q]
      /\ pending'[p] = {} /\ tx'[p] = "none" /\ durable' = durable \cup pending[p]
  BY <1>1 DEF Commit, Conn
<1>3. OneWriter' /\ PendingWrites'  BY <1>1, <1>2, OneConn DEF Commit
<1>4. QED  BY <1>2, <1>3

LEMMA RollbackEffect ==
    ASSUME Inv, NEW p \in Provider, Rollback(p)
    PROVE  /\ OneWriter' /\ PendingWrites'
           /\ \A q \in Provider : q # p => tx'[q] = tx[q] /\ pending'[q] = pending[q]
           /\ pending'[p] = {}
<1>1. p \in Conn /\ tx \in [Conn -> TxState] /\ pending \in [Provider -> SUBSET Write]
  BY DEF Inv, IInv, TypeOK, Conn
<1>2. /\ \A q \in Provider : q # p => tx'[q] = tx[q] /\ pending'[q] = pending[q]
      /\ pending'[p] = {}
  BY <1>1 DEF Rollback, Conn
<1> DEFINE s == IF tx[p] = "closed" THEN "closed" ELSE "none"
<1>3. tx' = [tx EXCEPT ![p] = s]  BY <1>1 DEF Rollback
<1>4. s # "write"  OBVIOUS
<1> HIDE DEF s
<1>5. OneWriter' /\ PendingWrites'  BY <1>1, <1>2, <1>3, <1>4, OneConn
<1>6. QED  BY <1>2, <1>5

LEMMA ExecuteEffect ==
    ASSUME Inv, NEW t \in Thread, NEW what \in {"row", "index", "erase", "relate"},
           Execute(t, what)
    PROVE  /\ OneWriter' /\ PendingWrites' /\ UNCHANGED <<gen, durable>>
           /\ \A q \in Provider : q # Home(t) => tx'[q] = tx[q] /\ pending'[q] = pending[q]
           /\ pending'[Home(t)] = pending[Home(t)] \cup {<<t, what>>}
           /\ Usable(t) /\ tx'[Home(t)] = "write" /\ task'[t].conn = task[t].conn => Usable(t)'
           /\ \A q \in Provider : tx'[q] = "closed" => tx[q] = "closed"
<1> USE ThreadFacts
<1>1. tx \in [Conn -> TxState] /\ pending \in [Provider -> SUBSET Write]
  BY DEF Inv, IInv, TypeOK
<1>2. /\ \A q \in Provider : q # Home(t) => tx'[q] = tx[q] /\ pending'[q] = pending[q]
      /\ pending'[Home(t)] = pending[Home(t)] \cup {<<t, what>>}
      /\ tx'[Home(t)] = "write"
  BY <1>1 DEF Execute, Conn
<1>3. OneWriter' /\ PendingWrites'  BY <1>1, <1>2, OneConn DEF Execute
<1>4. Usable(t) /\ tx'[Home(t)] = "write" /\ task'[t].conn = task[t].conn => Usable(t)'
  BY DEF Usable, Execute
<1>5. QED  BY <1>2, <1>3, <1>4 DEF Execute

\* A thread in a section of the lock has it.
LEMMA LockOf ==
    ASSUME Inv, NEW t \in Thread, task[t].pc \in Holding
    PROVE  mutex[Home(t)] = t
BY DEF Inv, IInv, TypeOK, LockMatchesControl

------------------------------------------------------------------------------
(* Steps. *)

LEMMA EndAppendInv ==
    ASSUME Inv, NEW t \in Thread, EndAppend(t)
    PROVE  Inv'
<1> USE ThreadFacts
<1>a. TypeOK /\ Intact(t) /\ Places  BY DEF Inv, IInv, Rest, Untorn
<1>b. IInv' /\ Only(t) /\ task'[t].pc = "idle"
  BY EndAppendStep DEF Inv
<1>1. OneWriter' /\ PendingWrites'
  BY NoConn DEF EndAppend
<1>2. Places'
  BY <1>a, <1>b, PlacesKept DEF EndAppend, Places, AgentOnly, Clean, Unlocked
<1>3. \A u \in Thread : u # t => Calm(u)
  BY StillCalm DEF EndAppend
<1>4. Intact(t)'
  BY <1>a, <1>b, OwnIntact DEF EndAppend, Intact, Writing, Clean, Alone, Places, AgentOnly
<1>5. QED  BY <1>1, <1>2, <1>3, <1>4, <1>b, TogetherRest DEF Inv

LEMMA EnterInv ==
    ASSUME Inv, NEW t \in Thread, Enter(t)
    PROVE  Inv'
<1> USE ThreadFacts
<1>a. TypeOK /\ Intact(t) /\ Places  BY DEF Inv, IInv, Rest, Untorn
<1>b. IInv' /\ Only(t) /\ task'[t].pc = "row"
  BY EnterStep DEF Inv
<1>1. OneWriter' /\ PendingWrites'
  BY NoConn DEF Enter
<1>2. Places'
  BY <1>a, <1>b, PlacesKept DEF Enter, Places, AgentOnly, Clean, Unlocked
<1>3. \A u \in Thread : u # t => Calm(u)
  BY StillCalm DEF Enter
<1>4. Intact(t)'
  BY <1>a, <1>b, OwnIntact DEF Enter, Intact, Writing, Clean, Alone, Places, AgentOnly
<1>5. QED  BY <1>1, <1>2, <1>3, <1>4, <1>b, TogetherRest DEF Inv

LEMMA ReopenFailsInv ==
    ASSUME Inv, NEW t \in Thread, ReopenFails(t)
    PROVE  Inv'
<1> USE ThreadFacts
<1>a. TypeOK /\ Intact(t) /\ Places  BY DEF Inv, IInv, Rest, Untorn
<1>b. IInv' /\ Only(t) /\ task'[t].pc = "idle"
  BY ReopenFailsStep DEF Inv
<1>1. OneWriter' /\ PendingWrites'
  BY NoConn DEF ReopenFails
<1>2. Places'
  BY <1>a, <1>b, PlacesKept DEF ReopenFails, Places, AgentOnly, Clean, Unlocked
<1>3. \A u \in Thread : u # t => Calm(u)
  BY StillCalm DEF ReopenFails
<1>4. Intact(t)'
  BY <1>a, <1>b, OwnIntact DEF ReopenFails, Intact, Writing, Clean, Alone, Places, AgentOnly
<1>5. QED  BY <1>1, <1>2, <1>3, <1>4, <1>b, TogetherRest DEF Inv

LEMMA ReprobeBusyInv ==
    ASSUME Inv, NEW t \in Thread, ReprobeBusy(t)
    PROVE  Inv'
<1> USE ThreadFacts
<1>a. TypeOK /\ Intact(t) /\ Places  BY DEF Inv, IInv, Rest, Untorn
<1>b. IInv' /\ Only(t) /\ task'[t].pc = "idle"
  BY ReprobeBusyStep DEF Inv
<1>1. OneWriter' /\ PendingWrites'
  BY NoConn DEF ReprobeBusy
<1>2. Places'
  BY <1>a, <1>b, PlacesKept DEF ReprobeBusy, Places, AgentOnly, Clean, Unlocked
<1>3. \A u \in Thread : u # t => Calm(u)
  BY StillCalm DEF ReprobeBusy
<1>4. Intact(t)'
  BY <1>a, <1>b, OwnIntact DEF ReprobeBusy, Intact, Writing, Clean, Alone, Places, AgentOnly
<1>5. QED  BY <1>1, <1>2, <1>3, <1>4, <1>b, TogetherRest DEF Inv

LEMMA ReprobeOpenInv ==
    ASSUME Inv, NEW t \in Thread, ReprobeOpen(t)
    PROVE  Inv'
<1> USE ThreadFacts
<1>a. TypeOK /\ Intact(t) /\ Places  BY DEF Inv, IInv, Rest, Untorn
<1>b. IInv' /\ Only(t) /\ task'[t].pc = "enter"
  BY ReprobeOpenStep DEF Inv
<1>1. OneWriter' /\ PendingWrites'
  BY NoConn DEF ReprobeOpen
<1>2. Places'
  BY <1>a, <1>b, PlacesKept DEF ReprobeOpen, Places, AgentOnly, Clean, Unlocked
<1>3. \A u \in Thread : u # t => Calm(u)
  BY StillCalm DEF ReprobeOpen
<1>4. Intact(t)'
  BY <1>a, <1>b, OwnIntact DEF ReprobeOpen, Intact, Writing, Clean, Alone, Places, AgentOnly
<1>5. QED  BY <1>1, <1>2, <1>3, <1>4, <1>b, TogetherRest DEF Inv

LEMMA StatementOnClosedInv ==
    ASSUME Inv, NEW t \in Thread, StatementOnClosed(t)
    PROVE  Inv'
<1> USE ThreadFacts
<1>a. TypeOK /\ Intact(t) /\ Places  BY DEF Inv, IInv, Rest, Untorn
<1>b. IInv' /\ Only(t) /\ task'[t].pc = "failed"
  BY StatementOnClosedStep DEF Inv
<1>1. OneWriter' /\ PendingWrites'
  BY NoConn DEF StatementOnClosed
<1>2. Places'
  BY <1>a, <1>b, PlacesKept DEF StatementOnClosed, Places, AgentOnly, Clean, Unlocked
<1>3. \A u \in Thread : u # t => Calm(u)
  BY StillCalm DEF StatementOnClosed
<1>4. Intact(t)'
  BY <1>a, <1>b, OwnIntact DEF StatementOnClosed, Intact, Writing, Clean, Alone, Places, AgentOnly
<1>5. QED  BY <1>1, <1>2, <1>3, <1>4, <1>b, TogetherRest DEF Inv

LEMMA StartStoreInv ==
    ASSUME Inv, NEW t \in Thread, StartStore(t)
    PROVE  Inv'
<1> USE ThreadFacts
<1>a. TypeOK /\ Intact(t) /\ Places  BY DEF Inv, IInv, Rest, Untorn
<1>b. IInv' /\ Only(t) /\ task'[t].pc = "enter"
  BY StartStoreStep DEF Inv
<1>1. OneWriter' /\ PendingWrites'
  BY NoConn DEF StartStore
<1>2. Places'
  BY <1>a, <1>b, PlacesKept DEF StartStore, Places, AgentOnly, Clean, Unlocked
<1>3. \A u \in Thread : u # t => Calm(u)
  <2>1. \A u \in Thread : u # t => Stored(u) \cap durable' = Stored(u) \cap durable
    BY DEF StartStore, Stored
  <2>2. QED  BY <2>1, StillCalm DEF StartStore
<1>4. Intact(t)'
  <2>1. Stored(t) \cap durable' = {}  BY DEF StartStore, Stored
  <2>2. \A p \in Provider : Stored(t) \cap pending'[p] = {}
    BY <1>a DEF StartStore, Starts, Intact, Writing
  <2>3. QED  BY <1>b, <2>1, <2>2, OwnIntact DEF Writing, Clean
<1>5. QED  BY <1>1, <1>2, <1>3, <1>4, <1>b, TogetherRest DEF Inv

LEMMA StartAppendInv ==
    ASSUME Inv, NEW t \in Thread, StartAppend(t)
    PROVE  Inv'
<1> USE ThreadFacts
<1>a. TypeOK /\ Intact(t) /\ Places  BY DEF Inv, IInv, Rest, Untorn
<1>b. IInv' /\ Only(t) /\ task'[t].pc = "insert"
  BY StartAppendStep DEF Inv
<1>l. mutex[Home(t)] = t \/ Free(Home(t))
  BY LockOf DEF StartAppend, Acquire, Holding
<1>e. /\ OneWriter' /\ PendingWrites' /\ gen' = gen
      /\ \A q \in Provider : q # Home(t) => tx'[q] = tx[q] /\ pending'[q] = pending[q]
      /\ pending'[Home(t)] = {} /\ durable' = durable \cup pending[Home(t)]
  BY CommitEffect DEF StartAppend
<1>1. OneWriter' /\ PendingWrites'
  BY <1>e
<1>2. Places'
  BY <1>a, <1>b, PlacesKept DEF StartAppend, Places, AgentOnly, Clean, Unlocked
<1>3. \A u \in Thread : u # t => Calm(u)
  BY <1>e, <1>l, LockedCalm
<1>4. Intact(t)'
  <2>1. task[t].pc = "idle"  BY DEF StartAppend, Starts
  <2>2. \A p \in Provider : Stored(t) \cap pending[p] = {}  BY <1>a, <2>1 DEF Intact, Writing
  <2>3. Stored(t) \cap durable' = Stored(t) \cap durable  BY <1>e, <2>2
  <2>4. \A p \in Provider : Stored(t) \cap pending'[p] = {}  BY <1>e, <2>2
  <2>5. Alone(t) => Stored(t) \subseteq durable' \/ Stored(t) \cap durable' = {}
    BY <1>a, <2>3 DEF Intact
  <2>6. QED  BY <1>b, <1>e, <2>4, <2>5, OwnIntact DEF Writing
<1>5. QED  BY <1>1, <1>2, <1>3, <1>4, <1>b, TogetherRest DEF Inv

LEMMA TouchDuplicateInv ==
    ASSUME Inv, NEW t \in Thread, TouchDuplicate(t)
    PROVE  Inv'
<1> USE ThreadFacts
<1>a. TypeOK /\ Intact(t) /\ Places  BY DEF Inv, IInv, Rest, Untorn
<1>b. IInv' /\ Only(t) /\ task'[t].pc = "idle"
  <2>1. Stored(t) \cap durable # {} => Stored(t) \subseteq durable
    BY <1>a DEF TouchDuplicate, Intact, Alone, Stored
  <2>2. QED  BY <2>1, TouchDuplicateStep DEF Inv, Stored
<1>l. mutex[Home(t)] = t \/ Free(Home(t))
  BY LockOf DEF TouchDuplicate, Acquire, Holding
<1>e. /\ OneWriter' /\ PendingWrites' /\ gen' = gen
      /\ \A q \in Provider : q # Home(t) => tx'[q] = tx[q] /\ pending'[q] = pending[q]
      /\ pending'[Home(t)] = {} /\ durable' = durable \cup pending[Home(t)]
  BY CommitEffect DEF TouchDuplicate
<1>1. OneWriter' /\ PendingWrites'
  BY <1>e
<1>2. Places'
  BY <1>a, <1>b, PlacesKept DEF TouchDuplicate, Places, AgentOnly, Clean, Unlocked
<1>3. \A u \in Thread : u # t => Calm(u)
  BY <1>e, <1>l, LockedCalm
<1>4. Intact(t)'
  <2>1. task[t].pc = "row"  BY DEF TouchDuplicate
  <2>2. \A p \in Provider : Stored(t) \cap pending[p] = {}  BY <1>a, <2>1 DEF Intact, Writing
  <2>3. Stored(t) \cap durable' = Stored(t) \cap durable  BY <1>e, <2>2
  <2>4. \A p \in Provider : Stored(t) \cap pending'[p] = {}  BY <1>e, <2>2
  <2>5. Alone(t) => Stored(t) \subseteq durable' \/ Stored(t) \cap durable' = {}
    BY <1>a, <2>3 DEF Intact
  <2>6. QED  BY <1>b, <1>e, <2>4, <2>5, OwnIntact DEF Writing, Clean
<1>5. QED  BY <1>1, <1>2, <1>3, <1>4, <1>b, TogetherRest DEF Inv

LEMMA CommitStoreInv ==
    ASSUME Inv, NEW t \in Thread, CommitStore(t)
    PROVE  Inv'
<1> USE ThreadFacts
<1>a. TypeOK /\ Intact(t) /\ Places  BY DEF Inv, IInv, Rest, Untorn
<1>b. IInv' /\ Only(t) /\ task'[t].pc = (IF IsAgent(t) THEN "mark" ELSE "idle")
  BY CommitStoreStep DEF Inv
<1>l. mutex[Home(t)] = t \/ Free(Home(t))
  BY LockOf DEF CommitStore, Acquire, Holding
<1>e. /\ OneWriter' /\ PendingWrites' /\ gen' = gen
      /\ \A q \in Provider : q # Home(t) => tx'[q] = tx[q] /\ pending'[q] = pending[q]
      /\ pending'[Home(t)] = {} /\ durable' = durable \cup pending[Home(t)]
  BY CommitEffect DEF CommitStore
<1>1. OneWriter' /\ PendingWrites'
  BY <1>e
<1>2. Places'
  BY <1>a, <1>b, PlacesKept DEF CommitStore, Places, AgentOnly, Clean, Unlocked
<1>3. \A u \in Thread : u # t => Calm(u)
  BY <1>e, <1>l, LockedCalm
<1>4. Intact(t)'
  <2>1. task[t].pc = "commit"  BY DEF CommitStore
  <2>2. \A p \in Provider : p # Home(t) => Stored(t) \cap pending[p] = {}  BY <1>a DEF Intact
  <2>3. \A p \in Provider : Stored(t) \cap pending'[p] = {}  BY <1>e, <2>2
  <2>4. Alone(t) => Stored(t) \subseteq durable'  BY <1>a, <1>e, <2>1 DEF Intact
  <2>5. QED  BY <1>b, <2>3, <2>4, OwnIntact DEF Writing, Clean
<1>5. QED  BY <1>1, <1>2, <1>3, <1>4, <1>b, TogetherRest DEF Inv

LEMMA NextEntryInv ==
    ASSUME Inv, NEW t \in Thread, NextEntry(t)
    PROVE  Inv'
<1> USE ThreadFacts
<1>a. TypeOK /\ Intact(t) /\ Places  BY DEF Inv, IInv, Rest, Untorn
<1>b. IInv' /\ Only(t) /\ task'[t].pc = "insert"
  BY NextEntryStep DEF Inv
<1>l. mutex[Home(t)] = t \/ Free(Home(t))
  BY LockOf DEF NextEntry, Acquire, Holding
<1>e. /\ OneWriter' /\ PendingWrites' /\ gen' = gen
      /\ \A q \in Provider : q # Home(t) => tx'[q] = tx[q] /\ pending'[q] = pending[q]
      /\ pending'[Home(t)] \subseteq pending[Home(t)]
      /\ durable \subseteq durable' /\ durable' \subseteq durable \cup pending[Home(t)]
  <2>1. CASE Commit(Home(t))  BY <2>1, CommitEffect DEF NextEntry
  <2>2. CASE UNCHANGED <<tx, pending, durable, touched>>  BY <2>2, NoConn DEF NextEntry
  <2>3. QED  BY <2>1, <2>2 DEF NextEntry
<1>1. OneWriter' /\ PendingWrites'
  BY <1>e
<1>2. Places'
  BY <1>a, <1>b, PlacesKept DEF NextEntry, Places, AgentOnly, Clean, Unlocked
<1>3. \A u \in Thread : u # t => Calm(u)
  BY <1>e, <1>l, LockedCalm
<1>4. Intact(t)'
  <2>1. \A p \in Provider : Stored(t) \cap pending[p] = {}
    BY <1>a DEF NextEntry, Intact, Writing
  <2>2. Stored(t) \cap durable' = Stored(t) \cap durable  BY <1>e, <2>1
  <2>3. \A p \in Provider : Stored(t) \cap pending'[p] = {}  BY <1>e, <2>1
  <2>4. Alone(t) => Stored(t) \subseteq durable' \/ Stored(t) \cap durable' = {}
    BY <1>a, <2>2 DEF Intact
  <2>5. pending'[Home(t)] = {}  BY <1>a, <1>e DEF NextEntry, Intact, Clean
  <2>6. QED  BY <1>a, <1>b, <2>3, <2>4, <2>5, OwnIntact DEF Places, AgentOnly, Clean, NextEntry, Writing
<1>5. QED  BY <1>1, <1>2, <1>3, <1>4, <1>b, TogetherRest DEF Inv

LEMMA MarkConflictsInv ==
    ASSUME Inv, NEW t \in Thread, MarkConflicts(t)
    PROVE  Inv'
<1> USE ThreadFacts
<1>a. TypeOK /\ Intact(t) /\ Places  BY DEF Inv, IInv, Rest, Untorn
<1>b. IInv' /\ Only(t) /\ task'[t].pc = (IF RelationSync THEN "erase" ELSE "idle")
  BY MarkConflictsStep DEF Inv
<1>l. mutex[Home(t)] = t \/ Free(Home(t))
  BY DEF MarkConflicts
<1>e. /\ OneWriter' /\ PendingWrites' /\ gen' = gen
      /\ \A q \in Provider : q # Home(t) => tx'[q] = tx[q] /\ pending'[q] = pending[q]
      /\ pending'[Home(t)] \subseteq pending[Home(t)]
      /\ durable \subseteq durable' /\ durable' \subseteq durable \cup pending[Home(t)]
  <2>1. CASE Commit(Home(t))  BY <2>1, CommitEffect DEF MarkConflicts
  <2>2. CASE UNCHANGED <<tx, pending, durable, touched>>  BY <2>2, NoConn DEF MarkConflicts
  <2>3. QED  BY <2>1, <2>2 DEF MarkConflicts
<1>1. OneWriter' /\ PendingWrites'
  BY <1>e
<1>2. Places'
  BY <1>a, <1>b, PlacesKept DEF MarkConflicts, Places, AgentOnly, Clean, Unlocked
<1>3. \A u \in Thread : u # t => Calm(u)
  BY <1>e, <1>l, LockedCalm
<1>4. Intact(t)'
  <2>1. \A p \in Provider : Stored(t) \cap pending[p] = {}
    BY <1>a DEF MarkConflicts, Intact, Writing
  <2>2. Stored(t) \cap durable' = Stored(t) \cap durable  BY <1>e, <2>1
  <2>3. \A p \in Provider : Stored(t) \cap pending'[p] = {}  BY <1>e, <2>1
  <2>4. Alone(t) => Stored(t) \subseteq durable' \/ Stored(t) \cap durable' = {}
    BY <1>a, <2>2 DEF Intact
  <2>5. QED  BY <1>b, <2>3, <2>4, OwnIntact DEF Clean, Writing
<1>5. QED  BY <1>1, <1>2, <1>3, <1>4, <1>b, TogetherRest DEF Inv

LEMMA InsertEntryInv ==
    ASSUME Inv, NEW t \in Thread, InsertEntry(t)
    PROVE  Inv'
<1> USE ThreadFacts
<1>a. TypeOK /\ Intact(t) /\ Places  BY DEF Inv, IInv, Rest, Untorn
<1>b. IInv' /\ Only(t) /\ task'[t].pc = "append"
  BY InsertEntryStep DEF Inv
<1>l. mutex[Home(t)] = t \/ Free(Home(t))
  BY LockOf DEF InsertEntry, Acquire, Holding
<1>e. UNCHANGED <<gen, pending, durable>> /\ pending[Home(t)] = {}
  BY <1>a DEF InsertEntry, Intact, Clean
<1>1. OneWriter' /\ PendingWrites'
  <2>1. PICK s \in {"write", "none"} : tx' = [tx EXCEPT ![Home(t)] = s]
    BY DEF InsertEntry
  <2>2. QED  BY <1>e, <2>1, OneConn DEF InsertEntry
<1>2. Places'
  BY <1>a, <1>b, PlacesKept DEF InsertEntry, Places, AgentOnly, Clean, Unlocked
<1>3. \A u \in Thread : u # t => Calm(u)
  <2>1. \A p \in Provider : p # Home(t) => tx'[p] = tx[p]
    BY <1>a DEF InsertEntry, TypeOK, Conn
  <2>2. QED  BY <1>e, <1>l, <2>1, LockedCalm
<1>4. Intact(t)'
  <2>1. \A p \in Provider : Stored(t) \cap pending'[p] = {}
    BY <1>a, <1>e DEF InsertEntry, Intact, Writing
  <2>2. QED  BY <1>a, <1>b, <1>e, <2>1, OwnIntact DEF InsertEntry, Intact, Places, AgentOnly, Clean, Writing
<1>5. QED  BY <1>1, <1>2, <1>3, <1>4, <1>b, TogetherRest DEF Inv

LEMMA InsertRefusedInv ==
    ASSUME Inv, NEW t \in Thread, InsertRefused(t)
    PROVE  Inv'
<1> USE ThreadFacts
<1>a. TypeOK /\ Intact(t) /\ Places  BY DEF Inv, IInv, Rest, Untorn
<1>b. IInv' /\ Only(t) /\ task'[t].pc = "idle"
  BY InsertRefusedStep DEF Inv
<1>l. mutex[Home(t)] = t \/ Free(Home(t))
  BY LockOf DEF InsertRefused, Acquire, Holding
<1>e. UNCHANGED <<gen, pending, durable>> /\ pending[Home(t)] = {}
  BY <1>a DEF InsertRefused, Intact, Clean
<1>1. OneWriter' /\ PendingWrites'
  <2>1. PICK s \in {"open"} : tx' = [tx EXCEPT ![Home(t)] = s]
    BY DEF InsertRefused
  <2>2. QED  BY <1>e, <2>1, OneConn DEF InsertRefused
<1>2. Places'
  BY <1>a, <1>b, PlacesKept DEF InsertRefused, Places, AgentOnly, Clean, Unlocked
<1>3. \A u \in Thread : u # t => Calm(u)
  <2>1. \A p \in Provider : p # Home(t) => tx'[p] = tx[p]
    BY <1>a DEF InsertRefused, TypeOK, Conn
  <2>2. QED  BY <1>e, <1>l, <2>1, LockedCalm
<1>4. Intact(t)'
  <2>1. \A p \in Provider : Stored(t) \cap pending'[p] = {}
    BY <1>a, <1>e DEF InsertRefused, Intact, Writing
  <2>2. QED  BY <1>a, <1>b, <1>e, <2>1, OwnIntact DEF InsertRefused, Intact, Places, AgentOnly, Clean, Writing
<1>5. QED  BY <1>1, <1>2, <1>3, <1>4, <1>b, TogetherRest DEF Inv

LEMMA InsertRowInv ==
    ASSUME Inv, NEW t \in Thread, InsertRow(t)
    PROVE  Inv'
<1> USE ThreadFacts
<1>a. TypeOK /\ Intact(t) /\ Places  BY DEF Inv, IInv, Rest, Untorn
<1>b. IInv' /\ Only(t) /\ task'[t].pc = "index"
  BY InsertRowStep DEF Inv
<1>l. mutex[Home(t)] = t \/ Free(Home(t))
  BY LockOf DEF InsertRow, Acquire, Holding
<1>e. /\ OneWriter' /\ PendingWrites' /\ UNCHANGED <<gen, durable>>
      /\ \A q \in Provider : q # Home(t) => tx'[q] = tx[q] /\ pending'[q] = pending[q]
      /\ pending'[Home(t)] = pending[Home(t)] \cup {<<t, "row">>}
      /\ task'[t].conn = task[t].conn => Usable(t)'
      /\ \A q \in Provider : tx'[q] = "closed" => tx[q] = "closed"
  <2>1. Execute(t, "row")  BY DEF InsertRow
  <2>2. Usable(t) /\ tx'[Home(t)] = "write"  BY <1>a, <2>1 DEF Execute, TypeOK
  <2>3. QED  BY <2>1, <2>2, ExecuteEffect
<1>1. OneWriter' /\ PendingWrites'
  BY <1>e
<1>2. Places'
  BY <1>a, <1>b, PlacesKept DEF InsertRow, Places, AgentOnly, Clean, Unlocked
<1>3. \A u \in Thread : u # t => Calm(u)
  BY <1>e, <1>l, LockedCalm
<1>4. Intact(t)'
  <2>1. task'[t].conn = task[t].conn
    BY <1>a DEF InsertRow, Goto, TypeOK, Task
  <2>2. Usable(t)'  BY <1>e, <2>1
  <2>3. \A p \in Provider : Stored(t) \cap pending'[p] # {} => p = Home(t)
    BY <1>a, <1>e DEF Intact
  <2>4. Alone(t) => Stored(t) \cap durable = {}  BY <1>a DEF InsertRow, Intact, Stored
  <2>5. QED  BY <1>b, <1>e, <2>2, <2>3, <2>4 DEF Intact, Alone, Clean, Writing
<1>5. QED  BY <1>1, <1>2, <1>3, <1>4, <1>b, TogetherRest DEF Inv

LEMMA IndexRowInv ==
    ASSUME Inv, NEW t \in Thread, IndexRow(t)
    PROVE  Inv'
<1> USE ThreadFacts
<1>a. TypeOK /\ Intact(t) /\ Places  BY DEF Inv, IInv, Rest, Untorn
<1>b. IInv' /\ Only(t) /\ task'[t].pc = "commit"
  BY IndexRowStep DEF Inv
<1>l. mutex[Home(t)] = t \/ Free(Home(t))
  BY LockOf DEF IndexRow, Acquire, Holding
<1>e. /\ OneWriter' /\ PendingWrites' /\ UNCHANGED <<gen, durable>>
      /\ \A q \in Provider : q # Home(t) => tx'[q] = tx[q] /\ pending'[q] = pending[q]
      /\ pending'[Home(t)] = pending[Home(t)] \cup {<<t, "index">>}
      /\ task'[t].conn = task[t].conn => Usable(t)'
      /\ \A q \in Provider : tx'[q] = "closed" => tx[q] = "closed"
  <2>1. Execute(t, "index")  BY DEF IndexRow
  <2>2. Usable(t) /\ tx'[Home(t)] = "write"  BY <1>a, <2>1 DEF Execute, TypeOK
  <2>3. QED  BY <2>1, <2>2, ExecuteEffect
<1>1. OneWriter' /\ PendingWrites'
  BY <1>e
<1>2. Places'
  BY <1>a, <1>b, PlacesKept DEF IndexRow, Places, AgentOnly, Clean, Unlocked
<1>3. \A u \in Thread : u # t => Calm(u)
  BY <1>e, <1>l, LockedCalm
<1>4. Intact(t)'
  <2>1. task'[t].conn = task[t].conn
    BY <1>a DEF IndexRow, Goto, TypeOK, Task
  <2>2. Usable(t)'  BY <1>e, <2>1
  <2>3. \A p \in Provider : Stored(t) \cap pending'[p] # {} => p = Home(t)
    BY <1>a, <1>e DEF Intact
  <2>4. task[t].pc = "index"  BY DEF IndexRow
  <2>5. Alone(t) => Stored(t) \subseteq pending'[Home(t)] /\ Stored(t) \cap durable = {}
    BY <1>a, <1>e, <2>4 DEF Intact, Stored
  <2>6. QED  BY <1>b, <1>e, <2>2, <2>3, <2>5 DEF Intact, Alone, Clean, Writing
<1>5. QED  BY <1>1, <1>2, <1>3, <1>4, <1>b, TogetherRest DEF Inv

LEMMA EraseEdgesInv ==
    ASSUME Inv, NEW t \in Thread, EraseEdges(t)
    PROVE  Inv'
<1> USE ThreadFacts
<1>a. TypeOK /\ Intact(t) /\ Places  BY DEF Inv, IInv, Rest, Untorn
<1>b. IInv' /\ Only(t) /\ task'[t].pc = "relate"
  BY EraseEdgesStep DEF Inv
<1>e. /\ OneWriter' /\ PendingWrites' /\ UNCHANGED <<gen, durable>>
      /\ \A q \in Provider : q # Home(t) => tx'[q] = tx[q] /\ pending'[q] = pending[q]
      /\ pending'[Home(t)] = pending[Home(t)] \cup {<<t, "erase">>}
      /\ task'[t].conn = task[t].conn => Usable(t)'
      /\ \A q \in Provider : tx'[q] = "closed" => tx[q] = "closed"
  <2>1. Execute(t, "erase")  BY DEF EraseEdges
  <2>2. Usable(t) /\ tx'[Home(t)] = "write"  BY <1>a, <2>1 DEF Execute, TypeOK
  <2>3. QED  BY <2>1, <2>2, ExecuteEffect
<1>1. OneWriter' /\ PendingWrites'
  BY <1>e
<1>2. Places'
  BY <1>a, <1>b, PlacesKept DEF EraseEdges, Places, AgentOnly, Clean, Unlocked
<1>3. \A u \in Thread : u # t => Calm(u)
  <2>1. task[t].pc \in Unlocked  BY DEF EraseEdges, Unlocked
  <2>2. QED  BY <1>e, <2>1, UnlockedCalm
<1>4. Intact(t)'
  <2>1. \A p \in Provider : Stored(t) \cap pending'[p] = {}
    BY <1>a, <1>e DEF EraseEdges, Intact, Writing, Stored
  <2>2. QED  BY <1>a, <1>b, <1>e, <2>1, OwnIntact DEF Intact, Clean, Writing
<1>5. QED  BY <1>1, <1>2, <1>3, <1>4, <1>b, TogetherRest DEF Inv

LEMMA InsertEdgesInv ==
    ASSUME Inv, NEW t \in Thread, InsertEdges(t)
    PROVE  Inv'
<1> USE ThreadFacts
<1>a. TypeOK /\ Intact(t) /\ Places  BY DEF Inv, IInv, Rest, Untorn
<1>b. IInv' /\ Only(t) /\ task'[t].pc = "settle"
  BY InsertEdgesStep DEF Inv
<1>e. /\ OneWriter' /\ PendingWrites' /\ UNCHANGED <<gen, durable>>
      /\ \A q \in Provider : q # Home(t) => tx'[q] = tx[q] /\ pending'[q] = pending[q]
      /\ pending'[Home(t)] = pending[Home(t)] \cup {<<t, "relate">>}
      /\ task'[t].conn = task[t].conn => Usable(t)'
      /\ \A q \in Provider : tx'[q] = "closed" => tx[q] = "closed"
  <2>1. Execute(t, "relate")  BY DEF InsertEdges
  <2>2. Usable(t) /\ tx'[Home(t)] = "write"  BY <1>a, <2>1 DEF Execute, TypeOK
  <2>3. QED  BY <2>1, <2>2, ExecuteEffect
<1>1. OneWriter' /\ PendingWrites'
  BY <1>e
<1>2. Places'
  BY <1>a, <1>b, PlacesKept DEF InsertEdges, Places, AgentOnly, Clean, Unlocked
<1>3. \A u \in Thread : u # t => Calm(u)
  <2>1. task[t].pc \in Unlocked  BY DEF InsertEdges, Unlocked
  <2>2. QED  BY <1>e, <2>1, UnlockedCalm
<1>4. Intact(t)'
  <2>1. \A p \in Provider : Stored(t) \cap pending'[p] = {}
    BY <1>a, <1>e DEF InsertEdges, Intact, Writing, Stored
  <2>2. QED  BY <1>a, <1>b, <1>e, <2>1, OwnIntact DEF Intact, Clean, Writing
<1>5. QED  BY <1>1, <1>2, <1>3, <1>4, <1>b, TogetherRest DEF Inv

LEMMA CommitEdgesInv ==
    ASSUME Inv, NEW t \in Thread, CommitEdges(t)
    PROVE  Inv'
<1> USE ThreadFacts
<1>a. TypeOK /\ Intact(t) /\ Places  BY DEF Inv, IInv, Rest, Untorn
<1>b. IInv' /\ Only(t) /\ task'[t].pc = "idle"
  BY CommitEdgesStep DEF Inv
<1>e. /\ OneWriter' /\ PendingWrites' /\ gen' = gen
      /\ \A q \in Provider : q # Home(t) => tx'[q] = tx[q] /\ pending'[q] = pending[q]
      /\ pending'[Home(t)] = {} /\ durable' = durable \cup pending[Home(t)]
      /\ \A q \in Provider : tx'[q] = "closed" => tx[q] = "closed"
  BY CommitEffect DEF CommitEdges
<1>1. OneWriter' /\ PendingWrites'
  BY <1>e
<1>2. Places'
  BY <1>a, <1>b, PlacesKept DEF CommitEdges, Places, AgentOnly, Clean, Unlocked
<1>3. \A u \in Thread : u # t => Calm(u)
  <2>1. task[t].pc \in Unlocked  BY DEF CommitEdges, Unlocked
  <2>2. QED  BY <1>e, <2>1, UnlockedCalm
<1>4. Intact(t)'
  <2>1. \A p \in Provider : Stored(t) \cap pending[p] = {}
    BY <1>a DEF CommitEdges, Intact, Writing
  <2>2. Stored(t) \cap durable' = Stored(t) \cap durable  BY <1>e, <2>1
  <2>3. \A p \in Provider : Stored(t) \cap pending'[p] = {}  BY <1>e, <2>1
  <2>4. Alone(t) => Stored(t) \subseteq durable' \/ Stored(t) \cap durable' = {}
    BY <1>a, <2>2 DEF Intact
  <2>5. QED  BY <1>b, <2>3, <2>4, OwnIntact DEF Clean, Writing
<1>5. QED  BY <1>1, <1>2, <1>3, <1>4, <1>b, TogetherRest DEF Inv

LEMMA StatementRefusedInv ==
    ASSUME Inv, NEW t \in Thread, StatementRefused(t)
    PROVE  Inv'
<1> USE ThreadFacts
<1>a. TypeOK /\ Intact(t) /\ Places  BY DEF Inv, IInv, Rest, Untorn
<1>b. IInv' /\ Only(t) /\ task'[t].pc = "failed"
  BY StatementRefusedStep DEF Inv
<1>e. UNCHANGED <<gen, pending, durable>> /\ pending[Home(t)] = {}
  <2>1. ~CanWrite(Home(t)) /\ UNCHANGED <<gen, pending, durable>>  BY DEF StatementRefused
  <2>2. tx[Home(t)] # "write"
    BY <2>1 DEF CanWrite, Inv, Rest, OneWriter
  <2>3. QED  BY <2>1, <2>2 DEF Inv, Rest, PendingWrites
<1>1. OneWriter' /\ PendingWrites'
  <2>1. tx' = [tx EXCEPT ![Home(t)] = "open"]  BY DEF StatementRefused
  <2>2. QED  BY <1>e, <2>1, OneConn
<1>2. Places'
  BY <1>a, <1>b, PlacesKept DEF StatementRefused, Places, AgentOnly, Clean, Unlocked
<1>3. \A u \in Thread : u # t => Calm(u)
  <2>1. \A p \in Provider : tx'[p] = "closed" => tx[p] = "closed"
    BY <1>a DEF StatementRefused, TypeOK, Conn
  <2>2. QED  BY <1>e, <2>1, StillCalm
<1>4. Intact(t)'
  <2>1. \A p \in Provider : Stored(t) \cap pending'[p] = {}  BY <1>a, <1>e DEF Intact
  <2>2. QED  BY <1>a, <1>b, <1>e, <2>1, OwnIntact DEF Intact, Clean, Writing
<1>5. QED  BY <1>1, <1>2, <1>3, <1>4, <1>b, TogetherRest DEF Inv

LEMMA RollbackAfterErrorInv ==
    ASSUME Inv, NEW t \in Thread, RollbackAfterError(t)
    PROVE  Inv'
<1> USE ThreadFacts
<1>a. TypeOK /\ Intact(t) /\ Places  BY DEF Inv, IInv, Rest, Untorn
<1>b. IInv' /\ Only(t) /\ task'[t].pc = AfterRollback(t)
  BY RollbackAfterErrorStep DEF Inv
<1>p. task'[t].pc \in Over \/ (task'[t].pc = "peers" /\ MayRecover(t))
  BY <1>b DEF AfterRollback, Over
<1>e. /\ OneWriter' /\ PendingWrites' /\ UNCHANGED <<gen, durable>>
      /\ \A p \in Provider : p # Home(t) => tx'[p] = tx[p] /\ pending'[p] = pending[p]
      /\ pending'[Home(t)] = {} /\ Free(Home(t))
  BY RollbackEffect DEF RollbackAfterError
<1>1. OneWriter' /\ PendingWrites'
  BY <1>e
<1>2. Places'
  BY <1>b, <1>p, PlacesKept DEF MayRecover, AgentOnly, Clean, Unlocked, Over
<1>3. \A u \in Thread : u # t => Calm(u)
  BY <1>e, LockedCalm
<1>4. Intact(t)'
  <2>1. task[t].pc \notin Writing  BY DEF RollbackAfterError, Writing, AllPeersDone
  <2>2. \A p \in Provider : Stored(t) \cap pending'[p] = {}  BY <1>a, <1>e, <2>1 DEF Intact
  <2>3. QED  BY <1>a, <1>e, <1>p, <2>2, OwnIntact DEF Intact, Clean, Writing, Over
<1>5. QED  BY <1>1, <1>2, <1>3, <1>4, <1>b, TogetherRest DEF Inv

LEMMA RollbackPeerInv ==
    ASSUME Inv, NEW t \in Thread, NEW q \in Provider, RollbackPeer(t, q)
    PROVE  Inv'
<1> USE ThreadFacts
<1>a. TypeOK /\ Intact(t) /\ Places  BY DEF Inv, IInv, Rest, Untorn
<1>b. IInv' /\ Only(t) /\ task'[t].pc \in {"peers", "idle"}
  BY RollbackPeerStep DEF Inv
<1>e. /\ OneWriter' /\ PendingWrites' /\ UNCHANGED <<gen, durable>>
      /\ \A p \in Provider : p # q => tx'[p] = tx[p] /\ pending'[p] = pending[p]
      /\ pending'[q] = {} /\ Free(q)
  BY RollbackEffect DEF RollbackPeer
<1>1. OneWriter' /\ PendingWrites'
  BY <1>e
<1>2. Places'
  BY <1>a, <1>b, PlacesKept DEF RollbackPeer, Places, AgentOnly, Clean, Unlocked
<1>3. \A u \in Thread : u # t => Calm(u)
  BY <1>e, LockedCalm
<1>4. Intact(t)'
  <2>1. task[t].pc \notin Writing  BY DEF RollbackPeer, Writing, AllPeersDone
  <2>2. \A p \in Provider : Stored(t) \cap pending'[p] = {}  BY <1>a, <1>e, <2>1 DEF Intact
  <2>3. QED  BY <1>a, <1>b, <1>e, <2>2, OwnIntact DEF Intact, Clean, Writing, Places, AgentOnly
<1>5. QED  BY <1>1, <1>2, <1>3, <1>4, <1>b, TogetherRest DEF Inv

LEMMA ProbeOpenInv ==
    ASSUME Inv, NEW t \in Thread, ProbeOpen(t)
    PROVE  Inv'
<1> USE ThreadFacts
<1>a. TypeOK /\ Intact(t) /\ Places  BY DEF Inv, IInv, Rest, Untorn
<1>b. IInv' /\ Only(t) /\ task'[t].pc = "enter"
  BY ProbeOpenStep DEF Inv
<1>e. /\ OneWriter' /\ PendingWrites' /\ UNCHANGED <<gen, durable>>
      /\ \A p \in Provider : p # Home(t) => tx'[p] = tx[p] /\ pending'[p] = pending[p]
      /\ pending'[Home(t)] = {} /\ Free(Home(t))
  BY RollbackEffect DEF ProbeOpen
<1>1. OneWriter' /\ PendingWrites'
  BY <1>e
<1>2. Places'
  BY <1>a, <1>b, PlacesKept DEF ProbeOpen, AllPeersDone, Places, AgentOnly, Clean, Unlocked
<1>3. \A u \in Thread : u # t => Calm(u)
  BY <1>e, LockedCalm
<1>4. Intact(t)'
  <2>1. task[t].pc \notin Writing  BY DEF ProbeOpen, Writing, AllPeersDone
  <2>2. \A p \in Provider : Stored(t) \cap pending'[p] = {}  BY <1>a, <1>e, <2>1 DEF Intact
  <2>3. QED  BY <1>a, <1>b, <1>e, <2>2, OwnIntact DEF Intact, Clean, Writing, Places, AgentOnly, AllPeersDone, ProbeOpen
<1>5. QED  BY <1>1, <1>2, <1>3, <1>4, <1>b, TogetherRest DEF Inv

LEMMA ProbeBusyInv ==
    ASSUME Inv, NEW t \in Thread, ProbeBusy(t)
    PROVE  Inv'
<1> USE ThreadFacts
<1>a. TypeOK /\ Intact(t) /\ Places  BY DEF Inv, IInv, Rest, Untorn
<1>b. IInv' /\ Only(t) /\ task'[t].pc = "reopen"
  BY ProbeBusyStep DEF Inv
<1>e. /\ UNCHANGED <<gen, durable>> /\ Free(Home(t)) /\ pending'[Home(t)] = {}
      /\ \A p \in Provider : p # Home(t) => tx'[p] = tx[p] /\ pending'[p] = pending[p]
  BY <1>a DEF ProbeBusy, Acquire, TypeOK, Conn
<1>1. OneWriter' /\ PendingWrites'
  <2>1. tx' = [tx EXCEPT ![Home(t)] = "closed"]  BY DEF ProbeBusy
  <2>2. QED  BY <1>e, <2>1, OneConn
<1>2. Places'
  BY <1>a, <1>b, PlacesKept DEF ProbeBusy, AllPeersDone, Places, AgentOnly, Clean, Unlocked
<1>3. \A u \in Thread : u # t => Calm(u)
  BY <1>e, LockedCalm
<1>4. Intact(t)'
  <2>1. task[t].pc = "peers" /\ IsAgent(t)
    BY <1>a DEF ProbeBusy, AllPeersDone, Places, AgentOnly
  <2>2. \A p \in Provider : Stored(t) \cap pending'[p] = {}
    BY <1>a, <1>e, <2>1 DEF Intact, Writing
  <2>3. QED  BY <1>a, <1>b, <1>e, <2>1, <2>2, OwnIntact DEF Intact, Clean, Writing
<1>5. QED  BY <1>1, <1>2, <1>3, <1>4, <1>b, TogetherRest DEF Inv

LEMMA ReopenInv ==
    ASSUME Inv, NEW t \in Thread, Reopen(t)
    PROVE  Inv'
<1> USE ThreadFacts
<1>a. TypeOK /\ Intact(t) /\ Places  BY DEF Inv, IInv, Rest, Untorn
<1>b. IInv' /\ Only(t) /\ task'[t].pc = "reprobe"
  BY ReopenStep DEF Inv
<1>l. mutex[Home(t)] = t \/ Free(Home(t))
  BY LockOf DEF Reopen, Acquire, Holding
<1>e. /\ UNCHANGED <<pending, durable>> /\ pending[Home(t)] = {}
      /\ \A p \in Provider : p # Home(t) => tx'[p] = tx[p] /\ gen'[p] = gen[p]
  BY <1>a DEF Reopen, TypeOK, Conn, Intact, Clean
<1>1. OneWriter' /\ PendingWrites'
  <2>1. tx' = [tx EXCEPT ![Home(t)] = "none"]  BY DEF Reopen
  <2>2. QED  BY <1>e, <2>1, OneConn
<1>2. Places'
  BY <1>a, <1>b, PlacesKept DEF Reopen, Places, AgentOnly, Clean, Unlocked
<1>3. \A u \in Thread : u # t => Calm(u)
  BY <1>e, <1>l, LockedCalm
<1>4. Intact(t)'
  <2>1. task[t].pc = "reopen" /\ IsAgent(t)
    BY <1>a DEF Reopen, Places, AgentOnly, Clean
  <2>2. \A p \in Provider : Stored(t) \cap pending'[p] = {}
    BY <1>a, <1>e, <2>1 DEF Intact, Writing
  <2>3. QED  BY <1>a, <1>b, <1>e, <2>1, <2>2, OwnIntact DEF Intact, Clean, Writing
<1>5. QED  BY <1>1, <1>2, <1>3, <1>4, <1>b, TogetherRest DEF Inv

LEMMA RunInv ==
    ASSUME Inv, NEW r \in Run, RunBegins(r) \/ RunEnds(r)
    PROVE  Inv'
<1> USE ThreadFacts
<1>0. r \in Conn /\ r \notin Provider  BY DEF Conn
<1>1. IInv'  BY RunStep DEF Inv
<1>2. UNCHANGED <<gen, pending, durable, task>>  BY DEF RunBegins, RunEnds
<1>3. PICK s \in {"write", "none"} : tx' = [tx EXCEPT ![r] = s] /\ (s = "write" => CanWrite(r))
  BY DEF RunBegins, RunEnds
<1>4. OneWriter' /\ PendingWrites'  BY <1>0, <1>2, <1>3, OneConn
<1>5. \A p \in Provider : tx'[p] = tx[p]  BY <1>0, <1>3 DEF Inv, IInv, TypeOK, Conn
<1>6. Places'  BY <1>2 DEF Inv, Rest, Places
<1>7. ASSUME NEW u \in Thread PROVE Intact(u)'
  BY <1>2, <1>5 DEF Inv, Rest, Untorn, Intact, Usable
<1>8. QED  BY <1>1, <1>4, <1>6, <1>7 DEF Inv, Rest, Untorn

LEMMA NextInv == Inv /\ [Next]_vars => Inv'
<1> SUFFICES ASSUME Inv, [Next]_vars PROVE Inv'  OBVIOUS
<1>1. ASSUME NEW t \in Thread, Start(t) PROVE Inv'
  BY <1>1, StartAppendInv, StartStoreInv DEF Start
<1>2. ASSUME NEW t \in Thread, Appending(t) PROVE Inv'
  BY <1>2, NextEntryInv, InsertEntryInv, InsertRefusedInv, EndAppendInv DEF Appending
<1>3. ASSUME NEW t \in Thread, Store(t) PROVE Inv'
  BY <1>3, EnterInv, InsertRowInv, TouchDuplicateInv, IndexRowInv, CommitStoreInv,
     MarkConflictsInv DEF Store
<1>4. ASSUME NEW t \in Thread, Relate(t) PROVE Inv'
  BY <1>4, EraseEdgesInv, InsertEdgesInv, CommitEdgesInv DEF Relate
<1>5. ASSUME NEW t \in Thread, Fail(t) PROVE Inv'
  BY <1>5, StatementRefusedInv, StatementOnClosedInv, RollbackAfterErrorInv DEF Fail
<1>6. ASSUME NEW t \in Thread, Recover(t) PROVE Inv'
  BY <1>6, RollbackPeerInv, ProbeOpenInv, ProbeBusyInv, ReopenInv, ReopenFailsInv,
     ReprobeOpenInv, ReprobeBusyInv DEF Recover
<1>7. CASE UNCHANGED vars
  BY <1>7 DEF vars, Inv, IInv, TypeOK, LockMatchesControl, Progress, Usable, AckedIsDurable,
     Rest, OneWriter, PendingWrites, Places, Untorn, Intact
<1>8. QED  BY <1>1, <1>2, <1>3, <1>4, <1>5, <1>6, <1>7, RunInv DEF Next, Step

\* The type invariant, with the discipline of provider._lock: it is held by the
\* thread that is in one of its sections, and by nobody else.
THEOREM ConnectionsTyped == Spec => []TypeOK
<1>1. Inv => TypeOK  BY DEF Inv, IInv
<1>2. QED  BY <1>1, InitInv, NextInv, PTL DEF Spec

\* A store that returned is on disk, for any number of providers and writers that
\* fail, recover and roll one another back.
THEOREM AckedStoresAreDurable == Spec => []AckedIsDurable
<1>1. Inv => AckedIsDurable  BY DEF Inv, IInv
<1>2. QED  BY <1>1, InitInv, NextInv, PTL DEF Spec

\* No store is torn: what a thread that is back from a store left on disk is all
\* of it or nothing, although others commit and roll back on its connection.
THEOREM StoresAreAtomic == Spec => []StoreAllOrNothing
<1>1. Inv => StoreAllOrNothing
  BY DEF Inv, Rest, Untorn, Intact, Alone, StoreAllOrNothing, Over
<1>2. QED  BY <1>1, InitInv, NextInv, PTL DEF Spec

------------------------------------------------------------------------------
(* The recovery from a locked database.  What a recovering thread knows of the
   other connections: it has rolled each of them back, and every use after that
   was noted in its history. *)

Working == {"enter", "row", "index", "commit", "mark", "erase", "relate", "settle"}
Remaining(t) == IF task[t].pc = "peers" THEN task[t].todo ELSE {}

\* Nobody closes or replaces the connection that a recovery goes on to use.
Attached(t) ==
    /\ task[t].retry /\ task[t].pc \in Working => IsAgent(t) /\ Usable(t)
    /\ task[t].pc = "failed" /\ MayRecover(t) => tx[Home(t)] # "closed"
    /\ task[t].pc \in {"peers", "reprobe"} => tx[Home(t)] # "closed"
    /\ task[t].pc \in {"append", "insert"} => ~task[t].retry

Covered(t) ==
    Recovering(t) =>
        \A c \in Provider : c # Home(t) /\ tx[c] = "write" => c \in Remaining(t) \cup touched[t]

Recoveries == \A t \in Thread : Attached(t) /\ Covered(t)
CInv == Inv /\ Recoveries

\* A use of a connection is noted by whoever is recovering.
Noted ==
    \A c \in Provider : tx'[c] = "write" =>
        tx[c] = "write" \/ \A u \in Thread : Recovering(u) => c \in touched'[u]

LEMMA GotoSame ==
    ASSUME TypeOK, NEW t \in Thread, NEW pc \in Location, Goto(t, pc)
    PROVE  /\ task'[t].conn = task[t].conn /\ task'[t].retry = task[t].retry
           /\ task'[t].todo = task[t].todo /\ task'[t].locked = task[t].locked
<1>1. task[t] \in Task /\ task \in [Thread -> Task]  BY DEF TypeOK
<1>2. task'[t] = [task[t] EXCEPT !.pc = pc]  BY <1>1 DEF Goto
<1>3. QED  BY <1>1, <1>2 DEF Task

LEMMA TouchNotes ==
    ASSUME TypeOK, NEW p \in Provider, Touch(p), \A c \in Provider : c # p => tx'[c] = tx[c]
    PROVE  Noted /\ \A u \in Thread : Recovering(u) => touched[u] \subseteq touched'[u]
BY DEF TypeOK, Touch, Noted

LEMMA RecoveriesKept ==
    ASSUME Inv, Recoveries, NEW t \in Thread, Only(t), Noted,
           \A u \in Thread : u # t /\ Recovering(u) => touched[u] \subseteq touched'[u],
           \A u \in Thread : u # t /\ IsAgent(u) =>
               /\ gen'[Home(u)] = gen[Home(u)]
               /\ tx'[Home(u)] = "closed" => tx[Home(u)] = "closed",
           Attached(t)', Covered(t)'
    PROVE  Recoveries'
<1> SUFFICES ASSUME NEW u \in Thread, u # t PROVE Attached(u)' /\ Covered(u)'
  BY DEF Recoveries
<1>1. task'[u] = task[u]  BY DEF Only
<1>2. Attached(u) /\ Covered(u)  BY DEF Recoveries
<1>3. task[u].pc = "peers" \/ task[u].pc = "reprobe" => IsAgent(u)
  BY DEF Inv, Rest, Places, AgentOnly, Clean
<1>4. Attached(u)'
  BY <1>1, <1>2, <1>3 DEF Attached, MayRecover, Usable
<1>5. Covered(u)'
  <2> SUFFICES ASSUME Recovering(u), NEW c \in Provider, c # Home(u), tx'[c] = "write"
               PROVE  c \in Remaining(u) \cup touched'[u]
    BY <1>1 DEF Covered, Recovering, Remaining, Over
  <2>1. CASE tx[c] = "write"  BY <1>2, <2>1 DEF Covered
  <2>2. CASE tx[c] # "write"  BY <2>2 DEF Noted
  <2>3. QED  BY <2>1, <2>2
<1>6. QED  BY <1>4, <1>5

\* A step that closes no connection and starts or goes on with no recovery.
LEMMA PlainStep ==
    ASSUME Inv, Recoveries, NEW t \in Thread, Only(t), gen' = gen,
           \A c \in Provider : tx'[c] = "closed" => tx[c] = "closed",
           Noted, \A u \in Thread : Recovering(u) => touched[u] \subseteq touched'[u],
           task'[t].retry /\ task'[t].pc \notin Over =>
               /\ task[t].retry /\ task[t].pc \in Working /\ task'[t].conn = task[t].conn
               /\ task'[t].pc \notin {"append", "insert"},
           task'[t].pc \notin {"peers", "reopen", "reprobe"},
           task'[t].pc = "failed" /\ MayRecover(t)' => tx'[Home(t)] # "closed"
    PROVE  Recoveries'
<1> USE ThreadFacts
<1>0. Attached(t) /\ Covered(t)  BY DEF Recoveries
<1>1. Attached(t)'
  BY <1>0 DEF Attached, Working, Usable, Over
<1>2. Covered(t)'
  <2> SUFFICES ASSUME Recovering(t)', NEW c \in Provider, c # Home(t), tx'[c] = "write"
               PROVE  c \in touched'[t]
    BY DEF Covered
  <2>1. task[t].retry /\ task[t].pc \in Working  BY DEF Recovering, Over
  <2>2. Recovering(t) /\ Remaining(t) = {}  BY <2>1 DEF Recovering, Remaining, Working, Over
  <2>3. CASE tx[c] = "write"  BY <1>0, <2>2, <2>3 DEF Covered
  <2>4. CASE tx[c] # "write"  BY <2>2, <2>4 DEF Noted
  <2>5. QED  BY <2>3, <2>4
<1>3. QED  BY <1>1, <1>2, RecoveriesKept

LEMMA Still ==
    ASSUME UNCHANGED <<tx, gen, touched>>
    PROVE  /\ gen' = gen /\ Noted
           /\ \A c \in Provider : tx'[c] = "closed" => tx[c] = "closed"
           /\ \A u \in Thread : Recovering(u) => touched[u] \subseteq touched'[u]
BY DEF Noted

LEMMA CommitPlain ==
    ASSUME TypeOK, NEW p \in Provider, Commit(p), Touch(p)
    PROVE  /\ Noted
           /\ \A c \in Provider : tx'[c] = "closed" => tx[c] = "closed"
           /\ \A u \in Thread : Recovering(u) => touched[u] \subseteq touched'[u]
<1>1. \A c \in Provider : tx'[c] = IF c = p THEN "none" ELSE tx[c]
  BY DEF Commit, TypeOK, Conn
<1>2. QED  BY <1>1, TouchNotes

LEMMA SetPlain ==
    ASSUME TypeOK, NEW p \in Provider, NEW s \in {"none", "open", "write"},
           tx' = [tx EXCEPT ![p] = s], Touch(p)
    PROVE  /\ Noted /\ tx'[p] = s
           /\ \A c \in Provider : tx'[c] = "closed" => tx[c] = "closed"
           /\ \A u \in Thread : Recovering(u) => touched[u] \subseteq touched'[u]
<1>1. \A c \in Provider : tx'[c] = IF c = p THEN s ELSE tx[c]
  BY DEF TypeOK, Conn
<1>2. QED  BY <1>1, TouchNotes

LEMMA AppendRecoveries ==
    ASSUME Inv, Recoveries, NEW t \in Thread, Appending(t)
    PROVE  Recoveries'
<1> USE ThreadFacts
<1>0. TypeOK /\ Attached(t)  BY DEF Inv, IInv, Recoveries
<1>1. task[t].pc \in {"append", "insert"} /\ ~task[t].retry
  BY <1>0 DEF Appending, NextEntry, InsertEntry, InsertRefused, EndAppend, Attached
<1>2. PICK pc \in {"append", "insert", "idle"} : Goto(t, pc)
  BY DEF Appending, NextEntry, InsertEntry, InsertRefused, EndAppend
<1>3. pc \in Location  BY DEF Location, Holding
<1>4. Only(t) /\ task'[t].pc = pc /\ ~task'[t].retry
  BY <1>0, <1>1, <1>2, <1>3, OneLocation, GotoSame
<1>5. gen' = gen  BY DEF Appending, NextEntry, InsertEntry, InsertRefused, EndAppend
<1>6. /\ Noted /\ \A c \in Provider : tx'[c] = "closed" => tx[c] = "closed"
      /\ \A u \in Thread : Recovering(u) => touched[u] \subseteq touched'[u]
  <2>1. CASE NextEntry(t)  BY <1>0, <2>1, CommitPlain, Still DEF NextEntry
  <2>2. CASE InsertEntry(t)
    <3>1. PICK s \in {"write", "none"} : tx' = [tx EXCEPT ![Home(t)] = s]
      BY <2>2 DEF InsertEntry
    <3>2. QED  BY <1>0, <2>2, <3>1, SetPlain DEF InsertEntry
  <2>3. CASE InsertRefused(t)  BY <1>0, <2>3, SetPlain DEF InsertRefused
  <2>4. CASE EndAppend(t)  BY <2>4, Still DEF EndAppend
  <2>5. QED  BY <2>1, <2>2, <2>3, <2>4 DEF Appending
<1>7. QED  BY <1>4, <1>5, <1>6, PlainStep

LEMMA StartRecoveries ==
    ASSUME Inv, Recoveries, NEW t \in Thread, Start(t)
    PROVE  Recoveries'
<1> USE ThreadFacts
<1>0. TypeOK  BY DEF Inv, IInv
<1>1. Only(t) /\ task'[t].pc \in {"insert", "enter"}
  BY StartAppendStep, StartStoreStep DEF Start, Inv
<1>2. ~task'[t].retry
  <2>1. task \in [Thread -> Task]  BY <1>0 DEF TypeOK
  <2>2. CASE StartAppend(t)
    <3>1. task'[t] = [IdleTask EXCEPT !.pc = "insert"]  BY <2>1, <2>2 DEF StartAppend
    <3>2. QED  BY <3>1 DEF IdleTask
  <2>3. CASE StartStore(t)
    <3>1. task'[t] = [IdleTask EXCEPT !.pc = "enter", !.conn = gen'[Home(t)], !.retry = FALSE]
      BY <2>1, <2>3 DEF StartStore, Attempt
    <3>2. QED  BY <3>1 DEF IdleTask
  <2>4. QED  BY <2>2, <2>3 DEF Start
<1>3. gen' = gen  BY DEF Start, StartAppend, StartStore
<1>4. /\ Noted /\ \A c \in Provider : tx'[c] = "closed" => tx[c] = "closed"
      /\ \A u \in Thread : Recovering(u) => touched[u] \subseteq touched'[u]
  BY <1>0, CommitPlain, Still DEF Start, StartAppend, StartStore
<1>5. QED  BY <1>1, <1>2, <1>3, <1>4, PlainStep

\* A statement that succeeds.
LEMMA StoreMoves ==
    ASSUME Inv, NEW t \in Thread, Store(t) \/ Relate(t)
    PROVE  /\ task[t].pc \in Working
           /\ Only(t) /\ task'[t].pc \in (Working \cup {"idle"}) \ {"enter"}
           /\ task'[t].conn = task[t].conn /\ task'[t].retry = task[t].retry
<1> USE ThreadFacts
<1>0. TypeOK  BY DEF Inv, IInv
<1>1. task[t].pc \in Working
  BY DEF Store, Enter, InsertRow, TouchDuplicate, IndexRow, CommitStore, MarkConflicts,
     Relate, EraseEdges, InsertEdges, CommitEdges, Working
<1>2. /\ Only(t) /\ task'[t].pc \in (Working \cup {"idle"}) \ {"enter"}
      /\ task'[t].conn = task[t].conn /\ task'[t].retry = task[t].retry
  <2>1. CASE \E pc \in (Working \cup {"idle"}) \ {"enter"} : Goto(t, pc)
    <3>1. PICK pc \in (Working \cup {"idle"}) \ {"enter"} : Goto(t, pc)  BY <2>1
    <3>2. pc \in Location  BY DEF Working, Location, Holding
    <3>3. QED  BY <1>0, <3>1, <3>2, OneLocation, GotoSame
  <2>2. CASE TouchDuplicate(t) \/ CommitStore(t)
    <3>1. task[t] \in Task  BY <1>0 DEF TypeOK
    <3>2. PICK p \in {"idle", "mark"} : task' = [task EXCEPT ![t] = [@ EXCEPT !.ok = TRUE, !.pc = p]]
      BY <2>2 DEF TouchDuplicate, CommitStore
    <3> DEFINE k == [task[t] EXCEPT !.ok = TRUE, !.pc = p]
    <3>3. k \in Task /\ k.pc = p /\ k.conn = task[t].conn /\ k.retry = task[t].retry
      BY <3>1 DEF Task, Location, Holding
    <3>4. task' = [task EXCEPT ![t] = k]  BY <3>2
    <3> HIDE DEF k
    <3>5. Only(t) /\ task'[t] = k  BY <1>0, <3>3, <3>4, OneTask
    <3>6. QED  BY <3>3, <3>5 DEF Working
  <2>3. QED
    BY <2>1, <2>2 DEF Store, Enter, InsertRow, IndexRow, MarkConflicts,
       Relate, EraseEdges, InsertEdges, CommitEdges, Working
<1>3. QED  BY <1>1, <1>2

LEMMA StoreRecoveries ==
    ASSUME Inv, Recoveries, NEW t \in Thread, Store(t) \/ Relate(t)
    PROVE  Recoveries'
<1> USE ThreadFacts
<1>0. TypeOK  BY DEF Inv, IInv
<1>3. gen' = gen
  BY DEF Store, Enter, InsertRow, TouchDuplicate, IndexRow, CommitStore, MarkConflicts,
     Relate, EraseEdges, InsertEdges, CommitEdges, Execute
<1>4. /\ Noted /\ \A c \in Provider : tx'[c] = "closed" => tx[c] = "closed"
      /\ \A u \in Thread : Recovering(u) => touched[u] \subseteq touched'[u]
  <2>1. CASE \E w \in {"row", "index", "erase", "relate"} : Execute(t, w)
    BY <1>0, <2>1, SetPlain DEF Execute
  <2>2. CASE Commit(Home(t)) /\ Touch(Home(t))  BY <1>0, <2>2, CommitPlain
  <2>3. CASE UNCHANGED <<tx, touched>>  BY <1>3, <2>3, Still
  <2>4. QED
    BY <2>1, <2>2, <2>3 DEF Store, Enter, InsertRow, TouchDuplicate, IndexRow, CommitStore,
       MarkConflicts, Relate, EraseEdges, InsertEdges, CommitEdges
<1>5. QED  BY <1>3, <1>4, StoreMoves, PlainStep DEF Working

\* A statement that fails: a lock leaves the connection open.
LEMMA FailRecoveries ==
    ASSUME Inv, Recoveries, NEW t \in Thread, StatementRefused(t) \/ StatementOnClosed(t)
    PROVE  Recoveries'
<1> USE ThreadFacts
<1>0. TypeOK  BY DEF Inv, IInv
<1>1. task[t].pc \in Working  BY DEF StatementRefused, StatementOnClosed, Working
<1>2. Only(t) /\ task'[t].pc = "failed"
  BY StatementRefusedStep, StatementOnClosedStep DEF Inv
<1>3. /\ task'[t].conn = task[t].conn /\ task'[t].retry = task[t].retry
      /\ StatementOnClosed(t) => ~task'[t].locked
  <2>1. task[t] \in Task /\ task \in [Thread -> Task]  BY <1>0 DEF TypeOK
  <2>2. CASE StatementRefused(t)
    <3> DEFINE b == task[t].pc \in {"row", "index", "mark"}
    <3>1. task'[t] = [task[t] EXCEPT !.pc = "failed", !.locked = b]
      BY <2>1, <2>2 DEF StatementRefused
    <3>2. ~StatementOnClosed(t)  BY <2>2 DEF StatementRefused, StatementOnClosed
    <3> HIDE DEF b
    <3>3. QED  BY <2>1, <3>1, <3>2 DEF Task
  <2>3. CASE StatementOnClosed(t)
    <3>1. task'[t] = [task[t] EXCEPT !.pc = "failed", !.locked = FALSE]
      BY <2>1, <2>3 DEF StatementOnClosed
    <3>2. QED  BY <2>1, <3>1 DEF Task
  <2>4. QED  BY <2>2, <2>3
<1>4. /\ gen' = gen /\ Noted /\ \A c \in Provider : tx'[c] = "closed" => tx[c] = "closed"
      /\ \A u \in Thread : Recovering(u) => touched[u] \subseteq touched'[u]
      /\ StatementRefused(t) => tx'[Home(t)] = "open"
  <2>1. CASE StatementRefused(t)  BY <1>0, <2>1, SetPlain DEF StatementRefused
  <2>2. CASE StatementOnClosed(t)
    BY <2>2, Still DEF StatementOnClosed, StatementRefused
  <2>3. QED  BY <2>1, <2>2
<1>5. task'[t].pc = "failed" /\ MayRecover(t)' => tx'[Home(t)] # "closed"
  BY <1>3, <1>4 DEF MayRecover
<1>6. QED  BY <1>1, <1>2, <1>3, <1>4, <1>5, PlainStep

\* A recovery begins: all other providers are still to be rolled back.
LEMMA RollbackRecoveries ==
    ASSUME Inv, Recoveries, NEW t \in Thread, RollbackAfterError(t)
    PROVE  Recoveries'
<1> USE ThreadFacts
<1>0. TypeOK /\ Attached(t)  BY DEF Inv, IInv, Recoveries
<1>1. Only(t) /\ task'[t].pc = AfterRollback(t)
  BY RollbackAfterErrorStep DEF Inv
<1>2. ~task'[t].retry /\ (MayRecover(t) => task'[t].todo = Peers(t))
  <2> DEFINE m == MayRecover(t)
             k == [task[t] EXCEPT !.retry = FALSE, !.pc = AfterRollback(t),
                                  !.todo = IF m THEN Peers(t) ELSE {}]
  <2>1. task[t] \in Task /\ task \in [Thread -> Task]  BY <1>0 DEF TypeOK
  <2>2. task'[t] = k  BY <2>1 DEF RollbackAfterError
  <2> HIDE DEF m
  <2>3. k.retry = FALSE /\ (m => k.todo = Peers(t))  BY <2>1 DEF Task
  <2>4. QED  BY <2>2, <2>3 DEF m
<1>p. task'[t].pc \in Over \/ (task'[t].pc = "peers" /\ MayRecover(t))
  BY <1>1 DEF AfterRollback, Over
<1>3. \A c \in Provider : tx'[c] = IF c = Home(t) /\ tx[c] # "closed" THEN "none" ELSE tx[c]
  BY <1>0 DEF RollbackAfterError, Rollback, TypeOK, Conn
<1>4. Noted /\ gen' = gen  BY <1>3 DEF Noted, RollbackAfterError
<1>5. \A u \in Thread : u # t => touched'[u] = touched[u]
  BY <1>0 DEF RollbackAfterError, TypeOK
<1>6. Attached(t)'
  BY <1>0, <1>2, <1>3, <1>p DEF Attached, RollbackAfterError, Over
<1>7. Covered(t)'
  BY <1>2, <1>p DEF Covered, Recovering, Remaining, Peers, Over
<1>8. QED  BY <1>1, <1>3, <1>4, <1>5, <1>6, <1>7, RecoveriesKept

LEMMA PeerRecoveries ==
    ASSUME Inv, Recoveries, NEW t \in Thread, NEW q \in Provider, RollbackPeer(t, q)
    PROVE  Recoveries'
<1> USE ThreadFacts
<1>0. TypeOK /\ Attached(t) /\ Covered(t)  BY DEF Inv, IInv, Recoveries
<1>1. Only(t) /\ task'[t].pc \in {"peers", "idle"}  BY RollbackPeerStep DEF Inv
<1>2. task'[t].todo = task[t].todo \ {q}
  <2> DEFINE s == task[t].todo \ {q}
             p == IF tx[q] = "closed" THEN "idle" ELSE "peers"
  <2>1. task[t] \in Task /\ task \in [Thread -> Task]  BY <1>0 DEF TypeOK
  <2>2. task'[t] = [task[t] EXCEPT !.todo = s, !.pc = p]  BY <2>1 DEF RollbackPeer
  <2> HIDE DEF s, p
  <2>3. task'[t].todo = s  BY <2>1, <2>2 DEF Task
  <2>4. QED  BY <2>3 DEF s
<1>3. \A c \in Provider : tx'[c] = IF c = q /\ tx[c] # "closed" THEN "none" ELSE tx[c]
  BY <1>0 DEF RollbackPeer, Rollback, TypeOK, Conn
<1>4. Noted /\ gen' = gen /\ touched' = touched  BY <1>3 DEF Noted, RollbackPeer
<1>5. Attached(t)'
  BY <1>0, <1>1, <1>3 DEF Attached, RollbackPeer, Working
<1>6. Covered(t)'
  <2> SUFFICES ASSUME Recovering(t)', NEW c \in Provider, c # Home(t), tx'[c] = "write"
               PROVE  c \in Remaining(t)' \cup touched[t]
    BY <1>4 DEF Covered
  <2>1. task'[t].pc = "peers"  BY <1>1 DEF Recovering, Over
  <2>2. c # q /\ tx[c] = "write"  BY <1>3
  <2>3. task[t].pc = "peers"  BY DEF RollbackPeer
  <2>4. QED  BY <1>0, <1>2, <2>1, <2>2, <2>3 DEF Covered, Recovering, Remaining, Over
<1>7. QED  BY <1>1, <1>3, <1>4, <1>5, <1>6, RecoveriesKept

\* The second attempt begins, on the connection as it is now.
LEMMA AttemptRecoveries ==
    ASSUME Inv, Recoveries, NEW t \in Thread, ProbeOpen(t) \/ ReprobeOpen(t)
    PROVE  Recoveries'
<1> USE ThreadFacts
<1>0. TypeOK /\ Attached(t) /\ Covered(t)  BY DEF Inv, IInv, Recoveries
<1>1. Only(t)  BY ProbeOpenStep, ReprobeOpenStep DEF Inv
<1>2. task'[t].pc = "enter" /\ task'[t].conn = gen'[Home(t)] /\ task'[t].todo = {}
  <2>1. task \in [Thread -> Task]  BY <1>0 DEF TypeOK
  <2>2. task'[t] = [IdleTask EXCEPT !.pc = "enter", !.conn = gen'[Home(t)], !.retry = TRUE]
    BY <2>1 DEF ProbeOpen, ReprobeOpen, Attempt
  <2>3. QED  BY <2>2 DEF IdleTask
<1>3. /\ task[t].pc \in {"peers", "reprobe"} /\ Remaining(t) = {}
      /\ gen' = gen /\ touched' = touched
  BY DEF ProbeOpen, ReprobeOpen, AllPeersDone, Remaining
<1>4. /\ \A c \in Provider : tx'[c] = "closed" => tx[c] = "closed"
      /\ \A c \in Provider : tx'[c] = "write" => tx[c] = "write"
  BY <1>0 DEF ProbeOpen, ReprobeOpen, Rollback, TypeOK, Conn
<1>5. IsAgent(t)  BY <1>3 DEF Inv, Rest, Places, AgentOnly, Clean
<1>6. Attached(t)'
  BY <1>0, <1>2, <1>3, <1>4, <1>5 DEF Attached, Usable
<1>7. Covered(t)'
  BY <1>0, <1>3, <1>4 DEF Covered, Recovering, Over
<1>8. Noted  BY <1>4 DEF Noted
<1>9. QED  BY <1>1, <1>3, <1>4, <1>6, <1>7, <1>8, RecoveriesKept

\* A provider's own agent closes and replaces its connection, and nobody else.
LEMMA ReopenRecoveries ==
    ASSUME Inv, Recoveries, NEW t \in Thread, ProbeBusy(t) \/ Reopen(t)
    PROVE  Recoveries'
<1> USE ThreadFacts
<1>0. TypeOK /\ Attached(t) /\ Covered(t)  BY DEF Inv, IInv, Recoveries
<1> DEFINE pc == IF ProbeBusy(t) THEN "reopen" ELSE "reprobe"
<1>1. task[t].pc \in {"peers", "reopen"} /\ Remaining(t) = {}
  BY DEF ProbeBusy, Reopen, AllPeersDone, Remaining
<1>2. Only(t) /\ task'[t].pc \in {"reopen", "reprobe"}
  BY ProbeBusyStep, ReopenStep DEF Inv
<1>3. /\ \A c \in Provider : c # Home(t) => tx'[c] = tx[c] /\ gen'[c] = gen[c]
      /\ tx'[Home(t)] \in {"none", "closed"} /\ touched' = touched
      /\ task'[t].pc = "reprobe" => tx'[Home(t)] # "closed"
  BY <1>0, <1>2, ProbeBusyStep, ReopenStep DEF ProbeBusy, Reopen, TypeOK, Conn, Inv
<1>4. IsAgent(t)  BY <1>1 DEF Inv, Rest, Places, AgentOnly, Clean
<1>5. \A u \in Thread : u # t /\ IsAgent(u) => Home(u) # Home(t)
  BY <1>4, AgentOfProvider
<1>6. Attached(t)'  BY <1>2, <1>3 DEF Attached, Working
<1>7. Covered(t)'
  BY <1>0, <1>1, <1>2, <1>3 DEF Covered, Recovering, Over
<1>8. Noted  BY <1>3 DEF Noted
<1>9. QED  BY <1>2, <1>3, <1>5, <1>6, <1>7, <1>8, RecoveriesKept

LEMMA GiveUpRecoveries ==
    ASSUME Inv, Recoveries, NEW t \in Thread, ReopenFails(t) \/ ReprobeBusy(t)
    PROVE  Recoveries'
<1>1. Only(t) /\ task'[t].pc = "idle"  BY ReopenFailsStep, ReprobeBusyStep DEF Inv
<1>2. UNCHANGED <<tx, gen, touched>>  BY DEF ReopenFails, ReprobeBusy
<1>3. QED  BY <1>1, <1>2, Still, PlainStep DEF Over

LEMMA RunRecoveries ==
    ASSUME Inv, Recoveries, NEW r \in Run, RunBegins(r) \/ RunEnds(r)
    PROVE  Recoveries'
<1> USE ThreadFacts
<1>1. r \notin Provider  OBVIOUS
<1>2. UNCHANGED <<gen, task, touched>>  BY DEF RunBegins, RunEnds
<1>3. \A c \in Provider : tx'[c] = tx[c]
  BY <1>1 DEF RunBegins, RunEnds, Inv, IInv, TypeOK, Conn
<1>4. QED
  BY <1>2, <1>3 DEF Recoveries, Attached, Covered, Usable, MayRecover, Recovering, Remaining, Over

LEMMA CInvInit == Init => CInv
<1> SUFFICES ASSUME Init PROVE Recoveries  BY InitInv DEF CInv
<1>1. \A t \in Thread : task[t].pc = "idle"  BY DEF Init, IdleTask
<1>2. QED  BY <1>1 DEF Recoveries, Attached, Covered, Recovering, Working, Over

LEMMA CInvNext == CInv /\ [Next]_vars => CInv'
<1> SUFFICES ASSUME CInv, [Next]_vars PROVE Recoveries'  BY NextInv DEF CInv
<1>0. Inv /\ Recoveries  BY DEF CInv
<1>1. ASSUME NEW t \in Thread, Fail(t) PROVE Recoveries'
  BY <1>0, <1>1, FailRecoveries, RollbackRecoveries DEF Fail
<1>2. ASSUME NEW t \in Thread, Recover(t) PROVE Recoveries'
  BY <1>0, <1>2, PeerRecoveries, AttemptRecoveries, ReopenRecoveries, GiveUpRecoveries DEF Recover
<1>3. CASE UNCHANGED vars
  BY <1>0, <1>3 DEF vars, Recoveries, Attached, Covered, Usable, MayRecover, Recovering, Remaining, Over
<1>4. QED
  BY <1>0, <1>1, <1>2, <1>3, StartRecoveries, AppendRecoveries, StoreRecoveries, RunRecoveries
  DEF Next, Step

LEMMA OnlyIts ==
    ASSUME Inv, NEW t \in Thread, Start(t) \/ Step(t)
    PROVE  Only(t)
<1>0. IInv  BY DEF Inv
<1>1. CASE Start(t)  BY <1>0, <1>1, StartAppendStep, StartStoreStep DEF Start
<1>2. CASE Appending(t)
  BY <1>0, <1>2, NextEntryStep, InsertEntryStep, InsertRefusedStep, EndAppendStep DEF Appending
<1>3. CASE Store(t) \/ Relate(t)  BY <1>3, StoreMoves
<1>4. CASE Fail(t)
  BY <1>0, <1>4, StatementRefusedStep, StatementOnClosedStep, RollbackAfterErrorStep DEF Fail
<1>5. CASE Recover(t)
  BY <1>0, <1>5, RollbackPeerStep, ProbeOpenStep, ProbeBusyStep, ReopenStep, ReopenFailsStep,
     ReprobeOpenStep, ReprobeBusyStep DEF Recover
<1>6. QED  BY <1>1, <1>2, <1>3, <1>4, <1>5 DEF Step

\* Who gives up met somebody's write transaction, on a connection used since its
\* recovery began or on one that is not a provider's, or a peer without one.
LEMMA GivingUp ==
    ASSUME CInv, [Next]_vars, NEW t \in Thread, GivesUp(t)
    PROVE  MeetsWriter(t) \/ MeetsClosedPeer(t)
<1> USE ThreadFacts
<1>0. TypeOK /\ Attached(t) /\ Covered(t)  BY DEF CInv, Inv, IInv, Recoveries
<1>2. task'[t] # task[t]  BY DEF GivesUp, Over
<1>3. PICK u \in Thread : Start(u) \/ Step(u)
  BY <1>2 DEF Next, vars, RunBegins, RunEnds
<1>4. u = t  BY <1>2, <1>3, OnlyIts DEF CInv, Only
<1>5. ~Start(t) /\ ~Appending(t)
  BY DEF GivesUp, Start, StartAppend, StartStore, Starts, Appending, NextEntry, InsertEntry,
     InsertRefused, EndAppend
<1>6. ~Store(t) /\ ~Relate(t)
  BY StoreMoves DEF GivesUp, CInv, Working
<1>7. ~StatementOnClosed(t)
  BY <1>0 DEF StatementOnClosed, GivesUp, Attached, Working
<1>8. ~RollbackAfterError(t)  BY DEF RollbackAfterError, GivesUp
<1>9. CASE \E q \in Provider : RollbackPeer(t, q)
  <2>1. PICK q \in Provider : RollbackPeer(t, q)  BY <1>9
  <2>2. task[t].pc = "peers" /\ q \in task[t].todo /\ Free(q)  BY <2>1 DEF RollbackPeer
  <2>3. tx[q] # "closed" => task'[t].pc = "peers"
    <3> DEFINE s == task[t].todo \ {q}
               p == IF tx[q] = "closed" THEN "idle" ELSE "peers"
    <3>1. task[t] \in Task /\ task \in [Thread -> Task]  BY <1>0 DEF TypeOK
    <3>2. task'[t] = [task[t] EXCEPT !.todo = s, !.pc = p]  BY <2>1, <3>1 DEF RollbackPeer
    <3>3. tx[q] # "closed" => p = "peers"  OBVIOUS
    <3> HIDE DEF s, p
    <3>4. QED  BY <3>1, <3>2, <3>3 DEF Task
  <2>4. QED  BY <2>2, <2>3 DEF GivesUp, Over, MeetsClosedPeer
<1>10. CASE ~\E q \in Provider : RollbackPeer(t, q)
  <2>1. StatementRefused(t) \/ Recover(t)
    BY <1>3, <1>4, <1>5, <1>6, <1>7, <1>8 DEF Step, Fail
  <2>2. ~ProbeBusy(t) /\ ~ProbeOpen(t) /\ ~Reopen(t) /\ ~ReprobeOpen(t)
    BY ProbeBusyStep, ProbeOpenStep, ReopenStep, ReprobeOpenStep
    DEF GivesUp, ProbeBusy, ProbeOpen, Reopen, ReprobeOpen, AllPeersDone, CInv, Inv, Over
  <2>3. ~CanWrite(Home(t)) /\ task[t].pc # "peers" /\ Recovering(t)
    BY <1>10, <2>1, <2>2 DEF Recover, ReopenFails, ReprobeBusy, StatementRefused, GivesUp,
       Recovering, Over
  <2>4. PICK c \in Conn \ {Home(t)} : tx[c] = "write"  BY <2>3 DEF CanWrite
  <2>5. c \in Provider => c \in touched[t]  BY <1>0, <2>3, <2>4 DEF Covered, Remaining
  <2>6. QED  BY <2>4, <2>5 DEF Conn, MeetsWriter
<1>11. QED  BY <1>9, <1>10

\* scope_recall_store gives up on a locked database only because of a connection
\* used since its recovery began, of one that is not a provider's, or of a peer
\* that its own defeated recovery left without a connection: for any number of
\* providers, peers that were merely left dirty do not defeat it.
THEOREM RecoverySuffices == Spec => RecoveryIsEnough
<1>1. CInv /\ [Next]_vars =>
        [\A t \in Thread : GivesUp(t) => MeetsWriter(t) \/ MeetsClosedPeer(t)]_vars
  BY GivingUp
<1>2. QED  BY <1>1, CInvInit, CInvNext, PTL DEF Spec, RecoveryIsEnough

(***************************************************************************)
(* ProviderLifecycle: the host, the writer's queue, the background digests. *)
(***************************************************************************)

HIDE ConnectionsAssumption
USE LifecycleAssumption DEF LifecycleAssumption

\* Where the host's thread may be in each hook.
HooksMatch ==
    /\ host.pc \in {"new", "idle"} <=> host.hook = "none"
    /\ host.pc = "stage" => host.hook \in {"turn", "compress", "end"}
    /\ host.pc \in {"trigger", "inline"} => host.hook \in {"turn", "compress"}
    /\ host.pc = "capture" => host.hook = "turn"
    /\ host.pc \in {"flush", "wait"} => host.hook \in {"end", "flush", "shutdown"}
    /\ host.pc \in {"session", "promote"} => host.hook = "end"
    /\ host.pc \in {"stop", "join", "joindigest", "close", "closed"} => host.hook = "shutdown"
    /\ host.pc = "new" => writer.pc = "none"

\* provider._lock is held by the host while it promotes, by a digest while that
\* promotes, and every digest but the last is over.
LockMatches ==
    /\ lock = "host" <=> host.pc = "promote"
    /\ lock = "digest" <=> \E k \in DOMAIN digest : digest[k] = "promoting"
OnlyLast == \A k \in DOMAIN digest : k # Len(digest) => digest[k] = "done"

\* Every text is in one place only: once in the queue, in hand or handled.
IsStore(i) == queue[i].kind = "store"
Placed ==
    /\ \A i, j \in 1..Len(queue) : IsStore(i) /\ IsStore(j) /\ queue[i].text = queue[j].text => i = j
    /\ \A i \in 1..Len(queue) : IsStore(i) => queue[i].text \notin InHand \cup Handled
    /\ InHand \cap Handled = {}

\* What was promised to the last flush is handled, in hand, or in the queue before
\* a flush.
Ahead(t) == \E i, j \in 1..Len(queue) : i < j /\ IsStore(i) /\ queue[i].text = t /\ queue[j].kind = "flush"
PromiseAhead == \A t \in promised : t \in Handled \cup InHand \/ Ahead(t)

\* Nothing is accepted while the host waits for a flush, nor after the last one.
NothingNew == host.pc = "wait" => Accepted \subseteq promised
Drained ==
    host.pc \in {"stop", "join", "joindigest", "close", "closed"} /\ ~late => Queued \cup InHand = {}

Control == LTypeOK /\ HooksMatch
DigestInv == Control /\ LockMatches /\ OnlyLast /\ StatusIsTruthful /\ PromotesOnOpenConnection
QueueInv == Placed /\ PromiseAhead /\ FlushIsTruthful /\ NothingNew /\ Drained
LInv == DigestInv /\ QueueInv

LEMMA InitLInv == LInit => LInv
<1> SUFFICES ASSUME LInit PROVE LInv  OBVIOUS
<1>1. queue = <<>> /\ digest = <<>> /\ Len(queue) = 0 /\ Len(digest) = 0 /\ DOMAIN digest = {}
  BY DEF LInit
<1>0. NoJob \in Job  BY DEF NoJob, Job
<1>a. host \in [pc : HostPoint, hook : Hook]  BY DEF LInit, HostPoint, Hook
<1>b. writer \in [pc : {"none", "check", "get", "work", "ended"}, job : Job]  BY <1>0 DEF LInit
<1>c. queue \in Seq(Job) /\ digest \in Seq(DigestPoint)  BY DEF LInit
<1>f. clock \in 0..MaxClock /\ calls \in 0..MaxCalls /\ started \in 0..MaxClock  BY DEF LInit
<1>g. setup \subseteq Option /\ promised \subseteq Text /\ stored \subseteq Text /\ failed \subseteq Text
  BY DEF LInit
<1>h. /\ open \in BOOLEAN /\ lost \in BOOLEAN /\ stop \in BOOLEAN /\ event \in BOOLEAN /\ late \in BOOLEAN
      /\ lock \in {"nobody", "digest", "host"} /\ status \in {"never_run", "running", "ok", "error"}
  BY DEF LInit
<1>d. LTypeOK  BY <1>a, <1>b, <1>c, <1>f, <1>g, <1>h DEF LTypeOK
<1>e. HooksMatch  BY DEF LInit, HooksMatch
<1>2. Control  BY <1>d, <1>e DEF Control
<1>3. DigestInv
  BY <1>1, <1>2 DEF LInit, DigestInv, LockMatches, OnlyLast, StatusIsTruthful, PromotesOnOpenConnection
<1>4. QueueInv
  BY <1>1 DEF LInit, QueueInv, Placed, PromiseAhead, FlushIsTruthful, NothingNew, Drained, InHand, Handled
<1>5. QED  BY <1>3, <1>4 DEF LInv

------------------------------------------------------------------------------
(* Background digests *)

\* A step that leaves the digests, the lock and an open connection alone.
LEMMA DigestsKept ==
    ASSUME DigestInv, Control', UNCHANGED <<schedule, lock>>, UNCHANGED lost, open => open',
           host.pc = "promote" <=> host'.pc = "promote"
    PROVE  DigestInv'
BY DEF DigestInv, schedule, LockMatches, OnlyLast, StatusIsTruthful, PromotesOnOpenConnection, Connected

LEMMA WriterControl ==
    ASSUME Control, WriterStep
    PROVE  Control'
<1> USE DEF Control, LTypeOK, HooksMatch, schedule, WriterGoes, connection
<1>0. NoJob \in Job  BY DEF NoJob, Job
<1>1. CASE CheckStop  BY <1>1 DEF CheckStop
<1>2. CASE Get
  <2>1. CASE queue = <<>>  BY <1>2, <2>1 DEF Get
  <2>2. CASE queue # <<>>
    <3>1. Head(queue) \in Job /\ Tail(queue) \in Seq(Job)  BY <2>2, HeadTailProperties
    <3>2. writer' = [pc |-> "work", job |-> Head(queue)] /\ queue' = Tail(queue) /\ writer.pc = "get"
      BY <1>2, <2>2 DEF Get
    <3>3. QED  BY <1>2, <3>1, <3>2 DEF Get
  <2>3. QED  BY <2>1, <2>2
<1>3. CASE StoreJob
  <2>1. writer.job.text \in Text  BY <1>3 DEF StoreJob, Job
  <2>2. QED  BY <1>0, <1>3, <2>1 DEF StoreJob
<1>4. CASE FlushJob  BY <1>0, <1>4 DEF FlushJob
<1>5. CASE PoisonJob  BY <1>0, <1>5 DEF PoisonJob
<1>6. QED  BY <1>1, <1>2, <1>3, <1>4, <1>5 DEF WriterStep

LEMMA WriterDigests ==
    ASSUME DigestInv, WriterStep
    PROVE  DigestInv'
<1>1. Control'  BY WriterControl DEF DigestInv
<1>2. UNCHANGED <<schedule, lock, open, lost, host>>
  BY DEF WriterStep, CheckStop, Get, StoreJob, FlushJob, PoisonJob, schedule, connection
<1>3. QED  BY <1>1, <1>2, DigestsKept

\* Where the host's thread goes, the hook it runs stays.
LEMMA HostMoves ==
    ASSUME Control, NEW p \in HostPoint, HostGoes(p)
    PROVE  /\ host' = [pc |-> p, hook |-> host.hook]
           /\ host' \in [pc : HostPoint, hook : Hook]
           /\ host'.pc = p /\ host'.hook = host.hook
BY DEF Control, LTypeOK, HostGoes

LEMMA Returned ==
    ASSUME Return
    PROVE  /\ host' \in [pc : HostPoint, hook : Hook]
           /\ host'.pc = "idle" /\ host'.hook = "none"
BY DEF Return, HostPoint, Hook

\* What a step of the host's thread has to show of the control state.
LEMMA HostControl ==
    ASSUME Control, UNCHANGED <<setup, clock>>, lost' \in BOOLEAN, calls' \in 0..MaxCalls,
           host' \in [pc : HostPoint, hook : Hook], HooksMatch',
           lock' \in {"nobody", "digest", "host"},
           open' \in BOOLEAN, stop' \in BOOLEAN, event' \in BOOLEAN, late' \in BOOLEAN,
           queue' \in Seq(Job), promised' \subseteq Text,
           writer' \in [pc : {"none", "check", "get", "work", "ended"}, job : Job],
           UNCHANGED <<stored, failed, schedule>>
    PROVE  Control'
BY DEF Control, LTypeOK, schedule

LEMMA AcceptedIsText ==
    ASSUME Control
    PROVE  Accepted \subseteq Text
<1> USE DEF Control, LTypeOK
<1>1. \A j \in Job : j.kind = "store" => j.text \in Text  BY DEF Job
<1>2. ToSet(queue) \subseteq Job
  <2>1. \A i \in 1..Len(queue) : queue[i] \in Job  BY ElementOfSeq
  <2>2. DOMAIN queue = 1..Len(queue)  BY LenProperties
  <2>3. QED  BY <2>1, <2>2 DEF ToSet
<1>3. Queued \subseteq Text  BY <1>1, <1>2 DEF Queued
<1>4. InHand \subseteq Text  BY <1>1 DEF InHand
<1>5. QED  BY <1>3, <1>4 DEF Accepted, Handled

LEMMA CaptureJobs ==
    ASSUME NEW found \in Captures
    PROVE  /\ [i \in DOMAIN found |-> [kind |-> "store", text |-> found[i]]] \in Seq(Job)
           /\ Len([i \in DOMAIN found |-> [kind |-> "store", text |-> found[i]]]) = Len(found)
           /\ \A i \in 1..Len(found) : found[i] \in Text \ Accepted
           /\ \A i, j \in 1..Len(found) : found[i] = found[j] => i = j
           /\ DOMAIN found = 1..Len(found) /\ Len(found) \in Nat
<1>1. found \in SeqOf(Text \ Accepted, 2) /\ IsInjective(found)  BY DEF Captures
<1>2. PICK n \in 0..2 : found \in [1..n -> Text \ Accepted]  BY <1>1 DEF SeqOf
<1>3. found \in Seq(Text \ Accepted) /\ Len(found) = n /\ DOMAIN found = 1..n  BY <1>2
<1> DEFINE jobs == [i \in DOMAIN found |-> [kind |-> "store", text |-> found[i]]]
<1>4. \A i \in 1..n : found[i] \in Text \ Accepted  BY <1>2
<1>5. \A i \in 1..n : [kind |-> "store", text |-> found[i]] \in Job  BY <1>4 DEF Job
<1>6. jobs \in [1..n -> Job]  BY <1>3, <1>5
<1>7. jobs \in Seq(Job) /\ Len(jobs) = n  BY <1>6
<1>8. \A i, j \in 1..n : found[i] = found[j] => i = j  BY <1>1, <1>3 DEF IsInjective
<1>9. QED  BY <1>3, <1>4, <1>7, <1>8

LEMMA HostStepControl ==
    ASSUME Control, HostStep
    PROVE  Control'
<1> USE DEF Control, LTypeOK, capture, connection
<1>0. NoJob \in Job  BY DEF NoJob, Job
<1>1. CASE Initialize
  <2>1. writer' \in [pc : {"none", "check", "get", "work", "ended"}, job : Job]
    BY <1>0, <1>1 DEF Initialize
  <2>2. HooksMatch'  BY <1>1, Returned DEF Initialize, HooksMatch
  <2>3. QED  BY <1>1, <2>1, <2>2, HostControl, Returned DEF Initialize
<1>2. CASE Stage
  <2>1. host.pc = "stage" /\ host.hook \in {"turn", "compress", "end"}  BY <1>2 DEF Stage, HooksMatch
  <2>2. \/ Return
        \/ HostGoes("trigger") /\ host.hook \in {"turn", "compress"}
        \/ HostGoes("capture") /\ host.hook = "turn"
        \/ HostGoes("flush") /\ host.hook = "end"
    BY <1>2, <2>1 DEF Stage
  <2>3. host' \in [pc : HostPoint, hook : Hook] /\ HooksMatch'
    BY <1>2, <2>1, <2>2, Returned, HostMoves DEF Stage, HooksMatch, HostPoint
  <2>4. QED  BY <1>2, <2>3, HostControl DEF Stage
<1>3. CASE Trigger
  <2>1. host.pc = "trigger" /\ host.hook \in {"turn", "compress"}  BY <1>3 DEF Trigger, HooksMatch
  <2>2. \/ Return
        \/ HostGoes("capture") /\ host.hook = "turn"
        \/ HostGoes("inline")
    BY <1>3, <2>1 DEF Trigger, AfterTrigger
  <2>3. host' \in [pc : HostPoint, hook : Hook] /\ HooksMatch'
    BY <1>3, <2>1, <2>2, Returned, HostMoves DEF Trigger, HooksMatch, HostPoint
  <2>4. digest' \in Seq(DigestPoint)
    <3>1. "run" \in DigestPoint  BY DEF DigestPoint
    <3>2. Append(digest, "run") \in Seq(DigestPoint)  BY <3>1, AppendProperties
    <3>3. QED  BY <1>3, <3>2 DEF Trigger, schedule
  <2>5. started' \in 0..MaxClock /\ status' \in {"never_run", "running", "ok", "error"}
    BY <1>3 DEF Trigger, schedule
  <2>6. LTypeOK'
    BY <1>3, <2>3, <2>4, <2>5 DEF Trigger
  <2>7. QED  BY <2>3, <2>6
<1>4. CASE Inline
  <2>1. host.pc = "inline" /\ host.hook \in {"turn", "compress"}  BY <1>4 DEF Inline, HooksMatch
  <2>2. \/ Return
        \/ HostGoes("capture") /\ host.hook = "turn"
    BY <1>4, <2>1 DEF Inline, AfterTrigger
  <2>3. host' \in [pc : HostPoint, hook : Hook] /\ HooksMatch'
    BY <1>4, <2>1, <2>2, Returned, HostMoves DEF Inline, HooksMatch, HostPoint
  <2>4. QED  BY <1>4, <2>3, HostControl DEF Inline
<1>5. CASE Capture
  <2>1. queue' \in Seq(Job)  BY <1>5, CaptureJobs, ConcatProperties DEF Capture
  <2>2. HooksMatch'  BY <1>5, Returned DEF Capture, HooksMatch
  <2>3. QED  BY <1>5, <2>1, <2>2, HostControl, Returned DEF Capture
<1>6. CASE Flush
  <2>1. [kind |-> "flush"] \in Job  BY DEF Job
  <2>2. queue' \in Seq(Job)  BY <1>6, <2>1, AppendProperties DEF Flush
  <2>3. promised' \subseteq Text  BY <1>6, AcceptedIsText DEF Flush
  <2>4. host' \in [pc : HostPoint, hook : Hook] /\ HooksMatch'
    BY <1>6, HostMoves DEF Flush, HooksMatch, HostPoint
  <2>5. QED  BY <1>6, <2>2, <2>3, <2>4, HostControl DEF Flush
<1>7. CASE FlushDone \/ FlushTimesOut
  <2>1. host.pc = "wait" /\ host.hook \in {"end", "flush", "shutdown"}
    BY <1>7 DEF FlushDone, FlushTimesOut, HooksMatch
  <2>2. \/ Return
        \/ HostGoes("session") /\ host.hook = "end"
        \/ HostGoes("stop") /\ host.hook = "shutdown"
    BY <1>7, <2>1 DEF FlushDone, FlushTimesOut, AfterFlush
  <2>3. host' \in [pc : HostPoint, hook : Hook] /\ HooksMatch'
    BY <1>7, <2>1, <2>2, Returned, HostMoves DEF FlushDone, FlushTimesOut, HooksMatch, HostPoint
  <2>4. late' \in BOOLEAN  BY <1>7 DEF FlushDone, FlushTimesOut
  <2>5. QED  BY <1>7, <2>3, <2>4, HostControl DEF FlushDone, FlushTimesOut
<1>8. CASE SessionDigest
  <2>1. host.pc = "session" /\ host.hook = "end"  BY <1>8 DEF SessionDigest, HooksMatch
  <2>2. host' \in [pc : HostPoint, hook : Hook] /\ HooksMatch'
    BY <1>8, <2>1, Returned, HostMoves DEF SessionDigest, HooksMatch, HostPoint
  <2>3. lock' \in {"nobody", "digest", "host"}  BY <1>8 DEF SessionDigest
  <2>4. QED  BY <1>8, <2>2, <2>3, HostControl DEF SessionDigest
<1>9. CASE SessionPromoted
  <2>1. HooksMatch'  BY <1>9, Returned DEF SessionPromoted, HooksMatch
  <2>2. QED  BY <1>9, <2>1, HostControl, Returned DEF SessionPromoted
<1>10. CASE Stop
  <2>1. [kind |-> "poison"] \in Job  BY DEF Job
  <2>2. queue' \in Seq(Job)  BY <1>10, <2>1, AppendProperties DEF Stop
  <2>3. host.hook = "shutdown"  BY <1>10 DEF Stop, HooksMatch
  <2>4. HostGoes("joindigest") \/ HostGoes("join")  BY <1>10 DEF Stop
  <2>5. host' \in [pc : HostPoint, hook : Hook] /\ HooksMatch'
    BY <1>10, <2>3, <2>4, HostMoves DEF Stop, HooksMatch, HostPoint
  <2>6. QED  BY <1>10, <2>2, <2>5, HostControl DEF Stop
<1>11. CASE Join
  <2>1. host.hook = "shutdown"  BY <1>11 DEF Join, HooksMatch
  <2>2. HostGoes("joindigest") \/ HostGoes("close")  BY <1>11 DEF Join
  <2>3. host' \in [pc : HostPoint, hook : Hook] /\ HooksMatch'
    BY <1>11, <2>1, <2>2, HostMoves DEF Join, HooksMatch, HostPoint
  <2>4. late' \in BOOLEAN  BY <1>11 DEF Join
  <2>5. QED  BY <1>11, <2>3, <2>4, HostControl DEF Join
<1>12. CASE Close
  <2>1. host.hook = "shutdown"  BY <1>12 DEF Close, HooksMatch
  <2>2. host' \in [pc : HostPoint, hook : Hook] /\ HooksMatch'
    BY <1>12, <2>1, HostMoves DEF Close, HooksMatch, HostPoint
  <2>3. QED  BY <1>12, <2>2, HostControl DEF Close
<1>13. QED
  BY <1>1, <1>2, <1>3, <1>4, <1>5, <1>6, <1>7, <1>8, <1>9, <1>10, <1>11, <1>12 DEF HostStep

\* A digest that starts is the only one that is not over.
LEMMA TriggerDigests ==
    ASSUME DigestInv, Control', Trigger
    PROVE  DigestInv'
<1> USE DEF DigestInv, Control, LTypeOK
<1>1. CASE UNCHANGED schedule
  <2>1. UNCHANGED <<lock, open, lost>> /\ host.pc # "promote"  BY DEF Trigger, connection
  <2>2. host'.pc # "promote"
    BY <1>1, HostMoves, Returned DEF Trigger, AfterTrigger, HostPoint
  <2>3. QED  BY <1>1, <2>1, <2>2, DigestsKept
<1>2. CASE ~UNCHANGED schedule
  <2>1. ~DigestAlive /\ digest' = Append(digest, "run") /\ status' = "running" /\ UNCHANGED <<lock, open, lost>>
    BY <1>2 DEF Trigger, schedule, connection
  <2>2. DOMAIN digest = 1..Len(digest) /\ Len(digest) \in Nat  BY LenProperties
  <2>3. \A k \in DOMAIN digest : digest[k] = "done"
    BY <2>1, <2>2 DEF DigestAlive, Last, OnlyLast
  <2>4. /\ DOMAIN digest' = 1..(Len(digest) + 1) /\ Len(digest') = Len(digest) + 1
        /\ \A k \in 1..Len(digest) : digest'[k] = "done"
        /\ digest'[Len(digest) + 1] = "run"
    <3>1. "run" \in DigestPoint  BY DEF DigestPoint
    <3>2. digest' \in Seq(DigestPoint) /\ Len(digest') = Len(digest) + 1 /\ digest'[Len(digest) + 1] = "run"
      BY <2>1, <3>1, AppendProperties
    <3>3. \A k \in 1..Len(digest) : digest'[k] = digest[k]  BY <2>1, <3>1, AppendProperties
    <3>4. QED  BY <2>2, <2>3, <3>2, <3>3, LenProperties
  <2>5. OnlyLast'  BY <2>4, <2>2 DEF OnlyLast
  <2>6. /\ \A k \in DOMAIN digest : digest[k] # "promoting"
        /\ \A k \in DOMAIN digest' : digest'[k] # "promoting"
    <3>1. ASSUME NEW k \in DOMAIN digest' PROVE digest'[k] # "promoting"
      <4>1. k \in 1..Len(digest) \/ k = Len(digest) + 1  BY <2>2, <2>4
      <4>2. QED  BY <2>4, <4>1
    <3>2. QED  BY <2>3, <3>1
  <2>7. host.pc = "trigger" /\ host'.pc # "promote"
    BY HostMoves, Returned DEF Trigger, AfterTrigger, HostPoint
  <2>8. LockMatches'  BY <2>1, <2>6, <2>7 DEF LockMatches
  <2>9. StatusIsTruthful'
    <3>1. Len(digest) + 1 \in DOMAIN digest'  BY <2>2, <2>4
    <3>2. QED  BY <2>1, <2>4, <3>1 DEF StatusIsTruthful
  <2>10. PromotesOnOpenConnection'  BY <2>6 DEF PromotesOnOpenConnection
  <2>11. QED  BY <2>5, <2>8, <2>9, <2>10
<1>3. QED  BY <1>1, <1>2

LEMMA HostDigests ==
    ASSUME DigestInv, HostStep
    PROVE  DigestInv'
<1>0. Control /\ Control'  BY HostStepControl DEF DigestInv
<1>1. CASE Trigger  BY <1>0, <1>1, TriggerDigests
<1>2. CASE SessionDigest
  <2>1. UNCHANGED <<schedule, open, lost>>  BY <1>2 DEF SessionDigest, connection
  <2>2. \/ lock = "nobody" /\ lock' = "host" /\ HostGoes("promote")
        \/ Return /\ UNCHANGED lock
    BY <1>2 DEF SessionDigest
  <2>3. host.pc = "session"  BY <1>2 DEF SessionDigest
  <2>4. CASE Return /\ UNCHANGED lock
    BY <1>0, <2>1, <2>3, <2>4, Returned, DigestsKept
  <2>5. CASE lock = "nobody" /\ lock' = "host" /\ HostGoes("promote")
    <3>1. host'.pc = "promote"  BY <1>0, <2>5, HostMoves DEF HostPoint
    <3>2. LockMatches'  BY <2>1, <2>5, <3>1 DEF LockMatches, DigestInv, schedule
    <3>3. QED
      BY <1>0, <2>1, <3>2 DEF DigestInv, schedule, OnlyLast, StatusIsTruthful, PromotesOnOpenConnection, Connected
  <2>6. QED  BY <2>2, <2>4, <2>5
<1>3. CASE SessionPromoted
  <2>1. host.pc = "promote" /\ host'.pc = "idle" /\ lock' = "nobody" /\ UNCHANGED <<schedule, open, lost>>
    BY <1>3, Returned DEF SessionPromoted, connection
  <2>2. LockMatches'  BY <2>1 DEF LockMatches, DigestInv, schedule
  <2>3. QED
    BY <1>0, <2>1, <2>2 DEF DigestInv, schedule, OnlyLast, StatusIsTruthful, PromotesOnOpenConnection, Connected
<1>4. CASE Close
  <2>1. lock = "nobody" /\ UNCHANGED <<schedule, lock, lost>> /\ host.pc = "close"  BY <1>4 DEF Close
  <2>2. host'.pc = "closed"  BY <1>0, <1>4, HostMoves DEF Close, HostPoint
  <2>3. LockMatches'  BY <2>1, <2>2 DEF LockMatches, DigestInv, schedule
  <2>4. PromotesOnOpenConnection'
    BY <2>1 DEF PromotesOnOpenConnection, LockMatches, DigestInv, schedule
  <2>5. QED  BY <1>0, <2>1, <2>3, <2>4 DEF DigestInv, schedule, OnlyLast, StatusIsTruthful
<1>5. CASE Initialize \/ Stage \/ Inline \/ Capture \/ Flush \/ FlushDone \/ FlushTimesOut \/ Stop \/ Join
  <2>1. UNCHANGED <<schedule, lock, lost>> /\ (open => open')
    <3>1. CASE Initialize \/ Capture \/ Flush  BY <3>1 DEF Initialize, Capture, Flush, connection
    <3>2. CASE Stage  BY <3>2 DEF Stage, connection
    <3>5. CASE Inline  BY <3>5 DEF Inline, connection
    <3>3. CASE FlushDone \/ FlushTimesOut \/ Stop \/ Join
      BY <3>3 DEF FlushDone, FlushTimesOut, Stop, Join, connection
    <3>4. QED  BY <1>5, <3>1, <3>2, <3>3, <3>5
  <2>2. host.pc # "promote"
    BY <1>5 DEF Initialize, Stage, Inline, Capture, Flush, FlushDone, FlushTimesOut, Stop, Join
  <2>3. \/ Return
        \/ \E p \in HostPoint \ {"promote"} : HostGoes(p)
    <3>1. CASE Initialize \/ Capture  BY <3>1 DEF Initialize, Capture
    <3>2. CASE Stage
      <4>1. host.hook \in {"turn", "compress", "end"}  BY <1>0, <3>2 DEF Stage, Control, HooksMatch
      <4>2. QED  BY <3>2, <4>1 DEF Stage, HostPoint
    <3>3. CASE Inline  BY <3>3 DEF Inline, AfterTrigger, HostPoint
    <3>4. CASE FlushDone \/ FlushTimesOut
      <4>1. host.hook \in {"end", "flush", "shutdown"}
        BY <1>0, <3>4 DEF FlushDone, FlushTimesOut, Control, HooksMatch
      <4>2. QED  BY <3>4, <4>1 DEF FlushDone, FlushTimesOut, AfterFlush, HostPoint
    <3>5. CASE Flush \/ Stop \/ Join  BY <3>5 DEF Flush, Stop, Join, HostPoint
    <3>6. QED  BY <1>5, <3>1, <3>2, <3>3, <3>4, <3>5
  <2>4. host'.pc # "promote"  BY <1>0, <2>3, HostMoves, Returned
  <2>5. QED  BY <1>0, <2>1, <2>2, <2>4, DigestsKept
<1>6. QED  BY <1>1, <1>2, <1>3, <1>4, <1>5 DEF HostStep

LEMMA DigestDigests ==
    ASSUME DigestInv, NEW k \in DOMAIN digest, DigestStep(k)
    PROVE  DigestInv'
<1> USE DEF DigestInv, Control, LTypeOK
<1>0. /\ DOMAIN digest = 1..Len(digest) /\ Len(digest) \in Nat
      /\ \A j \in DOMAIN digest : digest[j] \in DigestPoint
  BY LenProperties, ElementOfSeq
<1>1. UNCHANGED <<setup, clock, host, calls, open, lost, late, queue, writer, stop, event, promised, stored, failed, started>>
  BY DEF DigestStep, DigestReports, PromotionBegins, PromotionEnds, capture, connection
<1>2. ASSUME NEW p \in DigestPoint, digest' = [digest EXCEPT ![k] = p]
      PROVE  /\ digest' \in Seq(DigestPoint) /\ Len(digest') = Len(digest) /\ DOMAIN digest' = DOMAIN digest
             /\ digest'[k] = p /\ \A j \in DOMAIN digest : j # k => digest'[j] = digest[j]
  BY <1>0, <1>2, ExceptSeq, LenProperties
<1>3. digest[k] # "done" => k = Len(digest)  BY DEF OnlyLast
<1>4. CASE DigestReports(k)
  <2>1. /\ digest[k] = "run" /\ UNCHANGED <<lock, open, lost, host>>
        /\ \E p \in {"promote", "done"} : digest' = [digest EXCEPT ![k] = p]
        /\ status' \in {"ok", "error"} \/ (lost /\ status' = "running")
    BY <1>4 DEF DigestReports, connection
  <2>2. PICK p \in {"promote", "done"} : digest' = [digest EXCEPT ![k] = p]  BY <2>1
  <2>3. p \in DigestPoint  BY DEF DigestPoint
  <2>4. /\ digest' \in Seq(DigestPoint) /\ Len(digest') = Len(digest) /\ DOMAIN digest' = DOMAIN digest
        /\ digest'[k] = p /\ \A j \in DOMAIN digest : j # k => digest'[j] = digest[j]
    BY <1>2, <2>2, <2>3
  <2>5. LTypeOK'  BY <1>1, <2>1, <2>4
  <2>6. HooksMatch'  BY <1>1 DEF HooksMatch
  <2>7. OnlyLast'  BY <1>3, <2>1, <2>4 DEF OnlyLast
  <2>8. LockMatches'  BY <2>1, <2>4 DEF LockMatches
  <2>9. StatusIsTruthful'
    <3>1. \A j \in DOMAIN digest' : digest'[j] # "run"  BY <1>0, <1>3, <2>1, <2>4 DEF OnlyLast
    <3>2. QED  BY <2>1, <3>1 DEF StatusIsTruthful
  <2>10. PromotesOnOpenConnection'  BY <2>1, <2>4 DEF PromotesOnOpenConnection, Connected
  <2>11. QED  BY <2>5, <2>6, <2>7, <2>8, <2>9, <2>10
<1>5. CASE PromotionBegins(k)
  <2>1. /\ digest[k] = "promote" /\ lock = "nobody" /\ UNCHANGED <<open, lost, host, status>>
        /\ \/ Connected /\ lock' = "digest" /\ digest' = [digest EXCEPT ![k] = "promoting"]
           \/ lock' = lock /\ digest' = [digest EXCEPT ![k] = "done"]
    BY <1>5 DEF PromotionBegins, connection
  <2>2. PICK p \in {"promoting", "done"} :
          /\ digest' = [digest EXCEPT ![k] = p]
          /\ p = "promoting" => Connected /\ lock' = "digest"
          /\ p = "done" => lock' = lock
    BY <2>1
  <2>3. p \in DigestPoint  BY DEF DigestPoint
  <2>4. /\ digest' \in Seq(DigestPoint) /\ Len(digest') = Len(digest) /\ DOMAIN digest' = DOMAIN digest
        /\ digest'[k] = p /\ \A j \in DOMAIN digest : j # k => digest'[j] = digest[j]
    BY <1>2, <2>2, <2>3
  <2>5. lock' \in {"nobody", "digest", "host"}  BY <2>1
  <2>6. LTypeOK'  BY <1>1, <2>1, <2>4, <2>5
  <2>7. HooksMatch'  BY <1>1 DEF HooksMatch
  <2>8. OnlyLast'  BY <1>3, <2>1, <2>4 DEF OnlyLast
  <2>9. \A j \in DOMAIN digest : digest[j] # "promoting"  BY <2>1 DEF LockMatches
  <2>10. LockMatches'  BY <2>1, <2>2, <2>4, <2>9 DEF LockMatches
  <2>11. StatusIsTruthful'  BY <2>1, <2>2, <2>4 DEF StatusIsTruthful
  <2>12. PromotesOnOpenConnection'  BY <2>1, <2>2, <2>4, <2>9 DEF PromotesOnOpenConnection, Connected
  <2>13. QED  BY <2>6, <2>7, <2>8, <2>10, <2>11, <2>12
<1>6. CASE PromotionEnds(k)
  <2>1. /\ digest[k] = "promoting" /\ lock' = "nobody" /\ UNCHANGED <<open, lost, host, status>>
        /\ digest' = [digest EXCEPT ![k] = "done"]
    BY <1>6 DEF PromotionEnds, connection
  <2>2. "done" \in DigestPoint  BY DEF DigestPoint
  <2>3. /\ digest' \in Seq(DigestPoint) /\ Len(digest') = Len(digest) /\ DOMAIN digest' = DOMAIN digest
        /\ digest'[k] = "done" /\ \A j \in DOMAIN digest : j # k => digest'[j] = digest[j]
    BY <1>2, <2>1, <2>2
  <2>4. LTypeOK'  BY <1>1, <2>1, <2>3
  <2>5. HooksMatch'  BY <1>1 DEF HooksMatch
  <2>6. \A j \in DOMAIN digest' : digest'[j] = "done"  BY <1>0, <1>3, <2>1, <2>3 DEF OnlyLast
  <2>7. OnlyLast'  BY <2>6, <2>3 DEF OnlyLast
  <2>8. host.pc # "promote"  BY <2>1 DEF LockMatches
  <2>9. LockMatches'  BY <2>1, <2>6, <2>8 DEF LockMatches
  <2>10. StatusIsTruthful'
    <3>1. \A j \in DOMAIN digest : digest[j] # "run"  BY <1>0, <1>3, <2>1 DEF OnlyLast
    <3>2. QED  BY <2>1, <2>6, <3>1 DEF StatusIsTruthful
  <2>11. PromotesOnOpenConnection'  BY <2>6 DEF PromotesOnOpenConnection
  <2>12. QED  BY <2>4, <2>5, <2>7, <2>9, <2>10, <2>11
<1>7. QED  BY <1>4, <1>5, <1>6 DEF DigestStep

LEMMA DigestInvStep ==
    ASSUME DigestInv, [LNext]_lvars
    PROVE  DigestInv'
<1> USE DEF DigestInv
<1>1. CASE \E hook \in Hook \ {"none"} : Call(hook)
  <2>1. PICK hook \in Hook \ {"none"} : Call(hook)  BY <1>1
  <2>2. host.pc = "idle" /\ UNCHANGED <<schedule, lock, open, lost, queue, writer, setup, clock, late, stop, event, promised, stored, failed>>
    BY <2>1 DEF Call, capture, connection
  <2>3. host' = [hook |-> hook, pc |-> IF hook \in {"flush", "shutdown"} THEN "flush" ELSE "stage"]
    BY <2>1 DEF Call
  <2>4. host' \in [pc : HostPoint, hook : Hook] /\ HooksMatch' /\ host'.pc # "promote"
    BY <2>2, <2>3 DEF HostPoint, Hook, Control, HooksMatch
  <2>5. calls' \in 0..MaxCalls  BY <2>1 DEF Call, Control, LTypeOK
  <2>6. Control'  BY <2>2, <2>4, <2>5, HostControl DEF Control, LTypeOK
  <2>7. QED  BY <2>2, <2>4, <2>6, DigestsKept
<1>2. CASE Tick
  <2>1. Control'  BY <1>2 DEF Tick, Control, LTypeOK, HooksMatch, capture, schedule, connection
  <2>2. QED  BY <1>2, <2>1, DigestsKept DEF Tick, connection
<1>3. CASE UNCHANGED lvars
  <2>1. Control'  BY <1>3 DEF lvars, Control, LTypeOK, HooksMatch, capture, schedule, connection
  <2>2. QED  BY <1>3, <2>1, DigestsKept DEF lvars, connection
<1>5. CASE LoseConnection
  <2>1. Control'  BY <1>5, HostControl DEF LoseConnection, Control, LTypeOK, HooksMatch, capture
  <2>2. UNCHANGED <<schedule, lock, host, open>> /\ lost' /\ lock = "nobody"  BY <1>5 DEF LoseConnection
  <2>3. LockMatches' /\ OnlyLast' /\ StatusIsTruthful'
    BY <2>2 DEF LockMatches, OnlyLast, StatusIsTruthful, schedule
  <2>4. PromotesOnOpenConnection'  BY <2>2 DEF PromotesOnOpenConnection, LockMatches, schedule
  <2>5. QED  BY <2>1, <2>3, <2>4
<1>4. QED
  BY <1>1, <1>2, <1>3, <1>5, HostDigests, WriterDigests, DigestDigests DEF LNext

------------------------------------------------------------------------------
(* The queue *)

LEMMA QueuedAt ==
    ASSUME NEW q \in Seq(Job), NEW t
    PROVE  t \in {j.text : j \in {k \in ToSet(q) : k.kind = "store"}}
               <=> \E i \in 1..Len(q) : q[i].kind = "store" /\ q[i].text = t
<1>1. DOMAIN q = 1..Len(q)  BY LenProperties
<1>2. QED  BY <1>1 DEF ToSet

\* A step that leaves the queue and the writer alone, and the host outside of a
\* wait and of the end of a shutdown unless it was there.
LEMMA QueueKept ==
    ASSUME QueueInv, UNCHANGED <<queue, writer, stored, failed, promised, event>>,
           host'.pc = "wait" => host.pc = "wait",
           host'.pc \in {"stop", "join", "joindigest", "close", "closed"} /\ ~late'
               => host.pc \in {"stop", "join", "joindigest", "close", "closed"} /\ ~late
    PROVE  QueueInv'
<1>1. UNCHANGED <<Queued, InHand, Handled, Accepted>>
  BY DEF Queued, InHand, Handled, Accepted
<1>2. Placed'  BY <1>1 DEF QueueInv, Placed, IsStore
<1>3. PromiseAhead'  BY <1>1 DEF QueueInv, PromiseAhead, Ahead, IsStore
<1>4. FlushIsTruthful' /\ NothingNew' /\ Drained'
  BY <1>1 DEF QueueInv, FlushIsTruthful, NothingNew, Drained
<1>5. QED  BY <1>2, <1>3, <1>4 DEF QueueInv

\* New jobs at the end of the queue.
LEMMA Appended ==
    ASSUME Control, QueueInv, NEW s \in Seq(Job), queue' = queue \o s,
           UNCHANGED <<writer, stored, failed>>,
           \A i \in 1..Len(s) : s[i].kind = "store" => s[i].text \notin Accepted,
           \A i, j \in 1..Len(s) :
               s[i].kind = "store" /\ s[j].kind = "store" /\ s[i].text = s[j].text => i = j
    PROVE  /\ Placed'
           /\ \A t : Ahead(t) => Ahead(t)'
           /\ UNCHANGED <<InHand, Handled>>
           /\ (\A i \in 1..Len(s) : s[i].kind # "store") => Queued' = Queued
<1> DEFINE n == Len(queue)  m == Len(s)  l == Len(queue')
<1>1. queue \in Seq(Job)  BY DEF Control, LTypeOK
<1>2. n \in Nat /\ m \in Nat  BY <1>1, LenProperties
<1>3. /\ queue' \in Seq(Job) /\ l = n + m /\ l \in Nat
      /\ \A i \in 1..n : queue'[i] = queue[i]
      /\ \A i \in 1..l : i > n => i - n \in 1..m /\ queue'[i] = s[i - n]
  <2>1. /\ queue' \in Seq(Job) /\ l = n + m
        /\ \A i \in 1..(n + m) : queue'[i] = IF i <= n THEN queue[i] ELSE s[i - n]
    BY <1>1, ConcatProperties
  <2> HIDE DEF n, m, l
  <2>2. l \in Nat  BY <1>2, <2>1
  <2>3. \A i \in 1..l : i > n => i - n \in 1..m  BY <1>2, <2>1
  <2>4. \A i \in 1..n : i \in 1..l /\ i <= n  BY <1>2, <2>1
  <2>5. \A i \in 1..l : i > n => ~(i <= n)  BY <1>2, <2>2
  <2>6. QED  BY <2>1, <2>2, <2>3, <2>4, <2>5
<1> HIDE DEF n, m, l
<1>4. UNCHANGED <<InHand, Handled>>  BY DEF InHand, Handled
<1>5. \A t : t \in Queued <=> \E i \in 1..n : queue[i].kind = "store" /\ queue[i].text = t
  BY <1>1, QueuedAt DEF Queued, n
<1>6. \A t : t \in Queued' <=> \E i \in 1..l : queue'[i].kind = "store" /\ queue'[i].text = t
  BY <1>3, QueuedAt DEF Queued, l
<1>7. Placed'
  <2>1. ASSUME NEW i \in 1..l, NEW j \in 1..l, i < j,
               queue'[i].kind = "store", queue'[j].kind = "store", queue'[i].text = queue'[j].text
        PROVE  FALSE
    <3>1. CASE j \in 1..n
      BY <1>2, <1>3, <2>1, <3>1 DEF QueueInv, Placed, IsStore, n
    <3>2. CASE i \in 1..n /\ j > n
      <4>1. queue[i].kind = "store" /\ queue'[j] = s[j - n] /\ queue[i].text = s[j - n].text /\ j - n \in 1..m
        BY <1>3, <2>1, <3>2
      <4>2. queue[i].text \in Accepted  BY <1>5, <3>2, <4>1 DEF Accepted
      <4>3. QED  BY <2>1, <4>1, <4>2 DEF m
    <3>3. CASE i > n /\ j > n
      <4>1. i - n \in 1..m /\ j - n \in 1..m /\ queue'[i] = s[i - n] /\ queue'[j] = s[j - n]
        BY <1>3, <2>1, <3>3
      <4>2. i - n = j - n  BY <2>1, <4>1 DEF m
      <4>3. QED  BY <1>2, <2>1, <4>2
    <3>4. QED  BY <1>2, <2>1, <3>1, <3>2, <3>3
  <2>2. ASSUME NEW i \in 1..l, queue'[i].kind = "store"
        PROVE  queue'[i].text \notin InHand \cup Handled
    <3>1. CASE i \in 1..n  BY <1>3, <2>2, <3>1 DEF QueueInv, Placed, IsStore, n
    <3>2. CASE i > n  BY <1>3, <2>2, <3>2 DEF Accepted, m
    <3>3. i \in 1..n \/ i > n  BY <1>2, <1>3
    <3>4. QED  BY <3>1, <3>2, <3>3
  <2>3. \A i, j \in 1..l : queue'[i].kind = "store" /\ queue'[j].kind = "store"
                                    /\ queue'[i].text = queue'[j].text => i = j
    <3>1. \A i, j \in 1..l : i < j \/ j < i \/ i = j  BY <1>3
    <3>2. QED  BY <2>1, <3>1
  <2>4. QED  BY <1>3, <1>4, <2>2, <2>3 DEF QueueInv, Placed, IsStore, l
<1>8. ASSUME NEW t, Ahead(t) PROVE Ahead(t)'
  <2>1. PICK i, j \in 1..n : i < j /\ queue[i].kind = "store" /\ queue[i].text = t /\ queue[j].kind = "flush"
    BY <1>8 DEF Ahead, IsStore, n
  <2>2. i \in 1..l /\ j \in 1..l /\ queue'[i] = queue[i] /\ queue'[j] = queue[j]
    <3>1. \A k \in 1..n : k \in 1..l  BY <1>2, <1>3
    <3>2. QED  BY <1>3, <3>1
  <2>3. QED  BY <1>3, <2>1, <2>2 DEF Ahead, IsStore, l
<1>9. ASSUME \A i \in 1..m : s[i].kind # "store" PROVE Queued' = Queued
  <2>1. ASSUME NEW t PROVE t \in Queued' <=> t \in Queued
    <3>1. \A i \in 1..l : queue'[i].kind = "store" => i \in 1..n
      <4>1. \A i \in 1..l : i > n \/ i \in 1..n  BY <1>2, <1>3
      <4>2. QED  BY <1>3, <1>9, <4>1
    <3>2. \A i \in 1..n : i \in 1..l /\ queue'[i] = queue[i]
      <4>1. \A i \in 1..n : i \in 1..l  BY <1>2, <1>3
      <4>2. QED  BY <1>3, <4>1
    <3>3. ASSUME t \in Queued' PROVE t \in Queued
      <4>1. PICK i \in 1..l : queue'[i].kind = "store" /\ queue'[i].text = t  BY <1>6, <3>3
      <4>2. i \in 1..n /\ queue'[i] = queue[i]  BY <3>1, <3>2, <4>1
      <4>3. QED  BY <1>5, <4>1, <4>2
    <3>4. ASSUME t \in Queued PROVE t \in Queued'
      <4>1. PICK i \in 1..n : queue[i].kind = "store" /\ queue[i].text = t  BY <1>5, <3>4
      <4>2. i \in 1..l /\ queue'[i] = queue[i]  BY <3>2
      <4>3. QED  BY <1>6, <4>1, <4>2
    <3>5. QED  BY <3>3, <3>4
  <2>2. QED  BY <2>1
<1>10. QED  BY <1>4, <1>7, <1>8, <1>9 DEF m

LEMMA CaptureQueue ==
    ASSUME Control, QueueInv, Capture
    PROVE  QueueInv'
<1>1. PICK found \in Captures :
        queue' = queue \o [i \in DOMAIN found |-> [kind |-> "store", text |-> found[i]]]
  BY DEF Capture
<1> DEFINE s == [i \in DOMAIN found |-> [kind |-> "store", text |-> found[i]]]
<1>2. /\ s \in Seq(Job) /\ Len(s) = Len(found)
      /\ \A i \in 1..Len(s) : s[i].kind = "store" /\ s[i].text = found[i]
  BY CaptureJobs
<1>3. /\ \A i \in 1..Len(s) : s[i].text \notin Accepted
      /\ \A i, j \in 1..Len(s) : s[i].text = s[j].text => i = j
  BY <1>2, CaptureJobs
<1>4. UNCHANGED <<writer, stored, failed, promised, event>> /\ queue' = queue \o s
  BY <1>1 DEF Capture
<1> HIDE DEF s
<1>5. Placed' /\ (\A t : Ahead(t) => Ahead(t)') /\ UNCHANGED <<InHand, Handled>>
  BY <1>2, <1>3, <1>4, Appended
<1>6. PromiseAhead'  BY <1>4, <1>5 DEF QueueInv, PromiseAhead
<1>7. FlushIsTruthful'  BY <1>4, <1>5 DEF QueueInv, FlushIsTruthful
<1>8. host'.pc = "idle"  BY Returned DEF Capture
<1>9. NothingNew' /\ Drained'  BY <1>8 DEF NothingNew, Drained
<1>10. QED  BY <1>5, <1>6, <1>7, <1>9 DEF QueueInv

\* A job that is not a store goes to the end of the queue.
LEMMA AppendedOne ==
    ASSUME Control, QueueInv, NEW j \in Job, j.kind # "store", queue' = Append(queue, j),
           UNCHANGED <<writer, stored, failed>>
    PROVE  /\ Placed' /\ UNCHANGED <<Queued, InHand, Handled, Accepted>>
           /\ \A t : Ahead(t) => Ahead(t)'
<1>1. queue \in Seq(Job)  BY DEF Control, LTypeOK
<1>2. queue' = queue \o <<j>> /\ <<j>> \in Seq(Job) /\ Len(<<j>>) = 1 /\ <<j>>[1] = j
  BY <1>1, AppendIsConcat
<1>3. \A i \in 1..Len(<<j>>) : <<j>>[i].kind # "store"  BY <1>2
<1>4. QED  BY <1>2, <1>3, Appended DEF Accepted

LEMMA FlushQueue ==
    ASSUME Control, QueueInv, Flush
    PROVE  QueueInv'
<1> DEFINE n == Len(queue)
<1>1. queue \in Seq(Job) /\ n \in Nat  BY LenProperties DEF Control, LTypeOK
<1>2. [kind |-> "flush"] \in Job  BY DEF Job
<1>3. /\ queue' = Append(queue, [kind |-> "flush"]) /\ event' = FALSE /\ promised' = Accepted
      /\ UNCHANGED <<writer, stored, failed>>
  BY DEF Flush
<1>4. Placed' /\ UNCHANGED <<Queued, InHand, Handled, Accepted>>  BY <1>2, <1>3, AppendedOne
<1>5. PromiseAhead'
  <2>1. ASSUME NEW t \in Queued PROVE Ahead(t)'
    <3>1. PICK i \in 1..n : queue[i].kind = "store" /\ queue[i].text = t
      BY <1>1, QueuedAt DEF Queued
    <3>2. /\ Len(queue') = n + 1 /\ queue'[n + 1] = [kind |-> "flush"]
          /\ \A k \in 1..n : queue'[k] = queue[k]
      BY <1>1, <1>2, <1>3, AppendProperties
    <3>3. i \in 1..(n + 1) /\ n + 1 \in 1..(n + 1) /\ i < n + 1 /\ queue'[i] = queue[i]
      BY <1>1, <3>2
    <3>4. QED  BY <3>1, <3>2, <3>3 DEF Ahead, IsStore
  <2>2. QED  BY <1>3, <1>4, <2>1 DEF PromiseAhead, Accepted
<1>6. FlushIsTruthful'  BY <1>3 DEF FlushIsTruthful
<1>7. host'.pc = "wait" /\ Accepted' \subseteq promised'
  BY <1>3, <1>4, HostMoves DEF Flush, HostPoint
<1>8. QED  BY <1>4, <1>5, <1>6, <1>7 DEF QueueInv, NothingNew, Drained

LEMMA FlushDoneQueue ==
    ASSUME Control, QueueInv, FlushDone \/ FlushTimesOut
    PROVE  QueueInv'
<1>1. /\ UNCHANGED <<queue, writer, stored, failed, promised, event>> /\ host.pc = "wait" /\ AfterFlush
      /\ FlushDone => event
      /\ FlushTimesOut => late' = (late \/ host.hook = "shutdown")
  BY DEF FlushDone, FlushTimesOut, capture
<1>2. host.hook \in {"end", "flush", "shutdown"}  BY <1>1 DEF Control, HooksMatch
<1>3. \/ host'.pc \in {"idle", "session"}
      \/ host'.pc = "stop" /\ host.hook = "shutdown"
  BY <1>1, <1>2, HostMoves, Returned DEF AfterFlush, HostPoint
<1>4. UNCHANGED <<Queued, InHand, Handled, Accepted>>
  BY <1>1 DEF Queued, InHand, Handled, Accepted
<1>5. CASE FlushDone
  <2>1. Accepted \subseteq Handled  BY <1>1, <1>5 DEF QueueInv, NothingNew, FlushIsTruthful
  <2>2. Queued \cup InHand = {}
    <3>1. InHand = {}  BY <2>1 DEF QueueInv, Placed, Accepted
    <3>2. ASSUME NEW t \in Queued PROVE FALSE
      <4>1. queue \in Seq(Job)  BY DEF Control, LTypeOK
      <4>2. PICK i \in 1..Len(queue) : queue[i].kind = "store" /\ queue[i].text = t
        BY <4>1, QueuedAt DEF Queued
      <4>3. t \notin Handled  BY <4>2 DEF QueueInv, Placed, IsStore
      <4>4. QED  BY <2>1, <4>3 DEF Accepted
    <3>3. QED  BY <3>1, <3>2
  <2>3. Drained'  BY <1>4, <2>2 DEF Drained
  <2>4. Placed' /\ PromiseAhead' /\ FlushIsTruthful'
    BY <1>1, <1>4 DEF QueueInv, Placed, PromiseAhead, FlushIsTruthful, Ahead, IsStore
  <2>5. NothingNew'  BY <1>3 DEF NothingNew
  <2>6. QED  BY <2>3, <2>4, <2>5 DEF QueueInv
<1>6. CASE FlushTimesOut  BY <1>1, <1>3, <1>6, QueueKept
<1>7. QED  BY <1>5, <1>6

LEMMA StopQueue ==
    ASSUME Control, QueueInv, Stop
    PROVE  QueueInv'
<1>1. host.pc = "stop" /\ UNCHANGED <<writer, stored, failed, promised, event, late>>  BY DEF Stop
<1>2. host'.pc \in {"join", "joindigest"}  BY HostMoves DEF Stop, HostPoint
<1>3. CASE queue' = queue  BY <1>1, <1>2, <1>3, QueueKept
<1>4. CASE queue' = Append(queue, [kind |-> "poison"])
  <2>1. [kind |-> "poison"] \in Job  BY DEF Job
  <2>2. /\ Placed' /\ UNCHANGED <<Queued, InHand, Handled, Accepted>>
        /\ \A t : Ahead(t) => Ahead(t)'
    BY <1>1, <1>4, <2>1, AppendedOne
  <2>3. PromiseAhead'  BY <1>1, <2>2 DEF QueueInv, PromiseAhead
  <2>4. FlushIsTruthful' /\ NothingNew' /\ Drained'
    BY <1>1, <1>2, <2>2 DEF QueueInv, FlushIsTruthful, NothingNew, Drained
  <2>5. QED  BY <2>2, <2>3, <2>4 DEF QueueInv
<1>5. QED  BY <1>3, <1>4 DEF Stop

\* The writer takes the first job of the queue.
LEMMA GetQueue ==
    ASSUME Control, QueueInv, Get, queue # <<>>
    PROVE  QueueInv'
<1> DEFINE n == Len(queue)  l == Len(queue')
<1>1. queue \in Seq(Job) /\ n \in Nat  BY LenProperties DEF Control, LTypeOK
<1>2. /\ writer.pc = "get" /\ writer' = [pc |-> "work", job |-> Head(queue)] /\ queue' = Tail(queue)
      /\ UNCHANGED <<host, late, event, promised, stored, failed>>
  BY DEF Get
<1>3. /\ n > 0 /\ queue' \in Seq(Job) /\ l \in Nat /\ n = l + 1 /\ Head(queue) = queue[1]
      /\ \A i \in 1..l : queue'[i] = queue[i + 1]
  BY <1>1, <1>2, HeadTailProperties, EmptySeq, LenProperties
<1> HIDE DEF n, l
<1>4. InHand = {} /\ Handled' = Handled  BY <1>2 DEF InHand, Handled
<1>5. InHand' = IF queue[1].kind = "store" THEN {queue[1].text} ELSE {}
  BY <1>2, <1>3 DEF InHand
<1>6. \A i \in 1..l : i + 1 \in 1..n /\ i + 1 # 1  BY <1>3
<1>7. 1 \in 1..n  BY <1>1, <1>3
<1>8. Placed'
  <2>1. \A i, j \in 1..l : queue'[i].kind = "store" /\ queue'[j].kind = "store"
                              /\ queue'[i].text = queue'[j].text => i = j
    <3>1. ASSUME NEW i \in 1..l, NEW j \in 1..l, queue'[i].kind = "store", queue'[j].kind = "store",
                 queue'[i].text = queue'[j].text
          PROVE  i = j
      <4>1. i + 1 = j + 1  BY <1>3, <1>6, <3>1 DEF QueueInv, Placed, IsStore, n
      <4>2. QED  BY <1>3, <4>1
    <3>2. QED  BY <3>1
  <2>2. ASSUME NEW i \in 1..l, queue'[i].kind = "store" PROVE queue'[i].text \notin InHand' \cup Handled'
    <3>1. queue'[i] = queue[i + 1]  BY <1>3
    <3>2. queue[i + 1].text \notin Handled  BY <1>6, <2>2, <3>1 DEF QueueInv, Placed, IsStore, n
    <3>3. queue[1].kind = "store" => queue[1].text # queue[i + 1].text
      BY <1>6, <1>7, <2>2, <3>1 DEF QueueInv, Placed, IsStore, n
    <3>4. QED  BY <1>4, <1>5, <3>1, <3>2, <3>3
  <2>3. InHand' \cap Handled' = {}  BY <1>4, <1>5, <1>7 DEF QueueInv, Placed, IsStore, n
  <2>4. QED  BY <2>1, <2>2, <2>3 DEF Placed, IsStore, l
<1>9. \A t : Ahead(t) => t \in InHand' \/ Ahead(t)'
  <2>1. ASSUME NEW t, Ahead(t) PROVE t \in InHand' \/ Ahead(t)'
    <3>1. PICK i, j \in 1..n : i < j /\ queue[i].kind = "store" /\ queue[i].text = t /\ queue[j].kind = "flush"
      BY <2>1 DEF Ahead, IsStore, n
    <3>2. CASE i = 1  BY <1>5, <3>1, <3>2
    <3>3. CASE i # 1
      <4>1. /\ i - 1 \in 1..l /\ j - 1 \in 1..l /\ i - 1 < j - 1
            /\ (i - 1) + 1 = i /\ (j - 1) + 1 = j
        BY <1>3, <3>1, <3>3
      <4>2. queue'[i - 1] = queue[i] /\ queue'[j - 1] = queue[j]  BY <1>3, <4>1
      <4>3. QED  BY <3>1, <4>1, <4>2 DEF Ahead, IsStore, l
    <3>4. QED  BY <3>2, <3>3
  <2>2. QED  BY <2>1
<1>10. PromiseAhead'  BY <1>2, <1>4, <1>9 DEF QueueInv, PromiseAhead
<1>11. FlushIsTruthful'  BY <1>2, <1>4 DEF QueueInv, FlushIsTruthful
<1>12. Queued' \cup InHand' \subseteq Queued
  <2>1. \A t : t \in Queued <=> \E i \in 1..n : queue[i].kind = "store" /\ queue[i].text = t
    BY <1>1, QueuedAt DEF Queued, n
  <2>2. ASSUME NEW t \in Queued' PROVE t \in Queued
    <3>1. PICK i \in 1..l : queue'[i].kind = "store" /\ queue'[i].text = t
      BY <1>3, QueuedAt DEF Queued, l
    <3>2. queue'[i] = queue[i + 1] /\ i + 1 \in 1..n  BY <1>3, <1>6
    <3>3. QED  BY <2>1, <3>1, <3>2
  <2>3. InHand' \subseteq Queued  BY <1>5, <1>7, <2>1
  <2>4. QED  BY <2>2, <2>3
<1>13. NothingNew' /\ Drained'
  BY <1>2, <1>4, <1>12 DEF QueueInv, NothingNew, Drained, Accepted
<1>14. QED  BY <1>8, <1>10, <1>11, <1>13 DEF QueueInv

LEMMA WriterQueue ==
    ASSUME Control, QueueInv, WriterStep
    PROVE  QueueInv'
<1> USE DEF WriterGoes
<1>0. UNCHANGED <<host, late, promised>>
  BY DEF WriterStep, CheckStop, Get, StoreJob, FlushJob, PoisonJob
<1>1. CASE CheckStop \/ PoisonJob \/ (Get /\ queue = <<>>)
  <2>1. /\ writer'.pc # "work" /\ UNCHANGED <<queue, stored, failed, event>>
        /\ writer.pc = "work" => writer.job.kind = "poison"
    BY <1>1 DEF CheckStop, PoisonJob, Get, Control, LTypeOK
  <2>2. UNCHANGED <<Queued, InHand, Handled, Accepted>>
    BY <2>1 DEF Queued, InHand, Handled, Accepted
  <2>3. Placed' /\ PromiseAhead' /\ FlushIsTruthful' /\ NothingNew' /\ Drained'
    BY <1>0, <2>1, <2>2
    DEF QueueInv, Placed, PromiseAhead, FlushIsTruthful, Ahead, IsStore, NothingNew, Drained
  <2>4. QED  BY <2>3 DEF QueueInv
<1>2. CASE Get /\ queue # <<>>  BY <1>2, GetQueue
<1>3. CASE StoreJob
  <2>1. /\ InHand = {writer.job.text} /\ InHand' = {} /\ UNCHANGED <<queue, event>>
        /\ Handled' = Handled \cup {writer.job.text}
    BY <1>3 DEF StoreJob, InHand, Handled
  <2>2. Queued' = Queued /\ Accepted' = Accepted  BY <2>1 DEF Queued, Accepted
  <2>3. Placed'  BY <2>1 DEF QueueInv, Placed, IsStore
  <2>4. PromiseAhead'  BY <1>0, <2>1 DEF QueueInv, PromiseAhead, Ahead, IsStore
  <2>5. FlushIsTruthful' /\ NothingNew' /\ Drained'
    BY <1>0, <2>1, <2>2 DEF QueueInv, FlushIsTruthful, NothingNew, Drained
  <2>6. QED  BY <2>3, <2>4, <2>5 DEF QueueInv
<1>4. CASE FlushJob
  <2>1. /\ InHand = {} /\ InHand' = {} /\ UNCHANGED <<queue, stored, failed>>
        /\ event' = (event \/ \A j \in ToSet(queue) : j.kind # "flush")
    BY <1>4 DEF FlushJob, InHand
  <2>2. UNCHANGED <<Queued, InHand, Handled, Accepted>>  BY <2>1 DEF Queued, Handled, Accepted
  <2>3. Placed' /\ PromiseAhead' /\ NothingNew' /\ Drained'
    BY <1>0, <2>1, <2>2
    DEF QueueInv, Placed, PromiseAhead, Ahead, IsStore, NothingNew, Drained
  <2>4. ASSUME \A j \in ToSet(queue) : j.kind # "flush", NEW t \in promised PROVE t \in Handled
    <3>1. DOMAIN queue = 1..Len(queue)  BY LenProperties DEF Control, LTypeOK
    <3>2. \A k \in 1..Len(queue) : queue[k].kind # "flush"  BY <2>4, <3>1 DEF ToSet
    <3>3. ~Ahead(t)  BY <3>2 DEF Ahead
    <3>4. QED  BY <2>1, <2>4, <3>3 DEF QueueInv, PromiseAhead
  <2>5. FlushIsTruthful'  BY <1>0, <2>1, <2>2, <2>4 DEF QueueInv, FlushIsTruthful
  <2>6. QED  BY <2>3, <2>5 DEF QueueInv
<1>5. QED  BY <1>1, <1>2, <1>3, <1>4 DEF WriterStep

LEMMA HostQueue ==
    ASSUME Control, QueueInv, HostStep
    PROVE  QueueInv'
<1>1. CASE Initialize
  <2>1. /\ host.pc = "new" /\ host'.pc = "idle" /\ writer'.pc = "check" /\ writer.pc = "none"
        /\ UNCHANGED <<queue, stored, failed, event, promised>>
    BY <1>1, Returned DEF Initialize, Control, HooksMatch
  <2>2. UNCHANGED <<Queued, InHand, Handled, Accepted>>
    BY <2>1 DEF Queued, InHand, Handled, Accepted
  <2>3. Placed' /\ PromiseAhead' /\ FlushIsTruthful' /\ NothingNew' /\ Drained'
    BY <2>1, <2>2
    DEF QueueInv, Placed, PromiseAhead, FlushIsTruthful, Ahead, IsStore, NothingNew, Drained
  <2>4. QED  BY <2>3 DEF QueueInv
<1>2. CASE Stage \/ Trigger \/ Inline \/ SessionDigest \/ SessionPromoted
  <2>1. UNCHANGED <<queue, writer, stored, failed, promised, event>>
    <3>1. CASE Stage  BY <3>1 DEF Stage, capture
    <3>2. CASE Trigger  BY <3>2 DEF Trigger, capture
    <3>3. CASE Inline \/ SessionDigest \/ SessionPromoted
      BY <3>3 DEF Inline, SessionDigest, SessionPromoted, capture
    <3>4. QED  BY <1>2, <3>1, <3>2, <3>3
  <2>2. Return \/ \E p \in {"trigger", "capture", "flush", "inline", "promote"} : HostGoes(p)
    <3>1. CASE Stage
      <4>1. host.hook \in {"turn", "compress", "end"}  BY <3>1 DEF Stage, Control, HooksMatch
      <4>2. QED  BY <3>1, <4>1 DEF Stage
    <3>2. CASE Trigger  BY <3>2 DEF Trigger, AfterTrigger
    <3>3. CASE Inline \/ SessionDigest \/ SessionPromoted
      BY <3>3 DEF Inline, AfterTrigger, SessionDigest, SessionPromoted
    <3>4. QED  BY <1>2, <3>1, <3>2, <3>3
  <2>3. host'.pc \in {"idle", "trigger", "capture", "flush", "inline", "promote"}
    BY <2>2, HostMoves, Returned DEF HostPoint
  <2>4. QED  BY <2>1, <2>3, QueueKept
<1>3. CASE Join \/ Close
  <2>1. /\ UNCHANGED <<queue, writer, stored, failed, promised, event>>
        /\ host.pc \in {"join", "joindigest", "close"} /\ (~late' => ~late)
        /\ \E p \in {"joindigest", "close", "closed"} : HostGoes(p)
    BY <1>3 DEF Join, Close, capture
  <2>2. host'.pc # "wait"  BY <2>1, HostMoves DEF HostPoint
  <2>3. QED  BY <2>1, <2>2, QueueKept
<1>4. QED
  BY <1>1, <1>2, <1>3, CaptureQueue, FlushQueue, FlushDoneQueue, StopQueue DEF HostStep

LEMMA QueueInvStep ==
    ASSUME Control, QueueInv, [LNext]_lvars
    PROVE  QueueInv'
<1>1. CASE \E hook \in Hook \ {"none"} : Call(hook)
  <2>1. PICK hook \in Hook \ {"none"} : Call(hook)  BY <1>1
  <2>2. UNCHANGED <<queue, writer, stored, failed, promised, event>> /\ host'.pc \in {"flush", "stage"}
    BY <2>1 DEF Call, capture
  <2>3. QED  BY <2>2, QueueKept
<1>2. CASE Tick \/ UNCHANGED lvars
  BY <1>2, QueueKept DEF Tick, lvars, capture
<1>3. CASE \E k \in DOMAIN digest : DigestStep(k)
  <2>1. UNCHANGED <<host, late, queue, writer, stored, failed, promised, event>>
    BY <1>3 DEF DigestStep, DigestReports, PromotionBegins, PromotionEnds, capture
  <2>2. QED  BY <2>1, QueueKept
<1>5. CASE LoseConnection
  BY <1>5, QueueKept DEF LoseConnection, capture
<1>4. QED  BY <1>1, <1>2, <1>3, <1>5, HostQueue, WriterQueue DEF LNext

------------------------------------------------------------------------------
LEMMA Inductive == LSpec => []LInv
<1>1. LInv /\ [LNext]_lvars => LInv'
  BY DigestInvStep, QueueInvStep DEF LInv, DigestInv
<1>2. QED  BY InitLInv, <1>1, PTL DEF LSpec

(* The provider's state has its types, for any texts, interval and bounds. *)
THEOREM TypesHold == LSpec => []LTypeOK
<1>1. LInv => LTypeOK  BY DEF LInv, DigestInv, Control
<1>2. QED  BY Inductive, <1>1, PTL

(* flush() returns True only when what was enqueued before it has been stored or has
   failed, however many flushes have timed out before and wherever the flag
   ends the writer (flush_writer, writer_loop). *)
THEOREM FlushesAreTruthful == LSpec => []FlushIsTruthful
<1>1. LInv => FlushIsTruthful  BY DEF LInv, QueueInv
<1>2. QED  BY Inductive, <1>1, PTL

(* A shutdown whose waits did not run out of time loses no captured text
   (shutdown_writer). *)
THEOREM ShutdownLosesNothing == LSpec => []CleanShutdownLosesNothing
<1>1. LInv => CleanShutdownLosesNothing
  BY DEF LInv, QueueInv, Drained, CleanShutdownLosesNothing
<1>2. QED  BY Inductive, <1>1, PTL

(* At most one background digest at a time, reported as running while it runs and
   after that only by a provider that has lost its connection, and no
   promotion through a closed connection
   (_maybe_start_background_journal_digest, _run_background_journal_digest,
   shutdown). *)
THEOREM DigestsStayInStep == LSpec => []DigestsInStep
<1>1. LInv => DigestsInStep
  BY DEF LInv, DigestInv, OnlyLast, DigestsInStep, OneBackgroundDigest
<1>2. QED  BY Inductive, <1>1, PTL
===============================================================================
