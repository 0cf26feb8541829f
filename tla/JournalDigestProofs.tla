------------------------- MODULE JournalDigestProofs -------------------------
(* Proofs about JournalDigest, and about JournalRecovery next to it, for every value
   of their constants. *)
EXTENDS JournalRecovery, FiniteSetTheorems, SequenceTheorems, TLAPS

\* Program points within the handling of one candidate.
InCandidate == {"cover", "update", "rewrite", "probe", "insert", "link"}
\* Those at which a memory has been chosen.
WithTarget == {"update", "rewrite", "link"}

\* While a run handles a candidate there is one, and it is not noise.
ControlOK ==
  \A r \in Run :
    /\ task[r].pc \in InCandidate => task[r].cands # <<>> /\ Current(r).fact \in Fact
    /\ task[r].pc \in WithTarget => task[r].target \in Memory

TInv == TypeOK /\ ControlOK

LEMMA GotoType ==
  ASSUME task \in [Run -> Task], NEW r \in Run, NEW t \in Task, Goto(r, t)
  PROVE  /\ task' \in [Run -> Task]
         /\ task'[r] = t
         /\ \A o \in Run : o # r => task'[o] = task[o]
  BY DEF Goto

LEMMA CandidateTypes ==
  ASSUME task \in [Run -> Task], NEW r \in Run, task[r].cands # <<>>
  PROVE  /\ Current(r) \in Candidate
         /\ Current(r).entries \subseteq Entry
         /\ Current(r).fact \in Fact \cup {Noise}
         /\ Tail(task[r].cands) \in Seq(Candidate)
<1>1. task[r].cands \in Seq(Candidate)  BY DEF Task
<1>2. Current(r) \in Candidate /\ Tail(task[r].cands) \in Seq(Candidate)
  BY <1>1, HeadTailProperties DEF Current
<1> QED  BY <1>2 DEF Candidate

LEMMA AdvanceType ==
  ASSUME task \in [Run -> Task], NEW r \in Run, task[r].cands # <<>>,
         NEW D \in SUBSET Entry, Advance(r, D)
  PROVE  /\ task' \in [Run -> Task]
         /\ task'[r].pc = "apply"
         /\ task'[r].decided = task[r].decided \cup D
         /\ \A o \in Run : o # r => task'[o] = task[o]
<1> DEFINE t == [task[r] EXCEPT !.pc = "apply", !.cands = Tail(@), !.target = NoMemory,
                               !.base = {}, !.decided = @ \cup D]
<1>1. task[r] \in Task  OBVIOUS
<1>2. t \in Task  BY <1>1, CandidateTypes DEF Task
<1>3. Goto(r, t)  BY DEF Advance
<1>4. t.pc = "apply" /\ t.decided = task[r].decided \cup D  BY <1>1 DEF Task
<1> HIDE DEF t
<1> QED  BY <1>2, <1>3, <1>4, GotoType

LEMMA RejectedType ==
  ASSUME rejections \in [Entry -> [Run -> Reason]], NEW r \in Run,
         NEW S \in SUBSET Entry, NEW reason \in Reason
  PROVE  Rejected(r, S, reason) \in [Entry -> [Run -> Reason]]
  BY DEF Rejected

LEMMA CommittedType ==
  ASSUME rejections \in [Entry -> [Run -> Reason]], NEW r \in Run,
         pend \in [Entry -> Reason]
  PROVE  Committed(r) \in [Entry -> [Run -> Reason]]
  BY DEF Committed


\* A step that only moves run r to local variables t keeps the control facts.
LEMMA LocalStep ==
  ASSUME TInv, NEW r \in Run, NEW t \in Task, Goto(r, t),
         t.pc \in InCandidate => t.cands # <<>> /\ Head(t.cands).fact \in Fact,
         t.pc \in WithTarget => t.target \in Memory
  PROVE  task' \in [Run -> Task] /\ ControlOK'
<1>1. /\ task' \in [Run -> Task] /\ task'[r] = t
      /\ \A o \in Run : o # r => task'[o] = task[o]
  BY GotoType DEF TInv, TypeOK
<1>2. ControlOK'
  <2> SUFFICES ASSUME NEW o \in Run
               PROVE  /\ task'[o].pc \in InCandidate =>
                           task'[o].cands # <<>> /\ Head(task'[o].cands).fact \in Fact
                      /\ task'[o].pc \in WithTarget => task'[o].target \in Memory
    BY DEF ControlOK, Current
  <2>1. CASE o = r  BY <2>1, <1>1
  <2>2. CASE o # r  BY <2>2, <1>1 DEF TInv, ControlOK, Current
  <2> QED  BY <2>1, <2>2
<1> QED  BY <1>1, <1>2

\* After Advance the run is between two candidates.
LEMMA AdvanceControl ==
  ASSUME TInv, NEW r \in Run, task[r].cands # <<>>, NEW D \in SUBSET Entry, Advance(r, D)
  PROVE  task' \in [Run -> Task] /\ ControlOK'
<1>1. /\ task' \in [Run -> Task] /\ task'[r].pc = "apply"
      /\ \A o \in Run : o # r => task'[o] = task[o]
  BY AdvanceType DEF TInv, TypeOK
<1> QED  BY <1>1 DEF TInv, ControlOK, InCandidate, WithTarget, Current

\* No step of the provider touches a run.
LEMMA SameTasks == ASSUME TInv, UNCHANGED task PROVE task' \in [Run -> Task] /\ ControlOK'
  BY DEF TInv, TypeOK, ControlOK, Current
-----------------------------------------------------------------------------
LEMMA TInvInit == Init => TInv
<1> SUFFICES ASSUME Init PROVE TInv  OBVIOUS
<1>1. FreshTask \in Task  BY EmptySeq DEF FreshTask, Task
<1>2. TypeOK  BY <1>1 DEF Init, TypeOK, Unset, Row, NoPend, Reason
<1>3. ControlOK  BY DEF Init, ControlOK, FreshTask, InCandidate, WithTarget
<1> QED  BY <1>2, <1>3 DEF TInv

LEMMA ProviderTInv == ASSUME TInv, ProviderStep PROVE TInv'
<1>1. CASE \E e \in Entry : AppendEntry(e)
  <2> PICK e \in Entry : AppendEntry(e)  BY <1>1
  <2>1. watermark' \in [Entry -> Run \cup Unset]  BY DEF AppendEntry, TInv, TypeOK, Unset
  <2> QED  BY <2>1, SameTasks DEF AppendEntry, TInv, TypeOK, history
<1>2. CASE \E m \in Memory : Archive(m)
  <2> PICK m \in Memory : Archive(m)  BY <1>2
  <2>1. mem' \in [Memory -> Row]  BY DEF Archive, TInv, TypeOK, Row
  <2> QED  BY <2>1, SameTasks DEF Archive, TInv, TypeOK, history
<1>3. CASE \E m \in Memory : HardDelete(m)
  <2> PICK m \in Memory : HardDelete(m)  BY <1>3
  <2>1. mem' \in [Memory -> Row]  BY DEF HardDelete, TInv, TypeOK, Row
  <2>2. links' \subseteq Memory \X Entry /\ forgotten' \subseteq Entry
        /\ claims' \subseteq Memory \X Entry \X Fact
    BY DEF HardDelete, TInv, TypeOK
  <2> QED  BY <2>1, <2>2, SameTasks DEF HardDelete, TInv, TypeOK
<1>4. CASE \E m \in Memory, f \in Fact : UserStore(m, f)
  <2> PICK m \in Memory, f \in Fact : UserStore(m, f)  BY <1>4
  <2>1. mem' \in [Memory -> Row]  BY DEF UserStore, TInv, TypeOK, Row
  <2> QED  BY <2>1, SameTasks DEF UserStore, TInv, TypeOK, history
<1> QED  BY <1>1, <1>2, <1>3, <1>4 DEF ProviderStep
LEMMA LimitType == EffectiveLimit \in Nat
<1>1. Backlog \subseteq Entry  BY DEF Backlog
<1>2. IsFiniteSet(Backlog)  BY <1>1, ConstantsAssumption, FS_Subset
<1>3. Cardinality(Backlog) \in Nat  BY <1>2, FS_CardinalityType
<1> QED  BY <1>3, ConstantsAssumption DEF EffectiveLimit, MinOf, MaxOf

LEMMA BeginTInv == ASSUME TInv, NEW r \in Run, Begin(r) PROVE TInv'
<1>1. task[r] \in Task  BY DEF TInv, TypeOK
<1>2. PICK q \in Seq(Scope), n \in Nat :
        Goto(r, [task[r] EXCEPT !.pc = "load", !.scopes = q, !.limit = n])
  <2>1. CASE \E q \in [1 .. Cardinality(WaitingScopes) -> WaitingScopes] :
               Goto(r, [task[r] EXCEPT !.pc = "load",
                          !.scopes = SubSeq(q, 1, MinOf(EffectiveLimit, Len(q))),
                          !.limit = EffectiveLimit])
    <3>1. WaitingScopes \subseteq Scope
      BY ConstantsAssumption DEF WaitingScopes, Backlog
    <3>2. IsFiniteSet(WaitingScopes)  BY <3>1, ConstantsAssumption, FS_Subset
    <3>3. Cardinality(WaitingScopes) \in Nat  BY <3>2, FS_CardinalityType
    <3>4. PICK q \in [1 .. Cardinality(WaitingScopes) -> WaitingScopes] :
            Goto(r, [task[r] EXCEPT !.pc = "load",
                       !.scopes = SubSeq(q, 1, MinOf(EffectiveLimit, Len(q))),
                       !.limit = EffectiveLimit])
      BY <2>1
    <3>5. q \in Seq(Scope)  BY <3>1, <3>3
    <3> DEFINE n == MinOf(EffectiveLimit, Len(q))
    <3>6. n \in Nat /\ n <= Len(q)  BY <3>5, LimitType DEF MinOf
    <3> HIDE DEF n
    <3>7. ASSUME NEW i \in 1 .. n PROVE q[i] \in Scope
      <4>1. i \in 1 .. Len(q)  BY <3>5, <3>6
      <4> QED  BY <4>1, <3>5, ElementOfSeq
    <3>8. SubSeq(q, 1, n) \in Seq(Scope)
      <4>1. n \in Int /\ 1 \in Int  BY <3>6
      <4> QED  BY <4>1, <3>7, SubSeqProperties
    <3> QED  BY <3>4, <3>8, LimitType DEF n
  <2>2. CASE \E s \in Scope, n \in {EffectiveLimit, Limit} :
               Goto(r, [task[r] EXCEPT !.pc = "load", !.scopes = <<s>>, !.limit = n])
    <3>1. \A s \in Scope : <<s>> \in Seq(Scope)  OBVIOUS
    <3>2. {EffectiveLimit, Limit} \subseteq Nat  BY LimitType, ConstantsAssumption
    <3> QED  BY <2>2, <3>1, <3>2
  <2> QED  BY <2>1, <2>2 DEF Begin
<1> DEFINE t == [task[r] EXCEPT !.pc = "load", !.scopes = q, !.limit = n]
<1>3. t \in Task  BY <1>1 DEF Task
<1>4. t.pc = "load"  BY <1>1 DEF Task
<1>5. Goto(r, t)  BY <1>2
<1> HIDE DEF t
<1>6. task' \in [Run -> Task] /\ ControlOK'
  BY <1>3, <1>4, <1>5, LocalStep DEF InCandidate, WithTarget
<1> QED  BY <1>6 DEF Begin, TInv, TypeOK, store, history

\* The commit that goes with Load, Mark and Abort.
LEMMA CommitTypes ==
  ASSUME TInv, NEW r \in Run,
         rejections' = IF lock = r THEN Committed(r) ELSE rejections,
         pend' = IF lock = r THEN NoPend ELSE pend
  PROVE  rejections' \in [Entry -> [Run -> Reason]] /\ pend' \in [Entry -> Reason]
  BY CommittedType DEF TInv, TypeOK, NoPend, Reason

LEMMA LoadTInv == ASSUME TInv, NEW r \in Run, Load(r) PROVE TInv'
<1> DEFINE B == Oldest(task[r].limit - task[r].total,
                       {e \in Backlog : HomeOf[e] \in Reads[Head(task[r].scopes)]})
           p == IF B = {} THEN "load" ELSE "extract"
           t == [task[r] EXCEPT !.scopes = Tail(@), !.batch = B,
                                !.total = @ + Cardinality(B), !.pc = p]
<1>0. task[r] \in Task  BY DEF TInv, TypeOK
<1>1. B \subseteq Entry  BY DEF Oldest, Backlog
<1>2. IsFiniteSet(B)  BY <1>1, ConstantsAssumption, FS_Subset
<1>3. Cardinality(B) \in Nat  BY <1>2, FS_CardinalityType
<1>4. Tail(task[r].scopes) \in Seq(Scope)
  <2>1. task[r].scopes \in Seq(Scope)  BY <1>0 DEF Task
  <2> QED  BY <2>1, HeadTailProperties DEF Load
<1>5. Goto(r, t)  BY DEF Load
<1>6. p \in {"load", "extract"}  OBVIOUS
<1> HIDE DEF B, p
<1>7. t \in Task /\ t.pc = p
  <2>1. task[r].total + Cardinality(B) \in Nat  BY <1>0, <1>3 DEF Task
  <2> DEFINE n == task[r].total + Cardinality(B)
             q == Tail(task[r].scopes)
  <2>2. q \in Seq(Scope) /\ n \in Nat  BY <1>4, <2>1
  <2>3. t = [task[r] EXCEPT !.scopes = q, !.batch = B, !.total = n, !.pc = p]  OBVIOUS
  <2> HIDE DEF n, q, t
  <2> QED  BY <1>0, <1>1, <1>6, <2>2, <2>3 DEF Task
<1> HIDE DEF t
<1>8. task' \in [Run -> Task] /\ ControlOK'
  BY <1>5, <1>6, <1>7, LocalStep DEF InCandidate, WithTarget
<1>9. rejections' \in [Entry -> [Run -> Reason]] /\ pend' \in [Entry -> Reason]
  BY CommitTypes DEF Load
<1> QED  BY <1>8, <1>9 DEF Load, TInv, TypeOK, history

LEMMA FreshTypes ==
  /\ FreshTask \in Task /\ EndedTask \in Task
  /\ EndedTask.pc = "ended" /\ FreshTask.pc = "new"
  /\ \A p \in {"prune", "record"}, L \in SUBSET Entry :
       /\ [FreshTask EXCEPT !.pc = p, !.lost = L] \in Task
       /\ [FreshTask EXCEPT !.pc = p, !.lost = L].pc = p
       /\ [FreshTask EXCEPT !.pc = p] \in Task
       /\ [FreshTask EXCEPT !.pc = p].pc = p
  /\ \A D \in SUBSET Entry, L \in SUBSET Entry :
       /\ [FreshTask EXCEPT !.pc = "mark", !.decided = D, !.lost = L] \in Task
       /\ [FreshTask EXCEPT !.pc = "mark", !.decided = D, !.lost = L].pc = "mark"
       /\ [FreshTask EXCEPT !.pc = "mark", !.decided = D, !.lost = L].decided = D
<1>1. <<>> \in Seq(Scope) /\ <<>> \in Seq(Candidate)  OBVIOUS
<1> QED  BY <1>1 DEF FreshTask, EndedTask, Task

\* A step to a program point outside the handling of a candidate.
LEMMA PlainStep ==
  ASSUME TInv, NEW r \in Run, NEW t \in Task, Goto(r, t), t.pc \notin InCandidate
  PROVE  task' \in [Run -> Task] /\ ControlOK'
  BY LocalStep DEF InCandidate, WithTarget

LEMMA EndOfScopesTInv == ASSUME TInv, NEW r \in Run, EndOfScopes(r) PROVE TInv'
<1> DEFINE t == IF task[r].total = 0 THEN EndedTask
                ELSE [FreshTask EXCEPT !.pc = "mark", !.decided = task[r].decided,
                                       !.lost = task[r].lost]
<1>1. task[r].decided \subseteq Entry /\ task[r].lost \subseteq Entry
  BY DEF TInv, TypeOK, Task
<1>2. t \in Task /\ t.pc \in {"ended", "mark"}
  <2> DEFINE u == [FreshTask EXCEPT !.pc = "mark", !.decided = task[r].decided,
                                    !.lost = task[r].lost]
  <2>1. u \in Task /\ u.pc = "mark"
    <3>1. <<>> \in Seq(Scope) /\ <<>> \in Seq(Candidate)  OBVIOUS
    <3> QED  BY <1>1, <3>1 DEF FreshTask, Task
  <2>2. t = EndedTask \/ t = u  OBVIOUS
  <2> HIDE DEF t, u
  <2> QED  BY <2>1, <2>2, FreshTypes
<1>3. Goto(r, t)  BY DEF EndOfScopes
<1> HIDE DEF t
<1>4. task' \in [Run -> Task] /\ ControlOK'  BY <1>2, <1>3, PlainStep DEF InCandidate
<1> QED  BY <1>4 DEF EndOfScopes, TInv, TypeOK, store, history

LEMMA PendingType ==
  ASSUME pend \in [Entry -> Reason], NEW S \in SUBSET Entry, NEW reason \in Reason
  PROVE  Pending(S, reason) \in [Entry -> Reason]
  BY DEF Pending

LEMMA QuarantineTInv == ASSUME TInv, NEW r \in Run, Quarantine(r) PROVE TInv'
<1> DEFINE t == [task[r] EXCEPT !.pc = "load", !.decided = @ \cup task[r].batch,
                                !.batch = {}]
<1>1. task[r] \in Task  BY DEF TInv, TypeOK
<1>2. t \in Task /\ t.pc = "load"  BY <1>1 DEF Task
<1>3. Goto(r, t)  BY DEF Quarantine
<1>4. task[r].batch \subseteq Entry  BY <1>1 DEF Task
<1> HIDE DEF t
<1>5. task' \in [Run -> Task] /\ ControlOK'  BY <1>2, <1>3, PlainStep DEF InCandidate
<1>6. pend' \in [Entry -> Reason]  BY <1>4, PendingType DEF Quarantine, TInv, TypeOK, Reason
<1> QED  BY <1>5, <1>6 DEF Quarantine, TInv, TypeOK, store, history

LEMMA ExtractionTypes ==
  ASSUME NEW B \in SUBSET Entry, NEW cs \in Extractions(B)
  PROVE  cs \in Seq(Candidate)
<1>1. PICK n \in 0 .. MaxCandidates :
        cs \in [1 .. n -> {c \in [entries : SUBSET B, fact : Fact \cup {Noise}] :
                             c.entries # {}}]
  BY DEF Extractions
<1>2. n \in Nat  BY ConstantsAssumption
<1>3. {c \in [entries : SUBSET B, fact : Fact \cup {Noise}] : c.entries # {}} \subseteq Candidate
  BY DEF Candidate
<1> HIDE DEF Candidate
<1>4. cs \in [1 .. n -> Candidate]  BY <1>1, <1>3
<1> QED  BY <1>2, <1>4

LEMMA ExtractTInv == ASSUME TInv, NEW r \in Run, ExtractSome(r) PROVE TInv'
<1>1. task[r] \in Task  BY DEF TInv, TypeOK
<1>2. task[r].batch \subseteq Entry  BY <1>1 DEF Task
<1>3. PICK lost \in SUBSET task[r].batch :
        \E cs \in Extractions(task[r].batch \ lost) : Extract(r, cs, lost)
  BY DEF ExtractSome
<1>4. PICK cs \in Extractions(task[r].batch \ lost) : Extract(r, cs, lost)  BY <1>3
<1>5. cs \in Seq(Candidate)  BY <1>2, <1>3, <1>4, ExtractionTypes
<1> DEFINE covered == UNION {cs[i].entries : i \in DOMAIN cs}
           t == [task[r] EXCEPT !.pc = "apply", !.cands = cs, !.batch = {},
                                !.lost = @ \cup lost, !.rest = task[r].batch \ covered]
<1>6. Goto(r, t)  BY <1>4 DEF Extract
<1> HIDE DEF covered
<1>7. t \in Task /\ t.pc = "apply"  BY <1>1, <1>2, <1>3, <1>5 DEF Task
<1> HIDE DEF t
<1>8. task' \in [Run -> Task] /\ ControlOK'  BY <1>6, <1>7, PlainStep DEF InCandidate
<1> QED  BY <1>4, <1>8 DEF Extract, TInv, TypeOK, store, history

LEMMA FilterTInv == ASSUME TInv, NEW r \in Run, Filter(r) PROVE TInv'
<1>1. Current(r).entries \subseteq Entry  BY CandidateTypes DEF Filter, Candidates, TInv, TypeOK
<1>2. task' \in [Run -> Task] /\ ControlOK'
  BY <1>1, AdvanceControl DEF Filter, Candidates
<1>3. rejections' \in [Entry -> [Run -> Reason]]
  BY <1>1, RejectedType DEF Filter, TInv, TypeOK, Reason
<1> QED  BY <1>2, <1>3 DEF Filter, TInv, TypeOK, history

LEMMA CoverTInv == ASSUME TInv, NEW r \in Run, Cover(r) PROVE TInv'
<1>0. task[r].cands # <<>>  BY DEF Cover, TInv, ControlOK, InCandidate
<1>1. Current(r).entries \subseteq Entry  BY <1>0, CandidateTypes DEF TInv, TypeOK
<1>2. task' \in [Run -> Task] /\ ControlOK'  BY <1>0, <1>1, AdvanceControl DEF Cover
<1>3. rejections' \in [Entry -> [Run -> Reason]]
  BY <1>1, RejectedType DEF Cover, TInv, TypeOK, Reason
<1> QED  BY <1>2, <1>3 DEF Cover, TInv, TypeOK, history

\* A step of run r from a candidate at hand to the program point p.
LEMMA CandidateStep ==
  ASSUME TInv, NEW r \in Run, task[r].cands # <<>>, Current(r).fact \in Fact,
         NEW p \in InCandidate, NEW m \in Memory \cup {NoMemory}, NEW B \in SUBSET Fact,
         p \in WithTarget => m \in Memory,
         Goto(r, [task[r] EXCEPT !.pc = p, !.target = m, !.base = B])
  PROVE  task' \in [Run -> Task] /\ ControlOK'
<1> DEFINE t == [task[r] EXCEPT !.pc = p, !.target = m, !.base = B]
<1>1. task[r] \in Task  BY DEF TInv, TypeOK
<1>2. t \in Task  BY <1>1 DEF Task, InCandidate
<1>3. t.pc = p /\ t.target = m /\ t.cands = task[r].cands  BY <1>1 DEF Task
<1>4. Goto(r, t)  OBVIOUS
<1> HIDE DEF t
<1> QED  BY <1>2, <1>3, <1>4, LocalStep DEF Current

\* The same with the base left as it is.
LEMMA TargetStep ==
  ASSUME TInv, NEW r \in Run, task[r].cands # <<>>, Current(r).fact \in Fact,
         NEW p \in InCandidate, NEW m \in Memory,
         Goto(r, [task[r] EXCEPT !.pc = p, !.target = m])
  PROVE  task' \in [Run -> Task] /\ ControlOK'
<1> DEFINE t == [task[r] EXCEPT !.pc = p, !.target = m]
<1>1. task[r] \in Task  BY DEF TInv, TypeOK
<1>2. t \in Task  BY <1>1 DEF Task, InCandidate
<1>3. t.pc = p /\ t.target = m /\ t.cands = task[r].cands  BY <1>1 DEF Task
<1>4. Goto(r, t)  OBVIOUS
<1> HIDE DEF t
<1> QED  BY <1>2, <1>3, <1>4, LocalStep DEF Current

\* The same with the target left as it is, too.
LEMMA PointStep ==
  ASSUME TInv, NEW r \in Run, task[r].cands # <<>>, Current(r).fact \in Fact,
         NEW p \in InCandidate, p \in WithTarget => task[r].target \in Memory,
         Goto(r, [task[r] EXCEPT !.pc = p])
  PROVE  task' \in [Run -> Task] /\ ControlOK'
<1> DEFINE t == [task[r] EXCEPT !.pc = p]
<1>1. task[r] \in Task  BY DEF TInv, TypeOK
<1>2. t \in Task  BY <1>1 DEF Task, InCandidate
<1>3. t.pc = p /\ t.target = task[r].target /\ t.cands = task[r].cands  BY <1>1 DEF Task
<1>4. Goto(r, t)  OBVIOUS
<1> HIDE DEF t
<1> QED  BY <1>2, <1>3, <1>4, LocalStep DEF Current

LEMMA MatchTInv == ASSUME TInv, NEW r \in Run, Match(r) PROVE TInv'
<1>1. task[r] \in Task  BY DEF TInv, TypeOK
<1>2. task[r].cands # <<>>  BY DEF Match, Candidates
<1>3. Current(r).fact \in Fact  BY <1>2, CandidateTypes DEF Match, Refused, TInv, TypeOK
<1>4. task' \in [Run -> Task] /\ ControlOK'
  <2>1. CASE Goto(r, [task[r] EXCEPT !.pc = "cover"])
    BY <1>2, <1>3, <2>1, PointStep DEF InCandidate, WithTarget
  <2>2. CASE \E m \in Memory : Goto(r, [task[r] EXCEPT !.pc = "update", !.target = m,
                                                       !.base = mem[m].facts])
    <3>1. PICK m \in Memory : Goto(r, [task[r] EXCEPT !.pc = "update", !.target = m,
                                                      !.base = mem[m].facts])
      BY <2>2
    <3>2. mem[m].facts \in SUBSET Fact  BY DEF TInv, TypeOK, Row
    <3> QED  BY <1>2, <1>3, <3>1, <3>2, CandidateStep DEF InCandidate, WithTarget
  <2>3. CASE Goto(r, [task[r] EXCEPT !.pc = "probe"])
    BY <1>2, <1>3, <2>3, PointStep DEF InCandidate, WithTarget
  <2> QED  BY <2>1, <2>2, <2>3 DEF Match
<1> QED  BY <1>4 DEF Match, TInv, TypeOK, store, history

LEMMA UpdateTInv == ASSUME TInv, NEW r \in Run, Update(r) PROVE TInv'
<1>1. task[r] \in Task  BY DEF TInv, TypeOK
<1>2. /\ task[r].cands # <<>> /\ Current(r).fact \in Fact
      /\ task[r].target \in Memory
  BY DEF Update, TInv, ControlOK, InCandidate, WithTarget
<1>3. task' \in [Run -> Task] /\ ControlOK'
  <2>1. CASE Goto(r, [task[r] EXCEPT !.pc = "rewrite"])
    BY <1>2, <2>1, PointStep DEF InCandidate, WithTarget
  <2>2. CASE Advance(r, {})  BY <1>2, <2>2, AdvanceControl
  <2> QED  BY <2>1, <2>2 DEF Update
<1> QED  BY <1>3 DEF Update, TInv, TypeOK, store, history

LEMMA MergedType ==
  ASSUME NEW F \in SUBSET Fact, NEW f \in Fact PROVE Merged(F, f) \in SUBSET Fact
  BY DEF Merged

LEMMA RewriteTInv == ASSUME TInv, NEW r \in Run, Rewrite(r) PROVE TInv'
<1>1. task[r] \in Task  BY DEF TInv, TypeOK
<1>2. /\ task[r].cands # <<>> /\ Current(r).fact \in Fact
      /\ task[r].target \in Memory
  BY DEF Rewrite, TInv, ControlOK, InCandidate, WithTarget
<1>3. task' \in [Run -> Task] /\ ControlOK'
  BY <1>2, PointStep DEF Rewrite, InCandidate, WithTarget
<1>4. Merged(task[r].base, Current(r).fact) \in SUBSET Fact
  BY <1>1, <1>2, MergedType DEF Task
<1>5. mem' \in [Memory -> Row]
  <2> HIDE DEF Merged
  <2> QED  BY <1>2, <1>4 DEF Rewrite, TInv, TypeOK, Row
<1> QED  BY <1>3, <1>5 DEF Rewrite, TInv, TypeOK, history

LEMMA ProbeTInv == ASSUME TInv, NEW r \in Run, Probe(r) PROVE TInv'
<1>1. task[r].cands # <<>> /\ Current(r).fact \in Fact
  BY DEF Probe, TInv, ControlOK, InCandidate
<1>2. task' \in [Run -> Task] /\ ControlOK'
  <2>1. CASE \E m \in Memory : Goto(r, [task[r] EXCEPT !.pc = "link", !.target = m])
    BY <1>1, <2>1, TargetStep DEF InCandidate
  <2>2. CASE Goto(r, [task[r] EXCEPT !.pc = "insert"])
    BY <1>1, <2>2, PointStep DEF InCandidate, WithTarget
  <2> QED  BY <2>1, <2>2 DEF Probe
<1> QED  BY <1>2 DEF Probe, TInv, TypeOK, store, history

LEMMA InsertTInv == ASSUME TInv, NEW r \in Run, Insert(r) PROVE TInv'
<1>1. task[r].cands # <<>> /\ Current(r).fact \in Fact
  BY DEF Insert, TInv, ControlOK, InCandidate
<1>2. PICK m \in Memory \ UserMemory :
        /\ mem' = [mem EXCEPT ![m] = [life |-> "visible", facts |-> {Current(r).fact},
                                      digest |-> TRUE]]
        /\ Goto(r, [task[r] EXCEPT !.pc = "link", !.target = m])
  BY DEF Insert
<1>3. task' \in [Run -> Task] /\ ControlOK'
  BY <1>1, <1>2, TargetStep DEF InCandidate
<1>4. mem' \in [Memory -> Row]  BY <1>1, <1>2 DEF TInv, TypeOK, Row
<1> QED  BY <1>3, <1>4 DEF Insert, TInv, TypeOK, history

LEMMA LinkTInv == ASSUME TInv, NEW r \in Run, Link(r) PROVE TInv'
<1>1. /\ task[r].cands # <<>> /\ Current(r).fact \in Fact
      /\ task[r].target \in Memory
  BY DEF Link, TInv, ControlOK, InCandidate, WithTarget
<1>2. Current(r).entries \subseteq Entry  BY <1>1, CandidateTypes DEF TInv, TypeOK
<1>3. task' \in [Run -> Task] /\ ControlOK'  BY <1>1, <1>2, AdvanceControl DEF Link
<1>4. links' \subseteq Memory \X Entry  BY <1>1, <1>2 DEF Link, TInv, TypeOK
<1>5. claims' \subseteq Memory \X Entry \X Fact
  <2>1. {<<task[r].target, e, Current(r).fact>> : e \in Current(r).entries}
          \subseteq Memory \X Entry \X Fact
    BY <1>1, <1>2
  <2> QED  BY <2>1 DEF Link, TInv, TypeOK
<1> QED  BY <1>3, <1>4, <1>5 DEF Link, TInv, TypeOK

LEMMA ReviewTInv == ASSUME TInv, NEW r \in Run, Review(r) PROVE TInv'
<1> DEFINE t == [task[r] EXCEPT !.pc = "load", !.decided = @ \cup task[r].rest,
                                !.batch = {}, !.rest = {}]
<1>1. task[r] \in Task  BY DEF TInv, TypeOK
<1>2. t \in Task /\ t.pc = "load"  BY <1>1 DEF Task
<1>3. Goto(r, t)  BY DEF Review
<1>4. task[r].rest \subseteq Entry  BY <1>1 DEF Task
<1> HIDE DEF t
<1>5. task' \in [Run -> Task] /\ ControlOK'  BY <1>2, <1>3, PlainStep DEF InCandidate
<1>6. Pending(task[r].rest, "no-candidate") \in [Entry -> Reason]
  BY <1>4, PendingType DEF TInv, TypeOK, Reason
<1>7. pend' \in [Entry -> Reason] /\ lock' \in Run \cup {Nobody, "recovery"}
  BY <1>6 DEF Review, TInv, TypeOK
<1> QED  BY <1>5, <1>7 DEF Review, TInv, TypeOK, store, history

LEMMA MarkTInv == ASSUME TInv, NEW r \in Run, Mark(r) PROVE TInv'
<1> DEFINE t == [FreshTask EXCEPT !.pc = "prune", !.lost = task[r].lost]
<1>1. task[r].lost \subseteq Entry  BY DEF TInv, TypeOK, Task
<1>2. t \in Task /\ t.pc = "prune"  BY <1>1, FreshTypes
<1>3. Goto(r, t)  BY DEF Mark
<1> HIDE DEF t
<1>4. task' \in [Run -> Task] /\ ControlOK'  BY <1>2, <1>3, PlainStep DEF InCandidate
<1>5. rejections' \in [Entry -> [Run -> Reason]] /\ pend' \in [Entry -> Reason]
  BY CommitTypes DEF Mark
<1>6. watermark' \in [Entry -> Run \cup Unset]  BY DEF Mark, TInv, TypeOK
<1> QED  BY <1>4, <1>5, <1>6 DEF Mark, TInv, TypeOK, history

LEMMA PruneSelectTInv == ASSUME TInv, NEW r \in Run, PruneSelect(r) PROVE TInv'
<1>1. task[r] \in Task  BY DEF TInv, TypeOK
<1>2. task' \in [Run -> Task] /\ ControlOK'
  <2>1. CASE Goto(r, [task[r] EXCEPT !.pc = "record"])
    <3> DEFINE t == [task[r] EXCEPT !.pc = "record"]
    <3>1. t \in Task /\ t.pc = "record"  BY <1>1 DEF Task
    <3>2. Goto(r, t)  BY <2>1
    <3> HIDE DEF t
    <3> QED  BY <3>1, <3>2, PlainStep DEF InCandidate
  <2>2. CASE \E cutoff \in Entry :
               Goto(r, [task[r] EXCEPT !.pc = "sweep", !.batch = Prunable(cutoff)])
    <3>1. PICK cutoff \in Entry :
            Goto(r, [task[r] EXCEPT !.pc = "sweep", !.batch = Prunable(cutoff)])
      BY <2>2
    <3> DEFINE t == [task[r] EXCEPT !.pc = "sweep", !.batch = Prunable(cutoff)]
    <3>2. Prunable(cutoff) \subseteq Entry  BY DEF Prunable
    <3>3. t \in Task /\ t.pc = "sweep"  BY <1>1, <3>2 DEF Task
    <3>4. Goto(r, t)  BY <3>1
    <3> HIDE DEF t
    <3> QED  BY <3>3, <3>4, PlainStep DEF InCandidate
  <2> QED  BY <2>1, <2>2 DEF PruneSelect
<1> QED  BY <1>2 DEF PruneSelect, TInv, TypeOK, store, history

LEMMA PruneDeleteTInv == ASSUME TInv, NEW r \in Run, PruneDelete(r) PROVE TInv'
<1> DEFINE t == [FreshTask EXCEPT !.pc = "record"]
<1>1. t \in Task /\ t.pc = "record"  BY FreshTypes
<1>2. Goto(r, t)  BY DEF PruneDelete
<1> HIDE DEF t
<1>3. task' \in [Run -> Task] /\ ControlOK'  BY <1>1, <1>2, PlainStep DEF InCandidate
<1>4. rejections' \in [Entry -> [Run -> Reason]]
  BY DEF PruneDelete, TInv, TypeOK, Reason
<1>5. watermark' \in [Entry -> Run \cup Unset] /\ links' \subseteq Memory \X Entry
  BY DEF PruneDelete, TInv, TypeOK, Unset
<1> QED  BY <1>3, <1>4, <1>5 DEF PruneDelete, TInv, TypeOK, history

LEMMA RecordTInv == ASSUME TInv, NEW r \in Run, Record(r) PROVE TInv'
<1>1. task' \in [Run -> Task] /\ ControlOK'
  BY FreshTypes, PlainStep DEF Record, InCandidate
<1> QED  BY <1>1 DEF Record, TInv, TypeOK, history

LEMMA EndingTypes ==
  ASSUME TInv, NEW r \in Run, Ending(r)
  PROVE  /\ task' \in [Run -> Task] /\ ControlOK'
         /\ pend' \in [Entry -> Reason]
         /\ lock' \in Run \cup {Nobody, "recovery"}
         /\ faults' \in Nat
<1>1. task' \in [Run -> Task] /\ ControlOK'
  BY FreshTypes, PlainStep DEF Ending, InCandidate
<1> QED  BY <1>1 DEF Ending, TInv, TypeOK, NoPend, Reason

LEMMA AbortTInv == ASSUME TInv, NEW r \in Run, Abort(r) PROVE TInv'
<1>1. rejections' \in [Entry -> [Run -> Reason]]  BY CommitTypes DEF Abort, Ending
<1> QED  BY <1>1, EndingTypes DEF Abort, TInv, TypeOK, history

LEMMA CrashTInv == ASSUME TInv, NEW r \in Run, Crash(r) PROVE TInv'
  BY EndingTypes DEF Crash, TInv, TypeOK, store, history

\* Every state is well typed, whatever runs, providers, failures and memories
\* there are.
LEMMA TInvNext == ASSUME TInv, [Next]_vars PROVE TInv'
<1>1. CASE UNCHANGED vars
  BY <1>1 DEF vars, TInv, TypeOK, ControlOK, Current
<1>2. CASE ProviderStep  BY <1>2, ProviderTInv
<1>3. CASE \E r \in Run : DigestStep(r)
  <2> PICK r \in Run : DigestStep(r)  BY <1>3
  <2> QED
    BY BeginTInv, LoadTInv, EndOfScopesTInv, QuarantineTInv, ExtractTInv, FilterTInv,
       MatchTInv, CoverTInv, UpdateTInv, RewriteTInv, ProbeTInv, InsertTInv, LinkTInv,
       ReviewTInv, MarkTInv, PruneSelectTInv, PruneDeleteTInv, RecordTInv, AbortTInv,
       CrashTInv
    DEF DigestStep, Progress
<1> QED  BY <1>1, <1>2, <1>3 DEF Next

\* TypeOK holds in every reachable state of the specification, for any number
\* of entries, memories and overlapping runs.
THEOREM TypeCorrect == Spec => []TypeOK
<1>1. TInv => TypeOK  BY DEF TInv
<1> QED  BY <1>1, TInvInit, TInvNext, PTL DEF Spec
-----------------------------------------------------------------------------
(***************************************************************************)
(* The watermark never gets ahead of the evidence.  SettledHasReceipt alone*)
(* is not inductive: Mark writes a run's id over all the entries the run   *)
(* has decided, so each of those must already have its outcome on record,  *)
(* or in the transaction that Mark is about to commit, or be gone.         *)
(***************************************************************************)
Secured(e, r) ==
  Receipted(e, r) \/ (lock = r /\ pend[e] # "none") \/ watermark[e] = "pruned"
DecidedSecured ==
  \A r \in Run : task[r].pc # "ended" => \A e \in task[r].decided : Secured(e, r)

EInv == TInv /\ SettledHasReceipt /\ DecidedSecured

\* What a step of run r must do to keep the evidence.
LEMMA EvidenceStep ==
  ASSUME EInv, TInv', NEW r \in Run,
         \A o \in Run : o # r => task'[o] = task[o],
         \A e \in Entry : watermark[e] = "pruned" => watermark'[e] = "pruned",
         \A e \in Entry, o \in Run :
           Receipted(e, o) => Receipted(e, o)' \/ watermark'[e] = "pruned",
         \A e \in Entry, o \in Run :
           o # r /\ lock = o /\ pend[e] # "none" => lock' = o /\ pend'[e] # "none",
         \A e \in Entry :
           watermark'[e] = watermark[e] \/ watermark'[e] = "pruned"
             \/ (watermark'[e] = r /\ Receipted(e, r)'),
         task'[r].pc # "ended" => \A e \in task'[r].decided : Secured(e, r)'
  PROVE  EInv'
<1>1. SettledHasReceipt'
  <2> SUFFICES ASSUME NEW e \in Entry, watermark'[e] \in Run
               PROVE  rejections'[e][watermark'[e]] # "none" \/ Linked(e)' \/ e \in forgotten'
    BY DEF SettledHasReceipt, Receipted
  <2>1. watermark'[e] # "pruned"  BY ConstantsAssumption DEF Unset
  <2>2. CASE watermark'[e] = watermark[e]
    <3>1. Receipted(e, watermark[e])  BY <2>2 DEF EInv, SettledHasReceipt
    <3>2. \A o \in Run : Receipted(e, o) => Receipted(e, o)'  BY <2>1
    <3>3. PICK o \in Run : o = watermark[e]  BY <2>2
    <3> QED  BY <2>2, <3>1, <3>2, <3>3 DEF Receipted
  <2>3. CASE watermark'[e] = r /\ Receipted(e, r)'  BY <2>3 DEF Receipted
  <2> QED  BY <2>1, <2>2, <2>3
<1>2. DecidedSecured'
  <2> SUFFICES ASSUME NEW o \in Run, task'[o].pc # "ended", NEW e \in task'[o].decided
               PROVE  Secured(e, o)'
    BY DEF DecidedSecured, Secured, Receipted, Linked
  <2>1. CASE o = r  BY <2>1 DEF Secured, Receipted
  <2>2. CASE o # r
    <3>1. task'[o] = task[o]  BY <2>2
    <3>2. e \in Entry  BY <3>1 DEF EInv, TInv, TypeOK, Task
    <3>3. Secured(e, o)  BY <3>1 DEF EInv, DecidedSecured
    <3> QED  BY <2>2, <3>2, <3>3 DEF Secured
  <2> QED  BY <2>1, <2>2
<1> QED  BY <1>1, <1>2 DEF EInv

\* A step that only moves run r, or changes memories and the run's own row.
LEMMA QuietStep ==
  ASSUME EInv, TInv', NEW r \in Run,
         UNCHANGED <<watermark, rejections, links, pend, lock, forgotten>>,
         task[r].pc # "ended",
         task'[r].pc = "ended" \/ task'[r].decided = task[r].decided,
         \A o \in Run : o # r => task'[o] = task[o]
  PROVE  EInv'
<1>2. \A e, o : Receipted(e, o)' = Receipted(e, o)  BY DEF Receipted, Linked
<1>3. \A e : Secured(e, r)' = Secured(e, r)  BY <1>2 DEF Secured
<1>4. task'[r].pc # "ended" => \A e \in task'[r].decided : Secured(e, r)
  BY DEF EInv, DecidedSecured
<1> QED  BY <1>2, <1>3, <1>4, EvidenceStep

\* A step that leaves the digest's tables and every run as they are.
LEMMA ProviderEvidence == ASSUME EInv, TInv', ProviderStep PROVE EInv'
<1>1. UNCHANGED <<rejections, pend, lock, task>>
  BY DEF ProviderStep, AppendEntry, Archive, HardDelete, UserStore
<1>2. \A e \in Entry : watermark'[e] = watermark[e]
                         \/ (watermark[e] = "absent" /\ watermark'[e] = "unprocessed")
  BY DEF ProviderStep, AppendEntry, Archive, HardDelete, UserStore, EInv, TInv, TypeOK
<1>3. \A e \in Entry : Linked(e) \/ e \in forgotten => (Linked(e) \/ e \in forgotten)'
  <2>1. CASE UNCHANGED <<links, forgotten>>  BY <2>1 DEF Linked
  <2>2. CASE \E m \in Memory : HardDelete(m)
    <3> PICK m \in Memory : HardDelete(m)  BY <2>2
    <3> QED  BY DEF HardDelete, Linked
  <2> QED  BY <2>1, <2>2 DEF ProviderStep, AppendEntry, Archive, UserStore, history
<1>4. \A e \in Entry, o \in Run : Receipted(e, o) => Receipted(e, o)'
  BY <1>1, <1>3 DEF Receipted
<1>5. SettledHasReceipt'
  <2> SUFFICES ASSUME NEW e \in Entry, watermark'[e] \in Run
               PROVE  rejections'[e][watermark'[e]] # "none" \/ Linked(e)' \/ e \in forgotten'
    BY DEF SettledHasReceipt, Receipted
  <2>1. watermark'[e] = watermark[e]  BY <1>2, ConstantsAssumption DEF Unset
  <2>2. PICK o \in Run : o = watermark[e]  BY <2>1
  <2>3. Receipted(e, o)  BY <2>2 DEF EInv, SettledHasReceipt
  <2> QED  BY <1>4, <2>1, <2>2, <2>3 DEF Receipted
<1>6. DecidedSecured'
  <2> SUFFICES ASSUME NEW o \in Run, task'[o].pc # "ended", NEW e \in task'[o].decided
               PROVE  Secured(e, o)'
    BY DEF DecidedSecured, Secured, Receipted, Linked
  <2>1. task'[o] = task[o]  BY <1>1
  <2>2. e \in Entry  BY <2>1 DEF EInv, TInv, TypeOK, Task
  <2>3. Secured(e, o)  BY <2>1 DEF EInv, DecidedSecured
  <2> QED  BY <1>1, <1>2, <1>4, <2>2, <2>3 DEF Secured
<1> QED  BY <1>5, <1>6 DEF EInv

LEMMA GotoSame ==
  ASSUME task \in [Run -> Task], NEW r \in Run, NEW t, Goto(r, t)
  PROVE  task'[r] = t /\ \A o \in Run : o # r => task'[o] = task[o]
  BY DEF Goto

\* The moves of a run that leave its decided entries alone.
LEMMA MovesKeepDecided ==
  ASSUME task \in [Run -> Task], NEW r \in Run,
         \/ \E p : Goto(r, [task[r] EXCEPT !.pc = p])
         \/ \E p, m : Goto(r, [task[r] EXCEPT !.pc = p, !.target = m])
         \/ \E p, m, B : Goto(r, [task[r] EXCEPT !.pc = p, !.target = m, !.base = B])
         \/ \E p, B : Goto(r, [task[r] EXCEPT !.pc = p, !.batch = B])
  PROVE  task'[r].decided = task[r].decided
<1>0. task[r] \in Task  OBVIOUS
<1>1. CASE \E p : Goto(r, [task[r] EXCEPT !.pc = p])
  <2>1. PICK p : Goto(r, [task[r] EXCEPT !.pc = p])  BY <1>1
  <2>2. [task[r] EXCEPT !.pc = p].decided = task[r].decided  BY <1>0 DEF Task
  <2> QED  BY <2>1, <2>2, GotoSame
<1>2. CASE \E p, m : Goto(r, [task[r] EXCEPT !.pc = p, !.target = m])
  <2>1. PICK p, m : Goto(r, [task[r] EXCEPT !.pc = p, !.target = m])  BY <1>2
  <2>2. [task[r] EXCEPT !.pc = p, !.target = m].decided = task[r].decided
    BY <1>0 DEF Task
  <2> QED  BY <2>1, <2>2, GotoSame
<1>3. CASE \E p, m, B : Goto(r, [task[r] EXCEPT !.pc = p, !.target = m, !.base = B])
  <2>1. PICK p, m, B : Goto(r, [task[r] EXCEPT !.pc = p, !.target = m, !.base = B])
    BY <1>3
  <2>2. [task[r] EXCEPT !.pc = p, !.target = m, !.base = B].decided = task[r].decided
    BY <1>0 DEF Task
  <2> QED  BY <2>1, <2>2, GotoSame
<1>4. CASE \E p, B : Goto(r, [task[r] EXCEPT !.pc = p, !.batch = B])
  <2>1. PICK p, B : Goto(r, [task[r] EXCEPT !.pc = p, !.batch = B])  BY <1>4
  <2>2. [task[r] EXCEPT !.pc = p, !.batch = B].decided = task[r].decided
    BY <1>0 DEF Task
  <2> QED  BY <2>1, <2>2, GotoSame
<1> QED  BY <1>1, <1>2, <1>3, <1>4

LEMMA QuietActions ==
  ASSUME EInv, TInv', NEW r \in Run,
         \/ Begin(r) \/ EndOfScopes(r) \/ ExtractSome(r) \/ Match(r) \/ Rewrite(r)
         \/ Probe(r) \/ Insert(r) \/ PruneSelect(r) \/ Record(r)
  PROVE  EInv'
<1>1. task[r] \in Task  BY DEF EInv, TInv, TypeOK
<1>2. UNCHANGED <<watermark, rejections, links, pend, lock, forgotten>>
  BY DEF Begin, EndOfScopes, ExtractSome, Extract, Match, Rewrite, Probe, Insert,
         PruneSelect, Record, store, history
<1>3. task[r].pc # "ended"
  BY DEF Begin, EndOfScopes, ExtractSome, Extract, Match, Rewrite, Probe, Insert,
         PruneSelect, Record
<1>4. \A o \in Run : o # r => task'[o] = task[o]
  BY DEF Begin, EndOfScopes, ExtractSome, Extract, Match, Rewrite, Probe, Insert,
         PruneSelect, Record, Goto, EInv, TInv, TypeOK
<1>5. task'[r].pc = "ended" \/ task'[r].decided = task[r].decided
  <2>0. task \in [Run -> Task]  BY DEF EInv, TInv, TypeOK
  <2>1. CASE Begin(r)
    <3>1. PICK q, n : Goto(r, [task[r] EXCEPT !.pc = "load", !.scopes = q, !.limit = n])
      BY <2>1 DEF Begin
    <3>2. [task[r] EXCEPT !.pc = "load", !.scopes = q, !.limit = n].decided
            = task[r].decided
      BY <1>1 DEF Task
    <3> QED  BY <2>0, <3>1, <3>2, GotoSame
  <2>2. CASE EndOfScopes(r)
    <3> DEFINE t == [FreshTask EXCEPT !.pc = "mark", !.decided = task[r].decided,
                                      !.lost = task[r].lost]
    <3>1. EndedTask.pc = "ended"  BY FreshTypes
    <3>2. t.decided = task[r].decided  BY DEF FreshTask
    <3>3. task'[r] = EndedTask \/ task'[r] = t  BY <2>0, <2>2, GotoSame DEF EndOfScopes
    <3> HIDE DEF t
    <3> QED  BY <3>1, <3>2, <3>3
  <2>3. CASE ExtractSome(r)
    <3>1. PICK cs, lost : Extract(r, cs, lost)  BY <2>3 DEF ExtractSome
    <3> DEFINE covered == UNION {cs[i].entries : i \in DOMAIN cs}
               t == [task[r] EXCEPT !.pc = "apply", !.cands = cs, !.batch = {},
                                    !.lost = @ \cup lost,
                                    !.rest = task[r].batch \ covered]
    <3>2. Goto(r, t)  BY <3>1 DEF Extract
    <3>3. t.decided = task[r].decided  BY <1>1 DEF Task
    <3> HIDE DEF t
    <3> QED  BY <2>0, <3>2, <3>3, GotoSame
  <2>4. CASE Match(r)
    <3>1. \/ \E p : Goto(r, [task[r] EXCEPT !.pc = p])
          \/ \E p, m, B : Goto(r, [task[r] EXCEPT !.pc = p, !.target = m, !.base = B])
      BY <2>4 DEF Match
    <3>2. CASE \E p : Goto(r, [task[r] EXCEPT !.pc = p])  BY <1>1, <2>0, <3>2, MovesKeepDecided
    <3>3. CASE \E p, m, B : Goto(r, [task[r] EXCEPT !.pc = p, !.target = m, !.base = B])
      BY <1>1, <2>0, <3>3, MovesKeepDecided
    <3> QED  BY <3>1, <3>2, <3>3
  <2>5. CASE Rewrite(r)  BY <2>0, <2>5, MovesKeepDecided DEF Rewrite
  <2>6. CASE Probe(r)  BY <2>0, <2>6, MovesKeepDecided DEF Probe
  <2>7. CASE Insert(r)  BY <2>0, <2>7, MovesKeepDecided DEF Insert
  <2>8. CASE PruneSelect(r)  BY <2>0, <2>8, MovesKeepDecided DEF PruneSelect
  <2>9. CASE Record(r)
    <3>1. EndedTask.pc = "ended"  BY FreshTypes
    <3> QED  BY <2>0, <2>9, <3>1, GotoSame DEF Record
  <2> QED  BY <2>1, <2>2, <2>3, <2>4, <2>5, <2>6, <2>7, <2>8, <2>9
<1> QED  BY <1>2, <1>3, <1>4, <1>5, QuietStep

\* The facts about a commit: the receipts of the transaction become durable,
\* and no receipt is lost.
LEMMA CommitEvidence ==
  ASSUME TypeOK, NEW r \in Run,
         rejections' = IF lock = r THEN Committed(r) ELSE rejections
  PROVE  /\ \A e \in Entry, o \in Run :
              rejections[e][o] # "none" => rejections'[e][o] # "none"
         /\ \A e \in Entry : lock = r /\ pend[e] # "none" => rejections'[e][r] # "none"
  BY DEF Committed, TypeOK

LEMMA RejectedEvidence ==
  ASSUME TypeOK, NEW r \in Run, NEW S \in SUBSET Entry, NEW reason, reason # "none",
         rejections' = Rejected(r, S, reason)
  PROVE  /\ \A e \in Entry, o \in Run :
              rejections[e][o] # "none" => rejections'[e][o] # "none"
         /\ \A e \in S : rejections'[e][r] # "none"
  BY DEF Rejected, TypeOK

\* After Advance the run has decided D as well.
LEMMA AdvanceDecided ==
  ASSUME TInv, NEW r \in Run, task[r].cands # <<>>, NEW D \in SUBSET Entry, Advance(r, D)
  PROVE  /\ task'[r].decided = task[r].decided \cup D
         /\ \A o \in Run : o # r => task'[o] = task[o]
  BY AdvanceType DEF TInv, TypeOK

LEMMA ReceiptActions ==
  ASSUME EInv, TInv', NEW r \in Run, Filter(r) \/ Cover(r)
  PROVE  EInv'
<1> DEFINE E == Current(r).entries
<1>1. TInv /\ TypeOK  BY DEF EInv, TInv
<1>2. task[r].cands # <<>>
  BY <1>1 DEF Filter, Cover, Candidates, TInv, ControlOK, InCandidate
<1>3. E \subseteq Entry  BY <1>1, <1>2, CandidateTypes DEF TypeOK
<1>4. /\ Advance(r, E)
      /\ UNCHANGED <<watermark, links, pend, lock, forgotten>>
      /\ task[r].pc # "ended"
      /\ rejections' = Rejected(r, E, "filtered") \/ rejections' = Rejected(r, E, "covered")
  BY DEF Filter, Cover, history
<1> HIDE DEF E
<1>5. /\ \A e \in Entry, o \in Run :
           rejections[e][o] # "none" => rejections'[e][o] # "none"
      /\ \A e \in E : rejections'[e][r] # "none"
  BY <1>1, <1>3, <1>4, RejectedEvidence
<1>6. /\ task'[r].decided = task[r].decided \cup E
      /\ \A o \in Run : o # r => task'[o] = task[o]
  BY <1>1, <1>2, <1>3, <1>4, AdvanceDecided
<1>7. \A e \in Entry, o \in Run : Receipted(e, o) => Receipted(e, o)'
  BY <1>4, <1>5 DEF Receipted, Linked
<1>8. \A e \in task'[r].decided : Secured(e, r)'
  <2> SUFFICES ASSUME NEW e \in task'[r].decided PROVE Secured(e, r)'  OBVIOUS
  <2>1. CASE e \in E  BY <1>5, <2>1 DEF Secured, Receipted
  <2>2. CASE e \in task[r].decided
    <3>1. e \in Entry  BY <1>1, <2>2 DEF TypeOK, Task
    <3>2. Secured(e, r)  BY <1>4, <2>2 DEF EInv, DecidedSecured
    <3> QED  BY <1>4, <1>7, <3>1, <3>2 DEF Secured
  <2> QED  BY <1>6, <2>1, <2>2
<1> QED  BY <1>4, <1>6, <1>7, <1>8, EvidenceStep

LEMMA UpdateEvidence == ASSUME EInv, TInv', NEW r \in Run, Update(r) PROVE EInv'
<1>1. TInv /\ TypeOK  BY DEF EInv, TInv
<1>2. task[r] \in Task  BY <1>1 DEF TypeOK
<1>3. /\ task'[r].decided = task[r].decided
      /\ \A o \in Run : o # r => task'[o] = task[o]
  <2>1. CASE Goto(r, [task[r] EXCEPT !.pc = "rewrite"])
    BY <1>1, <2>1, MovesKeepDecided, GotoSame DEF TypeOK
  <2>2. CASE Advance(r, {})
    <3>1. task[r].cands # <<>>  BY <1>1 DEF Update, TInv, ControlOK, InCandidate
    <3>2. task'[r].decided = task[r].decided \cup {}
      BY <1>1, <2>2, <3>1, AdvanceDecided, {} \in SUBSET Entry
    <3>3. \A o \in Run : o # r => task'[o] = task[o]
      BY <1>1, <2>2, GotoSame DEF Advance, TypeOK
    <3> QED  BY <3>2, <3>3
  <2> QED  BY <2>1, <2>2 DEF Update
<1>4. task[r].pc # "ended" /\ UNCHANGED <<watermark, rejections, links, pend, lock, forgotten>>
  BY DEF Update, store, history
<1> QED  BY <1>3, <1>4, QuietStep

LEMMA LinkEvidence == ASSUME EInv, TInv', NEW r \in Run, Link(r) PROVE EInv'
<1> DEFINE E == Current(r).entries
           m == task[r].target
<1>1. TInv /\ TypeOK  BY DEF EInv, TInv
<1>2. task[r].cands # <<>> /\ m \in Memory
  BY <1>1 DEF Link, TInv, ControlOK, InCandidate, WithTarget
<1>3. E \subseteq Entry  BY <1>1, <1>2, CandidateTypes DEF TypeOK
<1>4. /\ Advance(r, E)
      /\ links' = links \cup ({m} \X E)
      /\ UNCHANGED <<watermark, rejections, pend, lock, forgotten>>
      /\ task[r].pc # "ended"
  BY DEF Link
<1> HIDE DEF E, m
<1>5. \A e \in E : Linked(e)'  BY <1>2, <1>4 DEF Linked
<1>6. /\ task'[r].decided = task[r].decided \cup E
      /\ \A o \in Run : o # r => task'[o] = task[o]
  BY <1>1, <1>2, <1>3, <1>4, AdvanceDecided
<1>7. \A e \in Entry, o \in Run : Receipted(e, o) => Receipted(e, o)'
  BY <1>4 DEF Receipted, Linked
<1>8. \A e \in task'[r].decided : Secured(e, r)'
  <2> SUFFICES ASSUME NEW e \in task'[r].decided PROVE Secured(e, r)'  OBVIOUS
  <2>1. CASE e \in E  BY <1>5, <2>1 DEF Secured, Receipted
  <2>2. CASE e \in task[r].decided
    <3>1. e \in Entry  BY <1>1, <2>2 DEF TypeOK, Task
    <3>2. Secured(e, r)  BY <1>4, <2>2 DEF EInv, DecidedSecured
    <3> QED  BY <1>4, <1>7, <3>1, <3>2 DEF Secured
  <2> QED  BY <1>6, <2>1, <2>2
<1> QED  BY <1>4, <1>6, <1>7, <1>8, EvidenceStep

\* Writing receipts into the run's own transaction secures the entries.
LEMMA PendingActions ==
  ASSUME EInv, TInv', NEW r \in Run, Quarantine(r) \/ Review(r)
  PROVE  EInv'
<1>1. TInv /\ TypeOK  BY DEF EInv, TInv
<1>2. task[r] \in Task  BY <1>1 DEF TypeOK
<1>3. /\ UNCHANGED <<watermark, rejections, links, forgotten>>
      /\ task[r].pc # "ended"
  BY DEF Quarantine, Review, store, history
<1>4. PICK S \in SUBSET Entry :
        /\ task'[r].decided = task[r].decided \cup S
        /\ \A o \in Run : o # r => task'[o] = task[o]
        /\ \/ S = {} /\ UNCHANGED <<pend, lock>>
           \/ /\ MayWrite(r) /\ lock' = r
              /\ \A e \in Entry : pend'[e] # "none" \/ (e \notin S /\ pend'[e] = pend[e])
  <2>1. CASE Quarantine(r)
    <3>1. /\ task'[r].decided = task[r].decided \cup task[r].batch
          /\ \A o \in Run : o # r => task'[o] = task[o]
      BY <1>1, <1>2, <2>1 DEF Quarantine, Goto, TypeOK, Task
    <3>2. task[r].batch \subseteq Entry  BY <1>2 DEF Task
    <3> QED  BY <2>1, <3>1, <3>2 DEF Quarantine, Pending
  <2>2. CASE Review(r)
    <3>1. /\ task'[r].decided = task[r].decided \cup task[r].rest
          /\ \A o \in Run : o # r => task'[o] = task[o]
      BY <1>1, <1>2, <2>2 DEF Review, Goto, TypeOK, Task
    <3>2. task[r].rest \subseteq Entry  BY <1>2 DEF Task
    <3> QED  BY <2>2, <3>1, <3>2 DEF Review, Pending
  <2> QED  BY <2>1, <2>2
<1>5. \A e \in Entry, o \in Run : Receipted(e, o)' = Receipted(e, o)
  BY <1>3 DEF Receipted, Linked
<1>6. \A e \in Entry, o \in Run :
        o # r /\ lock = o /\ pend[e] # "none" => lock' = o /\ pend'[e] # "none"
  BY <1>4, ConstantsAssumption DEF MayWrite
<1>7. \A e \in task'[r].decided : Secured(e, r)'
  <2> SUFFICES ASSUME NEW e \in task'[r].decided PROVE Secured(e, r)'  OBVIOUS
  <2>1. CASE e \in S  BY <1>4, <2>1 DEF Secured
  <2>2. CASE e \in task[r].decided
    <3>1. e \in Entry  BY <1>1, <2>2 DEF TypeOK, Task
    <3>2. Secured(e, r)  BY <1>3, <2>2 DEF EInv, DecidedSecured
    <3> QED  BY <1>3, <1>4, <1>5, <3>1, <3>2 DEF Secured
  <2> QED  BY <1>4, <2>1, <2>2
<1> QED  BY <1>3, <1>4, <1>5, <1>6, <1>7, EvidenceStep

LEMMA LoadEvidence == ASSUME EInv, TInv', NEW r \in Run, Load(r) PROVE EInv'
<1>1. TInv /\ TypeOK  BY DEF EInv, TInv
<1>2. task[r] \in Task  BY <1>1 DEF TypeOK
<1>3. /\ UNCHANGED <<watermark, links, forgotten>> /\ task[r].pc # "ended"
      /\ rejections' = IF lock = r THEN Committed(r) ELSE rejections
      /\ pend' = IF lock = r THEN NoPend ELSE pend
      /\ lock' = IF lock = r THEN Nobody ELSE lock
  BY DEF Load, history
<1>4. task'[r].decided = task[r].decided /\ \A o \in Run : o # r => task'[o] = task[o]
  BY <1>1, <1>2 DEF Load, Goto, TypeOK, Task
<1>5. /\ \A e \in Entry, o \in Run : Receipted(e, o) => Receipted(e, o)'
      /\ \A e \in Entry : lock = r /\ pend[e] # "none" => Receipted(e, r)'
  BY <1>1, <1>3, CommitEvidence DEF Receipted, Linked
<1>6. \A e \in Entry, o \in Run :
        o # r /\ lock = o /\ pend[e] # "none" => lock' = o /\ pend'[e] # "none"
  BY <1>3
<1>7. \A e \in task'[r].decided : Secured(e, r)'
  <2> SUFFICES ASSUME NEW e \in task'[r].decided PROVE Secured(e, r)'  OBVIOUS
  <2>1. e \in Entry  BY <1>1, <1>4 DEF TypeOK, Task
  <2>2. Secured(e, r)  BY <1>3, <1>4 DEF EInv, DecidedSecured
  <2> QED  BY <1>3, <1>5, <2>1, <2>2 DEF Secured
<1> QED  BY <1>3, <1>4, <1>5, <1>6, <1>7, EvidenceStep

\* The commit of Mark makes the pending receipts durable with the watermark.
LEMMA MarkEvidence == ASSUME EInv, TInv', NEW r \in Run, Mark(r) PROVE EInv'
<1>1. TInv /\ TypeOK  BY DEF EInv, TInv
<1>3. /\ UNCHANGED <<links, forgotten>> /\ task[r].pc # "ended"
      /\ lock' = IF lock = r THEN Nobody ELSE lock
      /\ rejections' = IF lock = r THEN Committed(r) ELSE rejections
      /\ pend' = IF lock = r THEN NoPend ELSE pend
      /\ watermark' = [e \in Entry |->
                         IF e \in task[r].decided /\ watermark[e] \notin {"absent", "pruned"}
                         THEN r ELSE watermark[e]]
  BY DEF Mark, history
<1>4. task'[r].decided = {} /\ \A o \in Run : o # r => task'[o] = task[o]
  BY <1>1 DEF Mark, Goto, TypeOK, FreshTask
<1>5. /\ \A e \in Entry, o \in Run : Receipted(e, o) => Receipted(e, o)'
      /\ \A e \in Entry : lock = r /\ pend[e] # "none" => Receipted(e, r)'
  BY <1>1, <1>3, CommitEvidence DEF Receipted, Linked
<1>6. \A e \in Entry, o \in Run :
        o # r /\ lock = o /\ pend[e] # "none" => lock' = o /\ pend'[e] # "none"
  BY <1>3
<1>7. \A e \in Entry : watermark'[e] = watermark[e] \/ (watermark'[e] = r /\ Receipted(e, r)')
  <2> SUFFICES ASSUME NEW e \in Entry, e \in task[r].decided, watermark[e] # "pruned"
               PROVE  Receipted(e, r)'
    BY <1>3
  <2>1. Secured(e, r)  BY <1>3 DEF EInv, DecidedSecured
  <2> QED  BY <1>5, <2>1 DEF Secured
<1>8. \A e \in Entry : watermark[e] = "pruned" => watermark'[e] = "pruned"  BY <1>3
<1> QED  BY <1>4, <1>5, <1>6, <1>7, <1>8, EvidenceStep

LEMMA PruneDeleteEvidence ==
  ASSUME EInv, TInv', NEW r \in Run, PruneDelete(r) PROVE EInv'
<1> DEFINE old == task[r].batch
<1>1. TInv /\ TypeOK  BY DEF EInv, TInv
<1>2. /\ links' = {l \in links : l[2] \notin old}
      /\ rejections' = [e \in Entry |-> IF e \in old THEN [o \in Run |-> "none"]
                                                     ELSE rejections[e]]
      /\ watermark' = [e \in Entry |-> IF e \in old THEN "pruned" ELSE watermark[e]]
      /\ UNCHANGED <<pend, lock, forgotten>>
  BY DEF PruneDelete, history
<1>3. task'[r].decided = {} /\ \A o \in Run : o # r => task'[o] = task[o]
  BY <1>1 DEF PruneDelete, Goto, TypeOK, FreshTask
<1> HIDE DEF old
<1>4. \A e \in Entry, o \in Run : Receipted(e, o) => Receipted(e, o)' \/ watermark'[e] = "pruned"
  BY <1>2 DEF Receipted, Linked
<1>5. \A e \in Entry : /\ watermark[e] = "pruned" => watermark'[e] = "pruned"
                       /\ watermark'[e] = watermark[e] \/ watermark'[e] = "pruned"
  BY <1>2
<1> QED  BY <1>2, <1>3, <1>4, <1>5, EvidenceStep

LEMMA EndingEvidence ==
  ASSUME EInv, TInv', NEW r \in Run, Abort(r) \/ Crash(r) PROVE EInv'
<1>1. TInv /\ TypeOK  BY DEF EInv, TInv
<1>2. Ending(r) /\ UNCHANGED <<watermark, links, forgotten>>
  BY DEF Abort, Crash, store, history
<1>3. \/ UNCHANGED rejections
      \/ rejections' = IF lock = r THEN Committed(r) ELSE rejections
  BY DEF Abort, Crash, store
<1>4. task'[r].pc = "ended" /\ \A o \in Run : o # r => task'[o] = task[o]
  <2>1. EndedTask.pc = "ended"  BY FreshTypes
  <2> QED  BY <1>1, <1>2, <2>1, GotoSame DEF Ending, TypeOK
<1>5. \A e \in Entry, o \in Run : Receipted(e, o) => Receipted(e, o)'
  BY <1>1, <1>2, <1>3, CommitEvidence DEF Receipted, Linked
<1>6. \A e \in Entry, o \in Run :
        o # r /\ lock = o /\ pend[e] # "none" => lock' = o /\ pend'[e] # "none"
  BY <1>2 DEF Ending
<1> QED  BY <1>2, <1>4, <1>5, <1>6, EvidenceStep

LEMMA EInvNext == ASSUME EInv, [Next]_vars PROVE EInv'
<1>1. TInv'  BY TInvNext DEF EInv
<1>2. CASE UNCHANGED vars
  BY <1>1, <1>2 DEF vars, EInv, SettledHasReceipt, DecidedSecured, Secured, Receipted, Linked
<1>3. CASE ProviderStep  BY <1>1, <1>3, ProviderEvidence
<1>4. CASE \E r \in Run : DigestStep(r)
  <2> PICK r \in Run : DigestStep(r)  BY <1>4
  <2> QED
    BY <1>1, QuietActions, ReceiptActions, UpdateEvidence, LinkEvidence, PendingActions,
       LoadEvidence, MarkEvidence, PruneDeleteEvidence, EndingEvidence
    DEF DigestStep, Progress
<1> QED  BY <1>2, <1>3, <1>4 DEF Next

\* An entry behind the watermark has a durable outcome on record, whatever
\* runs overlap, crash or raise and whatever is archived or deleted meanwhile.
THEOREM ReceiptsSafe == Spec => []SettledHasReceipt
<1>1. Init => EInv
  <2> SUFFICES ASSUME Init PROVE EInv  OBVIOUS
  <2>1. SettledHasReceipt
    BY ConstantsAssumption DEF Init, SettledHasReceipt, Unset
  <2>2. DecidedSecured  BY DEF Init, DecidedSecured, FreshTask
  <2> QED  BY <2>1, <2>2, TInvInit DEF EInv
<1>2. EInv => SettledHasReceipt  BY DEF EInv
<1> QED  BY <1>1, <1>2, EInvNext, PTL DEF Spec
-----------------------------------------------------------------------------
(***************************************************************************)
(* The digest implements JournalWatermark.  Besides the receipts this      *)
(* needs that only staged entries are named anywhere: by a run, a receipt, *)
(* a link; and that what a run is about to prune has left the backlog.     *)
(***************************************************************************)
Named(t) == t.batch \cup t.rest \cup UNION {t.cands[i].entries : i \in 1 .. Len(t.cands)}
IsStaged(e) == watermark[e] # "absent"
IsMarked(e) == pend[e] # "none" \/ (\E r \in Run : rejections[e][r] # "none")
                 \/ Linked(e) \/ e \in forgotten

OnlyStagedMarked == \A e \in Entry : IsMarked(e) => IsStaged(e)
TasksNameStaged == \A r \in Run : \A e \in Named(task[r]) : e \in Entry /\ IsStaged(e)
SweepSettled ==
  \A r \in Run : task[r].pc = "sweep" =>
    \A e \in task[r].batch : watermark[e] \in Run \cup {"pruned"}

PInv == EInv /\ OnlyStagedMarked /\ TasksNameStaged /\ SweepSettled

\* The watermark of an entry only moves forward once it is staged.
Forward(e) == \/ watermark'[e] = watermark[e]
              \/ watermark[e] = "absent" /\ watermark'[e] = "unprocessed"
              \/ watermark[e] # "absent" /\ watermark'[e] \in Run \cup {"pruned"}

LEMMA TaskStep ==
  ASSUME PInv, NEW r \in Run, NEW t \in Task, Goto(r, t), \A e \in Entry : Forward(e),
         \A e \in Named(t) : e \in Entry /\ IsStaged(e),
         t.pc = "sweep" => \A e \in t.batch : watermark[e] \in Run \cup {"pruned"}
  PROVE  TasksNameStaged' /\ SweepSettled'
<1>1. /\ task'[r] = t /\ \A o \in Run : o # r => task'[o] = task[o]
  BY GotoSame DEF PInv, EInv, TInv, TypeOK
<1>2. \A e \in Entry : /\ IsStaged(e) => IsStaged(e)'
                       /\ watermark[e] \in Run \cup {"pruned"} => watermark'[e] \in Run \cup {"pruned"}
  BY ConstantsAssumption DEF Forward, IsStaged, Unset
<1>3. TasksNameStaged'
  <2> SUFFICES ASSUME NEW o \in Run, NEW e \in Named(task'[o]) PROVE e \in Entry /\ IsStaged(e)'
    BY DEF TasksNameStaged, Named
  <2>1. e \in Entry /\ IsStaged(e)  BY <1>1 DEF PInv, TasksNameStaged
  <2> QED  BY <1>2, <2>1
<1>4. SweepSettled'
  <2> SUFFICES ASSUME NEW o \in Run, task'[o].pc = "sweep", NEW e \in task'[o].batch
               PROVE  watermark'[e] \in Run \cup {"pruned"}
    BY DEF SweepSettled
  <2>1. watermark[e] \in Run \cup {"pruned"}  BY <1>1 DEF PInv, SweepSettled
  <2>2. e \in Entry
    <3>1. CASE o = r  BY <1>1, <3>1 DEF Named
    <3>2. CASE o # r  BY <1>1, <3>2 DEF PInv, TasksNameStaged, Named
    <3> QED  BY <3>1, <3>2
  <2> QED  BY <1>2, <2>1, <2>2
<1> QED  BY <1>3, <1>4

\* Most steps keep what the run names, and do not go to the sweep.
LEMMA KeepNamed ==
  ASSUME PInv, TInv', NEW r \in Run, NEW t, Goto(r, t), UNCHANGED watermark,
         t.batch = task[r].batch, t.rest = task[r].rest, t.cands = task[r].cands,
         t.pc # "sweep"
  PROVE  TasksNameStaged' /\ SweepSettled'
<1>1. Named(t) = Named(task[r])  BY DEF Named
<1>2. \A e \in Entry : Forward(e)  BY DEF Forward
<1>3. t \in Task
  <2>1. task' \in [Run -> Task] /\ task'[r] = t  BY GotoSame DEF PInv, EInv, TInv, TypeOK
  <2> QED  BY <2>1
<1> QED  BY <1>1, <1>2, <1>3, TaskStep DEF PInv, TasksNameStaged

\* A step to a record that names nothing.
LEMMA NothingNamed ==
  ASSUME PInv, NEW r \in Run, NEW t \in Task, Goto(r, t), \A e \in Entry : Forward(e),
         t.batch = {}, t.rest = {}, t.cands = <<>>, t.pc # "sweep"
  PROVE  TasksNameStaged' /\ SweepSettled'
<1>1. Len(t.cands) = 0  OBVIOUS
<1>2. Named(t) = {}  BY <1>1 DEF Named
<1> QED  BY <1>2, TaskStep

LEMMA AdvanceNamed ==
  ASSUME PInv, NEW r \in Run, task[r].cands # <<>>, NEW D \in SUBSET Entry, Advance(r, D),
         UNCHANGED watermark
  PROVE  TasksNameStaged' /\ SweepSettled'
<1> DEFINE t == [task[r] EXCEPT !.pc = "apply", !.cands = Tail(@), !.target = NoMemory,
                               !.base = {}, !.decided = @ \cup D]
           q == task[r].cands
<1>1. task[r] \in Task /\ q \in Seq(Candidate)  BY DEF PInv, EInv, TInv, TypeOK, Task
<1>2. Tail(q) \in Seq(Candidate) /\ Len(Tail(q)) = Len(q) - 1 /\ Len(q) \in Nat
      /\ \A i \in 1 .. Len(Tail(q)) : Tail(q)[i] = q[i + 1]
  BY <1>1, HeadTailProperties, LenProperties
<1>3. t \in Task  BY <1>1, <1>2 DEF Task
<1>4. t.batch = task[r].batch /\ t.rest = task[r].rest /\ t.cands = Tail(q) /\ t.pc = "apply"
  BY <1>1 DEF Task
<1>5. Goto(r, t)  BY DEF Advance
<1> HIDE DEF t
<1>6. Named(t) \subseteq Named(task[r])
  <2> SUFFICES ASSUME NEW e \in Named(t) PROVE e \in Named(task[r])  OBVIOUS
  <2>1. CASE e \in t.batch \cup t.rest  BY <1>4, <2>1 DEF Named
  <2>2. CASE \E i \in 1 .. Len(t.cands) : e \in t.cands[i].entries
    <3>1. PICK i \in 1 .. Len(Tail(q)) : e \in Tail(q)[i].entries  BY <1>4, <2>2
    <3>2. i + 1 \in 1 .. Len(q) /\ e \in q[i + 1].entries  BY <1>2, <3>1
    <3> QED  BY <3>2 DEF Named
  <2> QED  BY <2>1, <2>2 DEF Named
<1>7. \A e \in Entry : Forward(e)  BY DEF Forward
<1> QED  BY <1>3, <1>4, <1>5, <1>6, <1>7, TaskStep DEF PInv, TasksNameStaged

\* The entries of the candidate at hand are staged.
LEMMA CurrentNamed ==
  ASSUME PInv, NEW r \in Run, task[r].cands # <<>>
  PROVE  \A e \in Current(r).entries : e \in Entry /\ IsStaged(e)
<1>1. task[r].cands \in Seq(Candidate)  BY DEF PInv, EInv, TInv, TypeOK, Task
<1>2. 1 \in 1 .. Len(task[r].cands) /\ Current(r) = task[r].cands[1]
  BY <1>1, LenProperties, EmptySeq DEF Current
<1>3. Current(r).entries \subseteq Named(task[r])  BY <1>2 DEF Named
<1> QED  BY <1>3 DEF PInv, TasksNameStaged

\* What a step may do to the marks of the store.
LEMMA MarkStep ==
  ASSUME PInv, \A e \in Entry : Forward(e),
         \A e \in Entry : IsMarked(e)' => IsMarked(e) \/ IsStaged(e)
  PROVE  OnlyStagedMarked'
<1>1. \A e \in Entry : IsStaged(e) => IsStaged(e)'
  BY ConstantsAssumption DEF Forward, IsStaged, Unset
<1>2. \A e \in Entry : IsMarked(e)' => IsStaged(e)'  BY <1>1 DEF PInv, OnlyStagedMarked
<1> QED  BY <1>2 DEF OnlyStagedMarked

LEMMA SameWatermark == ASSUME UNCHANGED watermark PROVE \A e \in Entry : Forward(e)
  BY DEF Forward

LEMMA SameMarks ==
  ASSUME PInv, UNCHANGED <<watermark, rejections, links, pend, forgotten>>
  PROVE  OnlyStagedMarked'
  BY DEF PInv, OnlyStagedMarked, IsMarked, IsStaged, Linked

\* The moves within a candidate.
LEMMA MovesKeepNamed ==
  ASSUME PInv, TInv', NEW r \in Run, UNCHANGED watermark, NEW p, p # "sweep", NEW m, NEW B,
         \/ Goto(r, [task[r] EXCEPT !.pc = p])
         \/ Goto(r, [task[r] EXCEPT !.pc = p, !.target = m])
         \/ Goto(r, [task[r] EXCEPT !.pc = p, !.target = m, !.base = B])
  PROVE  TasksNameStaged' /\ SweepSettled'
<1>0. task[r] \in Task  BY DEF PInv, EInv, TInv, TypeOK
<1> DEFINE Same(t) == /\ t.batch = task[r].batch /\ t.rest = task[r].rest
                      /\ t.cands = task[r].cands /\ t.pc # "sweep"
<1>1. /\ Same([task[r] EXCEPT !.pc = p])
      /\ Same([task[r] EXCEPT !.pc = p, !.target = m])
      /\ Same([task[r] EXCEPT !.pc = p, !.target = m, !.base = B])
  BY <1>0 DEF Task
<1>2. \A t : Goto(r, t) /\ Same(t) => TasksNameStaged' /\ SweepSettled'
  <2> SUFFICES ASSUME NEW t, Goto(r, t), Same(t) PROVE TasksNameStaged' /\ SweepSettled'
    OBVIOUS
  <2> QED  BY KeepNamed
<1> HIDE DEF Same
<1>3. CASE Goto(r, [task[r] EXCEPT !.pc = p])  BY <1>1, <1>2, <1>3
<1>4. CASE Goto(r, [task[r] EXCEPT !.pc = p, !.target = m])  BY <1>1, <1>2, <1>4
<1>5. CASE Goto(r, [task[r] EXCEPT !.pc = p, !.target = m, !.base = B])  BY <1>1, <1>2, <1>5
<1> QED  BY <1>3, <1>4, <1>5

LEMMA CandidateNamed ==
  ASSUME PInv, TInv', NEW r \in Run, Match(r) \/ Update(r) \/ Rewrite(r) \/ Probe(r) \/ Insert(r)
  PROVE  TasksNameStaged' /\ SweepSettled' /\ OnlyStagedMarked'
<1>1. UNCHANGED <<watermark, rejections, links, pend, forgotten>>
  BY DEF Match, Update, Rewrite, Probe, Insert, store, history
<1>2. OnlyStagedMarked'  BY <1>1, SameMarks
<1>3. CASE Match(r)
  <2>1. \/ \E p \in {"cover", "probe"} : Goto(r, [task[r] EXCEPT !.pc = p])
        \/ \E m, B : Goto(r, [task[r] EXCEPT !.pc = "update", !.target = m, !.base = B])
    BY <1>3 DEF Match
  <2> QED  BY <1>1, <1>2, <2>1, MovesKeepNamed
<1>4. CASE Update(r)
  <2>1. task[r].cands # <<>>  BY <1>4 DEF Update, PInv, EInv, TInv, ControlOK, InCandidate
  <2>2. CASE Goto(r, [task[r] EXCEPT !.pc = "rewrite"])  BY <1>1, <1>2, <2>2, MovesKeepNamed
  <2>3. CASE Advance(r, {})
    <3>1. {} \in SUBSET Entry  OBVIOUS
    <3> QED  BY <1>1, <1>2, <2>1, <2>3, <3>1, AdvanceNamed
  <2> QED  BY <1>4, <2>2, <2>3 DEF Update
<1>5. CASE Rewrite(r)  BY <1>1, <1>2, <1>5, MovesKeepNamed DEF Rewrite
<1>6. CASE Probe(r)
  <2>1. \/ \E m : Goto(r, [task[r] EXCEPT !.pc = "link", !.target = m])
        \/ Goto(r, [task[r] EXCEPT !.pc = "insert"])
    BY <1>6 DEF Probe
  <2> QED  BY <1>1, <1>2, <2>1, MovesKeepNamed
<1>7. CASE Insert(r)
  <2>1. \E m : Goto(r, [task[r] EXCEPT !.pc = "link", !.target = m])  BY <1>7 DEF Insert
  <2> QED  BY <1>1, <1>2, <2>1, MovesKeepNamed
<1> QED  BY <1>3, <1>4, <1>5, <1>6, <1>7

LEMMA LoadingNamed ==
  ASSUME PInv, TInv', NEW r \in Run,
         Begin(r) \/ EndOfScopes(r) \/ ExtractSome(r) \/ PruneSelect(r) \/ Record(r)
  PROVE  TasksNameStaged' /\ SweepSettled' /\ OnlyStagedMarked'
<1>0. task[r] \in Task /\ task \in [Run -> Task] /\ task' \in [Run -> Task]
  BY DEF PInv, EInv, TInv, TypeOK
<1>1. UNCHANGED <<watermark, rejections, links, pend, forgotten>>
  BY DEF Begin, EndOfScopes, ExtractSome, Extract, PruneSelect, Record, store, history
<1>2. OnlyStagedMarked' /\ \A e \in Entry : Forward(e)  BY <1>1, SameMarks, SameWatermark
<1>3. CASE Begin(r)
  <2>1. PICK q, n : Goto(r, [task[r] EXCEPT !.pc = "load", !.scopes = q, !.limit = n])
    BY <1>3 DEF Begin
  <2> DEFINE t == [task[r] EXCEPT !.pc = "load", !.scopes = q, !.limit = n]
  <2>2. t.batch = task[r].batch /\ t.rest = task[r].rest /\ t.cands = task[r].cands /\ t.pc = "load"
    BY <1>0 DEF Task
  <2>3. Goto(r, t)  BY <2>1
  <2> HIDE DEF t
  <2> QED  BY <1>1, <1>2, <2>2, <2>3, KeepNamed
<1>4. CASE EndOfScopes(r) \/ Record(r)
  <2>1. PICK t : /\ Goto(r, t) /\ t.batch = {} /\ t.rest = {} /\ t.cands = <<>> /\ t.pc # "sweep"
    <3> DEFINE u == [FreshTask EXCEPT !.pc = "mark", !.decided = task[r].decided, !.lost = task[r].lost]
    <3>1. /\ u.batch = {} /\ u.rest = {} /\ u.cands = <<>> /\ u.pc = "mark"
          /\ EndedTask.batch = {} /\ EndedTask.rest = {} /\ EndedTask.cands = <<>>
          /\ EndedTask.pc = "ended"
      BY DEF FreshTask, EndedTask
    <3>2. Goto(r, EndedTask) \/ Goto(r, u)  BY <1>4 DEF EndOfScopes, Record
    <3> HIDE DEF u
    <3> QED  BY <3>1, <3>2
  <2>2. t \in Task
    <3>1. task'[r] = t  BY <1>0, <2>1, GotoSame
    <3> QED  BY <1>0, <3>1
  <2> QED  BY <1>2, <2>1, <2>2, NothingNamed
<1>5. CASE ExtractSome(r)
  <2>1. PICK lost \in SUBSET task[r].batch :
          \E cs \in Extractions(task[r].batch \ lost) : Extract(r, cs, lost)
    BY <1>5 DEF ExtractSome
  <2>2. PICK cs \in Extractions(task[r].batch \ lost) : Extract(r, cs, lost)  BY <2>1
  <2> DEFINE covered == UNION {cs[i].entries : i \in DOMAIN cs}
             t == [task[r] EXCEPT !.pc = "apply", !.cands = cs, !.batch = {},
                                  !.lost = @ \cup lost, !.rest = task[r].batch \ covered]
  <2>3. Goto(r, t) /\ covered \subseteq task[r].batch  BY <2>2 DEF Extract
  <2>4. task[r].batch \ lost \in SUBSET Entry  BY <1>0 DEF Task
  <2>5. DOMAIN cs = 1 .. Len(cs)  BY <2>4, <2>2, ExtractionTypes, LenProperties
  <2>6. t.batch = {} /\ t.rest = task[r].batch \ covered /\ t.cands = cs /\ t.pc = "apply"
    BY <1>0 DEF Task
  <2>7. UNION {cs[i].entries : i \in 1 .. Len(cs)} \subseteq task[r].batch  BY <2>3, <2>5
  <2>8. t \in Task
    <3>1. task'[r] = t  BY <1>0, <2>3, GotoSame
    <3> QED  BY <1>0, <3>1
  <2> HIDE DEF t, covered
  <2>9. Named(t) \subseteq Named(task[r])  BY <2>6, <2>7 DEF Named
  <2> QED  BY <1>2, <2>3, <2>6, <2>8, <2>9, TaskStep DEF PInv, TasksNameStaged
<1>6. CASE Goto(r, [task[r] EXCEPT !.pc = "record"])  BY <1>1, <1>2, <1>6, MovesKeepNamed
<1>7. CASE \E cutoff \in Entry : Goto(r, [task[r] EXCEPT !.pc = "sweep", !.batch = Prunable(cutoff)])
  <2>0. PICK cutoff \in Entry :
          Goto(r, [task[r] EXCEPT !.pc = "sweep", !.batch = Prunable(cutoff)])
    BY <1>7
  <2> DEFINE B == Prunable(cutoff)
  <2>1. /\ Goto(r, [task[r] EXCEPT !.pc = "sweep", !.batch = B])
        /\ \A e \in B : e \in Entry /\ watermark[e] \notin Unset
    BY <2>0 DEF Prunable
  <2> HIDE DEF B
  <2> DEFINE t == [task[r] EXCEPT !.pc = "sweep", !.batch = B]
  <2>2. t.batch = B /\ t.rest = task[r].rest /\ t.cands = task[r].cands  BY <1>0 DEF Task
  <2>3. t \in Task
    <3>1. task'[r] = t  BY <1>0, <2>1, GotoSame
    <3> QED  BY <1>0, <3>1
  <2>4. Goto(r, t)  BY <2>1
  <2> HIDE DEF t
  <2>5. \A e \in Entry : watermark[e] \notin Unset => IsStaged(e) /\ watermark[e] \in Run
    BY DEF IsStaged, Unset, PInv, EInv, TInv, TypeOK
  <2>6. ASSUME NEW e \in Named(t) PROVE e \in Entry /\ IsStaged(e)
    <3>1. CASE e \in B  BY <2>1, <2>5, <3>1
    <3>2. CASE e \in Named(task[r])  BY <3>2 DEF PInv, TasksNameStaged
    <3> QED  BY <2>2, <2>6, <3>1, <3>2 DEF Named
  <2> QED  BY <1>2, <2>1, <2>2, <2>3, <2>4, <2>5, <2>6, TaskStep
<1> QED  BY <1>3, <1>4, <1>5, <1>6, <1>7 DEF PruneSelect

\* Filter, Cover and Link mark the entries of the candidate at hand.
LEMMA DecidingNamed ==
  ASSUME PInv, TInv', NEW r \in Run, Filter(r) \/ Cover(r) \/ Link(r)
  PROVE  TasksNameStaged' /\ SweepSettled' /\ OnlyStagedMarked'
<1> DEFINE E == Current(r).entries
<1>0. TInv /\ TypeOK  BY DEF PInv, EInv, TInv
<1>1. task[r].cands # <<>>
  BY <1>0 DEF Filter, Cover, Link, Candidates, TInv, ControlOK, InCandidate
<1>2. E \subseteq Entry /\ \A e \in E : IsStaged(e)
  BY <1>0, <1>1, CandidateTypes, CurrentNamed DEF TypeOK
<1>3. Advance(r, E) /\ UNCHANGED <<watermark, pend, forgotten>>
  BY DEF Filter, Cover, Link, history
<1>4. \/ UNCHANGED links /\ \E reason : rejections' = Rejected(r, E, reason)
      \/ UNCHANGED rejections /\ \E m : links' = links \cup ({m} \X E)
  BY DEF Filter, Cover, Link
<1> HIDE DEF E
<1>5. TasksNameStaged' /\ SweepSettled'  BY <1>1, <1>2, <1>3, AdvanceNamed
<1>6. ASSUME NEW e \in Entry, IsMarked(e)' PROVE IsMarked(e) \/ IsStaged(e)
  <2>1. CASE e \in E  BY <1>2, <2>1
  <2>2. CASE e \notin E
    <3>1. rejections'[e] = rejections[e]  BY <1>4, <2>2 DEF Rejected
    <3>2. Linked(e)' => Linked(e)  BY <1>4, <2>2 DEF Linked
    <3> QED  BY <1>3, <1>6, <3>1, <3>2 DEF IsMarked
  <2> QED  BY <2>1, <2>2
<1> QED  BY <1>3, <1>5, <1>6, SameWatermark, MarkStep

\* Quarantine and Review put the loaded entries into the transaction.
LEMMA PendingNamed ==
  ASSUME PInv, TInv', NEW r \in Run, Quarantine(r) \/ Review(r)
  PROVE  TasksNameStaged' /\ SweepSettled' /\ OnlyStagedMarked'
<1>0. task[r] \in Task /\ task \in [Run -> Task] /\ task' \in [Run -> Task]
  BY DEF PInv, EInv, TInv, TypeOK
<1>1. UNCHANGED <<watermark, rejections, links, forgotten>>  BY DEF Quarantine, Review, store, history
<1>2. PICK S, reason : S \subseteq Named(task[r]) /\ (pend' = pend \/ pend' = Pending(S, reason))
  BY DEF Quarantine, Review, Named
<1>3. OnlyStagedMarked'
  <2>1. ASSUME NEW e \in Entry, IsMarked(e)' PROVE IsMarked(e) \/ IsStaged(e)
    <3>1. CASE e \in S  BY <1>2, <3>1 DEF PInv, TasksNameStaged
    <3>2. CASE e \notin S
      <4>1. pend'[e] = pend[e]  BY <1>2, <3>2 DEF Pending
      <4> QED  BY <1>1, <2>1, <4>1 DEF IsMarked, Linked
    <3> QED  BY <3>1, <3>2
  <2> QED  BY <1>1, <2>1, SameWatermark, MarkStep
<1>4. PICK t : /\ Goto(r, t) /\ t.batch = {} /\ t.rest \subseteq task[r].rest
               /\ t.cands = task[r].cands /\ t.pc = "load"
  <2> DEFINE u == [task[r] EXCEPT !.pc = "load", !.decided = @ \cup task[r].batch, !.batch = {}]
             v == [task[r] EXCEPT !.pc = "load", !.decided = @ \cup task[r].rest,
                                  !.batch = {}, !.rest = {}]
  <2>1. /\ u.batch = {} /\ u.rest = task[r].rest /\ u.cands = task[r].cands /\ u.pc = "load"
        /\ v.batch = {} /\ v.rest = {} /\ v.cands = task[r].cands /\ v.pc = "load"
    BY <1>0 DEF Task
  <2>2. Goto(r, u) \/ Goto(r, v)  BY DEF Quarantine, Review
  <2> HIDE DEF u, v
  <2> QED  BY <2>1, <2>2
<1>5. t \in Task
  <2>1. task'[r] = t  BY <1>0, <1>4, GotoSame
  <2> QED  BY <1>0, <2>1
<1>6. Named(t) \subseteq Named(task[r])  BY <1>4 DEF Named
<1> QED  BY <1>1, <1>3, <1>4, <1>5, <1>6, SameWatermark, TaskStep DEF PInv, TasksNameStaged

\* A commit makes no entry marked that was not.
LEMMA CommitMarks ==
  ASSUME PInv, NEW r \in Run, UNCHANGED <<links, forgotten>>,
         rejections' = rejections \/ rejections' = Committed(r),
         pend' = pend \/ pend' = NoPend
  PROVE  \A e \in Entry : IsMarked(e)' => IsMarked(e)
<1> SUFFICES ASSUME NEW e \in Entry, IsMarked(e)' PROVE IsMarked(e)  OBVIOUS
<1>1. pend'[e] # "none" => pend[e] # "none"  BY DEF NoPend
<1>2. ASSUME NEW o \in Run, rejections'[e][o] # "none" PROVE IsMarked(e)
  <2>1. rejections'[e] = rejections[e] \/ pend[e] # "none"  BY DEF Committed
  <2> QED  BY <1>2, <2>1 DEF IsMarked
<1>3. Linked(e)' = Linked(e)  BY DEF Linked
<1> QED  BY <1>1, <1>2, <1>3 DEF IsMarked

LEMMA LoadNamed ==
  ASSUME PInv, TInv', NEW r \in Run, Load(r)
  PROVE  TasksNameStaged' /\ SweepSettled' /\ OnlyStagedMarked'
<1>0. task[r] \in Task /\ task \in [Run -> Task] /\ task' \in [Run -> Task]
  BY DEF PInv, EInv, TInv, TypeOK
<1>1. /\ UNCHANGED <<watermark, links, forgotten>>
      /\ rejections' = rejections \/ rejections' = Committed(r)
      /\ pend' = pend \/ pend' = NoPend
  BY DEF Load, history
<1>2. OnlyStagedMarked'  BY <1>1, CommitMarks, SameWatermark, MarkStep
<1> DEFINE B == Oldest(task[r].limit - task[r].total,
                       {e \in Backlog : HomeOf[e] \in Reads[Head(task[r].scopes)]})
           p == IF B = {} THEN "load" ELSE "extract"
           t == [task[r] EXCEPT !.scopes = Tail(@), !.batch = B,
                                !.total = @ + Cardinality(B), !.pc = p]
<1>3. Goto(r, t)  BY DEF Load
<1>4. B \subseteq Backlog /\ p # "sweep"  BY DEF Oldest
<1> HIDE DEF B, p
<1>5. t.batch = B /\ t.rest = task[r].rest /\ t.cands = task[r].cands /\ t.pc = p
  BY <1>0 DEF Task
<1>6. t \in Task
  <2>1. task'[r] = t  BY <1>0, <1>3, GotoSame
  <2> QED  BY <1>0, <2>1
<1> HIDE DEF t
<1>7. \A e \in B : e \in Entry /\ IsStaged(e)  BY <1>4 DEF Backlog, IsStaged
<1>8. \A e \in Named(t) : e \in Entry /\ IsStaged(e)
  BY <1>5, <1>7 DEF Named, PInv, TasksNameStaged
<1> QED  BY <1>1, <1>2, <1>3, <1>4, <1>5, <1>6, <1>8, SameWatermark, TaskStep

\* Mark, the prune and the end of a run leave nothing named.
LEMMA ClosingNamed ==
  ASSUME PInv, TInv', NEW r \in Run, Mark(r) \/ PruneDelete(r) \/ Abort(r) \/ Crash(r)
  PROVE  TasksNameStaged' /\ SweepSettled' /\ OnlyStagedMarked'
<1>0. task[r] \in Task /\ task \in [Run -> Task] /\ task' \in [Run -> Task]
  BY DEF PInv, EInv, TInv, TypeOK
<1>1. PICK t : /\ Goto(r, t) /\ t.batch = {} /\ t.rest = {} /\ t.cands = <<>> /\ t.pc # "sweep"
  <2> DEFINE u == [FreshTask EXCEPT !.pc = "prune", !.lost = task[r].lost]
             v == [FreshTask EXCEPT !.pc = "record"]
  <2>1. /\ u.batch = {} /\ u.rest = {} /\ u.cands = <<>> /\ u.pc = "prune"
        /\ v.batch = {} /\ v.rest = {} /\ v.cands = <<>> /\ v.pc = "record"
        /\ EndedTask.batch = {} /\ EndedTask.rest = {} /\ EndedTask.cands = <<>>
        /\ EndedTask.pc = "ended"
    BY DEF FreshTask, EndedTask
  <2>2. Goto(r, EndedTask) \/ Goto(r, u) \/ Goto(r, v)
    BY DEF Mark, PruneDelete, Abort, Crash, Ending
  <2> HIDE DEF u, v
  <2> QED  BY <2>1, <2>2
<1>2. t \in Task
  <2>1. task'[r] = t  BY <1>0, <1>1, GotoSame
  <2> QED  BY <1>0, <2>1
<1>3. \A e \in Entry : Forward(e)
  <2>1. CASE UNCHANGED watermark  BY <2>1, SameWatermark
  <2>2. CASE Mark(r)  BY <2>2 DEF Mark, Forward
  <2>3. CASE PruneDelete(r)
    <3>1. \A e \in task[r].batch : IsStaged(e)  BY DEF PInv, TasksNameStaged, Named
    <3> QED  BY <2>3, <3>1 DEF PruneDelete, Forward, IsStaged
  <2> QED  BY <2>1, <2>2, <2>3 DEF Abort, Crash, store
<1>4. \A e \in Entry : IsMarked(e)' => IsMarked(e)
  <2>1. CASE Mark(r)  BY <2>1, CommitMarks DEF Mark, history
  <2>2. CASE Abort(r)  BY <2>2, CommitMarks DEF Abort, Ending, history
  <2>3. CASE Crash(r)  BY <2>3, CommitMarks DEF Crash, Ending, store, history
  <2>4. CASE PruneDelete(r)
    <3>1. UNCHANGED <<pend, forgotten>> /\ links' \subseteq links
      BY <2>4 DEF PruneDelete, history
    <3>2. \A e \in Entry, o \in Run : rejections'[e][o] # "none" => rejections[e][o] # "none"
      BY <2>4 DEF PruneDelete
    <3> QED  BY <3>1, <3>2 DEF IsMarked, Linked
  <2> QED  BY <2>1, <2>2, <2>3, <2>4
<1>5. OnlyStagedMarked'  BY <1>3, <1>4, MarkStep
<1> QED  BY <1>1, <1>2, <1>3, <1>5, NothingNamed

LEMMA ProviderNamed ==
  ASSUME PInv, ProviderStep
  PROVE  TasksNameStaged' /\ SweepSettled' /\ OnlyStagedMarked'
<1>1. UNCHANGED <<rejections, pend, task>> /\ \A e \in Entry : Forward(e)
  BY DEF ProviderStep, AppendEntry, Archive, HardDelete, UserStore, Forward, PInv, EInv, TInv, TypeOK
<1>2. \A e \in Entry : (Linked(e) \/ e \in forgotten)' => Linked(e) \/ e \in forgotten
  <2>1. CASE UNCHANGED <<links, forgotten>>  BY <2>1 DEF Linked
  <2>2. CASE \E m \in Memory : HardDelete(m)
    <3> PICK m \in Memory : HardDelete(m)  BY <2>2
    <3> QED  BY DEF HardDelete, Linked
  <2> QED  BY <2>1, <2>2 DEF ProviderStep, AppendEntry, Archive, UserStore, history
<1>3. OnlyStagedMarked'
  <2>1. \A e \in Entry : IsMarked(e)' => IsMarked(e)  BY <1>1, <1>2 DEF IsMarked
  <2> QED  BY <1>1, <2>1, MarkStep
<1>4. \A e \in Entry : /\ IsStaged(e) => IsStaged(e)'
                       /\ watermark[e] \in Run \cup {"pruned"} => watermark'[e] \in Run \cup {"pruned"}
  BY <1>1, ConstantsAssumption DEF Forward, IsStaged, Unset
<1>5. TasksNameStaged'  BY <1>1, <1>4 DEF PInv, TasksNameStaged, Named
<1>6. SweepSettled'
  <2>1. \A r \in Run : \A e \in task[r].batch : e \in Entry  BY DEF PInv, TasksNameStaged, Named
  <2> QED  BY <1>1, <1>4, <2>1 DEF PInv, SweepSettled
<1> QED  BY <1>3, <1>5, <1>6

LEMMA PInvNext == ASSUME PInv, [Next]_vars PROVE PInv'
<1>1. EInv' /\ TInv'  BY EInvNext DEF PInv, EInv
<1>2. CASE UNCHANGED vars
  BY <1>1, <1>2 DEF vars, PInv, OnlyStagedMarked, IsMarked, IsStaged, Linked, TasksNameStaged, Named, SweepSettled
<1>3. CASE ProviderStep  BY <1>1, <1>3, ProviderNamed DEF PInv
<1>4. CASE \E r \in Run : DigestStep(r)
  <2> PICK r \in Run : DigestStep(r)  BY <1>4
  <2> QED
    BY <1>1, CandidateNamed, LoadingNamed, DecidingNamed, PendingNamed, LoadNamed, ClosingNamed
    DEF PInv, DigestStep, Progress
<1> QED  BY <1>2, <1>3, <1>4 DEF Next

LEMMA PInvInit == Init => PInv
<1> SUFFICES ASSUME Init PROVE PInv  OBVIOUS
<1>1. EInv
  <2>1. SettledHasReceipt  BY ConstantsAssumption DEF Init, SettledHasReceipt, Unset
  <2>2. DecidedSecured  BY DEF Init, DecidedSecured, FreshTask
  <2> QED  BY <2>1, <2>2, TInvInit DEF EInv
<1>2. OnlyStagedMarked  BY DEF Init, OnlyStagedMarked, IsMarked, Linked, NoPend
<1>3. TasksNameStaged /\ SweepSettled
  <2>1. FreshTask.batch = {} /\ FreshTask.rest = {} /\ FreshTask.cands = <<>> /\ FreshTask.pc = "new"
    BY DEF FreshTask
  <2>2. Named(FreshTask) = {}
    <3>1. Len(FreshTask.cands) = 0  BY <2>1
    <3> QED  BY <2>1, <3>1 DEF Named
  <2> QED  BY <2>1, <2>2 DEF Init, TasksNameStaged, SweepSettled
<1> QED  BY <1>1, <1>2, <1>3 DEF PInv
-----------------------------------------------------------------------------
\* Status without its CASE.
LEMMA StatusCases ==
  ASSUME NEW w
  PROVE  (CASE w = "absent" -> "absent" [] w = "unprocessed" -> "open"
            [] w = "pruned" -> "gone" [] OTHER -> "settled")
         = IF w = "absent" THEN "absent" ELSE IF w = "unprocessed" THEN "open"
           ELSE IF w = "pruned" THEN "gone" ELSE "settled"
OBVIOUS

LEMMA StatusIs ==
  ASSUME NEW e
  PROVE  /\ Status(e) = IF watermark[e] = "absent" THEN "absent"
                        ELSE IF watermark[e] = "unprocessed" THEN "open"
                        ELSE IF watermark[e] = "pruned" THEN "gone" ELSE "settled"
         /\ Status(e)' = IF watermark'[e] = "absent" THEN "absent"
                         ELSE IF watermark'[e] = "unprocessed" THEN "open"
                         ELSE IF watermark'[e] = "pruned" THEN "gone" ELSE "settled"
BY StatusCases DEF Status

Outcome(e) == (\E r \in Run : rejections[e][r] # "none") \/ Linked(e) \/ e \in forgotten

LEMMA EvidencedIs ==
  /\ Evidenced = {e \in Entry : watermark[e] \notin {"absent", "pruned"} /\ Outcome(e)}
  /\ Evidenced' = {e \in Entry : watermark'[e] \notin {"absent", "pruned"} /\ Outcome(e)'}
BY DEF Evidenced, Outcome

\* A step that only adds to the outcomes is a note of the promise.
LEMMA NoteStep ==
  ASSUME UNCHANGED watermark, \A e \in Entry : Outcome(e) => Outcome(e)'
  PROVE  Promise!ANext
<1> DEFINE S == Evidenced' \ Evidenced
<1>1. Evidenced \subseteq Evidenced' /\ S \in SUBSET Entry  BY EvidencedIs
<1>2. \A e \in S : watermark[e] # "absent"  BY EvidencedIs
<1>3. [e \in Entry |-> Status(e)]' = [e \in Entry |-> Status(e)]  BY StatusIs
<1>4. S \cap Promise!InState("absent") = {}  BY <1>2, StatusIs DEF Promise!InState
<1>5. Evidenced' = Evidenced \cup S  BY <1>1
<1>6. Promise!Note(S)  BY <1>3, <1>4, <1>5 DEF Promise!Note
<1> QED  BY <1>1, <1>6 DEF Promise!ANext

LEMMA AppendStages ==
  ASSUME PInv, NEW e \in Entry, AppendEntry(e)
  PROVE  Promise!ANext
<1>1. /\ watermark[e] = "absent" /\ watermark' = [watermark EXCEPT ![e] = "unprocessed"]
      /\ UNCHANGED <<rejections, links, forgotten>>
  BY DEF AppendEntry, history
<1>2. /\ watermark'[e] = "unprocessed"
      /\ \A f \in Entry : f # e => watermark'[f] = watermark[f]
  BY <1>1 DEF PInv, EInv, TInv, TypeOK
<1>3. \A f \in Entry : Outcome(f)' = Outcome(f)  BY <1>1 DEF Outcome, Linked
<1>4. ~Outcome(e)
  BY <1>1 DEF PInv, OnlyStagedMarked, IsMarked, IsStaged, Outcome
<1>5. Evidenced' = Evidenced  BY <1>1, <1>2, <1>3, <1>4, EvidencedIs
<1>6. Promise!Stage(e)
  <2>1. [f \in Entry |-> Status(f)]' = [[f \in Entry |-> Status(f)] EXCEPT ![e] = "open"]
    <3>1. Status(e)' = "open" /\ \A f \in Entry : f # e => Status(f)' = Status(f)
      BY <1>2, StatusIs
    <3> QED  BY <3>1
  <2>2. [f \in Entry |-> Status(f)][e] = "absent"  BY <1>1, StatusIs
  <2> QED  BY <1>5, <2>1, <2>2 DEF Promise!Stage
<1> QED  BY <1>6 DEF Promise!ANext

\* The watermark moves over the entries the run has decided, each of which has its
\* outcome in that transaction at the latest.
LEMMA MarkSettles ==
  ASSUME PInv, PInv', NEW r \in Run, Mark(r)
  PROVE  Promise!ANext
<1> DEFINE S == {e \in Entry : e \in task[r].decided /\ watermark[e] \notin {"absent", "pruned"}}
<1>0. r \notin Unset /\ r \notin {"absent", "pruned", "unprocessed"}
  BY ConstantsAssumption DEF Unset
<1>1. /\ watermark' = [e \in Entry |-> IF e \in task[r].decided /\ watermark[e] \notin {"absent", "pruned"}
                                       THEN r ELSE watermark[e]]
      /\ UNCHANGED <<links, forgotten>>
      /\ rejections' = IF lock = r THEN Committed(r) ELSE rejections
  BY DEF Mark, history
<1>2. \A e \in Entry : watermark'[e] = IF e \in S THEN r ELSE watermark[e]  BY <1>1
<1>3. \A e \in S : Outcome(e)'
  <2> SUFFICES ASSUME NEW e \in S PROVE Outcome(e)'  OBVIOUS
  <2>1. watermark'[e] = r  BY <1>2
  <2>2. rejections'[e][r] # "none" \/ Linked(e)' \/ e \in forgotten'
    BY <2>1 DEF PInv, EInv, SettledHasReceipt, Receipted
  <2> QED  BY <2>2 DEF Outcome
<1>4. \A e \in Entry : Outcome(e) => Outcome(e)'
  <2>1. \A e \in Entry, o \in Run : rejections[e][o] # "none" => rejections'[e][o] # "none"
    BY <1>1, CommitEvidence DEF PInv, EInv, TInv
  <2> QED  BY <1>1, <2>1 DEF Outcome, Linked
<1>5. S \subseteq Evidenced'  BY <1>0, <1>2, <1>3, EvidencedIs
<1>6. Evidenced \subseteq Evidenced'  BY <1>0, <1>2, <1>4, EvidencedIs
<1>7. S \cap Promise!InState("absent") = {}  BY StatusIs DEF Promise!InState
<1>8. [e \in Entry |-> Status(e)]' = [e \in Entry |-> IF e \in S /\ [f \in Entry |-> Status(f)][e] = "open"
                                                    THEN "settled" ELSE [f \in Entry |-> Status(f)][e]]
  <2>1. ASSUME NEW e \in Entry
        PROVE  Status(e)' = IF e \in S /\ Status(e) = "open" THEN "settled" ELSE Status(e)
    <3>1. CASE e \in S
      <4>1. watermark'[e] = r /\ watermark[e] \notin {"absent", "pruned"}  BY <1>2, <3>1
      <4>2. Status(e)' = "settled" /\ Status(e) \in {"open", "settled"}  BY <1>0, <4>1, StatusIs
      <4> QED  BY <3>1, <4>2
    <3>2. CASE e \notin S
      <4>1. watermark'[e] = watermark[e]  BY <1>2, <3>2
      <4>2. Status(e)' = Status(e)  BY <4>1, StatusIs
      <4> QED  BY <3>2, <4>2
    <3> QED  BY <3>1, <3>2
  <2> QED  BY <2>1
<1> HIDE DEF S
<1>9. Promise!Settle(S)  BY <1>5, <1>6, <1>7, <1>8 DEF Promise!Settle
<1>10. S \in SUBSET Entry  BY DEF S
<1> QED  BY <1>9, <1>10 DEF Promise!ANext

\* Only settled entries go, and their outcomes with them.
LEMMA PruneRetires ==
  ASSUME PInv, NEW r \in Run, PruneDelete(r)
  PROVE  Promise!ANext
<1> DEFINE old == task[r].batch
           S == {e \in old : watermark[e] # "pruned"}
<1>1. /\ links' = {l \in links : l[2] \notin old}
      /\ rejections' = [e \in Entry |-> IF e \in old THEN [o \in Run |-> "none"] ELSE rejections[e]]
      /\ watermark' = [e \in Entry |-> IF e \in old THEN "pruned" ELSE watermark[e]]
      /\ UNCHANGED forgotten
  BY DEF PruneDelete, history
<1>2. old \subseteq Entry  BY DEF PInv, EInv, TInv, TypeOK, Task
<1>3. \A e \in S : watermark[e] \in Run /\ watermark[e] \notin Unset
  BY ConstantsAssumption DEF PruneDelete, PInv, SweepSettled
<1> HIDE DEF old
<1>4. \A e \in Entry : e \notin old => Outcome(e)' = Outcome(e)  BY <1>1 DEF Outcome, Linked
<1>5. Evidenced' = Evidenced \ S
  <2>1. ASSUME NEW e \in Entry PROVE e \in Evidenced' <=> e \in Evidenced /\ e \notin S
    <3>1. CASE e \in old  BY <1>1, <3>1, EvidencedIs
    <3>2. CASE e \notin old  BY <1>1, <1>4, <3>2, EvidencedIs
    <3> QED  BY <3>1, <3>2
  <2> QED  BY <2>1, EvidencedIs
<1>6. S \subseteq Promise!InState("settled")
  <2>1. \A e \in S : e \in Entry /\ Status(e) = "settled"  BY <1>2, <1>3, StatusIs DEF Unset
  <2> QED  BY <2>1 DEF Promise!InState
<1>7. [e \in Entry |-> Status(e)]' = [e \in Entry |-> IF e \in S THEN "gone" ELSE [f \in Entry |-> Status(f)][e]]
  <2>1. ASSUME NEW e \in Entry PROVE Status(e)' = IF e \in S THEN "gone" ELSE Status(e)
    <3>1. CASE e \in old
      <4>1. watermark'[e] = "pruned" /\ (e \notin S => watermark[e] = "pruned")  BY <1>1, <3>1
      <4> QED  BY <4>1, StatusIs
    <3>2. CASE e \notin old
      <4>1. watermark'[e] = watermark[e] /\ e \notin S  BY <1>1, <3>2
      <4> QED  BY <4>1, StatusIs
    <3> QED  BY <3>1, <3>2
  <2> QED  BY <2>1
<1>8. S \in SUBSET Entry  BY <1>2
<1> HIDE DEF S
<1>9. Promise!Retire(S)  BY <1>5, <1>6, <1>7 DEF Promise!Retire
<1> QED  BY <1>8, <1>9 DEF Promise!ANext

LEMMA RunNotes ==
  ASSUME PInv, NEW r \in Run, DigestStep(r), ~Mark(r), ~PruneDelete(r)
  PROVE  Promise!ANext
<1>1. TInv /\ TypeOK  BY DEF PInv, EInv, TInv
<1>2. UNCHANGED watermark
  BY DEF DigestStep, Progress, Begin, Load, EndOfScopes, Quarantine, ExtractSome, Extract, Filter, Match,
         Cover, Update, Rewrite, Probe, Insert, Link, Review, PruneSelect, Record, Abort, Crash, store
<1>3. UNCHANGED forgotten /\ links \subseteq links'
  BY DEF DigestStep, Progress, Begin, Load, EndOfScopes, Quarantine, ExtractSome, Extract, Filter, Match,
         Cover, Update, Rewrite, Probe, Insert, Link, Review, PruneSelect, Record, Abort, Crash, store, history
<1>4. \/ UNCHANGED rejections
      \/ rejections' = IF lock = r THEN Committed(r) ELSE rejections
      \/ /\ task[r].cands # <<>>
         /\ \E reason \in {"filtered", "covered"} : rejections' = Rejected(r, Current(r).entries, reason)
  <2>1. CASE Filter(r) \/ Cover(r)
    <3>1. task[r].cands # <<>>
      BY <1>1, <2>1 DEF Filter, Cover, Candidates, TInv, ControlOK, InCandidate
    <3> QED  BY <2>1, <3>1 DEF Filter, Cover
  <2>2. CASE Load(r) \/ Abort(r)  BY <2>2 DEF Load, Abort
  <2>3. CASE ~(Filter(r) \/ Cover(r) \/ Load(r) \/ Abort(r))
    BY <2>3 DEF DigestStep, Progress, Begin, EndOfScopes, Quarantine, ExtractSome, Extract, Match,
           Update, Rewrite, Probe, Insert, Link, Review, PruneSelect, Record, Crash, store
  <2> QED  BY <2>1, <2>2, <2>3
<1>5. \A e \in Entry, o \in Run : rejections[e][o] # "none" => rejections'[e][o] # "none"
  <2>1. CASE task[r].cands # <<>> /\ \E reason \in {"filtered", "covered"} :
                                       rejections' = Rejected(r, Current(r).entries, reason)
    <3>1. Current(r).entries \in SUBSET Entry  BY <1>1, <2>1, CandidateTypes DEF TypeOK
    <3> QED  BY <1>1, <2>1, <3>1, RejectedEvidence
  <2> QED  BY <1>1, <1>4, <2>1, CommitEvidence
<1>6. \A e \in Entry : Outcome(e) => Outcome(e)'  BY <1>3, <1>5 DEF Outcome, Linked
<1> QED  BY <1>2, <1>6, NoteStep

LEMMA ProviderNotes ==
  ASSUME PInv, ProviderStep
  PROVE  Promise!ANext
<1>1. CASE \E e \in Entry : AppendEntry(e)  BY <1>1, AppendStages
<1>2. CASE ~\E e \in Entry : AppendEntry(e)
  <2>1. UNCHANGED <<watermark, rejections>>
    BY <1>2 DEF ProviderStep, Archive, HardDelete, UserStore
  <2>2. \A e \in Entry : Linked(e) \/ e \in forgotten => (Linked(e) \/ e \in forgotten)'
    <3>1. CASE UNCHANGED <<links, forgotten>>  BY <3>1 DEF Linked
    <3>2. CASE \E m \in Memory : HardDelete(m)
      <4> PICK m \in Memory : HardDelete(m)  BY <3>2
      <4> QED  BY DEF HardDelete, Linked
    <3> QED  BY <1>2, <3>1, <3>2 DEF ProviderStep, Archive, UserStore, history
  <2>3. \A e \in Entry : Outcome(e) => Outcome(e)'  BY <2>1, <2>2 DEF Outcome
  <2> QED  BY <2>1, <2>3, NoteStep
<1> QED  BY <1>1, <1>2

LEMMA StutterKept == ASSUME UNCHANGED vars PROVE UNCHANGED Promise!avars
<1>1. [e \in Entry |-> Status(e)]' = [e \in Entry |-> Status(e)]  BY StatusIs DEF vars
<1>2. Evidenced' = Evidenced  BY DEF vars, Evidenced, Linked
<1> QED  BY <1>1, <1>2 DEF Promise!avars

(* The digest implements its promise: however runs overlap, crash or are retried,
   and whatever is stored, archived or deleted meanwhile, no entry leaves the
   backlog without a durable outcome, none returns, and only settled entries
   are pruned (apply_journal_candidates, mark_entries_processed,
   _prune_processed_journal). *)
THEOREM PromiseKept == Spec => KeepsPromise
<1>1. Init => Promise!AInit
  <2> SUFFICES ASSUME Init PROVE Promise!AInit  OBVIOUS
  <2>1. \A e \in Entry : Status(e) = "absent"  BY StatusIs DEF Init
  <2>2. Evidenced = {}  BY EvidencedIs DEF Init
  <2> QED  BY <2>1, <2>2 DEF Promise!AInit
<1>2. PInv /\ PInv' /\ [Next]_vars => [Promise!ANext]_(Promise!avars)
  <2> SUFFICES ASSUME PInv, PInv', [Next]_vars PROVE [Promise!ANext]_(Promise!avars)
    OBVIOUS
  <2>1. CASE UNCHANGED vars  BY <2>1, StutterKept
  <2>2. CASE ProviderStep  BY <2>2, ProviderNotes
  <2>3. CASE \E r \in Run : DigestStep(r)
    <3> PICK r \in Run : DigestStep(r)  BY <2>3
    <3> QED  BY MarkSettles, PruneRetires, RunNotes
  <2> QED  BY <2>1, <2>2, <2>3 DEF Next
<1>3. PInv /\ [Next]_vars => PInv'  BY PInvNext
<1> QED  BY <1>1, <1>2, <1>3, PInvInit, PTL DEF Spec, KeepsPromise, Promise!ASpec
-----------------------------------------------------------------------------
(***************************************************************************)
(* One run at a time.  What a run has read then stays true until it        *)
(* writes, but for rows that somebody deletes or hides.                    *)
(***************************************************************************)
OneActive == \A r, o \in Run : Active(r) /\ Active(o) => r = o
SaysSomething ==
  \A m \in Memory : mem[m].life # "absent" => mem[m].facts # {} /\ IsFiniteSet(mem[m].facts)
ClaimHolds(m, f) == f \in mem[m].facts \/ Cardinality(mem[m].facts) >= Capacity
ClaimsLive == \A c \in claims : Exists(c[1])

\* The memory a run has chosen, what it saw in it, and the place for a new one.
\* Reviving m would make no twins.
Sole(m) ==
  \A n \in Memory : (n # m /\ Visible(n) /\ mem[n].digest /\ mem[m].digest /\ Cardinality(mem[m].facts) = 1)
                     => mem[n].facts # mem[m].facts

Hand(r) ==
  /\ task[r].pc \in WithTarget => mem[task[r].target].life # "absent"
  /\ task[r].pc \in {"update", "rewrite"} /\ Exists(task[r].target)
       => task[r].base = mem[task[r].target].facts
  /\ task[r].pc \in {"update", "rewrite"} => Sole(task[r].target)
  /\ task[r].pc = "insert"
       => \A m \in Memory : ~(Visible(m) /\ mem[m].digest /\ SameKey(m, Current(r).fact))
  /\ task[r].pc = "link" /\ Exists(task[r].target)
       => ClaimHolds(task[r].target, Current(r).fact)

MemoryInv == SaysSomething /\ ClaimsLive /\ ClaimsKept /\ NoTwinDigestMemories
OneInv == TInv /\ OneActive /\ MemoryInv /\ \A r \in Run : Hand(r)

LEMMA BeginsAlone ==
  ASSUME MaxActive = 1, OneActive, NEW r \in Run, Begin(r)
  PROVE  \A o \in Run : ~Active(o)
<1> DEFINE A == {o \in Run : Active(o)}
<1>1. Cardinality(A) < 1  BY DEF Begin
<1>2. ASSUME NEW o \in Run, Active(o) PROVE FALSE
  <2>1. A = {o}  BY <1>2 DEF OneActive
  <2>2. Cardinality({o}) = 1  BY FS_Singleton
  <2> QED  BY <1>1, <2>1, <2>2
<1> QED  BY <1>2

\* A step of a run moves no other run, and is the only one that is at work.
LEMMA RunAlone ==
  ASSUME MaxActive = 1, OneInv, NEW r \in Run, DigestStep(r)
  PROVE  /\ \A o \in Run : o # r => task'[o] = task[o] /\ ~Active(o)
         /\ OneActive'
<1>0. task \in [Run -> Task]  BY DEF OneInv, TInv, TypeOK
<1>1. \E t : Goto(r, t)
  <2>1. CASE Begin(r) \/ Load(r) \/ EndOfScopes(r) \/ Quarantine(r) \/ ExtractSome(r) \/ Review(r)
    BY <2>1 DEF Begin, Load, EndOfScopes, Quarantine, ExtractSome, Extract, Review
  <2>2. CASE Filter(r) \/ Match(r) \/ Cover(r) \/ Update(r) \/ Rewrite(r) \/ Probe(r) \/ Insert(r) \/ Link(r)
    BY <2>2 DEF Filter, Match, Cover, Update, Rewrite, Probe, Insert, Link, Advance
  <2>3. CASE Mark(r) \/ PruneSelect(r) \/ PruneDelete(r) \/ Record(r) \/ Abort(r) \/ Crash(r)
    BY <2>3 DEF Mark, PruneSelect, PruneDelete, Record, Abort, Crash, Ending
  <2> QED  BY <2>1, <2>2, <2>3 DEF DigestStep, Progress
<1>2. \A o \in Run : o # r => task'[o] = task[o]  BY <1>0, <1>1, GotoSame
<1>3. Begin(r) \/ Active(r)
  BY DEF DigestStep, Progress, Load, EndOfScopes, Quarantine, ExtractSome, Extract, Filter, Match,
         Cover, Update, Rewrite, Probe, Insert, Link, Review, Mark, PruneSelect, PruneDelete, Record,
         Abort, Crash, Ending, Active
<1>4. \A o \in Run : o # r => ~Active(o)
  BY <1>3, BeginsAlone DEF OneInv, OneActive
<1>5. OneActive'  BY <1>2, <1>4 DEF OneActive, Active
<1> QED  BY <1>2, <1>4, <1>5

\* Where a run goes from a candidate, and what it takes along.
LEMMA Moved ==
  ASSUME TInv, NEW r \in Run, NEW p, NEW m
  PROVE  /\ Goto(r, [task[r] EXCEPT !.pc = p]) =>
              /\ task'[r].pc = p /\ task'[r].target = task[r].target
              /\ task'[r].base = task[r].base /\ Current(r)' = Current(r)
         /\ Goto(r, [task[r] EXCEPT !.pc = p, !.target = m]) =>
              /\ task'[r].pc = p /\ task'[r].target = m /\ Current(r)' = Current(r)
<1>0. task[r] \in Task /\ task \in [Run -> Task]  BY DEF TInv, TypeOK
<1> DEFINE a == [task[r] EXCEPT !.pc = p]
           b == [task[r] EXCEPT !.pc = p, !.target = m]
<1>1. /\ a.pc = p /\ a.target = task[r].target /\ a.base = task[r].base /\ a.cands = task[r].cands
      /\ b.pc = p /\ b.target = m /\ b.cands = task[r].cands
  BY <1>0 DEF Task
<1> HIDE DEF a, b
<1>2. /\ Goto(r, a) => task'[r] = a
      /\ Goto(r, b) => task'[r] = b
  BY <1>0, GotoSame
<1>3. /\ Goto(r, a) => /\ task'[r].pc = p /\ task'[r].target = task[r].target
                       /\ task'[r].base = task[r].base /\ Current(r)' = Current(r)
      /\ Goto(r, b) => task'[r].pc = p /\ task'[r].target = m /\ Current(r)' = Current(r)
  BY <1>1, <1>2 DEF Current
<1> QED  BY <1>3 DEF a, b

\* The hands of the others are empty; it is enough to look at the run that moves.
LEMMA OwnHand ==
  ASSUME MaxActive = 1, OneInv, TInv', NEW r \in Run, DigestStep(r), MemoryInv', Hand(r)'
  PROVE  OneInv'
<1>1. OneActive' /\ \A o \in Run : o # r => task'[o] = task[o] /\ ~Active(o)  BY RunAlone
<1>2. ASSUME NEW o \in Run, o # r PROVE Hand(o)'
  <2>1. task'[o].pc \in {"new", "ended"}  BY <1>1, <1>2 DEF Active
  <2> QED  BY <2>1 DEF Hand, WithTarget
<1> QED  BY <1>1, <1>2 DEF OneInv

LEMMA SameMemories == ASSUME MemoryInv, UNCHANGED <<mem, claims>> PROVE MemoryInv'
  BY DEF MemoryInv, SaysSomething, ClaimsLive, ClaimsKept, NoTwinDigestMemories, Twins, Exists, Visible

LEMMA EmptyHand ==
  ASSUME NEW r \in Run, task'[r].pc \notin WithTarget \cup {"insert"}
  PROVE  Hand(r)'
  BY DEF Hand, WithTarget

LEMMA RestingSteps ==
  ASSUME MaxActive = 1, OneInv, TInv', NEW r \in Run,
         \/ Begin(r) \/ Load(r) \/ EndOfScopes(r) \/ Quarantine(r) \/ ExtractSome(r)
         \/ Filter(r) \/ Cover(r) \/ Review(r)
         \/ Mark(r) \/ PruneSelect(r) \/ PruneDelete(r) \/ Record(r) \/ Abort(r) \/ Crash(r)
  PROVE  OneInv'
<1>0. TInv /\ task[r] \in Task /\ task \in [Run -> Task]  BY DEF OneInv, TInv, TypeOK
<1>1. UNCHANGED <<mem, claims>>
  BY DEF Begin, Load, EndOfScopes, Quarantine, ExtractSome, Extract, Filter, Cover, Review, Mark,
         PruneSelect, PruneDelete, Record, Abort, Crash, store, history
<1>2. MemoryInv'  BY <1>1, SameMemories DEF OneInv
<1>3. task'[r].pc \notin WithTarget \cup {"insert"}
  <2>1. CASE Begin(r)
    <3>1. PICK q, n : Goto(r, [task[r] EXCEPT !.pc = "load", !.scopes = q, !.limit = n])
      BY <2>1 DEF Begin
    <3>2. [task[r] EXCEPT !.pc = "load", !.scopes = q, !.limit = n].pc = "load"  BY <1>0 DEF Task
    <3> QED  BY <1>0, <3>1, <3>2, GotoSame DEF WithTarget
  <2>2. CASE Load(r)
    <3> DEFINE B == Oldest(task[r].limit - task[r].total,
                           {e \in Backlog : HomeOf[e] \in Reads[Head(task[r].scopes)]})
               p == IF B = {} THEN "load" ELSE "extract"
               t == [task[r] EXCEPT !.scopes = Tail(@), !.batch = B,
                                    !.total = @ + Cardinality(B), !.pc = p]
    <3>1. Goto(r, t) /\ p \in {"load", "extract"}  BY <2>2 DEF Load
    <3> HIDE DEF B, p
    <3>2. t.pc = p  BY <1>0 DEF Task
    <3> HIDE DEF t
    <3> QED  BY <1>0, <3>1, <3>2, GotoSame DEF WithTarget
  <2>3. CASE EndOfScopes(r) \/ Record(r) \/ Abort(r) \/ Crash(r) \/ Mark(r) \/ PruneDelete(r)
    <3> DEFINE u == [FreshTask EXCEPT !.pc = "mark", !.decided = task[r].decided, !.lost = task[r].lost]
               v == [FreshTask EXCEPT !.pc = "prune", !.lost = task[r].lost]
               w == [FreshTask EXCEPT !.pc = "record"]
    <3>1. u.pc = "mark" /\ v.pc = "prune" /\ w.pc = "record" /\ EndedTask.pc = "ended"
      BY DEF FreshTask, EndedTask
    <3>2. Goto(r, EndedTask) \/ Goto(r, u) \/ Goto(r, v) \/ Goto(r, w)
      BY <2>3 DEF EndOfScopes, Record, Abort, Crash, Ending, Mark, PruneDelete
    <3> HIDE DEF u, v, w
    <3>3. task'[r] \in {EndedTask, u, v, w}  BY <1>0, <3>2, GotoSame
    <3> QED  BY <3>1, <3>3 DEF WithTarget
  <2>4. CASE Quarantine(r) \/ Review(r)
    <3> DEFINE u == [task[r] EXCEPT !.pc = "load", !.decided = @ \cup task[r].batch, !.batch = {}]
               v == [task[r] EXCEPT !.pc = "load", !.decided = @ \cup task[r].rest,
                                    !.batch = {}, !.rest = {}]
    <3>1. u.pc = "load" /\ v.pc = "load"  BY <1>0 DEF Task
    <3>2. Goto(r, u) \/ Goto(r, v)  BY <2>4 DEF Quarantine, Review
    <3> HIDE DEF u, v
    <3>3. task'[r] \in {u, v}  BY <1>0, <3>2, GotoSame
    <3> QED  BY <3>1, <3>3 DEF WithTarget
  <2>5. CASE ExtractSome(r)
    <3>1. PICK cs, lost : Extract(r, cs, lost)  BY <2>5 DEF ExtractSome
    <3> DEFINE t == [task[r] EXCEPT !.pc = "apply", !.cands = cs, !.batch = {}, !.lost = @ \cup lost,
                       !.rest = task[r].batch \ UNION {cs[i].entries : i \in DOMAIN cs}]
    <3>2. Goto(r, t)  BY <3>1 DEF Extract
    <3>3. t.pc = "apply"  BY <1>0 DEF Task
    <3> HIDE DEF t
    <3> QED  BY <1>0, <3>2, <3>3, GotoSame DEF WithTarget
  <2>6. CASE Filter(r) \/ Cover(r)
    <3>1. task[r].cands # <<>>  BY <1>0, <2>6 DEF Filter, Cover, Candidates, TInv, ControlOK, InCandidate
    <3>2. Current(r).entries \in SUBSET Entry  BY <1>0, <3>1, CandidateTypes
    <3>3. task'[r].pc = "apply"  BY <1>0, <2>6, <3>1, <3>2, AdvanceType DEF Filter, Cover
    <3> QED  BY <3>3 DEF WithTarget
  <2>7. CASE PruneSelect(r)
    <3>1. CASE Goto(r, [task[r] EXCEPT !.pc = "record"])
      <4>1. [task[r] EXCEPT !.pc = "record"].pc = "record"  BY <1>0 DEF Task
      <4> QED  BY <1>0, <3>1, <4>1, GotoSame DEF WithTarget
    <3>2. CASE \E cutoff \in Entry : Goto(r, [task[r] EXCEPT !.pc = "sweep", !.batch = Prunable(cutoff)])
      <4>1. PICK cutoff \in Entry : Goto(r, [task[r] EXCEPT !.pc = "sweep", !.batch = Prunable(cutoff)])
        BY <3>2
      <4>2. [task[r] EXCEPT !.pc = "sweep", !.batch = Prunable(cutoff)].pc = "sweep"  BY <1>0 DEF Task
      <4> QED  BY <1>0, <4>1, <4>2, GotoSame DEF WithTarget
    <3> QED  BY <2>7, <3>1, <3>2 DEF PruneSelect
  <2> QED  BY <2>1, <2>2, <2>3, <2>4, <2>5, <2>6, <2>7
<1> QED  BY <1>2, <1>3, EmptyHand, OwnHand DEF DigestStep, Progress

LEMMA ChoosingSteps ==
  ASSUME MaxActive = 1, OneInv, TInv', NEW r \in Run, Match(r) \/ Update(r) \/ Probe(r)
  PROVE  OneInv'
<1>0. TInv /\ task[r] \in Task /\ task \in [Run -> Task]  BY DEF OneInv, TInv, TypeOK
<1>1. UNCHANGED <<mem, claims>>  BY DEF Match, Update, Probe, store, history
<1>2. MemoryInv'  BY <1>1, SameMemories DEF OneInv
<1>3. Hand(r)'
  <2>1. CASE Match(r)
    <3>1. CASE \E p \in {"cover", "probe"} : Goto(r, [task[r] EXCEPT !.pc = p])
      <4>1. task'[r].pc \in {"cover", "probe"}  BY <1>0, <3>1, Moved
      <4> QED  BY <4>1, EmptyHand DEF WithTarget
    <3>2. CASE \E m \in Memory : Visible(m) /\ Goto(r, [task[r] EXCEPT !.pc = "update", !.target = m,
                                                                       !.base = mem[m].facts])
      <4>1. PICK m \in Memory : Visible(m) /\ Goto(r, [task[r] EXCEPT !.pc = "update", !.target = m,
                                                                      !.base = mem[m].facts])
        BY <3>2
      <4> DEFINE t == [task[r] EXCEPT !.pc = "update", !.target = m, !.base = mem[m].facts]
      <4>2. Goto(r, t)  BY <4>1
      <4>3. t.pc = "update" /\ t.target = m /\ t.base = mem[m].facts  BY <1>0 DEF Task
      <4> HIDE DEF t
      <4>4. task'[r].pc = "update" /\ task'[r].target = m /\ task'[r].base = mem[m].facts
        BY <1>0, <4>2, <4>3, GotoSame
      <4>5. mem' = mem /\ mem[m].life = "visible"  BY <1>1, <4>1 DEF Visible
      <4>6. mem'[task'[r].target].life # "absent" /\ task'[r].base = mem'[task'[r].target].facts
        BY <4>4, <4>5
      <4>7. Sole(task[r].target)'
        <5>1. Visible(m) /\ NoTwinDigestMemories  BY <4>1 DEF OneInv, MemoryInv
        <5>2. Sole(m)  BY <5>1 DEF Sole, NoTwinDigestMemories, Twins
        <5> QED  BY <4>4, <4>5, <5>2 DEF Sole, Visible
      <4> QED  BY <4>4, <4>6, <4>7 DEF Hand, WithTarget
    <3> QED  BY <2>1, <3>1, <3>2 DEF Match
  <2>2. CASE Update(r)
    <3>1. CASE Advance(r, {})
      <4>1. task[r].cands # <<>>  BY <1>0, <2>2 DEF Update, TInv, ControlOK, InCandidate
      <4>2. {} \in SUBSET Entry  OBVIOUS
      <4>3. task'[r].pc = "apply"  BY <1>0, <3>1, <4>1, <4>2, AdvanceType
      <4> QED  BY <4>3, EmptyHand DEF WithTarget
    <3>2. CASE Goto(r, [task[r] EXCEPT !.pc = "rewrite"])
      <4>1. /\ task'[r].pc = "rewrite" /\ task'[r].target = task[r].target
            /\ task'[r].base = task[r].base
        BY <1>0, <3>2, Moved
      <4>2. task[r].pc = "update" /\ Hand(r)  BY <2>2 DEF Update, OneInv
      <4>3. /\ mem[task[r].target].life # "absent"
            /\ Exists(task[r].target) => task[r].base = mem[task[r].target].facts
            /\ Sole(task[r].target)
        BY <4>2 DEF Hand, WithTarget
      <4>4. Exists(task[r].target)' = Exists(task[r].target)  BY <1>1, <4>1 DEF Exists
      <4>5. Sole(task[r].target)'  BY <1>1, <4>1, <4>3 DEF Sole, Visible
      <4> QED  BY <1>1, <4>1, <4>3, <4>4, <4>5 DEF Hand, WithTarget, Exists
    <3> QED  BY <2>2, <3>1, <3>2 DEF Update
  <2>3. CASE Probe(r)
    <3>1. CASE \E m \in Memory : /\ Visible(m) /\ SameKey(m, Current(r).fact)
                                  /\ Goto(r, [task[r] EXCEPT !.pc = "link", !.target = m])
      <4>1. PICK m \in Memory : /\ Visible(m) /\ SameKey(m, Current(r).fact)
                                /\ Goto(r, [task[r] EXCEPT !.pc = "link", !.target = m])
        BY <3>1
      <4>2. task'[r].pc = "link" /\ task'[r].target = m /\ Current(r)' = Current(r)
        BY <1>0, <4>1, Moved
      <4>3. Current(r).fact \in mem[m].facts /\ mem[m].life = "visible"
        BY <4>1 DEF SameKey, Visible
      <4> QED  BY <1>1, <4>2, <4>3 DEF Hand, WithTarget, ClaimHolds
    <3>2. CASE /\ \A m \in Memory : ~(Visible(m) /\ SameKey(m, Current(r).fact))
               /\ Goto(r, [task[r] EXCEPT !.pc = "insert"])
      <4>1. task'[r].pc = "insert" /\ Current(r)' = Current(r)  BY <1>0, <3>2, Moved
      <4> QED  BY <1>1, <3>2, <4>1 DEF Hand, WithTarget, Visible, SameKey
    <3> QED  BY <2>3, <3>1, <3>2 DEF Probe
  <2> QED  BY <2>1, <2>2, <2>3
<1> QED  BY <1>2, <1>3, OwnHand DEF DigestStep, Progress

\* A merge keeps what was there; a text of one fact is merged into such a text
\* only when it is the same.
LEMMA MergedIs ==
  ASSUME NEW F \in SUBSET Fact, NEW f \in Fact, F # {}, IsFiniteSet(F)
  PROVE  /\ F \subseteq Merged(F, f) /\ IsFiniteSet(Merged(F, f))
         /\ f \in Merged(F, f) \/ Cardinality(Merged(F, f)) >= Capacity
         /\ Cardinality(F) >= Capacity => Cardinality(Merged(F, f)) >= Capacity
         /\ Cardinality(Merged(F, f)) = 1 => Merged(F, f) = F
<1>0. Cardinality(F) \in Nat /\ Capacity \in Nat  BY FS_CardinalityType, ConstantsAssumption
<1>1. CASE f \in F
  <2>1. Merged(F, f) = F  BY <1>1 DEF Merged
  <2> QED  BY <1>1, <2>1
<1>2. CASE f \notin F /\ Cardinality(F) < Capacity
  <2>1. Merged(F, f) = F \cup {f}  BY <1>2 DEF Merged
  <2>2. IsFiniteSet(F \cup {f}) /\ Cardinality(F \cup {f}) = Cardinality(F) + 1
    BY <1>2, FS_AddElement
  <2>3. Cardinality(F) # 0  BY FS_EmptySet
  <2> QED  BY <1>0, <1>2, <2>1, <2>2, <2>3
<1>3. CASE f \notin F /\ ~(Cardinality(F) < Capacity)
  <2>1. Merged(F, f) = F  BY <1>3 DEF Merged
  <2> QED  BY <1>0, <1>3, <2>1
<1> QED  BY <1>1, <1>2, <1>3

LEMMA RewriteOne ==
  ASSUME MaxActive = 1, OneInv, TInv', NEW r \in Run, Rewrite(r)
  PROVE  OneInv'
<1> DEFINE m == task[r].target
           f == Current(r).fact
           F == mem[m].facts
<1>0. TInv /\ task[r] \in Task /\ task \in [Run -> Task] /\ mem \in [Memory -> Row] /\ Hand(r)
  BY DEF OneInv, TInv, TypeOK
<1>1. m \in Memory /\ f \in Fact /\ task[r].pc = "rewrite"
  BY <1>0 DEF Rewrite, TInv, ControlOK, InCandidate, WithTarget
<1>2. task'[r].pc = "link" /\ task'[r].target = m /\ Current(r)' = Current(r)
  BY <1>0, Moved DEF Rewrite
<1>3. /\ mem[m].life # "absent" /\ F # {} /\ IsFiniteSet(F) /\ F \in SUBSET Fact
      /\ Exists(m) => task[r].base = F
  BY <1>0, <1>1 DEF Hand, WithTarget, OneInv, MemoryInv, SaysSomething, Row
<1>4. claims' = claims  BY DEF Rewrite, history
<1>5. CASE ~Exists(m)
  <2>1. mem' = mem  BY <1>5 DEF Rewrite
  <2>2. MemoryInv'  BY <1>4, <2>1, SameMemories DEF OneInv
  <2>3. Hand(r)'  BY <1>2, <1>3, <1>5, <2>1 DEF Hand, WithTarget, Exists
  <2> QED  BY <2>2, <2>3, OwnHand DEF DigestStep, Progress
<1>6. CASE Exists(m)
  <2> DEFINE G == Merged(F, f)
  <2>1. mem' = [mem EXCEPT ![m].life = "visible", ![m].facts = G]
    <3>1. task[r].base = F  BY <1>3, <1>6
    <3> QED  BY <1>6, <3>1 DEF Rewrite
  <2>2. /\ F \subseteq G /\ IsFiniteSet(G) /\ (f \in G \/ Cardinality(G) >= Capacity)
        /\ Cardinality(F) >= Capacity => Cardinality(G) >= Capacity
        /\ Cardinality(G) = 1 => G = F
    BY <1>1, <1>3, MergedIs
  <2> HIDE DEF G
  <2>3. /\ mem'[m].facts = G /\ mem'[m].life = "visible" /\ mem'[m].digest = mem[m].digest
        /\ \A n \in Memory : n # m => mem'[n] = mem[n]
    BY <1>0, <1>1, <2>1 DEF Row
  <2>4. /\ \A n \in Memory : mem'[n].digest = mem[n].digest
        /\ \A n \in Memory : n # m => mem'[n].life = mem[n].life
        /\ \A n \in Memory : Exists(n) => mem'[n].life \in {"visible", "hidden"}
    BY <2>3 DEF Exists
  <2>5. SaysSomething'
    <3>1. G # {}  BY <1>3, <2>2
    <3>2. ASSUME NEW n \in Memory, mem'[n].life # "absent" PROVE mem'[n].facts # {} /\ IsFiniteSet(mem'[n].facts)
      <4>1. CASE n = m  BY <2>2, <2>3, <3>1, <4>1
      <4>2. CASE n # m  BY <2>3, <3>2, <4>2 DEF SaysSomething, OneInv, MemoryInv
      <4> QED  BY <4>1, <4>2
    <3> QED  BY <3>2 DEF SaysSomething
  <2>6. ClaimsLive'
    <3>1. \A c \in claims : c[1] \in Memory  BY <1>0 DEF TInv, TypeOK
    <3> QED  BY <1>4, <2>4, <3>1 DEF ClaimsLive, OneInv, MemoryInv, Exists
  <2>7. ClaimsKept'
    <3> SUFFICES ASSUME NEW c \in claims
                 PROVE  c[3] \in mem'[c[1]].facts \/ Cardinality(mem'[c[1]].facts) >= Capacity
      BY <1>4 DEF ClaimsKept
    <3>1. c[1] \in Memory  BY <1>0 DEF TInv, TypeOK
    <3>2. c[3] \in mem[c[1]].facts \/ Cardinality(mem[c[1]].facts) >= Capacity
      BY DEF OneInv, MemoryInv, ClaimsKept
    <3>3. CASE c[1] = m  BY <2>2, <2>3, <3>2, <3>3
    <3>4. CASE c[1] # m  BY <2>3, <3>1, <3>2, <3>4
    <3> QED  BY <3>3, <3>4
  <2>8. NoTwinDigestMemories'
    <3> SUFFICES ASSUME NEW a \in Memory, NEW b \in Memory, Twins(a, b)', mem'[a].digest, mem'[b].digest
                 PROVE  FALSE
      BY DEF NoTwinDigestMemories, Twins, Visible
    <3>1. /\ a # b /\ mem'[a].life = "visible" /\ mem'[b].life = "visible"
          /\ mem'[a].facts = mem'[b].facts /\ Cardinality(mem'[a].facts) = 1
      BY DEF Twins, Visible
    <3>2. \A n \in Memory : Cardinality(mem'[n].facts) = 1 => mem'[n].facts = mem[n].facts
      BY <2>2, <2>3
    <3>3. mem'[a].facts = mem[a].facts /\ mem'[b].facts = mem[b].facts  BY <3>1, <3>2
    <3>4. mem[a].digest /\ mem[b].digest /\ Cardinality(mem[a].facts) = 1 /\ mem[a].facts = mem[b].facts
      BY <2>4, <3>1, <3>3
    <3>5. CASE a # m /\ b # m
      <4>1. Twins(a, b)  BY <2>3, <3>1, <3>4, <3>5 DEF Twins, Visible
      <4> QED  BY <3>4, <4>1 DEF OneInv, MemoryInv, NoTwinDigestMemories
    <3>6. CASE a = m \/ b = m
      <4>1. Sole(m)  BY <1>0, <1>1 DEF Hand
      <4>2. PICK n \in {a, b} : n # m  BY <3>1
      <4>3. /\ Visible(n) /\ mem[n].digest /\ mem[m].digest /\ mem[n].facts = mem[m].facts
            /\ Cardinality(mem[m].facts) = 1
        BY <2>3, <3>1, <3>4, <3>6, <4>2 DEF Visible
      <4> QED  BY <4>1, <4>2, <4>3 DEF Sole
    <3> QED  BY <3>5, <3>6
  <2>9. Hand(r)'
    <3>2. mem'[m].life # "absent"  BY <1>3, <2>3
    <3> QED  BY <1>2, <2>2, <2>3, <3>2 DEF Hand, WithTarget, ClaimHolds
  <2> QED  BY <2>5, <2>6, <2>7, <2>8, <2>9, OwnHand DEF MemoryInv, DigestStep, Progress
<1> QED  BY <1>5, <1>6

LEMMA InsertOne ==
  ASSUME MaxActive = 1, OneInv, TInv', NEW r \in Run, Insert(r)
  PROVE  OneInv'
<1> DEFINE f == Current(r).fact
<1>0. TInv /\ task[r] \in Task /\ task \in [Run -> Task] /\ mem \in [Memory -> Row] /\ Hand(r)
  BY DEF OneInv, TInv, TypeOK
<1>1. PICK m \in Memory \ UserMemory :
        /\ mem[m].life = "absent"
        /\ mem' = [mem EXCEPT ![m] = [life |-> "visible", facts |-> {f}, digest |-> TRUE]]
        /\ Goto(r, [task[r] EXCEPT !.pc = "link", !.target = m])
  BY DEF Insert
<1>2. task'[r].pc = "link" /\ task'[r].target = m /\ Current(r)' = Current(r)  BY <1>0, <1>1, Moved
<1>3. claims' = claims /\ task[r].pc = "insert"  BY DEF Insert, history
<1>4. /\ mem'[m] = [life |-> "visible", facts |-> {f}, digest |-> TRUE]
      /\ \A n \in Memory : n # m => mem'[n] = mem[n]
  BY <1>0, <1>1
<1>5. \A n \in Memory : ~(Visible(n) /\ mem[n].digest /\ mem[n].facts = {f})
  BY <1>0, <1>3 DEF Hand, SameKey
<1> HIDE DEF f
<1>6. SaysSomething'
  <2>1. IsFiniteSet({f})  BY FS_Singleton
  <2> QED  BY <1>4, <2>1 DEF SaysSomething, OneInv, MemoryInv
<1>7. \A c \in claims : c[1] \in Memory /\ c[1] # m
  BY <1>0, <1>1 DEF TInv, TypeOK, OneInv, MemoryInv, ClaimsLive, Exists
<1>8. ClaimsLive' /\ ClaimsKept'
  BY <1>3, <1>4, <1>7 DEF ClaimsLive, ClaimsKept, OneInv, MemoryInv, Exists
<1>9. NoTwinDigestMemories'
  <2> SUFFICES ASSUME NEW a \in Memory, NEW b \in Memory, Twins(a, b)', mem'[a].digest, mem'[b].digest
               PROVE  FALSE
    BY DEF NoTwinDigestMemories, Twins, Visible
  <2>1. /\ a # b /\ mem'[a].life = "visible" /\ mem'[b].life = "visible"
        /\ mem'[a].facts = mem'[b].facts /\ Cardinality(mem'[a].facts) = 1
    BY DEF Twins, Visible
  <2>2. CASE a = m  BY <1>4, <1>5, <2>1, <2>2 DEF Visible
  <2>3. CASE b = m  BY <1>4, <1>5, <2>1, <2>3 DEF Visible
  <2>4. CASE a # m /\ b # m
    <3>1. Twins(a, b) /\ mem[a].digest /\ mem[b].digest  BY <1>4, <2>1, <2>4 DEF Twins, Visible
    <3> QED  BY <3>1 DEF OneInv, MemoryInv, NoTwinDigestMemories
  <2> QED  BY <2>2, <2>3, <2>4
<1>10. Hand(r)'
  <2>1. f \in mem'[m].facts /\ mem'[m].life = "visible"  BY <1>4
  <2> QED  BY <1>2, <2>1 DEF Hand, WithTarget, ClaimHolds, f
<1> QED  BY <1>6, <1>8, <1>9, <1>10, OwnHand DEF MemoryInv, DigestStep, Progress

LEMMA LinkOne ==
  ASSUME MaxActive = 1, OneInv, TInv', NEW r \in Run, Link(r)
  PROVE  OneInv'
<1> DEFINE m == task[r].target
           E == Current(r).entries
           f == Current(r).fact
<1>0. TInv /\ task[r] \in Task /\ task \in [Run -> Task] /\ Hand(r) /\ task[r].pc = "link"
  BY DEF OneInv, TInv, TypeOK, Link
<1>1. task[r].cands # <<>>  BY <1>0 DEF TInv, ControlOK, InCandidate
<1>2. E \in SUBSET Entry  BY <1>0, <1>1, CandidateTypes
<1>3. task'[r].pc = "apply"  BY <1>0, <1>1, <1>2, AdvanceType DEF Link
<1>4. Hand(r)'  BY <1>3, EmptyHand DEF WithTarget
<1>5. /\ mem' = mem
      /\ claims' = IF Exists(m) THEN claims \cup {<<m, e, f>> : e \in E} ELSE claims
  BY DEF Link
<1>6. Exists(m) => ClaimHolds(m, f)  BY <1>0 DEF Hand
<1> HIDE DEF m, E, f
<1>7. ClaimsLive'
  <2>1. \A c \in claims' : Exists(c[1])  BY <1>5 DEF OneInv, MemoryInv, ClaimsLive
  <2> QED  BY <1>5, <2>1 DEF ClaimsLive, Exists
<1>8. ClaimsKept'
  <2>1. \A c \in claims' : c[3] \in mem[c[1]].facts \/ Cardinality(mem[c[1]].facts) >= Capacity
    BY <1>5, <1>6 DEF OneInv, MemoryInv, ClaimsKept, ClaimHolds
  <2> QED  BY <1>5, <2>1 DEF ClaimsKept
<1>9. SaysSomething' /\ NoTwinDigestMemories'
  BY <1>5 DEF OneInv, MemoryInv, SaysSomething, NoTwinDigestMemories, Twins, Visible
<1> QED  BY <1>4, <1>7, <1>8, <1>9, OwnHand DEF MemoryInv, DigestStep, Progress

LEMMA ProviderOne ==
  ASSUME OneInv, TInv', ProviderStep
  PROVE  OneInv'
<1>0. TInv /\ task' = task /\ OneActive' /\ mem \in [Memory -> Row]
  BY DEF OneInv, TInv, TypeOK, OneActive, Active, ProviderStep, AppendEntry, Archive, HardDelete, UserStore
<1>1. \A r \in Run : task[r].pc \in WithTarget => task[r].target \in Memory
  BY <1>0 DEF TInv, ControlOK
\* What happens to the memories: nothing to their texts, but for a new one.
<1>2. /\ \A m \in Memory : mem[m].life # "absent" =>
           /\ mem'[m].facts = mem[m].facts /\ mem'[m].digest = mem[m].digest
           /\ mem'[m].life # "absent"
           /\ mem'[m].life \in {"visible", "hidden"} => mem[m].life \in {"visible", "hidden"}
           /\ mem'[m].life = "visible" => mem[m].life = "visible"
      /\ \A m \in Memory : mem[m].life = "absent" =>
           mem'[m] = mem[m] \/ (~mem'[m].digest /\ \E f \in Fact : mem'[m].facts = {f})
      /\ claims' \subseteq claims
      /\ \A c \in claims' : mem'[c[1]].life \in {"visible", "hidden"}
  <2>0. \A c \in claims : c[1] \in Memory /\ Exists(c[1])  BY <1>0 DEF TInv, TypeOK, OneInv, MemoryInv, ClaimsLive
  <2>1. CASE \E e \in Entry : AppendEntry(e)
    BY <2>0, <2>1 DEF AppendEntry, history, Exists, Visible
  <2>2. CASE \E m \in Memory : Archive(m)
    <3> PICK m \in Memory : Archive(m)  BY <2>2
    <3>1. /\ mem'[m].life = "hidden" /\ mem'[m].facts = mem[m].facts /\ mem'[m].digest = mem[m].digest
          /\ \A n \in Memory : n # m => mem'[n] = mem[n]
          /\ mem[m].life = "visible" /\ claims' = claims
      BY <1>0 DEF Archive, Visible, Row, history
    <3> QED  BY <2>0, <3>1 DEF Exists, Visible
  <2>3. CASE \E m \in Memory : HardDelete(m)
    <3> PICK m \in Memory : HardDelete(m)  BY <2>3
    <3>1. /\ mem'[m].life = "deleted" /\ mem'[m].facts = mem[m].facts /\ mem'[m].digest = mem[m].digest
          /\ \A n \in Memory : n # m => mem'[n] = mem[n]
          /\ Exists(m) /\ claims' = {c \in claims : c[1] # m}
      BY <1>0 DEF HardDelete, Row
    <3> QED  BY <2>0, <3>1 DEF Exists, Visible
  <2>4. CASE \E m \in Memory, f \in Fact : UserStore(m, f)
    <3> PICK m \in Memory, f \in Fact : UserStore(m, f)  BY <2>4
    <3>1. /\ mem'[m] = [life |-> "visible", facts |-> {f}, digest |-> FALSE]
          /\ \A n \in Memory : n # m => mem'[n] = mem[n]
          /\ mem[m].life = "absent" /\ claims' = claims
      BY <1>0 DEF UserStore, history
    <3> QED  BY <2>0, <3>1 DEF Exists, Visible
  <2> QED  BY <2>1, <2>2, <2>3, <2>4 DEF ProviderStep
<1>3. SaysSomething'
  <2>1. \A f \in Fact : {f} # {} /\ IsFiniteSet({f})  BY FS_Singleton
  <2>2. ASSUME NEW m \in Memory, mem'[m].life # "absent"
        PROVE  mem'[m].facts # {} /\ IsFiniteSet(mem'[m].facts)
    <3>1. CASE mem[m].life = "absent"
      <4>1. PICK f \in Fact : mem'[m].facts = {f}  BY <1>2, <2>2, <3>1
      <4> QED  BY <2>1, <4>1
    <3>2. CASE mem[m].life # "absent"
      <4>1. mem[m].facts # {} /\ IsFiniteSet(mem[m].facts)
        BY <3>2 DEF OneInv, MemoryInv, SaysSomething
      <4>2. mem'[m].facts = mem[m].facts  BY <1>2, <3>2
      <4> QED  BY <4>1, <4>2
    <3> QED  BY <3>1, <3>2
  <2> QED  BY <2>2 DEF SaysSomething
<1>4. ClaimsLive' /\ ClaimsKept'
  <2>1. \A c \in claims : /\ c[1] \in Memory /\ mem[c[1]].life # "absent"
                          /\ c[3] \in mem[c[1]].facts \/ Cardinality(mem[c[1]].facts) >= Capacity
    BY <1>0 DEF TInv, TypeOK, OneInv, MemoryInv, ClaimsLive, ClaimsKept, Exists
  <2>2. \A c \in claims' : c[3] \in mem'[c[1]].facts \/ Cardinality(mem'[c[1]].facts) >= Capacity
    <3> SUFFICES ASSUME NEW c \in claims'
                 PROVE  c[3] \in mem'[c[1]].facts \/ Cardinality(mem'[c[1]].facts) >= Capacity
      OBVIOUS
    <3>1. c \in claims  BY <1>2
    <3>2. mem'[c[1]].facts = mem[c[1]].facts  BY <1>2, <2>1, <3>1
    <3> QED  BY <2>1, <3>1, <3>2
  <2>3. ClaimsLive'  BY <1>2 DEF ClaimsLive, Exists
  <2> QED  BY <2>2, <2>3 DEF ClaimsKept
<1>5. ASSUME NEW n \in Memory, mem'[n].life = "visible", mem'[n].digest
      PROVE  mem[n].life = "visible" /\ mem[n].digest /\ mem'[n].facts = mem[n].facts
  <2>1. mem[n].life # "absent"  BY <1>2, <1>5
  <2> QED  BY <1>2, <1>5, <2>1
<1>7. NoTwinDigestMemories'
  <2> SUFFICES ASSUME NEW a \in Memory, NEW b \in Memory, Twins(a, b)', mem'[a].digest, mem'[b].digest
               PROVE  FALSE
    BY DEF NoTwinDigestMemories, Twins, Visible
  <2>1. /\ a # b /\ mem'[a].life = "visible" /\ mem'[b].life = "visible"
        /\ mem'[a].facts = mem'[b].facts /\ Cardinality(mem'[a].facts) = 1
    BY DEF Twins, Visible
  <2>2. Twins(a, b) /\ mem[a].digest /\ mem[b].digest  BY <1>5, <2>1 DEF Twins, Visible
  <2> QED  BY <2>2 DEF OneInv, MemoryInv, NoTwinDigestMemories
<1>6. ASSUME NEW r \in Run PROVE Hand(r)'
  <2>0. Hand(r) /\ task'[r] = task[r] /\ Current(r)' = Current(r)  BY <1>0 DEF OneInv, Current
  <2>1. task[r].pc \in WithTarget =>
          /\ task[r].target \in Memory
          /\ mem[task[r].target].life # "absent"
          /\ mem'[task[r].target].life # "absent"
          /\ mem'[task[r].target].facts = mem[task[r].target].facts
          /\ mem'[task[r].target].digest = mem[task[r].target].digest
          /\ mem'[task[r].target].life \in {"visible", "hidden"} => Exists(task[r].target)
    <3> SUFFICES ASSUME task[r].pc \in WithTarget
                 PROVE  /\ task[r].target \in Memory
                        /\ mem[task[r].target].life # "absent"
                        /\ mem'[task[r].target].life # "absent"
                        /\ mem'[task[r].target].facts = mem[task[r].target].facts
                        /\ mem'[task[r].target].digest = mem[task[r].target].digest
                        /\ mem'[task[r].target].life \in {"visible", "hidden"} => Exists(task[r].target)
      OBVIOUS
    <3>1. task[r].target \in Memory /\ mem[task[r].target].life # "absent"  BY <1>1, <2>0 DEF Hand
    <3> QED  BY <1>2, <3>1 DEF Exists
  <2>2. task[r].pc = "insert" => \A m \in Memory :
          ~(mem'[m].life = "visible" /\ mem'[m].digest /\ mem'[m].facts = {Current(r).fact})
    <3> SUFFICES ASSUME task[r].pc = "insert", NEW m \in Memory, mem'[m].life = "visible", mem'[m].digest,
                        mem'[m].facts = {Current(r).fact}
                 PROVE  FALSE
      OBVIOUS
    <3>1. mem[m].life # "absent"  BY <1>2
    <3>2. mem[m].life = "visible" /\ mem[m].digest /\ mem[m].facts = {Current(r).fact}  BY <1>2, <3>1
    <3> QED  BY <2>0, <3>2 DEF Hand, SameKey, Visible
  <2>3. Current(r)'.fact = Current(r).fact  BY <2>0
  <2>4. task'[r].pc \in WithTarget => mem'[task'[r].target].life # "absent"  BY <2>0, <2>1
  <2>5. task'[r].pc \in {"update", "rewrite"} /\ mem'[task'[r].target].life \in {"visible", "hidden"}
          => task'[r].base = mem'[task'[r].target].facts
    BY <2>0, <2>1 DEF Hand, WithTarget
  <2>6. task'[r].pc = "insert" => \A m \in Memory :
          ~(mem'[m].life = "visible" /\ mem'[m].digest /\ mem'[m].facts = {Current(r)'.fact})
    BY <2>0, <2>2
  <2>7. task'[r].pc = "link" /\ mem'[task'[r].target].life \in {"visible", "hidden"}
          => \/ Current(r)'.fact \in mem'[task'[r].target].facts
             \/ Cardinality(mem'[task'[r].target].facts) >= Capacity
    BY <2>0, <2>1 DEF Hand, WithTarget, ClaimHolds
  <2>8. task'[r].pc \in {"update", "rewrite"} => Sole(task[r].target)'
    <3> SUFFICES ASSUME task[r].pc \in {"update", "rewrite"}, NEW n \in Memory, n # task[r].target,
                        mem'[n].life = "visible", mem'[n].digest, mem'[task[r].target].digest,
                        Cardinality(mem'[task[r].target].facts) = 1
                 PROVE  mem'[n].facts # mem'[task[r].target].facts
      BY <2>0 DEF Sole, Visible
    <3>1. Sole(task[r].target)  BY <2>0 DEF Hand
    <3>2. mem[n].life = "visible" /\ mem[n].digest /\ mem'[n].facts = mem[n].facts  BY <1>5
    <3> QED  BY <2>1, <3>1, <3>2 DEF Sole, Visible, WithTarget
  <2> QED  BY <2>4, <2>5, <2>6, <2>7, <2>8 DEF Hand, Exists, Visible, SameKey, ClaimHolds
<1> QED  BY <1>0, <1>3, <1>4, <1>6, <1>7 DEF OneInv, MemoryInv

LEMMA OneInvNext == ASSUME MaxActive = 1, OneInv, [Next]_vars PROVE OneInv'
<1>1. TInv'  BY TInvNext DEF OneInv
<1>2. CASE UNCHANGED vars
  <2>1. MemoryInv'  BY <1>2, SameMemories DEF vars, OneInv
  <2>2. OneActive'  BY <1>2 DEF vars, OneInv, OneActive, Active
  <2>3. \A r \in Run : Hand(r)'
    BY <1>2 DEF vars, OneInv, Hand, Exists, Visible, SameKey, ClaimHolds, Current, Sole
  <2> QED  BY <1>1, <2>1, <2>2, <2>3 DEF OneInv
<1>3. CASE ProviderStep  BY <1>1, <1>3, ProviderOne
<1>4. CASE \E r \in Run : DigestStep(r)
  <2> PICK r \in Run : DigestStep(r)  BY <1>4
  <2> QED  BY <1>1, RestingSteps, ChoosingSteps, RewriteOne, InsertOne, LinkOne DEF DigestStep, Progress
<1> QED  BY <1>2, <1>3, <1>4 DEF Next

LEMMA OneRunInductive == ASSUME MaxActive = 1 PROVE Spec => []OneInv
<1>1. Init => OneInv
  <2> SUFFICES ASSUME Init PROVE OneInv  OBVIOUS
  <2>1. FreshTask.pc = "new"  BY DEF FreshTask
  <2>2. \A r \in Run : task[r].pc = "new"  BY <2>1 DEF Init
  <2>3. OneActive /\ \A r \in Run : Hand(r)  BY <2>2 DEF OneActive, Active, Hand, WithTarget
  <2>4. MemoryInv
    BY DEF Init, MemoryInv, SaysSomething, ClaimsLive, ClaimsKept, NoTwinDigestMemories, Twins, Visible
  <2> QED  BY <2>3, <2>4, TInvInit DEF OneInv
<1>2. OneInv /\ [Next]_vars => OneInv'  BY OneInvNext
<1> QED  BY <1>1, <1>2, PTL DEF Spec

(* With one run at a time a memory keeps every fact for which an entry was consumed,
   until its text is full, through crashes, retries, archives and explicit stores
   (update_row with the text _find_match saw, store_row, _record_journal_sources). *)
THEOREM OneRunKeepsClaims == ASSUME MaxActive = 1 PROVE Spec => []ClaimsKept
<1>1. OneInv => ClaimsKept  BY DEF OneInv, MemoryInv
<1> QED  BY OneRunInductive, <1>1, PTL

(* With one run at a time the digest never stores one fact as two visible memories
   (_find_match, store_row's dedup_key). *)
THEOREM OneRunNoTwins == ASSUME MaxActive = 1 PROVE Spec => []NoTwinDigestMemories
<1>1. OneInv => NoTwinDigestMemories  BY DEF OneInv, MemoryInv
<1> QED  BY OneRunInductive, <1>1, PTL
-----------------------------------------------------------------------------
(***************************************************************************)
(* The recovery of failed digests.  A replay deletes the receipt it read   *)
(* and reopens the entry, in whatever state newer runs left it: nothing is *)
(* lost because the run of that receipt has decided for the last time.     *)
(***************************************************************************)
\* A run that has marked its entries, or ended without, has none left to decide.
Finished(r) == task[r].pc \in {"prune", "sweep", "record", "ended"}
Behind ==
  /\ \A r \in Run : Finished(r) => task[r].decided = {}
  /\ \A e \in Entry : watermark[e] \in Run => Finished(watermark[e])

\* What the recovery has read of a candidate and nobody takes back: it left the
\* backlog, and the run it was marked with is over.
WasMarked(i) == i \in Item /\ watermark[i[1]] \in Run \cup {"pruned"} /\ Finished(i[2])
OpInv ==
  /\ op = [x \in {"pc", "mode", "alone", "items", "current", "held"} |-> op[x]]
  /\ op.mode \in {"replay", "classify"}
  /\ op.pc = "idle" => op.items = {} /\ op.held = {} /\ ~op.alone
  /\ \A i \in op.items \cup op.held : WasMarked(i)
  /\ op.pc = "checked" => WasMarked(op.current)
  /\ op.held # {} => lock = "recovery"
  /\ op.mode = "replay" => \A i \in op.held : watermark[i[1]] \in Run

RInv == EInv /\ Behind /\ OpInv

LEMMA EndingStep ==
  ASSUME TInv, NEW r \in Run, DigestStep(r)
  PROVE  /\ \A o \in Run : o # r => task'[o] = task[o]
         /\ Finished(r) => Finished(r)'
         /\ Finished(r)' /\ ~Finished(r) => Mark(r) \/ task'[r] = EndedTask
         /\ Finished(r) /\ task[r].decided = {} => task'[r].decided = {}
<1>0. task \in [Run -> Task] /\ task[r] \in Task  BY DEF TInv, TypeOK
<1>1. FreshTask.decided = {} /\ EndedTask.decided = {} /\ EndedTask.pc = "ended" /\ FreshTask.pc = "new"
  BY DEF FreshTask, EndedTask
<1>2. CASE \/ Begin(r) \/ Load(r) \/ Quarantine(r) \/ ExtractSome(r) \/ Review(r)
           \/ Filter(r) \/ Match(r) \/ Cover(r) \/ Update(r) \/ Rewrite(r) \/ Probe(r) \/ Insert(r) \/ Link(r)
  <2>1. task[r].pc \notin {"prune", "sweep", "record", "ended"}
    BY <1>2 DEF Begin, Load, Quarantine, ExtractSome, Extract, Review, Filter, Match, Cover, Update, Rewrite,
                Probe, Insert, Link
  <2>2. \E t : Goto(r, t) /\ t.pc \notin {"prune", "sweep", "record", "ended"}
    <3>1. CASE Begin(r)
      <4>1. PICK q, n : Goto(r, [task[r] EXCEPT !.pc = "load", !.scopes = q, !.limit = n])
        BY <3>1 DEF Begin
      <4>2. [task[r] EXCEPT !.pc = "load", !.scopes = q, !.limit = n].pc = "load"  BY <1>0 DEF Task
      <4> QED  BY <4>1, <4>2
    <3>2. CASE Load(r)
      <4> DEFINE B == Oldest(task[r].limit - task[r].total,
                             {e \in Backlog : HomeOf[e] \in Reads[Head(task[r].scopes)]})
                 p == IF B = {} THEN "load" ELSE "extract"
                 t == [task[r] EXCEPT !.scopes = Tail(@), !.batch = B,
                                      !.total = @ + Cardinality(B), !.pc = p]
      <4>1. Goto(r, t) /\ p \in {"load", "extract"}  BY <3>2 DEF Load
      <4> HIDE DEF p
      <4>2. t.pc = p  BY <1>0 DEF Task
      <4> QED  BY <4>1, <4>2
    <3>3. CASE Quarantine(r)
      <4> DEFINE t == [task[r] EXCEPT !.pc = "load", !.decided = @ \cup task[r].batch, !.batch = {}]
      <4>1. Goto(r, t) /\ t.pc = "load"  BY <1>0, <3>3 DEF Quarantine, Task
      <4> QED  BY <4>1
    <3>4. CASE ExtractSome(r)
      <4>1. PICK cs, lost : Extract(r, cs, lost)  BY <3>4 DEF ExtractSome
      <4> DEFINE covered == UNION {cs[i].entries : i \in DOMAIN cs}
                 t == [task[r] EXCEPT !.pc = "apply", !.cands = cs, !.batch = {}, !.lost = @ \cup lost,
                                      !.rest = task[r].batch \ covered]
      <4>2. Goto(r, t)  BY <4>1 DEF Extract
      <4>3. t.pc = "apply"  BY <1>0 DEF Task
      <4> QED  BY <4>2, <4>3
    <3>5. CASE Review(r)
      <4> DEFINE t == [task[r] EXCEPT !.pc = "load", !.decided = @ \cup task[r].rest, !.batch = {}, !.rest = {}]
      <4>1. Goto(r, t) /\ t.pc = "load"  BY <1>0, <3>5 DEF Review, Task
      <4> QED  BY <4>1
    <3>6. CASE \E D : Advance(r, D)
      <4>1. PICK D : Advance(r, D)  BY <3>6
      <4> DEFINE t == [task[r] EXCEPT !.pc = "apply", !.cands = Tail(@), !.target = NoMemory,
                                      !.base = {}, !.decided = @ \cup D]
      <4>2. Goto(r, t)  BY <4>1 DEF Advance
      <4>3. t.pc = "apply"  BY <1>0 DEF Task
      <4> QED  BY <4>2, <4>3
    <3>7. ASSUME NEW p \in {"cover", "update", "probe", "rewrite", "insert", "link"},
                 \/ Goto(r, [task[r] EXCEPT !.pc = p])
                 \/ \E m : Goto(r, [task[r] EXCEPT !.pc = p, !.target = m])
                 \/ \E m, B : Goto(r, [task[r] EXCEPT !.pc = p, !.target = m, !.base = B])
          PROVE  \E t : Goto(r, t) /\ t.pc \notin {"prune", "sweep", "record", "ended"}
      <4>1. [task[r] EXCEPT !.pc = p].pc = p  BY <1>0 DEF Task
      <4>2. \A m : [task[r] EXCEPT !.pc = p, !.target = m].pc = p  BY <1>0 DEF Task
      <4>3. \A m, B : [task[r] EXCEPT !.pc = p, !.target = m, !.base = B].pc = p  BY <1>0 DEF Task
      <4>4. CASE Goto(r, [task[r] EXCEPT !.pc = p])  BY <4>1, <4>4
      <4>5. CASE \E m : Goto(r, [task[r] EXCEPT !.pc = p, !.target = m])
        <5> PICK m : Goto(r, [task[r] EXCEPT !.pc = p, !.target = m])  BY <4>5
        <5> QED  BY <4>2
      <4>6. CASE \E m, B : Goto(r, [task[r] EXCEPT !.pc = p, !.target = m, !.base = B])
        <5> PICK m, B : Goto(r, [task[r] EXCEPT !.pc = p, !.target = m, !.base = B])  BY <4>6
        <5> QED  BY <4>3
      <4> QED  BY <3>7, <4>4, <4>5, <4>6
    <3>8. CASE Match(r)
      <4>1. \/ Goto(r, [task[r] EXCEPT !.pc = "cover"]) \/ Goto(r, [task[r] EXCEPT !.pc = "probe"])
            \/ \E m, B : Goto(r, [task[r] EXCEPT !.pc = "update", !.target = m, !.base = B])
        BY <3>8 DEF Match
      <4> QED  BY <3>7, <4>1
    <3>9. CASE Update(r)
      <4>1. Goto(r, [task[r] EXCEPT !.pc = "rewrite"]) \/ Advance(r, {})  BY <3>9 DEF Update
      <4> QED  BY <3>6, <3>7, <4>1
    <3>10. CASE Rewrite(r)
      <4>1. Goto(r, [task[r] EXCEPT !.pc = "link"])  BY <3>10 DEF Rewrite
      <4> QED  BY <3>7, <4>1
    <3>11. CASE Probe(r)
      <4>1. \/ Goto(r, [task[r] EXCEPT !.pc = "insert"])
            \/ \E m : Goto(r, [task[r] EXCEPT !.pc = "link", !.target = m])
        BY <3>11 DEF Probe
      <4> QED  BY <3>7, <4>1
    <3>12. CASE Insert(r)
      <4>1. \E m : Goto(r, [task[r] EXCEPT !.pc = "link", !.target = m])  BY <3>12 DEF Insert
      <4> QED  BY <3>7, <4>1
    <3>13. Filter(r) \/ Cover(r) \/ Link(r) => \E D : Advance(r, D)  BY DEF Filter, Cover, Link
    <3> QED  BY <1>2, <3>1, <3>2, <3>3, <3>4, <3>5, <3>6, <3>8, <3>9, <3>10, <3>11, <3>12, <3>13
  <2> QED  BY <1>0, <2>1, <2>2, GotoSame DEF Finished
<1>3. CASE EndOfScopes(r)
  <2>1. task[r].pc = "load"  BY <1>3 DEF EndOfScopes
  <2>2. CASE Goto(r, EndedTask)  BY <1>0, <2>1, <2>2, GotoSame DEF Finished
  <2>3. CASE Goto(r, [FreshTask EXCEPT !.pc = "mark", !.decided = task[r].decided, !.lost = task[r].lost])
    <3> DEFINE t == [FreshTask EXCEPT !.pc = "mark", !.decided = task[r].decided, !.lost = task[r].lost]
    <3>1. t.pc = "mark"  BY DEF FreshTask
    <3> HIDE DEF t
    <3>2. Goto(r, t)  BY <2>3 DEF t
    <3> QED  BY <1>0, <2>1, <3>1, <3>2, GotoSame DEF Finished
  <2> QED  BY <1>3, <2>2, <2>3 DEF EndOfScopes
<1>4. CASE Mark(r)
  <2> DEFINE t == [FreshTask EXCEPT !.pc = "prune", !.lost = task[r].lost]
  <2>1. t.pc = "prune" /\ task[r].pc = "mark" /\ Goto(r, t)  BY <1>4 DEF FreshTask, Mark
  <2> HIDE DEF t
  <2> QED  BY <1>0, <1>4, <2>1, GotoSame DEF Finished
<1>5. CASE PruneSelect(r)
  <2>1. task[r].pc = "prune"  BY <1>5 DEF PruneSelect
  <2>2. CASE Goto(r, [task[r] EXCEPT !.pc = "record"])
    <3> DEFINE t == [task[r] EXCEPT !.pc = "record"]
    <3>1. Goto(r, t) /\ t.pc = "record" /\ t.decided = task[r].decided  BY <1>0, <2>2 DEF Task
    <3> HIDE DEF t
    <3> QED  BY <1>0, <2>1, <3>1, GotoSame DEF Finished
  <2>3. CASE \E B : Goto(r, [task[r] EXCEPT !.pc = "sweep", !.batch = B])
    <3> PICK B : Goto(r, [task[r] EXCEPT !.pc = "sweep", !.batch = B])  BY <2>3
    <3> DEFINE t == [task[r] EXCEPT !.pc = "sweep", !.batch = B]
    <3>1. Goto(r, t) /\ t.pc = "sweep" /\ t.decided = task[r].decided  BY <1>0 DEF Task
    <3> HIDE DEF t
    <3> QED  BY <1>0, <2>1, <3>1, GotoSame DEF Finished
  <2>4. \/ Goto(r, [task[r] EXCEPT !.pc = "record"])
        \/ \E B : Goto(r, [task[r] EXCEPT !.pc = "sweep", !.batch = B])
    BY <1>5 DEF PruneSelect
  <2> QED  BY <2>2, <2>3, <2>4
<1>6. CASE PruneDelete(r)
  <2> DEFINE t == [FreshTask EXCEPT !.pc = "record"]
  <2>1. t.pc = "record" /\ t.decided = {} /\ task[r].pc = "sweep" /\ Goto(r, t)
    BY <1>6 DEF FreshTask, PruneDelete
  <2> HIDE DEF t
  <2> QED  BY <1>0, <2>1, GotoSame DEF Finished
<1>7. CASE Record(r) \/ Abort(r) \/ Crash(r)
  <2>1. Goto(r, EndedTask)  BY <1>7 DEF Record, Abort, Crash, Ending
  <2> QED  BY <1>0, <1>1, <2>1, GotoSame DEF Finished
<1> QED  BY <1>2, <1>3, <1>4, <1>5, <1>6, <1>7 DEF DigestStep, Progress

\* Who moves a watermark, and that nobody does in the recovery's transaction.
LEMMA WatermarkStep ==
  ASSUME TInv, Next
  PROVE  /\ \A e \in Entry :
              \/ watermark'[e] = watermark[e]
              \/ watermark[e] = "absent" /\ watermark'[e] = "unprocessed"
              \/ watermark'[e] = "pruned"
              \/ watermark'[e] \in Run /\ Mark(watermark'[e])
         /\ lock = "recovery" => lock' = "recovery" /\ \A e \in Entry : watermark'[e] = watermark[e]
<1>0. TypeOK  BY DEF TInv
<1>1. CASE ProviderStep
  BY <1>0, <1>1, ConstantsAssumption DEF ProviderStep, AppendEntry, Archive, HardDelete, UserStore, TypeOK,
                                        MayWrite, Nobody
<1>2. CASE \E r \in Run : DigestStep(r) /\ ~Mark(r) /\ ~PruneDelete(r)
  <2> PICK r \in Run : DigestStep(r) /\ ~Mark(r) /\ ~PruneDelete(r)  BY <1>2
  <2>1. UNCHANGED watermark
    BY DEF DigestStep, Progress, Begin, Load, EndOfScopes, Quarantine, ExtractSome, Extract, Filter, Match,
           Cover, Update, Rewrite, Probe, Insert, Link, Review, PruneSelect, Record, Abort, Crash, store
  <2>2. r # "recovery"  BY ConstantsAssumption
  <2>3. lock = "recovery" => lock' = "recovery"
    BY <2>2 DEF DigestStep, Progress, Begin, Load, EndOfScopes, Quarantine, ExtractSome, Extract, Filter, Match,
           Cover, Update, Rewrite, Probe, Insert, Link, Review, PruneSelect, Record, Abort, Crash, Ending,
           MayWrite, Nobody
  <2> QED  BY <2>1, <2>3
<1>3. CASE \E r \in Run : Mark(r)
  <2> PICK r \in Run : Mark(r)  BY <1>3
  <2>1. \A e \in Entry : watermark'[e] = IF e \in task[r].decided /\ watermark[e] \notin {"absent", "pruned"}
                                         THEN r ELSE watermark[e]
    BY DEF Mark
  <2>2. lock = "recovery" => task[r].decided = {} /\ lock' = lock
    BY ConstantsAssumption DEF Mark, MayWrite, Nobody
  <2> QED  BY <2>1, <2>2
<1>4. CASE \E r \in Run : PruneDelete(r)
  <2> PICK r \in Run : PruneDelete(r)  BY <1>4
  <2>1. \A e \in Entry : watermark'[e] \in {"pruned", watermark[e]}  BY DEF PruneDelete
  <2>2. lock # "recovery"  BY ConstantsAssumption DEF PruneDelete, MayWrite, Nobody
  <2> QED  BY <2>1, <2>2
<1> QED  BY <1>1, <1>2, <1>3, <1>4 DEF Next

LEMMA FinishedStays ==
  ASSUME TInv, Next, NEW r \in Run, Finished(r)
  PROVE  Finished(r)'
<1>1. CASE ProviderStep
  BY <1>1 DEF ProviderStep, AppendEntry, Archive, HardDelete, UserStore, Finished
<1>2. CASE \E o \in Run : DigestStep(o)
  <2> PICK o \in Run : DigestStep(o)  BY <1>2
  <2> QED  BY EndingStep DEF Finished
<1> QED  BY <1>1, <1>2 DEF Next

LEMMA BehindStep == ASSUME TInv, TInv', Behind, Next PROVE Behind'
<1>0. task \in [Run -> Task]  BY DEF TInv, TypeOK
<1>1. \A r \in Run : Finished(r)' => task'[r].decided = {}
  <2>1. CASE ProviderStep
    BY <2>1 DEF ProviderStep, AppendEntry, Archive, HardDelete, UserStore, Finished, Behind
  <2>2. CASE \E o \in Run : DigestStep(o)
    <3> SUFFICES ASSUME NEW r \in Run, Finished(r)' PROVE task'[r].decided = {}  OBVIOUS
    <3> PICK o \in Run : DigestStep(o)  BY <2>2
    <3>1. CASE o # r  BY <3>1, EndingStep DEF Finished, Behind
    <3>2. CASE o = r /\ Finished(r)  BY <3>2, EndingStep DEF Behind
    <3>3. CASE o = r /\ Mark(r)
      <4> DEFINE t == [FreshTask EXCEPT !.pc = "prune", !.lost = task[r].lost]
      <4>1. t.decided = {} /\ Goto(r, t)  BY <3>3 DEF FreshTask, Mark
      <4> HIDE DEF t
      <4> QED  BY <1>0, <4>1, GotoSame
    <3>4. CASE o = r /\ task'[r] = EndedTask  BY <3>4 DEF EndedTask, FreshTask
    <3> QED  BY <3>1, <3>2, <3>3, <3>4, EndingStep
  <2> QED  BY <2>1, <2>2 DEF Next
<1>2. \A e \in Entry, r \in Run : watermark'[e] = r => Finished(r)'
  <2> SUFFICES ASSUME NEW e \in Entry, NEW r \in Run, watermark'[e] = r PROVE Finished(r)'  OBVIOUS
  <2>1. CASE watermark[e] = r
    <3>1. Finished(r)  BY <2>1 DEF Behind
    <3> QED  BY <3>1, FinishedStays
  <2>2. CASE Mark(r)
    <3> DEFINE t == [FreshTask EXCEPT !.pc = "prune", !.lost = task[r].lost]
    <3>1. t.pc = "prune" /\ Goto(r, t)  BY <2>2 DEF FreshTask, Mark
    <3> HIDE DEF t
    <3> QED  BY <1>0, <3>1, GotoSame DEF Finished
  <2> QED  BY <2>1, <2>2, WatermarkStep, ConstantsAssumption DEF Unset
<1> QED  BY <1>1, <1>2 DEF Behind, Finished

LEMMA OpStep == ASSUME TInv, OpInv, Next, UNCHANGED op PROVE OpInv'
<1>1. \A i : WasMarked(i) => WasMarked(i)'
  <2> SUFFICES ASSUME NEW i, WasMarked(i) PROVE WasMarked(i)'  OBVIOUS
  <2>1. i[1] \in Entry /\ i[2] \in Run  BY DEF WasMarked, Item
  <2>2. Finished(i[2])'  BY <2>1, FinishedStays DEF WasMarked
  <2>3. watermark'[i[1]] \in Run \cup {"pruned"}
    BY <2>1, WatermarkStep, ConstantsAssumption DEF WasMarked, Unset
  <2> QED  BY <2>2, <2>3 DEF WasMarked
<1>2. op.held # {} => lock' = "recovery"  BY WatermarkStep DEF OpInv
<1>3. op.mode = "replay" => \A i \in op.held : watermark'[i[1]] \in Run
  <2> SUFFICES ASSUME op.mode = "replay", NEW i \in op.held PROVE watermark'[i[1]] \in Run  OBVIOUS
  <2>1. lock = "recovery" /\ watermark[i[1]] \in Run /\ i[1] \in Entry  BY DEF OpInv, WasMarked, Item
  <2> QED  BY <2>1, WatermarkStep
<1> QED  BY <1>1, <1>2, <1>3 DEF OpInv

LEMMA OthersKeep == ASSUME RInv, Others PROVE RInv'
<1>1. Next /\ UNCHANGED op  BY DEF Others, Next, DigestStep
<1>2. EInv' /\ TInv /\ TInv'  BY <1>1, EInvNext DEF RInv, EInv
<1> QED  BY <1>1, <1>2, BehindStep, OpStep DEF RInv

\* The steps of the command that change nothing but its transaction.
LEMMA OpMoves ==
  ASSUME RInv, UNCHANGED <<store, pend, task, history>>, faults' \in Nat,
         lock' = lock \/ {lock, lock'} \subseteq {Nobody, "recovery"},
         OpInv'
  PROVE  RInv'
<1>1. TInv'
  <2>1. TypeOK'  BY DEF RInv, EInv, TInv, TypeOK, store, history
  <2> QED  BY <2>1, SameTasks DEF TInv, RInv, EInv
<1>2. \A r \in Run : lock = r => lock' = r  BY ConstantsAssumption DEF Nobody
<1>3. \A e, r : Receipted(e, r)' = Receipted(e, r)  BY DEF Receipted, Linked, store, history
<1>4. SettledHasReceipt'  BY DEF RInv, EInv, SettledHasReceipt, Receipted, Linked, store, history
<1>5. DecidedSecured'
  <2> SUFFICES ASSUME NEW r \in Run, task'[r].pc # "ended", NEW e \in task'[r].decided
               PROVE  Secured(e, r)'
    BY DEF DecidedSecured, Secured, Receipted, Linked
  <2>1. Secured(e, r)  BY DEF RInv, EInv, DecidedSecured
  <2> QED  BY <1>2, <1>3, <2>1 DEF Secured, store
<1>6. Behind'  BY DEF RInv, Behind, Finished, store
<1> QED  BY <1>1, <1>4, <1>5, <1>6 DEF RInv, EInv

LEMMA FindKeeps ==
  ASSUME RInv, NEW mode \in {"replay", "classify"}, NEW alone \in BOOLEAN, Find(mode, alone)
  PROVE  RInv'
<1>1. UNCHANGED vars  BY DEF Find
<1>2. PICK I \in SUBSET ReplayCandidates :
         op' = [op EXCEPT !.pc = "next", !.mode = mode, !.alone = alone, !.items = I]
  BY DEF Find
<1>3. \A i \in I : WasMarked(i)
  BY DEF ReplayCandidates, WasMarked, Item, RInv, Behind
<1>4. op.held = {}  BY DEF Find, RInv, OpInv
<1>5. op' = [x \in {"pc", "mode", "alone", "items", "current", "held"} |-> op'[x]]
      /\ op'.pc = "next" /\ op'.mode = mode /\ op'.items = I /\ op'.held = {}
  BY <1>2, <1>4 DEF RInv, OpInv
<1>6. \A i : WasMarked(i)' = WasMarked(i)  BY <1>1 DEF vars, WasMarked, Finished
<1>7. OpInv'  BY <1>3, <1>5, <1>6 DEF OpInv
<1> QED  BY <1>1, <1>7, OpMoves DEF vars, store, history, RInv, EInv, TInv, TypeOK

LEMMA CheckKeeps == ASSUME RInv, NEW i \in Item, Check(i) PROVE RInv'
<1>1. UNCHANGED vars  BY DEF Check
<1>2. WasMarked(i)  BY DEF Check, RInv, OpInv
<1>3. /\ op' = [x \in {"pc", "mode", "alone", "items", "current", "held"} |-> op'[x]]
      /\ op'.pc \in {"next", "checked"} /\ op'.mode = op.mode /\ op'.items \subseteq op.items /\ op'.held = op.held
      /\ op'.pc = "checked" => op'.current = i
  BY DEF Check, RInv, OpInv
<1>4. \A j : WasMarked(j)' = WasMarked(j)  BY <1>1 DEF vars, WasMarked, Finished
<1>5. OpInv'
  <2>1. UNCHANGED <<lock, watermark>>  BY <1>1 DEF vars
  <2> QED  BY <1>2, <1>3, <1>4, <2>1 DEF OpInv, RInv
<1> QED  BY <1>1, <1>5, OpMoves DEF vars, store, history, RInv, EInv, TInv, TypeOK

LEMMA ChangeKeeps == ASSUME RInv, Change PROVE RInv'
<1>1. UNCHANGED <<store, pend, task, faults, history>> /\ lock' = "recovery" /\ lock \in {Nobody, "recovery"}
  BY DEF Change, MayWrite
<1>2. WasMarked(op.current)  BY DEF Change, RInv, OpInv
<1>3. /\ op' = [x \in {"pc", "mode", "alone", "items", "current", "held"} |-> op'[x]]
      /\ op'.pc = "next" /\ op'.mode = op.mode /\ op'.items = op.items
      /\ \/ op'.held = op.held
         \/ /\ op'.held = op.held \cup {op.current}
            /\ op.mode = "replay" => watermark[op.current[1]] # "pruned"
  BY DEF Change, RInv, OpInv
<1>4. \A j : WasMarked(j)' = WasMarked(j)  BY <1>1 DEF store, WasMarked, Finished
<1>5. OpInv'
  <2>1. UNCHANGED watermark  BY <1>1 DEF store
  <2>2. op.mode = "replay" => \A i \in op'.held : watermark[i[1]] \in Run
    BY <1>2, <1>3 DEF OpInv, RInv, WasMarked
  <2>3. \A i \in op'.items \cup op'.held : WasMarked(i)  BY <1>2, <1>3 DEF OpInv, RInv
  <2> QED  BY <1>1, <1>3, <1>4, <2>1, <2>2, <2>3 DEF OpInv, RInv
<1> QED  BY <1>1, <1>5, OpMoves DEF RInv, EInv, TInv, TypeOK

LEMMA IdleOpIs ==
  /\ IdleOp = [x \in {"pc", "mode", "alone", "items", "current", "held"} |-> IdleOp[x]]
  /\ IdleOp.pc = "idle" /\ IdleOp.mode = "replay" /\ IdleOp.alone = FALSE /\ IdleOp.items = {} /\ IdleOp.held = {}
BY DEF IdleOp

LEMMA GiveUpKeeps == ASSUME RInv, GiveUp PROVE RInv'
<1>1. UNCHANGED <<store, pend, task, history>> /\ op' = IdleOp /\ faults' = faults + 1
      /\ lock' = IF lock = "recovery" THEN Nobody ELSE lock
  BY DEF GiveUp
<1>2. OpInv'  BY <1>1, IdleOpIs DEF OpInv
<1>3. lock' = lock \/ {lock, lock'} \subseteq {Nobody, "recovery"}  BY <1>1
<1>4. faults' \in Nat  BY <1>1 DEF RInv, EInv, TInv, TypeOK
<1> QED  BY <1>1, <1>2, <1>3, <1>4, OpMoves

\* What the commit does to the tables.
LEMMA FinishIs ==
  ASSUME RInv, Finish
  PROVE  /\ \A e \in Entry : watermark'[e] = IF e \in Reopened THEN "unprocessed" ELSE watermark[e]
         /\ \A e \in Entry, r \in Run :
               rejections'[e][r] = IF <<e, r>> \in op.held
                                   THEN IF op.mode = "replay" THEN "none" ELSE "classified"
                                   ELSE rejections[e][r]
         /\ op' = IdleOp /\ UNCHANGED <<links, mem, runRow, pend, task, faults, forgotten, claims>>
         /\ \A r \in Run : lock = r => lock' = r
         /\ Reopened \subseteq Entry /\ \A e \in Reopened : watermark[e] \in Run
         /\ \A i \in op.held : op.mode = "replay" => i[1] \in Reopened
  BY ConstantsAssumption DEF Finish, ReceiptsAfter, Reopened, RInv, OpInv, WasMarked, Item, history

LEMMA FinishKeeps == ASSUME RInv, Finish PROVE RInv'
<1>0. TypeOK  BY DEF RInv, EInv, TInv
<1>1. TInv'
  <2>1. watermark' \in [Entry -> Run \cup Unset] /\ rejections' \in [Entry -> [Run -> Reason]]
        /\ lock' \in Run \cup {Nobody, "recovery"}
    BY <1>0 DEF Finish, ReceiptsAfter, TypeOK, Unset, Reason
  <2>2. TypeOK'  BY <1>0, <2>1, FinishIs DEF TypeOK
  <2> QED  BY <2>2, FinishIs, SameTasks DEF TInv, RInv, EInv
<1>2. \A e \in Entry, r \in Run :
         Receipted(e, r) /\ (<<e, r>> \notin op.held \/ op.mode # "replay") => Receipted(e, r)'
  BY FinishIs DEF Receipted, Linked
<1>3. SettledHasReceipt'
  <2> SUFFICES ASSUME NEW e \in Entry, NEW r \in Run, watermark'[e] = r PROVE Receipted(e, r)'
    BY DEF SettledHasReceipt, Receipted, Linked
  <2>1. e \notin Reopened /\ watermark[e] = r  BY FinishIs, ConstantsAssumption DEF Unset
  <2>2. Receipted(e, r)  BY <2>1 DEF RInv, EInv, SettledHasReceipt
  <2>3. <<e, r>> \notin op.held \/ op.mode # "replay"  BY <2>1, FinishIs
  <2> QED  BY <1>2, <2>2, <2>3
<1>4. DecidedSecured'
  <2> SUFFICES ASSUME NEW r \in Run, task'[r].pc # "ended", NEW e \in task'[r].decided
               PROVE  Secured(e, r)'
    BY DEF DecidedSecured, Secured, Receipted, Linked
  <2>1. task'[r] = task[r] /\ e \in Entry  BY <1>0, FinishIs DEF TypeOK, Task
  <2>2. Secured(e, r)  BY <2>1 DEF RInv, EInv, DecidedSecured
  <2>3. ~Finished(r)  BY <2>1 DEF RInv, Behind
  <2>4. <<e, r>> \notin op.held  BY <2>3 DEF RInv, OpInv, WasMarked
  <2>5. watermark[e] = "pruned" => watermark'[e] = "pruned"
    BY <2>1, FinishIs, ConstantsAssumption DEF Unset
  <2> QED  BY <1>2, <2>1, <2>2, <2>4, <2>5, FinishIs DEF Secured
<1>5. Behind'  BY FinishIs, ConstantsAssumption DEF Behind, Finished, RInv, Unset
<1>6. OpInv'  BY FinishIs, IdleOpIs DEF OpInv
<1> QED  BY <1>1, <1>3, <1>4, <1>5, <1>6 DEF RInv, EInv

LEMMA RInvNext == ASSUME RInv, [RNext]_rvars PROVE RInv'
<1>1. CASE UNCHANGED rvars
  <2>1. OpInv'  BY <1>1 DEF rvars, RInv, OpInv, WasMarked, Finished
  <2> QED  BY <1>1, <2>1, OpMoves DEF rvars, store, history, RInv, EInv, TInv, TypeOK
<1>2. CASE Recover  BY <1>2, FindKeeps, CheckKeeps, ChangeKeeps, FinishKeeps, GiveUpKeeps DEF Recover
<1> QED  BY <1>1, <1>2, OthersKeep DEF RNext

LEMMA RInvInit == RInit => RInv
<1> SUFFICES ASSUME RInit PROVE RInv  OBVIOUS
<1>1. EInv /\ Init  BY PInvInit DEF PInv, RInit
<1>2. Behind  BY <1>1, ConstantsAssumption DEF Init, Behind, Finished, FreshTask, Unset
<1> QED  BY <1>1, <1>2, IdleOpIs DEF RInit, RInv, OpInv

(* The same with recoveries: whatever an operator replays or closes while digests
   are at work, an entry behind the watermark has a durable outcome on record
   (schedule_replay, classify_recovery_candidates). *)
THEOREM RecoveryKeepsReceipts == RSpec => []SettledHasReceipt
<1>1. RInv => SettledHasReceipt  BY DEF RInv, EInv
<1> QED  BY <1>1, RInvInit, RInvNext, PTL DEF RSpec

-----------------------------------------------------------------------------
(***************************************************************************)
(* The promise with recoveries.  A prune deletes what it found settled     *)
(* before, and a replay may have reopened it meanwhile; without retention  *)
(* there is no prune.                                                      *)
(***************************************************************************)
NoSweep == \A r \in Run : task[r].pc # "sweep"
WInv == RInv /\ PInv /\ NoSweep

LEMMA NoSweepStep == ASSUME ~Retention, TInv, NoSweep, Next PROVE NoSweep'
<1>0. task \in [Run -> Task]  BY DEF TInv, TypeOK
<1>1. CASE ProviderStep
  BY <1>1 DEF ProviderStep, AppendEntry, Archive, HardDelete, UserStore, NoSweep
<1>2. CASE \E r \in Run : DigestStep(r)
  <2> PICK r \in Run : DigestStep(r)  BY <1>2
  <2>1. \A o \in Run : o # r => task'[o] = task[o]  BY EndingStep
  <2>2. CASE PruneSelect(r)
    <3> DEFINE t == [task[r] EXCEPT !.pc = "record"]
    <3>1. Goto(r, t) /\ t.pc = "record"  BY <1>0, <2>2 DEF PruneSelect, Task
    <3> HIDE DEF t
    <3> QED  BY <1>0, <2>1, <3>1, GotoSame DEF NoSweep
  <2>3. CASE ~PruneSelect(r)
    <3>1. task[r].pc = "prune" => task'[r].pc # "sweep"
      <4>1. CASE task[r].pc = "prune"
        <5>1. Abort(r) \/ Crash(r)
          BY <2>3, <4>1 DEF DigestStep, Progress, Begin, Load, EndOfScopes, Quarantine, ExtractSome, Extract,
                 Filter, Match, Cover, Update, Rewrite, Probe, Insert, Link, Review, Mark, PruneDelete, Record
        <5>2. Goto(r, EndedTask) /\ EndedTask.pc = "ended"
          BY <5>1 DEF Abort, Crash, Ending, EndedTask, FreshTask
        <5> QED  BY <1>0, <5>2, GotoSame
      <4> QED  BY <4>1
    <3>2. CASE task[r].pc # "prune"
      <4>1. CASE Finished(r)
        <5>1. Record(r) \/ Abort(r) \/ Crash(r)
          BY <2>3, <3>2, <4>1 DEF Finished, NoSweep, DigestStep, Progress, Begin, Load, EndOfScopes, Quarantine,
                 ExtractSome, Extract, Filter, Match, Cover, Update, Rewrite, Probe, Insert, Link, Review,
                 Mark, PruneDelete
        <5>2. Goto(r, EndedTask) /\ EndedTask.pc = "ended"
          BY <5>1 DEF Record, Abort, Crash, Ending, EndedTask, FreshTask
        <5> QED  BY <1>0, <2>1, <5>2, GotoSame DEF NoSweep
      <4>2. CASE ~Finished(r)
        <5>1. ~Finished(r)' \/ Mark(r) \/ task'[r] = EndedTask  BY <4>2, EndingStep
        <5>2. CASE Mark(r)
          <6> DEFINE t == [FreshTask EXCEPT !.pc = "prune", !.lost = task[r].lost]
          <6>1. t.pc = "prune" /\ Goto(r, t)  BY <5>2 DEF FreshTask, Mark
          <6> HIDE DEF t
          <6> QED  BY <1>0, <2>1, <6>1, GotoSame DEF NoSweep
        <5> QED  BY <2>1, <5>1, <5>2 DEF NoSweep, Finished, EndedTask, FreshTask
      <4> QED  BY <4>1, <4>2
    <3> QED  BY <2>1, <3>1, <3>2 DEF NoSweep
  <2> QED  BY <2>2, <2>3
<1> QED  BY <1>1, <1>2 DEF Next

\* What recovery does to marks and names.
LEMMA RecoverNamed == ASSUME WInv, RInv', Recover PROVE WInv'
<1>0. UNCHANGED <<task, pend, links, forgotten>>
  BY DEF Recover, Find, Check, Change, Finish, GiveUp, vars, store, history
<1>1. /\ \A e \in Entry : IsStaged(e)' = IsStaged(e)
      /\ \A e \in Entry : IsMarked(e)' => IsMarked(e) \/ IsStaged(e)
  <2>1. CASE Finish
    <3>1. \A e \in Entry : IsStaged(e)' = IsStaged(e)
      BY <2>1, FinishIs, ConstantsAssumption DEF WInv, IsStaged, Unset
    <3>2. \A i \in op.held : i[1] \in Entry /\ IsStaged(i[1])
      BY ConstantsAssumption DEF WInv, RInv, OpInv, WasMarked, Item, IsStaged, Unset
    <3>3. \A e \in Entry, r \in Run : rejections'[e][r] # "none" => rejections[e][r] # "none" \/ <<e, r>> \in op.held
      BY <2>1, FinishIs DEF WInv
    <3> QED  BY <1>0, <3>1, <3>2, <3>3 DEF IsMarked, Linked
  <2>2. CASE ~Finish
    <3>1. UNCHANGED <<watermark, rejections>>
      BY <2>2 DEF Recover, Find, Check, Change, GiveUp, vars, store
    <3> QED  BY <1>0, <3>1 DEF IsStaged, IsMarked, Linked
  <2> QED  BY <2>1, <2>2
<1>2. OnlyStagedMarked'  BY <1>1 DEF WInv, PInv, OnlyStagedMarked
<1>3. TasksNameStaged'  BY <1>0, <1>1 DEF WInv, PInv, TasksNameStaged, Named
<1>4. NoSweep' /\ SweepSettled'  BY <1>0 DEF WInv, NoSweep, SweepSettled
<1> QED  BY <1>2, <1>3, <1>4 DEF WInv, PInv, RInv

LEMMA WInvNext == ASSUME ~Retention, WInv, [RNext]_rvars PROVE WInv'
<1>1. RInv'  BY RInvNext DEF WInv
<1>2. CASE Recover  BY <1>1, <1>2, RecoverNamed
<1>3. CASE Others \/ UNCHANGED rvars
  <2>1. [Next]_vars  BY <1>3 DEF Others, Next, DigestStep, rvars, vars
  <2>2. PInv'  BY <2>1, PInvNext DEF WInv
  <2>3. NoSweep'  BY <2>1, NoSweepStep DEF WInv, PInv, EInv, NoSweep, vars
  <2> QED  BY <1>1, <2>2, <2>3 DEF WInv
<1> QED  BY <1>2, <1>3 DEF RNext

\* A replay's commit reopens settled entries, and takes nothing else's receipt.
LEMMA ReplayReopens ==
  ASSUME WInv, Finish, op.mode = "replay"
  PROVE  Promise!ANext
<1>1. RInv  BY DEF WInv
<1>2. Reopened \in SUBSET Entry /\ \A e \in Reopened : watermark[e] \notin Unset
  BY <1>1, FinishIs, ConstantsAssumption
<1>3. \A e \in Entry : Status(e)' = IF e \in Reopened THEN "open" ELSE Status(e)
  BY <1>1, FinishIs, StatusIs
<1>4. \A e \in Reopened : Status(e) = "settled"  BY <1>2, StatusIs DEF Unset
<1>5. \A e \in Entry : Outcome(e)' => Outcome(e)  BY <1>1, FinishIs DEF Outcome, Linked
<1>6. \A e \in Entry \ Reopened : Outcome(e) => Outcome(e)'
  <2>1. \A e \in Entry \ Reopened : \A r \in Run : <<e, r>> \notin op.held  BY <1>1, FinishIs
  <2>2. \A e \in Entry \ Reopened : \A r \in Run : rejections'[e][r] = rejections[e][r]
    BY <1>1, <2>1, FinishIs
  <2> QED  BY <1>1, <2>2, FinishIs DEF Outcome, Linked
<1>7. \A e \in Entry : watermark'[e] \in {"absent", "pruned"} <=> watermark[e] \in {"absent", "pruned"}
  BY <1>1, <1>2, FinishIs DEF Unset
<1>8. Evidenced' \subseteq Evidenced /\ Evidenced \ Reopened \subseteq Evidenced'
  BY <1>5, <1>6, <1>7, EvidencedIs
<1>9. Promise!Reopen(Reopened)
  <2>1. Reopened \subseteq Promise!InState("settled")  BY <1>2, <1>4 DEF Promise!InState
  <2>2. [e \in Entry |-> Status(e)]' =
          [e \in Entry |-> IF e \in Reopened THEN "open" ELSE [f \in Entry |-> Status(f)][e]]
    BY <1>3
  <2> QED  BY <1>8, <2>1, <2>2 DEF Promise!Reopen
<1> QED  BY <1>2, <1>9 DEF Promise!ANext

\* Everything else a recovery does adds to the outcomes, if anything.
LEMMA RecoverNotes ==
  ASSUME WInv, Recover, ~(Finish /\ op.mode = "replay")
  PROVE  Promise!ANext
<1>1. CASE Finish
  <2>1. RInv /\ op.mode # "replay"  BY <1>1 DEF WInv
  <2>2. Reopened = {}  BY <2>1 DEF Reopened
  <2>3. UNCHANGED watermark
    <3>1. watermark' = [e \in Entry |-> watermark[e]]  BY <1>1, <2>2 DEF Finish
    <3> QED  BY <3>1 DEF WInv, PInv, EInv, TInv, TypeOK
  <2>4. \A e \in Entry : Outcome(e) => Outcome(e)'
    BY <1>1, <2>1, FinishIs DEF Outcome, Linked
  <2> QED  BY <2>3, <2>4, NoteStep
<1>2. CASE ~Finish
  <2>1. UNCHANGED <<watermark, rejections, links, forgotten>>
    BY <1>2 DEF Recover, Find, Check, Change, GiveUp, vars, store, history
  <2> QED  BY <2>1, NoteStep DEF Outcome, Linked
<1> QED  BY <1>1, <1>2

(* With recoveries at any time next to any digests, and without a retention limit:
   an entry comes back to the backlog only by an operator's replay, and nothing
   else loses its outcome by it (schedule_replay, classify_recovery_candidates). *)
THEOREM RecoveryKeepsPromise == ASSUME ~Retention PROVE RSpec => KeepsPromise
<1>1. RInit => Promise!AInit /\ WInv
  <2> SUFFICES ASSUME RInit PROVE Promise!AInit /\ WInv  OBVIOUS
  <2>1. \A e \in Entry : Status(e) = "absent"  BY StatusIs DEF RInit, Init
  <2>2. Evidenced = {}  BY EvidencedIs DEF RInit, Init
  <2>3. NoSweep  BY DEF RInit, Init, NoSweep, FreshTask
  <2> QED  BY <2>1, <2>2, <2>3, RInvInit, PInvInit DEF Promise!AInit, WInv, RInit
<1>2. WInv /\ WInv' /\ [RNext]_rvars => [Promise!ANext]_(Promise!avars)
  <2> SUFFICES ASSUME WInv, WInv', [RNext]_rvars PROVE [Promise!ANext]_(Promise!avars)
    OBVIOUS
  <2>1. CASE UNCHANGED rvars  BY <2>1, StutterKept DEF rvars, vars
  <2>2. CASE Recover  BY <2>2, ReplayReopens, RecoverNotes
  <2>3. CASE Others
    <3>1. Next  BY <2>3 DEF Others, Next, DigestStep
    <3>2. CASE ProviderStep  BY <3>2, ProviderNotes DEF WInv
    <3>3. CASE \E r \in Run : DigestStep(r)
      <4> PICK r \in Run : DigestStep(r)  BY <3>3
      <4> QED  BY MarkSettles, PruneRetires, RunNotes DEF WInv
    <3> QED  BY <3>1, <3>2, <3>3 DEF Next
  <2> QED  BY <2>1, <2>2, <2>3 DEF RNext
<1>3. WInv /\ [RNext]_rvars => WInv'  BY WInvNext
<1> QED  BY <1>1, <1>2, <1>3, PTL DEF RSpec, KeepsPromise, Promise!ASpec

\* While the digests are stopped the candidates stay what they were.
StillFailed(i) == watermark[i[1]] = i[2] /\ rejections[i[1]][i[2]] = "quarantine" /\ ~Linked(i[1])
AloneInv ==
  op.alone =>
    /\ \A r \in Run : ~Active(r)
    /\ \A i \in op.items \cup op.held : StillFailed(i)
    /\ op.pc = "checked" => StillFailed(op.current)

LEMMA AloneOthers == ASSUME TInv, OpInv, AloneInv, Others, op.alone PROVE AloneInv'
<1>1. ProviderStep /\ UNCHANGED op
  <2>1. ASSUME NEW r \in Run, Progress(r) \/ Abort(r) \/ Crash(r) PROVE Active(r)
    BY <2>1 DEF Active, Progress, Load, EndOfScopes, Quarantine, ExtractSome, Extract, Filter, Match, Cover, Update,
           Rewrite, Probe, Insert, Link, Review, Mark, PruneSelect, PruneDelete, Record, Abort, Crash, Ending
  <2>2. \A r \in Run : ~Active(r)  BY DEF AloneInv
  <2> QED  BY <2>1, <2>2 DEF Others
<1>2. UNCHANGED <<rejections, task>>
  BY <1>1 DEF ProviderStep, AppendEntry, Archive, HardDelete, UserStore
<1>3. \A e \in Entry : watermark'[e] = watermark[e] \/ watermark[e] = "absent"
  BY <1>1 DEF ProviderStep, AppendEntry, Archive, HardDelete, UserStore, TInv, TypeOK
<1>4. \A e : Linked(e)' => Linked(e)
  <2>1. links' \subseteq links
    BY <1>1 DEF ProviderStep, AppendEntry, Archive, HardDelete, UserStore
  <2> QED  BY <2>1 DEF Linked
<1>5. \A i : WasMarked(i) /\ StillFailed(i) => StillFailed(i)'
  <2> SUFFICES ASSUME NEW i, WasMarked(i), StillFailed(i) PROVE StillFailed(i)'  OBVIOUS
  <2>1. i[1] \in Entry /\ watermark[i[1]] # "absent"
    BY ConstantsAssumption DEF WasMarked, Item, Unset
  <2> QED  BY <1>2, <1>3, <1>4, <2>1 DEF StillFailed
<1> QED  BY <1>1, <1>2, <1>5 DEF AloneInv, OpInv, Active

LEMMA AloneNext == ASSUME RInv, AloneInv, [RNext]_rvars PROVE AloneInv'
<1>1. CASE UNCHANGED rvars  BY <1>1 DEF rvars, AloneInv, Active, StillFailed, Linked
<1>2. CASE Others
  <2>1. CASE op.alone  BY <1>2, <2>1, AloneOthers DEF RInv, EInv
  <2>2. CASE ~op.alone  BY <1>2, <2>2 DEF Others, AloneInv
  <2> QED  BY <2>1, <2>2
<1>3. CASE \E mode \in {"replay", "classify"}, alone \in BOOLEAN : Find(mode, alone)
  <2> PICK mode \in {"replay", "classify"}, alone \in BOOLEAN : Find(mode, alone)  BY <1>3
  <2>1. UNCHANGED vars /\ op.held = {} /\ (alone => \A r \in Run : ~Active(r))
    BY DEF Find, RInv, OpInv
  <2>2. PICK I \in SUBSET ReplayCandidates :
           op' = [op EXCEPT !.pc = "next", !.mode = mode, !.alone = alone, !.items = I]
    BY DEF Find
  <2>3. op'.alone = alone /\ op'.items = I /\ op'.held = {} /\ op'.pc = "next"
    BY <2>1, <2>2 DEF RInv, OpInv
  <2>4. \A i \in I : StillFailed(i)  BY DEF ReplayCandidates, StillFailed
  <2> QED  BY <2>1, <2>3, <2>4 DEF AloneInv, vars, Active, StillFailed, Linked
<1>4. CASE \E i \in Item : Check(i)
  <2> PICK i \in Item : Check(i)  BY <1>4
  <2>1. UNCHANGED vars /\ i \in op.items  BY DEF Check
  <2>2. /\ op'.alone = op.alone /\ op'.items \subseteq op.items /\ op'.held = op.held
        /\ op'.pc = "checked" => op'.current = i
    BY DEF Check, RInv, OpInv
  <2> QED  BY <2>1, <2>2 DEF AloneInv, vars, Active, StillFailed, Linked
<1>5. CASE Change
  <2>1. UNCHANGED <<store, task>> /\ op.pc = "checked"  BY <1>5 DEF Change
  <2>2. /\ op'.alone = op.alone /\ op'.items = op.items /\ op'.held \subseteq op.held \cup {op.current}
        /\ op'.pc = "next"
    BY <1>5 DEF Change, RInv, OpInv
  <2> QED  BY <2>1, <2>2 DEF AloneInv, store, Active, StillFailed, Linked
<1>6. CASE Finish \/ GiveUp  BY <1>6, IdleOpIs DEF Finish, GiveUp, AloneInv
<1> QED  BY <1>1, <1>2, <1>3, <1>4, <1>5, <1>6 DEF RNext, Recover

LEMMA AloneReopens == ASSUME RInv, AloneInv, RNext, op.alone PROVE FailuresReopened
<1>1. CASE Finish
  <2> SUFFICES ASSUME NEW e \in Entry, watermark[e] \in Run, watermark'[e] = "unprocessed"
               PROVE  rejections[e][watermark[e]] = "quarantine" /\ ~Linked(e)
    BY DEF FailuresReopened
  <2>1. e \in Reopened  BY <1>1, FinishIs, ConstantsAssumption DEF Unset
  <2>2. PICK i \in op.held : i[1] = e  BY <2>1 DEF Reopened
  <2> QED  BY <2>2 DEF AloneInv, StillFailed
<1>2. CASE ~Finish /\ Recover
  <2>1. UNCHANGED watermark  BY <1>2 DEF Recover, Find, Check, Change, GiveUp, vars, store
  <2> QED  BY <2>1, ConstantsAssumption DEF FailuresReopened, Unset
<1>3. CASE Others
  <2>1. Next /\ TInv  BY <1>3 DEF Others, Next, DigestStep, RInv, EInv
  <2> QED  BY <2>1, WatermarkStep, ConstantsAssumption DEF FailuresReopened, Unset
<1> QED  BY <1>1, <1>2, <1>3 DEF RNext

(* A recovery for which the digests were stopped reopens only entries whose last
   digest failed and left no memory, while the provider goes on storing,
   archiving and deleting (find_replay_candidates). *)
THEOREM AloneReopensFailures == RSpec => AloneReopensOnlyFailures
<1>1. RInit => AloneInv  BY IdleOpIs DEF RInit, AloneInv
<1>2. RInv /\ AloneInv /\ [RNext]_rvars => [op.alone => FailuresReopened]_rvars
  BY AloneReopens
<1> QED  BY <1>1, <1>2, AloneNext, RInvInit, RInvNext, PTL DEF RSpec, AloneReopensOnlyFailures

====
