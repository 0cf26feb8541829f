------------------------ MODULE NightlyDigestProofs ------------------------
(* Theorems about NightlyDigest for any runs, sessions, candidates and failures:
   what a successful run wrote can be traced, what the profile may only read
   stays, and the sweeps of overlapping runs leave no text twice. *)
EXTENDS NightlyDigest, FiniteSetTheorems, TLAPS

\* What a process of the digest has in hand has these fields.
Field == {"pc", "by", "todo", "chunk", "attempt", "own", "got", "events", "seen", "id", "text",
          "doomed", "swept", "found"}
HandLike(j) == j = [x \in Field |-> j[x]] /\ j.swept \in BOOLEAN

RowLike(w) == w = [x \in {"text", "scope", "life", "at", "run"} |-> w[x]]

Rows ==
    /\ given \in Nat /\ now \in Nat /\ There \subseteq 1..given
    /\ row = [m \in There |-> row[m]]
    /\ \A m \in There : RowLike(row[m]) /\ row[m].at \in Nat

\* A run may cite a row it updated or stored, which is one it may write.
Citing(r) ==
    nightly[r].pc = "cite" =>
        /\ nightly[r].id \in 1..given
        /\ nightly[r].id \in There => row[nightly[r].id].scope \in Writable

\* A row that r wrote last is traced to it, or r is about to do so, or r fails.
Traced(r) ==
    \A m \in There : row[m].run = r =>
        \/ <<m, r>> \in sources
        \/ nightly[r].pc = "cite" /\ nightly[r].id = m
        \/ nightly[r].pc \in {"failed", "dead"}
        \/ nightly[r].pc = "done" /\ ledger[r] = "error"

Twins(m, k) == m # k /\ row[m].scope = row[k].scope /\ row[m].scope \in Writable /\ row[m].text = row[k].text

\* A process has yet to sweep m or k away, or did not come to its end.
Late == {"off", "done", "record", "delete"}
Due(job, m, k) ==
    \/ job.pc \notin Late
    \/ job.pc # "off" /\ ~job.swept
    \/ job.pc = "delete" /\ (m \in job.doomed \/ k \in job.doomed)

\* Somebody else made the twins after the last sweep looked.
Foreign(m, k) == m \in fresh \/ k \in fresh

Swept == \A m, k \in There : Twins(m, k) => Foreign(m, k) \/ \E r \in Run : Due(nightly[r], m, k)

Jobs ==
    /\ nightly = [r \in Run |-> nightly[r]] /\ ledger = [r \in Run |-> ledger[r]]
    /\ \A r \in Run : /\ HandLike(nightly[r])
                      /\ ledger[r] # "none" => nightly[r].pc = "done"

NInv ==
    /\ Rows /\ Jobs /\ Swept
    /\ \A r \in Run : Citing(r) /\ Traced(r)

(* ------------------------------ one step ------------------------------ *)

LEMMA GoesTo ==
  ASSUME NInv, NEW r \in Run, NEW j, Goes(r, j)
  PROVE  /\ nightly' = [u \in Run |-> nightly'[u]] /\ nightly'[r] = j
         /\ \A u \in Run : u # r => nightly'[u] = nightly[u]
  BY DEF NInv, Jobs, Goes

\* What r may do to the rows, as far as other runs rely on them.
Wrote(r) ==
    /\ given' \in Nat /\ given <= given'
    /\ \A m \in There', u \in Run : m \in There /\ <<m, u>> \in sources => <<m, u>> \in sources'
    /\ \A m \in There' : m \in 1..given => /\ m \in There /\ row'[m].scope = row[m].scope
                                           /\ row'[m].run \in {row[m].run, r}
    /\ \A m \in There' : m \notin 1..given => row'[m].run = r

\* What is left of the twins is still due after r's step to j.
SweepsOn(r, j) ==
    /\ \A m \in There' : m \in There /\ row'[m].scope = row[m].scope /\ row'[m].text = row[m].text
    /\ \A m, k \in There' : Twins(m, k) /\ Due(nightly[r], m, k) => Due(j, m, k)
    /\ \A m, k \in There' : Twins(m, k) /\ Foreign(m, k) => Foreign(m, k)' \/ Due(j, m, k)

LEMMA StepKeeps ==
  ASSUME NInv, NEW r \in Run, NEW j, Goes(r, j), HandLike(j), Rows', Wrote(r), Citing(r)', Traced(r)',
         ledger' = [u \in Run |-> ledger'[u]], \A u \in Run : u # r => ledger'[u] = ledger[u],
         ledger'[r] # "none" => j.pc = "done",
         j.pc \notin Late \/ SweepsOn(r, j)
  PROVE  NInv'
<1>1. /\ nightly' = [u \in Run |-> nightly'[u]] /\ nightly'[r] = j
      /\ \A u \in Run : u # r => nightly'[u] = nightly[u]
  BY GoesTo
<1>2. Jobs'  BY <1>1 DEF NInv, Jobs
<1>3. ASSUME NEW u \in Run, u # r PROVE Citing(u)' /\ Traced(u)'
  <2>1. nightly'[u] = nightly[u] /\ ledger'[u] = ledger[u] /\ Citing(u) /\ Traced(u)  BY <1>1, <1>3 DEF NInv
  <2>2. Citing(u)'
    <3> SUFFICES ASSUME nightly[u].pc = "cite"
                 PROVE  /\ nightly[u].id \in 1..given'
                        /\ nightly[u].id \in There' => row'[nightly[u].id].scope \in Writable
      BY <2>1 DEF Citing
    <3>1. nightly[u].id \in 1..given /\ (nightly[u].id \in There => row[nightly[u].id].scope \in Writable)
      BY <2>1 DEF Citing
    <3>2. nightly[u].id \in 1..given'  BY <3>1 DEF Wrote, NInv, Rows
    <3>3. nightly[u].id \in There' => row'[nightly[u].id].scope \in Writable  BY <3>1 DEF Wrote
    <3> QED  BY <3>2, <3>3
  <2>3. Traced(u)'
    <3> SUFFICES ASSUME NEW m \in There', row'[m].run = u
                 PROVE  \/ <<m, u>> \in sources'
                        \/ nightly[u].pc = "cite" /\ nightly[u].id = m
                        \/ nightly[u].pc \in {"failed", "dead"}
                        \/ nightly[u].pc = "done" /\ ledger[u] = "error"
      BY <2>1 DEF Traced
    <3>1. m \in There /\ row[m].run = u  BY <1>3 DEF Wrote
    <3> QED  BY <2>1, <3>1 DEF Traced, Wrote
  <2> QED  BY <2>2, <2>3
<1>4. Swept'
  <2> SUFFICES ASSUME NEW m \in There', NEW k \in There', Twins(m, k)'
               PROVE  Foreign(m, k)' \/ \E u \in Run : Due(nightly'[u], m, k)
    BY DEF Swept, Due
  <2>1. CASE j.pc \notin Late  BY <1>1, <2>1 DEF Due
  <2>2. CASE SweepsOn(r, j)
    <3>1. m \in There /\ k \in There /\ Twins(m, k)  BY <2>2 DEF SweepsOn, Twins
    <3>2. CASE Foreign(m, k)  BY <1>1, <2>2, <3>1, <3>2 DEF SweepsOn
    <3>3. ASSUME NEW u \in Run, Due(nightly[u], m, k) PROVE \E v \in Run : Due(nightly'[v], m, k)
      <4>1. CASE u = r  BY <1>1, <2>2, <3>1, <3>3, <4>1 DEF SweepsOn
      <4>2. CASE u # r  BY <1>1, <3>3, <4>2
      <4> QED  BY <4>1, <4>2
    <3> QED  BY <3>1, <3>2, <3>3 DEF NInv, Swept
  <2> QED  BY <2>1, <2>2
<1>5. \A u \in Run : Citing(u)' /\ Traced(u)'  BY <1>3
<1> QED  BY <1>2, <1>4, <1>5 DEF NInv

\* A step that touches no row.
LEMMA OnlyGoes ==
  ASSUME NInv, NEW r \in Run, NEW j, Goes(r, j), HandLike(j), Stays, nightly[r].pc # "done", j.pc # "cite",
         nightly[r].pc \in {"cite", "failed", "dead"} => j.pc \in {"failed", "dead"},
         \A m, k \in There : Twins(m, k) /\ Due(nightly[r], m, k) => Due(j, m, k),
         fresh' = fresh \/ \A m, k \in There : Twins(m, k) => Due(j, m, k)
  PROVE  NInv'
<1>1. nightly'[r] = j /\ There' = There  BY GoesTo DEF Stays, There
<1>2. Rows'  BY <1>1 DEF NInv, Rows, Stays
<1>3. Wrote(r)  BY <1>1 DEF NInv, Rows, Wrote, Stays
<1>4. Citing(r)'  BY <1>1 DEF Citing
<1>5. ledger[r] = "none"  BY DEF NInv, Jobs
<1>6. Traced(r)'
  <2>1. Traced(r)  BY DEF NInv
  <2> QED  BY <1>1, <1>5, <2>1 DEF Traced, Stays
<1>7. SweepsOn(r, j)  BY <1>1 DEF SweepsOn, Foreign, Stays
<1>8. ledger' = [u \in Run |-> ledger'[u]] /\ \A u \in Run : ledger'[u] = ledger[u]  BY DEF NInv, Jobs, Stays
<1> QED  BY <1>2, <1>3, <1>4, <1>5, <1>6, <1>7, <1>8, StepKeeps

(* ------------------------- what is in hand ---------------------------- *)

LEMMA Dropped ==
  ASSUME NEW j, HandLike(j)
  PROVE  HandLike(Drop(j)) /\ Drop(j).pc = "apply"
  BY DEF HandLike, Drop, Field

LEMMA Closed ==
  ASSUME NEW j, HandLike(j), NEW more
  PROVE  HandLike(Close(j, more)) /\ Close(j, more).pc \in {"apply", "collect"}
  BY DEF HandLike, Close, Field

LEMMA Idles ==
  ASSUME NEW pc
  PROVE  /\ HandLike([Idle EXCEPT !.pc = pc]) /\ [Idle EXCEPT !.pc = pc].pc = pc
         /\ [Idle EXCEPT !.pc = pc].swept = FALSE
  BY DEF HandLike, Idle, Field

\* Only a run that is over, or about to be, owes nothing.
LEMMA DueEarly == ASSUME NEW j, j.pc \notin Late \/ (j.pc # "off" /\ ~j.swept)
                  PROVE  \A m, k \in There : Due(j, m, k)
  BY DEF Due

(* ---------------------------- the actions ----------------------------- *)

\* A run that collects or applies goes on, or stops short.
LEMMA EarlyGoes ==
  ASSUME NInv, NEW r \in Run, NEW j, Goes(r, j), HandLike(j), Keep,
         nightly[r].pc \notin {"done", "cite", "failed", "dead"}, j.pc # "cite",
         j.pc \notin Late \/ (j.pc # "off" /\ ~j.swept)
  PROVE  NInv'
  BY DueEarly, OnlyGoes DEF Keep

LEMMA CollectStep ==
  ASSUME NInv, NEW r \in Run,
         \/ Start(r) \/ Extracts(r)
         \/ \E reply \in Replies : Replied(r, reply)
         \/ \E f \in Failure : CallFails(r, f)
  PROVE  NInv'
<1>0. HandLike(nightly[r])  BY DEF NInv, Jobs
<1>1. CASE Start(r)
  <2>1. PICK extractor : Goes(r, IF Bundles = <<>> THEN [Idle EXCEPT !.pc = "done"]
                                 ELSE [Idle EXCEPT !.pc = "collect", !.by = extractor, !.todo = Bundles])
    BY <1>1 DEF Start
  <2> DEFINE j == [Idle EXCEPT !.pc = "collect", !.by = extractor, !.todo = Bundles]
             e == [Idle EXCEPT !.pc = "done"]
  <2>2. HandLike(j) /\ j.pc = "collect"  BY DEF HandLike, Idle, Field
  <2>3. HandLike(e) /\ e.pc = "done" /\ ~e.swept  BY Idles
  <2>4. Keep /\ nightly[r].pc = "off"  BY <1>1 DEF Start
  <2>5. Goes(r, j) \/ Goes(r, e)  BY <2>1
  <2> HIDE DEF j, e
  <2> QED  BY <2>2, <2>3, <2>4, <2>5, EarlyGoes DEF Late
<1>2. CASE Extracts(r)
  <2> DEFINE j == Close(nightly[r], Heuristic(Session(r)))
  <2>1. HandLike(j) /\ j.pc \in {"apply", "collect"}  BY <1>0, Closed
  <2>2. Keep /\ nightly[r].pc = "collect" /\ Goes(r, j)  BY <1>2 DEF Extracts
  <2> HIDE DEF j
  <2> QED  BY <2>1, <2>2, EarlyGoes DEF Late
<1>3. CASE \E reply \in Replies : Replied(r, reply)
  <2>1. PICK reply \in Replies : Replied(r, reply)  BY <1>3
  <2> DEFINE status == ReplyStatus(reply)
             lost == status \in {"empty", "parse"}
             own == nightly[r].own \o SetToSeq({d \in reply.items : Allowed(d)})
             events == IF lost THEN nightly[r].events \cup {"llm_skipped"} ELSE nightly[r].events
             read == [nightly[r] EXCEPT !.attempt = 1, !.chunk = @ + 1, !.own = own, !.events = events]
             all == Close(read, <<>>)
             none == [Idle EXCEPT !.pc = "failed"]
  <2>2. /\ nightly[r].pc = "collect" /\ Keep
        /\ Goes(r, IF lost /\ ~AllowFallback THEN none
                   ELSE IF nightly[r].chunk = ChunkCount(Session(r)) THEN all ELSE read)
    BY <2>1 DEF Replied
  <2> HIDE DEF status, lost, own, events
  <2>3. HandLike(read) /\ read.pc = "collect"  BY <1>0, <2>2 DEF HandLike, Field
  <2> HIDE DEF read
  <2>4. HandLike(all) /\ all.pc \in {"apply", "collect"}  BY <2>3, Closed
  <2>5. HandLike(none) /\ none.pc = "failed"  BY Idles
  <2> HIDE DEF all, none
  <2>6. Goes(r, none) \/ Goes(r, all) \/ Goes(r, read)  BY <2>2
  <2> QED  BY <2>2, <2>3, <2>4, <2>5, <2>6, EarlyGoes DEF Late
<1>4. CASE \E f \in Failure : CallFails(r, f)
  <2>1. PICK f \in Failure : CallFails(r, f)  BY <1>4
  <2> DEFINE kind == Classify(Raised(f))
             again == [nightly[r] EXCEPT !.attempt = @ + 1]
             noted == [nightly[r] EXCEPT !.events = @ \cup {kind.kind}]
             rest == Close(noted, Heuristic(Session(r)))
             none == [Idle EXCEPT !.pc = "failed"]
  <2>2. /\ nightly[r].pc = "collect" /\ Keep
        /\ Goes(r, IF Classify(f.words).retry /\ nightly[r].attempt < MaxAttempts THEN again
                   ELSE IF ~AllowFallback \/ ~kind.retry THEN none ELSE rest)
    BY <2>1 DEF CallFails
  <2> HIDE DEF kind
  <2>3. HandLike(again) /\ again.pc = "collect" /\ HandLike(noted)  BY <1>0, <2>2 DEF HandLike, Field
  <2> HIDE DEF again, noted
  <2>4. HandLike(rest) /\ rest.pc \in {"apply", "collect"}  BY <2>3, Closed
  <2>5. HandLike(none) /\ none.pc = "failed"  BY Idles
  <2> HIDE DEF rest, none
  <2>6. Goes(r, none) \/ Goes(r, again) \/ Goes(r, rest)  BY <2>2
  <2> QED  BY <2>2, <2>3, <2>4, <2>5, <2>6, EarlyGoes DEF Late
<1> QED  BY <1>1, <1>2, <1>3, <1>4

\* A step that leaves every row, or ends one way or another.
LEMMA StopStep ==
  ASSUME NInv, NEW r \in Run, Break(r) \/ Die(r)
  PROVE  NInv'
<1> DEFINE f == [Idle EXCEPT !.pc = "failed"]
           d == [Idle EXCEPT !.pc = "dead"]
<1>1. HandLike(f) /\ f.pc = "failed" /\ HandLike(d) /\ d.pc = "dead"  BY Idles
<1>2. \/ Goes(r, f) /\ nightly[r].pc \notin {"done"}
      \/ Goes(r, d) /\ nightly[r].pc \notin {"done"}
  BY DEF Break, Die
<1>3. Keep  BY DEF Break, Die
<1> HIDE DEF f, d
<1> QED  BY <1>1, <1>2, <1>3, DueEarly, OnlyGoes DEF Late, Keep

LEMMA MatchStep == ASSUME NInv, NEW r \in Run, MatchRow(r) PROVE NInv'
<1> DEFINE job == nightly[r]
           c == Head(job.got)
           tagged == [job EXCEPT !.seen = @ \cup {c.text}]
           new == [tagged EXCEPT !.pc = "store"]
           next(m) == [tagged EXCEPT !.pc = "update", !.id = m, !.text = row[m].text \cup c.text]
<1>0. HandLike(job)  BY DEF NInv, Jobs
<1>1. HandLike(tagged)  BY <1>0 DEF HandLike, Field
<1>2. job.pc = "apply" /\ Keep  BY DEF MatchRow
<1>3. \/ Goes(r, Drop(job)) \/ Goes(r, Drop(tagged)) \/ Goes(r, new) \/ \E m : Goes(r, next(m))
  BY DEF MatchRow
<1> HIDE DEF tagged
<1>4. HandLike(Drop(job)) /\ Drop(job).pc = "apply" /\ HandLike(Drop(tagged)) /\ Drop(tagged).pc = "apply"
  BY <1>0, <1>1, Dropped
<1>5. HandLike(new) /\ new.pc = "store"  BY <1>1 DEF HandLike, Field
<1>6. ASSUME NEW m PROVE HandLike(next(m)) /\ next(m).pc = "update"  BY <1>1 DEF HandLike, Field
<1> HIDE DEF new, next
<1>7. ASSUME NEW j, Goes(r, j), HandLike(j), j.pc \in {"apply", "store", "update"} PROVE NInv'
  BY <1>2, <1>7, EarlyGoes DEF Late
<1> QED  BY <1>3, <1>4, <1>5, <1>6, <1>7

LEMMA UpdateStep == ASSUME NInv, NEW r \in Run, UpdateRow(r) PROVE NInv'
<1> DEFINE job == nightly[r]
           j == [job EXCEPT !.pc = "cite"]
<1>0. HandLike(job) /\ given \in Nat /\ now \in Nat  BY DEF NInv, Jobs, Rows
<1>1. job.pc = "update"  BY DEF UpdateRow
<1>2. CASE ~CanWrite(job.id)
  <2>1. Goes(r, Drop(job)) /\ Keep  BY <1>2 DEF UpdateRow, Keep, Stays, others
  <2>2. HandLike(Drop(job)) /\ Drop(job).pc = "apply"  BY <1>0, Dropped
  <2> QED  BY <1>1, <2>1, <2>2, EarlyGoes DEF Late
<1>3. CASE CanWrite(job.id)
  <2>1. /\ Goes(r, j) /\ now' = now + 1 /\ UNCHANGED <<given, sources, ledger>>
        /\ row' = [row EXCEPT ![job.id].text = job.text, ![job.id].life = "promoted", ![job.id].at = now']
        /\ job.id \in There /\ row[job.id].scope \in Writable
    BY <1>3 DEF UpdateRow, CanWrite, Touch
  <2>2. HandLike(j) /\ j.pc = "cite" /\ j.id = job.id
    BY <1>0 DEF HandLike, Field
  <2> HIDE DEF j
  <2>3. nightly'[r] = j  BY <2>1, GoesTo
  <2>4. There' = There  BY <2>1 DEF There
  <2>5. \A m \in There : RowLike(row[m])' /\ row'[m].at \in Nat /\ row'[m].scope = row[m].scope /\ row'[m].run = row[m].run
    <3>1. now' \in Nat
      <4>1. now' = now + 1  BY <2>1
      <4> QED  BY <1>0, <4>1
    <3> SUFFICES ASSUME NEW m \in There
                 PROVE RowLike(row'[m]) /\ row'[m].at \in Nat /\ row'[m].scope = row[m].scope /\ row'[m].run = row[m].run
      OBVIOUS
    <3>2. RowLike(row[m]) /\ row[m].at \in Nat  BY DEF NInv, Rows
    <3>3. CASE m # job.id  BY <2>1, <3>2, <3>3 DEF There
    <3>4. CASE m = job.id
      <4>1. row'[m] = [row[m] EXCEPT !.text = job.text, !.life = "promoted", !.at = now']  BY <2>1, <3>4 DEF There
      <4> QED  BY <3>1, <3>2, <4>1 DEF RowLike
    <3> QED  BY <3>3, <3>4
  <2>6. Rows'
    <3>1. now' \in Nat /\ given' \in Nat
      <4>1. now' = now + 1 /\ given' = given  BY <2>1
      <4> QED  BY <1>0, <4>1
    <3>2. row' = [m \in There' |-> row'[m]]  BY <2>1, <2>4 DEF NInv, Rows, There
    <3> QED  BY <2>1, <2>4, <2>5, <3>1, <3>2 DEF NInv, Rows
  <2>7. Wrote(r)
    <3>1. given' = given /\ sources' = sources /\ There \subseteq 1..given  BY <2>1 DEF NInv, Rows
    <3> QED  BY <1>0, <2>4, <2>5, <3>1 DEF Wrote
  <2>8. Citing(r)'  BY <2>1, <2>2, <2>3, <2>4, <2>5 DEF Citing, NInv, Rows
  <2>9. Traced(r)'
    <3>1. Traced(r) /\ ledger[r] # "error"  BY <1>1 DEF NInv, Jobs
    <3> QED  BY <1>1, <2>1, <2>4, <2>5, <3>1 DEF Traced
  <2>10. ledger' = [u \in Run |-> ledger'[u]] /\ ledger[r] = "none"  BY <1>1, <2>1 DEF NInv, Jobs
  <2> QED  BY <2>1, <2>2, <2>6, <2>7, <2>8, <2>9, <2>10, StepKeeps DEF Late
<1> QED  BY <1>2, <1>3

\* A statement that changes one row.
LEMMA OneRow ==
  ASSUME NInv, NEW m \in There, NEW w, RowLike(w), w.at \in Nat, row' = [row EXCEPT ![m] = w],
         given' = given, now' \in Nat
  PROVE  /\ Rows' /\ There' = There /\ row'[m] = w
         /\ \A k \in There : k # m => row'[k] = row[k]
<1>1. There' = There /\ row'[m] = w /\ \A k \in There : k # m => row'[k] = row[k]  BY DEF There
<1>2. row' = [k \in There' |-> row'[k]]  BY <1>1 DEF NInv, Rows
<1> QED  BY <1>1, <1>2 DEF NInv, Rows

LEMMA StoreStep == ASSUME NInv, NEW r \in Run, StoreRow(r) PROVE NInv'
<1> DEFINE job == nightly[r]
           j == [job EXCEPT !.pc = "put"]
           d == Drop(job)
<1>0. HandLike(job) /\ given \in Nat /\ now \in Nat /\ job.pc = "store"  BY DEF NInv, Jobs, Rows, StoreRow
<1>1. HandLike(j) /\ j.pc = "put"  BY <1>0 DEF HandLike, Field
<1>2. HandLike(d) /\ d.pc = "apply"  BY <1>0, Dropped
<1>3. ledger[r] = "none" /\ ledger' = [u \in Run |-> ledger'[u]] /\ UNCHANGED <<given, sources, ledger>>
  BY <1>0 DEF NInv, Jobs, StoreRow
<1>4. \/ Goes(r, j) /\ Keep
      \/ Goes(r, d) /\ Touch /\ \E m \in There : row' = [row EXCEPT ![m].at = now']
  BY DEF StoreRow, Keep, Stays, others, TouchTwin, Live
<1> HIDE DEF j, d
<1>5. CASE Goes(r, j) /\ Keep  BY <1>0, <1>1, <1>5, EarlyGoes DEF Late
<1>6. CASE Goes(r, d) /\ Touch /\ \E m \in There : row' = [row EXCEPT ![m].at = now']
  <2>1. PICK m \in There : row' = [row EXCEPT ![m].at = now']  BY <1>6
  <2> DEFINE w == [row[m] EXCEPT !.at = now']
  <2>2. now' \in Nat
    <3>1. now' = now + 1  BY <1>6 DEF Touch
    <3> QED  BY <1>0, <3>1
  <2>3. RowLike(w) /\ w.at \in Nat /\ w.scope = row[m].scope /\ w.run = row[m].run
    <3>1. RowLike(row[m])  BY DEF NInv, Rows
    <3> QED  BY <2>2, <3>1 DEF RowLike
  <2>4. row' = [row EXCEPT ![m] = w]  BY <2>1
  <2> HIDE DEF w
  <2>5. Rows' /\ There' = There /\ \A k \in There : row'[k].scope = row[k].scope /\ row'[k].run = row[k].run
    BY <1>3, <2>2, <2>3, <2>4, OneRow
  <2>6. Wrote(r)
    <3>1. given' = given /\ sources' = sources /\ There \subseteq 1..given  BY <1>3 DEF NInv, Rows
    <3> QED  BY <1>0, <2>5, <3>1 DEF Wrote
  <2>7. nightly'[r] = d  BY <1>6, GoesTo
  <2>8. Citing(r)'  BY <1>2, <2>7 DEF Citing
  <2>9. Traced(r)'
    <3>1. Traced(r)  BY DEF NInv
    <3> QED  BY <1>0, <1>3, <2>5, <3>1 DEF Traced
  <2> QED  BY <1>2, <1>3, <1>6, <2>5, <2>6, <2>8, <2>9, StepKeeps DEF Late
<1> QED  BY <1>4, <1>5, <1>6

LEMMA PutStep == ASSUME NInv, NEW r \in Run, PutRow(r) PROVE NInv'
<1> DEFINE job == nightly[r]
           c == Head(job.got)
           w == [text |-> c.text, scope |-> "shared", life |-> LifeOf(c), at |-> now', run |-> r]
           n == given + 1
           j == [job EXCEPT !.pc = "cite", !.id = given']
<1>0. HandLike(job) /\ given \in Nat /\ now \in Nat /\ There \subseteq 1..given  BY DEF NInv, Jobs, Rows
<1>1. HandLike(j) /\ j.pc = "cite" /\ j.id = given'  BY <1>0 DEF HandLike, Field
<1>2. Goes(r, j) /\ row' = Put(given', w) /\ UNCHANGED <<sources, ledger>> /\ job.pc = "put"
  BY DEF PutRow
<1>3. given' = n /\ n \in Nat /\ now' \in Nat
  <2>1. given' = given + 1 /\ now' = now + 1  BY DEF PutRow, Touch
  <2> QED  BY <1>0, <2>1
<1>4. RowLike(w) /\ w.at = now' /\ w.scope = "shared" /\ w.run = r  BY DEF RowLike
<1> HIDE DEF j, w
<1>5. n \notin There /\ n \notin 1..given /\ 1..given \subseteq 1..n /\ n \in 1..n  BY <1>0
<1>6. /\ There' = There \cup {n} /\ row' = [m \in There' |-> row'[m]] /\ row'[n] = w
      /\ \A m \in There : row'[m] = row[m]
  <2>1. row' = [k \in There \cup {n} |-> IF k = n THEN w ELSE row[k]]  BY <1>2, <1>3 DEF Put
  <2>2. There' = There \cup {n}  BY <2>1 DEF There
  <2> QED  BY <1>5, <2>1, <2>2
<1> HIDE DEF n
<1>7. Rows'
  <2>1. given' \in Nat /\ now' \in Nat /\ There' \subseteq 1..given'  BY <1>0, <1>3, <1>5, <1>6
  <2>2. \A m \in There' : RowLike(row'[m]) /\ row'[m].at \in Nat  BY <1>3, <1>4, <1>6 DEF NInv, Rows
  <2> QED  BY <1>6, <2>1, <2>2 DEF Rows, RowLike
<1>8. Wrote(r)
  <2>1. given' \in Nat /\ given <= given'  BY <1>0, <1>3 DEF n
  <2> QED  BY <1>0, <1>2, <1>4, <1>5, <1>6, <2>1 DEF Wrote
<1>9. nightly'[r] = j  BY <1>2, GoesTo
<1>10. Citing(r)'
  <2>1. row'[given'].scope \in Writable  BY <1>3, <1>4, <1>6 DEF Writable
  <2> QED  BY <1>1, <1>3, <1>5, <1>9, <2>1 DEF Citing
<1>11. ledger[r] = "none" /\ ledger' = [u \in Run |-> ledger'[u]]  BY <1>2 DEF NInv, Jobs
<1>12. Traced(r)'
  <2>1. Traced(r)  BY DEF NInv
  <2> QED  BY <1>1, <1>2, <1>3, <1>6, <1>9, <1>11, <2>1 DEF Traced
<1> QED  BY <1>1, <1>2, <1>7, <1>8, <1>10, <1>11, <1>12, StepKeeps DEF Late

\* The row is marked with the run, if it is still there, and cited or the run fails.
LEMMA CiteStep == ASSUME NInv, NEW r \in Run, CiteRow(r) \/ BreakCited(r) PROVE NInv'
<1> DEFINE job == nightly[r]
           id == job.id
           d == Drop(job)
           f == [Idle EXCEPT !.pc = "failed"]
           w == [row[id] EXCEPT !.run = r]
<1>0. HandLike(job) /\ given \in Nat /\ now \in Nat /\ job.pc = "cite" /\ Citing(r) /\ Traced(r)
  BY DEF NInv, Jobs, Rows, CiteRow, BreakCited
<1>1. HandLike(d) /\ d.pc = "apply"  BY <1>0, Dropped
<1>2. HandLike(f) /\ f.pc = "failed"  BY Idles
<1>3. /\ UNCHANGED <<given, ledger, now>>
      /\ row' = IF id \in There THEN [row EXCEPT ![id].run = r] ELSE row
      /\ \/ Goes(r, d) /\ sources' = sources \cup {<<id, r>>}
         \/ Goes(r, f) /\ sources' \in {sources, sources \cup {<<id, r>>}}
  BY DEF CiteRow, BreakCited
<1> HIDE DEF d, f
<1>4. /\ Rows' /\ There' = There
      /\ \A m \in There : row'[m].scope = row[m].scope /\ row'[m].run = IF m = id THEN r ELSE row[m].run
  <2>1. CASE id \notin There
    <3>1. row' = row /\ There' = There  BY <1>3, <2>1 DEF There
    <3> QED  BY <1>3, <2>1, <3>1 DEF NInv, Rows
  <2>2. CASE id \in There
    <3>1. row' = [row EXCEPT ![id] = w]  BY <1>3, <2>2
    <3>2. RowLike(w) /\ w.at \in Nat /\ w.scope = row[id].scope /\ w.run = r
      <4>1. RowLike(row[id]) /\ row[id].at \in Nat  BY <2>2 DEF NInv, Rows
      <4> QED  BY <4>1 DEF RowLike
    <3> HIDE DEF w
    <3>3. now' \in Nat /\ given' = given  BY <1>0, <1>3
    <3>4. /\ Rows' /\ There' = There /\ row'[id] = w
          /\ \A k \in There : k # id => row'[k] = row[k]
      BY <2>2, <3>1, <3>2, <3>3, OneRow
    <3> QED  BY <3>2, <3>4
  <2> QED  BY <2>1, <2>2
<1>5. given' = given /\ sources \subseteq sources' /\ There \subseteq 1..given  BY <1>3 DEF NInv, Rows
<1>6. Wrote(r)  BY <1>0, <1>4, <1>5 DEF Wrote
<1>7. ledger[r] = "none" /\ ledger' = [u \in Run |-> ledger'[u]] /\ ledger' = ledger
  BY <1>0, <1>3 DEF NInv, Jobs
<1>8. CASE Goes(r, d) /\ sources' = sources \cup {<<id, r>>}
  <2>1. nightly'[r] = d  BY <1>8, GoesTo
  <2>2. Citing(r)'  BY <1>1, <2>1 DEF Citing
  <2>3. Traced(r)'  BY <1>0, <1>4, <1>7, <1>8, <2>1 DEF Traced
  <2> QED  BY <1>1, <1>4, <1>6, <1>7, <1>8, <2>2, <2>3, StepKeeps DEF Late
<1>9. CASE Goes(r, f)
  <2>1. nightly'[r] = f  BY <1>9, GoesTo
  <2>2. Citing(r)' /\ Traced(r)'  BY <1>2, <2>1 DEF Citing, Traced
  <2> QED  BY <1>2, <1>4, <1>6, <1>7, <1>9, <2>2, StepKeeps DEF Late
<1> QED  BY <1>3, <1>8, <1>9

\* One of two twins is older, and the sweep knows it.
LEMMA OneIsSurplus ==
  ASSUME NInv, NEW m \in There, NEW k \in There, Twins(m, k)
  PROVE  m \in Surplus(Writable) \/ k \in Surplus(Writable)
<1>1. row[m].at \in Nat /\ row[k].at \in Nat /\ m \in Nat /\ k \in Nat  BY DEF NInv, Rows
<1>2. k \in Newer(m) \/ m \in Newer(k)
  <2>1. CASE row[k].at > row[m].at \/ (row[k].at = row[m].at /\ k > m)  BY <2>1 DEF Newer, Twins
  <2>2. CASE row[m].at > row[k].at \/ (row[m].at = row[k].at /\ m > k)  BY <2>2 DEF Newer, Twins
  <2> QED  BY <1>1, <2>1, <2>2 DEF Twins
<1> QED  BY <1>2 DEF Surplus, Twins

LEMMA FindStep == ASSUME NInv, NEW r \in Run, FindDuplicates(r) PROVE NInv'
<1>1. PICK ids \in {{}, Surplus(Writable)} :
         /\ Goes(r, [nightly[r] EXCEPT !.pc = IF ids = {} THEN "record" ELSE "delete", !.doomed = ids,
                                       !.swept = ids = Surplus(Writable)])
         /\ fresh' = IF ids = Surplus(Writable) THEN {} ELSE fresh
  BY DEF FindDuplicates
<1> DEFINE place == IF ids = {} THEN "record" ELSE "delete"
           all == ids = Surplus(Writable)
           j == [nightly[r] EXCEPT !.pc = place, !.doomed = ids, !.swept = all]
<1>2. HandLike(nightly[r]) /\ nightly[r].pc = "apply" /\ Stays  BY DEF NInv, Jobs, FindDuplicates
<1>3. place \in {"record", "delete"} /\ (ids # {} => place = "delete")  OBVIOUS
<1>4. all \in BOOLEAN  OBVIOUS
<1>5. Goes(r, j)  BY <1>1
<1>6. all => ids = Surplus(Writable)  OBVIOUS
<1> HIDE DEF place, all
<1>7. HandLike(j) /\ j.pc = place /\ j.doomed = ids /\ j.swept = all  BY <1>2, <1>4 DEF HandLike, Field
<1> HIDE DEF j
<1>8. ASSUME NEW m \in There, NEW k \in There, Twins(m, k) PROVE Due(j, m, k)
  <2>1. CASE ~all  BY <1>3, <1>7, <2>1 DEF Due
  <2>2. CASE all
    <3>1. m \in ids \/ k \in ids  BY <1>6, <1>8, <2>2, OneIsSurplus
    <3> QED  BY <1>3, <1>7, <3>1 DEF Due
  <2> QED  BY <2>1, <2>2
<1> QED  BY <1>2, <1>3, <1>5, <1>7, <1>8, OnlyGoes

LEMMA DeleteStep == ASSUME NInv, NEW r \in Run, DeleteRows(r) PROVE NInv'
<1> DEFINE job == nightly[r]
           gone == {m \in job.doomed \cap There : row[m].scope \in Writable}
           j == [job EXCEPT !.pc = "record"]
<1>0. HandLike(job) /\ given \in Nat /\ job.pc = "delete" /\ There \subseteq 1..given
  BY DEF NInv, Jobs, Rows, DeleteRows
<1>1. HandLike(j) /\ j.pc = "record" /\ j.swept = job.swept  BY <1>0 DEF HandLike, Field
<1>2. /\ Goes(r, j) /\ UNCHANGED <<given, ledger, now>> /\ row' = [m \in There \ gone |-> row[m]]
      /\ sources' = {s \in sources : s[1] \notin gone}
  BY DEF DeleteRows, Gone
<1>3. \A m \in There : \A k : Twins(m, k) /\ (m \in job.doomed) => m \in gone  BY DEF Twins
<1>4. \A m, k \in There : Twins(m, k) /\ k \in job.doomed => k \in gone  BY DEF Twins
<1> HIDE DEF gone, j
<1>5. There' = There \ gone /\ \A m \in There' : row'[m] = row[m]  BY <1>2 DEF There
<1>6. Rows'
  <2>1. row' = [m \in There' |-> row'[m]]  BY <1>2, <1>5
  <2> QED  BY <1>0, <1>2, <1>5, <2>1 DEF NInv, Rows
<1>7. \A m \in There', u \in Run : <<m, u>> \in sources => <<m, u>> \in sources'  BY <1>2, <1>5
<1>8. Wrote(r)
  <2>1. given' = given  BY <1>2
  <2>2. There' \subseteq There /\ There' \subseteq 1..given  BY <1>0, <1>5
  <2>3. \A m \in There' : row'[m].scope = row[m].scope /\ row'[m].run = row[m].run  BY <1>5
  <2> QED  BY <1>0, <1>7, <2>1, <2>2, <2>3 DEF Wrote
<1>9. nightly'[r] = j  BY <1>2, GoesTo
<1>10. ledger[r] = "none" /\ ledger' = ledger /\ ledger' = [u \in Run |-> ledger'[u]]
  BY <1>0, <1>2 DEF NInv, Jobs
<1>11. Citing(r)'  BY <1>1, <1>9 DEF Citing
<1>12. Traced(r)'
  <2>1. Traced(r)  BY DEF NInv
  <2> QED  BY <1>0, <1>5, <1>7, <1>10, <2>1 DEF Traced
<1>13. SweepsOn(r, j)
  <2>1. ASSUME NEW m \in There', NEW k \in There', Twins(m, k), Due(job, m, k) PROVE Due(j, m, k)
    <3>1. m \notin job.doomed /\ k \notin job.doomed  BY <1>3, <1>4, <1>5, <2>1
    <3>2. ~job.swept  BY <1>0, <2>1, <3>1 DEF Due, Late
    <3> QED  BY <1>1, <3>2 DEF Due
  <2>2. fresh' = fresh  BY DEF DeleteRows, others
  <2> QED  BY <1>5, <2>1, <2>2 DEF SweepsOn, Foreign
<1> QED  BY <1>1, <1>2, <1>6, <1>8, <1>10, <1>11, <1>12, <1>13, StepKeeps

\* The row of the run: its end, or its error.
LEMMA RecordStep == ASSUME NInv, NEW r \in Run, Record(r) \/ RecordError(r) PROVE NInv'
<1> DEFINE job == nightly[r]
           e == [Idle EXCEPT !.pc = "done"]
           s == job.swept
           j == [Idle EXCEPT !.pc = "done", !.swept = s]
           status == StatusOf(job.events, job.found)
<1>0. job.swept \in BOOLEAN /\ given \in Nat /\ Traced(r) /\ There \subseteq 1..given
  BY DEF NInv, Jobs, HandLike, Rows
<1>1. HandLike(e) /\ e.pc = "done" /\ e.swept = FALSE  BY Idles
<1>2. HandLike(j) /\ j.pc = "done" /\ j.swept = s
  <2> HIDE DEF s
  <2>1. s \in BOOLEAN  BY <1>0 DEF s
  <2> QED  BY <2>1 DEF HandLike, Idle, Field
<1>3. UNCHANGED <<row, given, sources, now, fresh>>  BY DEF Record, RecordError, others
<1>4. \/ job.pc = "record" /\ Goes(r, j) /\ ledger' = [ledger EXCEPT ![r] = status]
      \/ job.pc = "failed" /\ Goes(r, e) /\ ledger' = [ledger EXCEPT ![r] = "error"]
  BY DEF Record, RecordError
<1> HIDE DEF e, j, s, status
<1>5. There' = There /\ Rows' /\ Wrote(r)
  <2>1. There' = There  BY <1>3 DEF There
  <2>2. Rows'  BY <1>3, <2>1 DEF NInv, Rows
  <2> QED  BY <1>0, <1>3, <2>1, <2>2 DEF Wrote
<1>6. ledger' = [u \in Run |-> ledger'[u]] /\ \A u \in Run : u # r => ledger'[u] = ledger[u]
  BY <1>4 DEF NInv, Jobs
<1>7. CASE job.pc = "record" /\ Goes(r, j)
  <2>1. nightly'[r] = j  BY <1>7, GoesTo
  <2>2. Citing(r)'  BY <1>2, <2>1 DEF Citing
  <2>3. Traced(r)'  BY <1>0, <1>3, <1>5, <1>7 DEF Traced
  <2>4. SweepsOn(r, j)
    <3>1. \A m, k : Due(job, m, k) => Due(j, m, k)  BY <1>2, <1>7 DEF Due, Late, s
    <3> QED  BY <1>3, <1>5, <3>1 DEF SweepsOn, Foreign
  <2> QED  BY <1>2, <1>5, <1>6, <1>7, <2>2, <2>3, <2>4, StepKeeps
<1>8. CASE job.pc = "failed" /\ Goes(r, e) /\ ledger' = [ledger EXCEPT ![r] = "error"]
  <2>1. nightly'[r] = e /\ ledger'[r] = "error"  BY <1>8, GoesTo DEF NInv, Jobs
  <2>2. Citing(r)' /\ Traced(r)'  BY <1>1, <2>1 DEF Citing, Traced
  <2>3. SweepsOn(r, e)
    <3>1. \A m, k : Due(e, m, k)  BY <1>1 DEF Due
    <3> QED  BY <1>3, <1>5, <3>1 DEF SweepsOn, Foreign
  <2> QED  BY <1>1, <1>5, <1>6, <1>8, <2>2, <2>3, StepKeeps
<1> QED  BY <1>4, <1>7, <1>8

(* --------------------------- other writers ---------------------------- *)

\* What the others do leaves the runs what they rely on, and what they insert or rewrite is fresh.
LEMMA OthersKeep ==
  ASSUME NInv, Rows', UNCHANGED <<nightly, ledger>>, given <= given', fresh \subseteq fresh',
         \A m \in There', u \in Run : m \in There /\ <<m, u>> \in sources => <<m, u>> \in sources',
         \A m \in There' : m \in 1..given => m \in There /\ row'[m].scope = row[m].scope /\ row'[m].run = row[m].run,
         \A m \in There' : m \notin 1..given => row'[m].run = "none",
         \A m \in There' : m \notin fresh' => m \in There /\ row'[m].scope = row[m].scope /\ row'[m].text = row[m].text
  PROVE  NInv'
<1>1. Jobs'  BY DEF NInv, Jobs
<1>2. Swept'
  <2> SUFFICES ASSUME NEW m \in There', NEW k \in There', Twins(m, k)', ~Foreign(m, k)'
               PROVE  \E u \in Run : Due(nightly'[u], m, k)
    BY DEF Swept, Due
  <2>1. m \in There /\ k \in There /\ Twins(m, k) /\ ~Foreign(m, k)  BY DEF Foreign, Twins
  <2> QED  BY <2>1 DEF NInv, Swept
<1>3. ASSUME NEW r \in Run PROVE Citing(r)' /\ Traced(r)'
  <2>1. given \in Nat /\ given' \in Nat  BY DEF NInv, Rows
  <2>2. Citing(r) /\ Traced(r)  BY DEF NInv
  <2>3. Citing(r)'  BY <2>1, <2>2 DEF Citing
  <2>4. ASSUME NEW m \in There', row'[m].run = r PROVE m \in There /\ row[m].run = r
    BY <2>4, NightlyAssumption DEF NightlyAssumption
  <2>5. Traced(r)'  BY <2>2, <2>4 DEF Traced
  <2> QED  BY <2>3, <2>5
<1> QED  BY <1>1, <1>2, <1>3 DEF NInv

\* One row that is there gets a text, a life and a time.
LEMMA MarkedStep ==
  ASSUME NInv, NEW m \in There, NEW w, RowLike(w), w.at \in Nat, w.scope = row[m].scope, w.run = row[m].run,
         w.text = row[m].text \/ m \in fresh', row' = [row EXCEPT ![m] = w], now' \in Nat, fresh \subseteq fresh',
         UNCHANGED <<given, sources, nightly, ledger>>
  PROVE  NInv'
<1>1. Rows' /\ There' = There /\ row'[m] = w /\ \A k \in There : k # m => row'[k] = row[k]  BY OneRow
<1>2. given \in Nat /\ There \subseteq 1..given  BY DEF NInv, Rows
<1> QED  BY <1>1, <1>2, OthersKeep

LEMMA ArchiveStep == ASSUME NInv, NEW m \in Id, Archive(m) PROVE NInv'
<1> DEFINE w == [row[m] EXCEPT !.life = "archived", !.at = now']
<1>1. /\ UNCHANGED <<given, sources, ledger, nightly, fresh>> /\ m \in There /\ now' = now + 1
      /\ row' = [row EXCEPT ![m].life = "archived", ![m].at = now']
  BY DEF Archive, Active, Touch, others
<1>2. now' \in Nat  BY <1>1 DEF NInv, Rows
<1>3. row' = [row EXCEPT ![m] = w]  BY <1>1
<1>4. RowLike(w) /\ w.at \in Nat /\ w.text = row[m].text /\ w.scope = row[m].scope /\ w.run = row[m].run
  <2>1. RowLike(row[m])  BY <1>1 DEF NInv, Rows
  <2> QED  BY <1>2, <2>1 DEF RowLike
<1> HIDE DEF w
<1> QED  BY <1>1, <1>2, <1>3, <1>4, MarkedStep

LEMMA RewriteStep == ASSUME NInv, NEW m \in Id, NEW text, Rewrites(m, text) PROVE NInv'
<1> DEFINE w == [row[m] EXCEPT !.text = text, !.life = "promoted", !.at = now']
<1>1. /\ UNCHANGED <<given, sources, ledger, nightly>> /\ m \in There /\ now' = now + 1
      /\ fresh' = fresh \cup {m}
      /\ row' = [row EXCEPT ![m].text = text, ![m].life = "promoted", ![m].at = now']
  BY DEF Rewrites, CanWrite, Touch
<1>2. now' \in Nat  BY <1>1 DEF NInv, Rows
<1>3. row' = [row EXCEPT ![m] = w]  BY <1>1
<1>4. RowLike(w) /\ w.at \in Nat /\ w.scope = row[m].scope /\ w.run = row[m].run
  <2>1. RowLike(row[m])  BY <1>1 DEF NInv, Rows
  <2> QED  BY <1>2, <2>1 DEF RowLike
<1> HIDE DEF w
<1> QED  BY <1>1, <1>2, <1>3, <1>4, MarkedStep

\* The look of a store moves the time of a row, or nothing.
LEMMA AskStep == ASSUME NInv, NEW w \in Writer, NEW text, NEW scope, Asks(w, text, scope) PROVE NInv'
<1>1. UNCHANGED <<given, sources, ledger, nightly, fresh>>  BY DEF Asks
<1>2. CASE UNCHANGED <<row, now>>
  <2>1. There' = There /\ Rows'  BY <1>1, <1>2 DEF NInv, Rows, There
  <2>2. given \in Nat /\ There \subseteq 1..given  BY DEF NInv, Rows
  <2> QED  BY <1>1, <1>2, <2>1, <2>2, OthersKeep
<1>3. CASE TouchTwin(text, scope)
  <2>1. PICK m \in There : row' = [row EXCEPT ![m].at = now']  BY <1>3 DEF TouchTwin, Live
  <2> DEFINE x == [row[m] EXCEPT !.at = now']
  <2>2. now' \in Nat
    <3>1. now' = now + 1 /\ now \in Nat  BY <1>3 DEF TouchTwin, Touch, NInv, Rows
    <3> QED  BY <3>1
  <2>3. RowLike(x) /\ x.at \in Nat /\ x.text = row[m].text /\ x.scope = row[m].scope /\ x.run = row[m].run
    <3>1. RowLike(row[m])  BY DEF NInv, Rows
    <3> QED  BY <2>2, <3>1 DEF RowLike
  <2>4. row' = [row EXCEPT ![m] = x]  BY <2>1
  <2> HIDE DEF x
  <2> QED  BY <1>1, <2>2, <2>3, <2>4, MarkedStep
<1> QED  BY <1>2, <1>3 DEF Asks

LEMMA InsertStep == ASSUME NInv, NEW v \in Writer, Inserts(v) PROVE NInv'
<1> DEFINE w == [text |-> desk[v].text, scope |-> desk[v].scope, life |-> "promoted", at |-> now', run |-> "none"]
           n == given + 1
<1>0. given \in Nat /\ now \in Nat /\ There \subseteq 1..given  BY DEF NInv, Rows
<1>1. UNCHANGED <<sources, ledger, nightly>>  BY DEF Inserts
<1>2. CASE UNCHANGED <<row, given, now, fresh>>
  <2>1. There' = There /\ Rows'  BY <1>2 DEF NInv, Rows, There
  <2> QED  BY <1>0, <1>1, <1>2, <2>1, OthersKeep
<1>3. CASE Touch /\ given' = given + 1 /\ fresh' = fresh \cup {given'} /\ row' = Put(given', w)
  <2>1. given' = n /\ n \in Nat /\ now' \in Nat
    <3>1. given' = given + 1 /\ now' = now + 1  BY <1>3 DEF Touch
    <3> QED  BY <1>0, <3>1
  <2>2. RowLike(w) /\ w.at = now' /\ w.run = "none"  BY DEF RowLike
  <2> HIDE DEF w
  <2>3. n \notin There /\ n \notin 1..given /\ 1..given \subseteq 1..n /\ n \in 1..n /\ given <= n  BY <1>0
  <2> HIDE DEF n
  <2>4. /\ There' = There \cup {n} /\ row' = [m \in There' |-> row'[m]] /\ row'[n] = w
        /\ \A m \in There : row'[m] = row[m]
    <3>1. row' = [k \in There \cup {n} |-> IF k = n THEN w ELSE row[k]]  BY <1>3, <2>1 DEF Put
    <3>2. There' = There \cup {n}  BY <3>1 DEF There
    <3> QED  BY <2>3, <3>1, <3>2
  <2>5. Rows'
    <3>1. given' \in Nat /\ now' \in Nat /\ There' \subseteq 1..given'  BY <1>0, <2>1, <2>3, <2>4
    <3>2. \A m \in There' : RowLike(row'[m]) /\ row'[m].at \in Nat  BY <2>1, <2>2, <2>4 DEF NInv, Rows
    <3> QED  BY <2>4, <3>1, <3>2 DEF Rows, RowLike
  <2>6. fresh \subseteq fresh' /\ n \in fresh' /\ given <= given'  BY <1>3, <2>1, <2>3
  <2> QED  BY <1>0, <1>1, <2>2, <2>3, <2>4, <2>5, <2>6, OthersKeep
<1> QED  BY <1>2, <1>3 DEF Inserts

LEMMA RemoveStep == ASSUME NInv, NEW m \in Id, Removes(m) PROVE NInv'
<1>1. /\ UNCHANGED <<given, ledger, nightly, fresh>> /\ now' = now + 1
      /\ row' = [k \in There \ {m} |-> row[k]] /\ sources' = {s \in sources : s[1] \notin {m}}
  BY DEF Removes, Gone, Touch, others
<1>2. There' = There \ {m} /\ \A k \in There' : row'[k] = row[k]  BY <1>1 DEF There
<1>3. given \in Nat /\ now' \in Nat /\ There \subseteq 1..given  BY <1>1 DEF NInv, Rows
<1>4. Rows'
  <2>1. row' = [k \in There' |-> row'[k]]  BY <1>1, <1>2
  <2> QED  BY <1>1, <1>2, <1>3, <2>1 DEF NInv, Rows
<1>5. \A k \in There', u \in Run : <<k, u>> \in sources => <<k, u>> \in sources'  BY <1>1, <1>2
<1> QED  BY <1>1, <1>2, <1>3, <1>4, <1>5, OthersKeep

LEMMA NInvNext == NInv /\ [NNext]_nvars => NInv'
<1> SUFFICES ASSUME NInv, [NNext]_nvars PROVE NInv'  OBVIOUS
<1>1. CASE UNCHANGED nvars
  <2>1. There' = There  BY <1>1 DEF nvars, There
  <2>2. Rows' /\ Jobs'  BY <1>1, <2>1 DEF nvars, NInv, Rows, Jobs
  <2>3. Swept'  BY <1>1, <2>1 DEF nvars, NInv, Swept, Twins, Due, Foreign
  <2>4. \A r \in Run : Citing(r)' /\ Traced(r)'  BY <1>1, <2>1 DEF nvars, NInv, Citing, Traced
  <2> QED  BY <2>2, <2>3, <2>4 DEF NInv
<1>2. ASSUME NEW r \in Run,
             \/ Start(r) \/ Extracts(r) \/ MatchRow(r) \/ UpdateRow(r) \/ StoreRow(r) \/ PutRow(r)
             \/ CiteRow(r) \/ FindDuplicates(r) \/ DeleteRows(r) \/ Record(r)
             \/ Break(r) \/ BreakCited(r) \/ RecordError(r) \/ Die(r)
             \/ \E reply \in Replies : Replied(r, reply)
             \/ \E f \in Failure : CallFails(r, f)
      PROVE  NInv'
  BY <1>2, CollectStep, MatchStep, UpdateStep, StoreStep, PutStep, CiteStep, FindStep, DeleteStep,
     RecordStep, StopStep
<1>3. CASE \/ \E m \in Id : Archive(m) \/ Removes(m) \/ \E text \in Told : Rewrites(m, text)
           \/ \E w \in Writer : Inserts(w) \/ \E text \in Told, scope \in Writable : Asks(w, text, scope)
  BY <1>3, ArchiveStep, RemoveStep, RewriteStep, InsertStep, AskStep
<1> QED  BY <1>1, <1>2, <1>3 DEF NNext

LEMMA InitNInv == NInit => NInv
<1> SUFFICES ASSUME NInit PROVE NInv  OBVIOUS
<1>1. /\ given = Cardinality(There) /\ sources = {} /\ now = 0
      /\ ledger = [r \in Run |-> "none"] /\ nightly = [r \in Run |-> Idle]
  BY DEF NInit
<1>2. /\ given \in Nat /\ There \subseteq 1..given /\ row = [m \in There |-> row[m]]
      /\ \A m \in There : RowLike(row[m]) /\ row[m].at \in Nat /\ row[m].run = "none" /\ m = 1
  <2>1. CASE row = [i \in {} |-> 0]
    <3>1. There = {}  BY <2>1 DEF There
    <3>2. given = 0  BY <1>1, <3>1, FS_EmptySet
    <3> QED  BY <2>1, <3>1, <3>2
  <2>2. CASE \E k \in Known :
               row = [i \in {1} |-> [text |-> k.text, scope |-> k.scope, life |-> k.life, at |-> 0, run |-> "none"]]
    <3>1. There = {1}  BY <2>2 DEF There
    <3>2. given = 1  BY <1>1, <3>1, FS_Singleton
    <3>3. RowLike(row[1]) /\ row[1].at = 0 /\ row[1].run = "none"  BY <2>2 DEF RowLike
    <3>4. row = [m \in There |-> row[m]]  BY <2>2, <3>1
    <3> QED  BY <3>1, <3>2, <3>3, <3>4
  <2> QED  BY <2>1, <2>2 DEF NInit
<1>3. HandLike(Idle) /\ Idle.pc = "off"  BY DEF HandLike, Idle, Field
<1>4. Rows  BY <1>1, <1>2 DEF Rows
<1>5. Jobs  BY <1>1, <1>3 DEF Jobs
<1>6. Swept  BY <1>2 DEF Swept, Twins
<1>7. \A r \in Run : Citing(r) /\ Traced(r)
  BY <1>1, <1>2, <1>3, NightlyAssumption DEF Citing, Traced, NightlyAssumption
<1> QED  BY <1>4, <1>5, <1>6, <1>7 DEF NInv

LEMMA NightlyInvariant == NSpec => []NInv
<1> QED  BY InitNInv, NInvNext, PTL DEF NSpec

(* ----------------------------- theorems ------------------------------- *)

(* A row that a successful run wrote last is cited by it: neither another run of
   the day, nor forgetting, nor a sweep comes between (record_digest_source). *)
THEOREM SuccessTraced == NSpec => []SuccessIsTraceable
<1>1. NInv => SuccessIsTraceable
  <2> SUFFICES ASSUME NInv, NEW r \in Run, ledger[r] \in {"ok", "ok_with_fallback"},
                      NEW m \in There, row[m].run = r
               PROVE  <<m, r>> \in sources
    BY DEF SuccessIsTraceable
  <2>1. Traced(r) /\ nightly[r].pc = "done"  BY DEF NInv, Jobs
  <2> QED  BY <2>1 DEF Traced
<1> QED  BY <1>1, NightlyInvariant, PTL

(* Once every run that began has swept, two rows have one text in a scope they
   write only if somebody else inserted or rewrote one of them after the last
   sweep looked, whatever the looks, inserts and sweeps of runs, tools and
   captures overlapped (cleanup_exact_duplicates). *)
THEOREM TwinsSwept == NSpec => []TwinsAreSwept
<1>1. NInv => TwinsAreSwept
  <2> SUFFICES ASSUME NInv, \A r \in Run : nightly[r].pc = "off" \/ (nightly[r].pc = "done" /\ nightly[r].swept),
                      NEW m \in There \ fresh, NEW k \in There \ fresh,
                      row[m].scope = row[k].scope, row[m].scope \in Writable, row[m].text = row[k].text, m # k
               PROVE  FALSE
    BY DEF TwinsAreSwept
  <2>1. PICK r \in Run : Due(nightly[r], m, k)  BY DEF NInv, Swept, Twins, Foreign
  <2> QED  BY <2>1 DEF Due, Late
<1> QED  BY <1>1, NightlyInvariant, PTL

\* What a step may do to a row of a pool.
Pooled == \A m \in There : row[m].scope = "pooled" => (m \in There' /\ row'[m] = row[m])

LEMMA StepPools == ASSUME NInv, [NNext]_nvars PROVE Pooled
<1>1. ASSUME UNCHANGED row PROVE Pooled  BY <1>1 DEF Pooled, There
<1>2. ASSUME NEW n \in There, row[n].scope \in Writable, There' = There,
             \A m \in There : m # n => row'[m] = row[m]
      PROVE  Pooled
  BY <1>2 DEF Pooled, Writable
<1>3. ASSUME NEW r \in Run, UpdateRow(r) PROVE Pooled
  <2>1. CASE CanWrite(nightly[r].id)  BY <1>2, <1>3, <2>1 DEF UpdateRow, CanWrite, There
  <2>2. CASE ~CanWrite(nightly[r].id)  BY <1>1, <1>3, <2>2 DEF UpdateRow
  <2> QED  BY <2>1, <2>2
<1>4. ASSUME NEW r \in Run, StoreRow(r) PROVE Pooled
  <2>1. ASSUME NEW n \in There, row[n].scope = "shared", row' = [row EXCEPT ![n].at = now'] PROVE Pooled
    BY <1>2, <2>1 DEF There, Writable
  <2> QED  BY <1>1, <1>4, <2>1 DEF StoreRow, TouchTwin, Live
<1>5. ASSUME NEW r \in Run, PutRow(r) PROVE Pooled
  <2>1. given' \notin There
    <3>1. given \in Nat /\ There \subseteq 1..given  BY DEF NInv, Rows
    <3>2. given' = given + 1  BY <1>5 DEF PutRow
    <3> QED  BY <3>1, <3>2
  <2> DEFINE w == [text |-> Head(nightly[r].got).text, scope |-> "shared", life |-> LifeOf(Head(nightly[r].got)),
                   at |-> now', run |-> r]
  <2>2. row' = Put(given', w)  BY <1>5 DEF PutRow
  <2> HIDE DEF w
  <2>3. row' = [k \in There \cup {given'} |-> IF k = given' THEN w ELSE row[k]]  BY <2>2 DEF Put
  <2>4. There' = There \cup {given'} /\ \A m \in There : row'[m] = row[m]  BY <2>1, <2>3 DEF There
  <2> QED  BY <2>4 DEF Pooled
<1>6. ASSUME NEW r \in Run, CiteRow(r) \/ BreakCited(r) PROVE Pooled
  <2>1. /\ nightly[r].pc = "cite"
        /\ row' = IF nightly[r].id \in There THEN [row EXCEPT ![nightly[r].id].run = r] ELSE row
    BY <1>6 DEF CiteRow, BreakCited
  <2>2. nightly[r].id \in There => row[nightly[r].id].scope \in Writable  BY <2>1 DEF NInv, Citing
  <2>3. CASE nightly[r].id \in There  BY <1>2, <2>1, <2>2, <2>3 DEF There
  <2>4. CASE nightly[r].id \notin There  BY <1>1, <2>1, <2>4
  <2> QED  BY <2>3, <2>4
<1>7. ASSUME NEW r \in Run, DeleteRows(r) PROVE Pooled
  <2> DEFINE gone == {m \in nightly[r].doomed \cap There : row[m].scope \in Writable}
  <2>1. row' = [m \in There \ gone |-> row[m]]  BY <1>7 DEF DeleteRows, Gone
  <2>2. \A m \in gone : row[m].scope # "pooled"  BY DEF Writable
  <2> HIDE DEF gone
  <2> QED  BY <2>1, <2>2 DEF Pooled, There
<1>8. ASSUME NEW m \in Id, Archive(m) PROVE Pooled  BY <1>2, <1>8 DEF Archive, Active, There
<1>9. ASSUME NEW r \in Run,
             \/ Start(r) \/ Extracts(r) \/ MatchRow(r) \/ FindDuplicates(r) \/ Record(r)
             \/ Break(r) \/ RecordError(r) \/ Die(r)
             \/ \E reply \in Replies : Replied(r, reply)
             \/ \E f \in Failure : CallFails(r, f)
      PROVE  Pooled
  BY <1>1, <1>9 DEF Start, Extracts, MatchRow, FindDuplicates, Record, Break, RecordError, Die, Replied,
                    CallFails, Keep, Stays
<1>10. CASE UNCHANGED nvars  BY <1>1, <1>10 DEF nvars
<1>11. ASSUME NEW m \in Id, NEW text, Rewrites(m, text) PROVE Pooled  BY <1>2, <1>11 DEF Rewrites, CanWrite, There
<1>12. ASSUME NEW m \in Id, Removes(m) PROVE Pooled
  <2>1. row' = [k \in There \ {m} |-> row[k]] /\ m \in There /\ row[m].scope # "pooled"
    BY <1>12 DEF Removes, Gone, CanWrite, Writable
  <2> QED  BY <2>1 DEF Pooled, There
<1>13. ASSUME NEW w \in Writer, NEW text, NEW scope \in Writable, Asks(w, text, scope) PROVE Pooled
  <2>1. ASSUME NEW n \in There, row[n].scope \in Writable, row' = [row EXCEPT ![n].at = now'] PROVE Pooled
    BY <1>2, <2>1 DEF There
  <2> QED  BY <1>1, <1>13, <2>1 DEF Asks, TouchTwin, Live
<1>14. ASSUME NEW v \in Writer, Inserts(v) PROVE Pooled
  <2>1. CASE UNCHANGED row  BY <1>1, <2>1
  <2> DEFINE w == [text |-> desk[v].text, scope |-> desk[v].scope, life |-> "promoted", at |-> now', run |-> "none"]
  <2>2. CASE given' = given + 1 /\ row' = Put(given', w)
    <3>1. given' \notin There
      <4>1. given \in Nat /\ There \subseteq 1..given  BY DEF NInv, Rows
      <4> QED  BY <2>2, <4>1
    <3> HIDE DEF w
    <3>2. row' = [k \in There \cup {given'} |-> IF k = given' THEN w ELSE row[k]]  BY <2>2 DEF Put
    <3>3. There' = There \cup {given'} /\ \A m \in There : row'[m] = row[m]  BY <3>1, <3>2 DEF There
    <3> QED  BY <3>3 DEF Pooled
  <2> QED  BY <1>14, <2>1, <2>2 DEF Inserts
<1> QED  BY <1>3, <1>4, <1>5, <1>6, <1>7, <1>8, <1>9, <1>10, <1>11, <1>12, <1>13, <1>14 DEF NNext

(* No step of a run changes or deletes a memory of a pool the profile may only
   read (update_row and delete_rows ask for the writable scopes). *)
THEOREM PoolsStay == NSpec => PooledStays
<1>1. NInv /\ [NNext]_nvars => [Pooled]_nvars  BY StepPools
<1> QED  BY <1>1, InitNInv, NInvNext, PTL DEF NSpec, PooledStays, Pooled
=============================================================================
