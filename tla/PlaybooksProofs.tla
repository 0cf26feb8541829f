-------------------------- MODULE PlaybooksProofs --------------------------
(* Theorems about Playbooks for any agents, playbooks, scopes, sessions and
   configuration: what is offered is earned, what is out of use stays so, and a
   session's episode has its playbook. *)
EXTENDS Playbooks, TLAPS

\* A row and what an agent has in hand have these fields.
RowLike(r) ==
    /\ r = [status |-> r.status, by |-> r.by, good |-> r.good, bad |-> r.bad,
            stale |-> r.stale, confidence |-> r.confidence]
    /\ r.status \in Status /\ r.stale \in Nat
HandLike(h) ==
    h = [pc |-> h.pc, id |-> h.id, to |-> h.to, status |-> h.status, row |-> h.row,
         number |-> h.number, known |-> h.known, outcome |-> h.outcome, threshold |-> h.threshold]

\* A decision to promote b is on record.
Decided(b) == \E v \in ToSet(history[b]) : v.status = "promoted"

Grave == {"stale", "misleading"} \X {TRUE}

\* What the tables say of b: nobody promotes it without a decision, and what its
\* owner complained of has been counted.
Sound(b) ==
    /\ RowLike(book[b]) /\ history[b] \in Seq(ToSet(history[b]))
    /\ book[b].status = "promoted" => Decided(b)
    /\ <<"stale", TRUE>> \in reports[b] => book[b].stale > 0
    /\ b \in Skilled /\ reports[b] \cap Grave # {} => b \in conflicts

\* What an agent has read was so, and what of it can only grow still is.
Fits(a) ==
    LET h == hand[a] IN
    /\ HandLike(h)
    /\ h.pc = "synthesised" => h.id \in AutoBook
    /\ h.pc \in {"number", "review", "feedback", "preflight"} => h.id \in There
    /\ h.pc \in {"decide", "number", "review"} => h.status \in Status
    /\ h.pc \in {"feedback", "preflight"} =>
           /\ RowLike(h.row) /\ (h.row.status = "promoted" => Decided(h.id))
    /\ h.pc = "feedback" => h.row.status \notin Terminal /\ h.outcome \in Outcome
    /\ h.pc = "preflight" =>
           /\ h.row.status = "promoted" /\ h.known \subseteq reports[h.id]
           /\ <<"stale", TRUE>> \in h.known => h.row.stale > 0

OfferStands ==
    offer.decision # "none" =>
        /\ offer.id \in There /\ Decided(offer.id)
        /\ <<"stale", TRUE>> \in offer.known => offer.decision # "direct_reuse"
        /\ offer.id \in Skilled => offer.known \cap Grave = {}

Tables ==
    /\ There \subseteq Book /\ DOMAIN history = There /\ reports \in [Book -> SUBSET (Negative \X BOOLEAN)]
    /\ book = [b \in There |-> book[b]] /\ history = [b \in There |-> history[b]]
    /\ \A b \in Book \ There : reports[b] = {}
    /\ \A b \in There : Sound(b)

EInv ==
    /\ Tables /\ OfferStands /\ hand = [a \in Agent |-> hand[a]]
    /\ \A a \in Agent : Fits(a)

\* Sequences of anything.
LEMMA Appended ==
  ASSUME NEW s, s \in Seq(ToSet(s)), NEW e
  PROVE  /\ ToSet(Append(s, e)) = ToSet(s) \cup {e}
         /\ Append(s, e) \in Seq(ToSet(Append(s, e)))
<1> DEFINE S == ToSet(s)
           T == S \cup {e}
           t == Append(s, e)
<1>0. s \in Seq(S)  OBVIOUS
<1>1. S = {s[i] : i \in 1..Len(s)}
  <2>1. DOMAIN s = 1..Len(s)  BY <1>0
  <2> QED  BY <2>1 DEF ToSet
<1> HIDE DEF S
<1>2. s \in Seq(T)  BY <1>0
<1>3. t \in Seq(T) /\ Len(t) = Len(s) + 1 /\ t[Len(s) + 1] = e /\ \A i \in 1..Len(s) : t[i] = s[i]
  BY <1>2
<1>4. DOMAIN t = 1..(Len(s) + 1) /\ Len(s) \in Nat  BY <1>2, <1>3
<1>5. {t[i] : i \in 1..(Len(s) + 1)} = T
  <2>1. \A x \in T : \E i \in 1..(Len(s) + 1) : x = t[i]
    <3> SUFFICES ASSUME NEW x \in T PROVE \E i \in 1..(Len(s) + 1) : x = t[i]  OBVIOUS
    <3>1. CASE x = e  BY <1>3, <1>4, <3>1
    <3>2. CASE x # e
      <4>1. PICK i \in 1..Len(s) : x = s[i]  BY <1>1, <3>2
      <4> QED  BY <1>3, <1>4, <4>1
    <3> QED  BY <3>1, <3>2
  <2>2. \A i \in 1..(Len(s) + 1) : t[i] \in T
    BY <1>1, <1>3, <1>4
  <2> QED  BY <2>1, <2>2
<1>6. ToSet(t) = T  BY <1>4, <1>5 DEF ToSet
<1> QED  BY <1>3, <1>6 DEF S

LEMMA FirstVersion ==
  ASSUME NEW e PROVE <<e>> \in Seq(ToSet(<<e>>)) /\ e \in ToSet(<<e>>)
<1>1. DOMAIN <<e>> = 1..1 /\ <<e>>[1] = e  OBVIOUS
<1>2. ToSet(<<e>>) = {e}  BY <1>1 DEF ToSet
<1> QED  BY <1>2

\* What an operation may do to the tables, as far as others have read them.
Grows ==
    /\ There \subseteq There' /\ conflicts \subseteq conflicts'
    /\ \A b \in There : Decided(b) => Decided(b)'
    /\ \A b \in There : reports[b] \subseteq reports'[b]

\* a's step: it leaves what others have in hand, and its own fits.
LEMMA StepKeeps ==
  ASSUME EInv, NEW a \in Agent, NEW h, Takes(a, h), Tables', Grows, Fits(a)',
         offer' = offer \/ OfferStands'
  PROVE  EInv'
<1>1. /\ hand' = [u \in Agent |-> hand'[u]] /\ \A u \in Agent : u # a => hand'[u] = hand[u]
  BY DEF EInv, Takes
<1>2. ASSUME NEW u \in Agent, u # a PROVE Fits(u)'
  <2>1. hand'[u] = hand[u] /\ Fits(u)  BY <1>1, <1>2 DEF EInv
  <2>2. \A b \in There : Decided(b) => \E v \in ToSet(history'[b]) : v.status = "promoted"
    BY DEF Grows, Decided
  <2> QED  BY <2>1, <2>2 DEF Fits, Grows, Decided
<1>3. OfferStands'
  <2>1. CASE offer' = offer
    <3>1. \A b \in There : Decided(b) => \E v \in ToSet(history'[b]) : v.status = "promoted"
      BY DEF Grows, Decided
    <3> QED  BY <2>1, <3>1 DEF EInv, OfferStands, Grows, Decided
  <2> QED  BY <2>1
<1>4. \A u \in Agent : Fits(u)'  BY <1>2
<1> QED  BY <1>1, <1>3, <1>4 DEF EInv

\* The tables as they were.
LEMMA Untouched ==
  ASSUME EInv, UNCHANGED <<book, history, conflicts, reports>>
  PROVE  Tables' /\ Grows
<1>1. \A b \in There : Sound(b)' /\ (Decided(b) => Decided(b)')  BY DEF EInv, Tables, Sound, Decided
<1>2. There' = There  BY DEF There
<1> QED  BY <1>1, <1>2 DEF EInv, Tables, Grows

\* Whoever is done has nothing in hand, and whoever begins knows only what it read.
LEMMA FreeFits == ASSUME NEW a \in Agent, hand'[a] = Free PROVE Fits(a)'
  BY DEF Fits, HandLike, Free, None

LEMMA TakenIs == ASSUME EInv, NEW a \in Agent, NEW h, Takes(a, h) PROVE hand'[a] = h
  BY DEF EInv, Takes

\* A step that only takes something in hand, or lets go of it.
LEMMA OnlyTakes ==
  ASSUME EInv, NEW a \in Agent, NEW h, Takes(a, h), UNCHANGED tables, Fits(a)'
  PROVE  EInv'
<1>1. Tables' /\ Grows  BY Untouched DEF tables
<1> QED  BY <1>1, StepKeeps DEF tables

LEMMA OnlyDone == ASSUME EInv, NEW a \in Agent, Done(a), UNCHANGED tables PROVE EInv'
<1>1. Takes(a, Free)  BY DEF Done
<1>2. Fits(a)'  BY <1>1, TakenIs, FreeFits
<1> QED  BY <1>1, <1>2, OnlyTakes

\* A new playbook is a candidate, and nothing has been said of it.
LEMMA CreatedIs ==
  ASSUME EInv, NEW b \in Book, Created(b)
  PROVE  Tables' /\ Grows /\ offer' = offer /\ There' = There \cup {b}
<1> DEFINE r == [None EXCEPT !.confidence = Payload[b].confidence]
           e == [version |-> 1, status |-> "candidate"]
<1>0. b \notin There /\ Tables  BY DEF Created, EInv
<1>1. RowLike(r) /\ r.status = "candidate" /\ r.stale = 0
  <2>1. r = [status |-> "candidate", by |-> {}, good |-> 0, bad |-> 0, stale |-> 0,
             confidence |-> Payload[b].confidence]
    BY DEF None
  <2> HIDE DEF r
  <2> QED  BY <2>1 DEF RowLike, Status
<1>2. book' = [c \in There \cup {b} |-> IF c = b THEN r ELSE book[c]]
  <2>1. book' = Also(book, b, r)  BY DEF Created
  <2> HIDE DEF r
  <2> QED  BY <2>1 DEF Also, There
<1>3. history' = [c \in There \cup {b} |-> IF c = b THEN <<e>> ELSE history[c]]
  BY <1>0 DEF Created, Also, Tables
<1>4. <<e>> \in Seq(ToSet(<<e>>))  BY FirstVersion
<1> HIDE DEF r, e
<1>5. conflicts' = conflicts /\ reports' = reports /\ offer' = offer  BY DEF Created
<1>6. There' = There \cup {b} /\ DOMAIN history' = There'  BY <1>2, <1>3 DEF There
<1>7. ASSUME NEW c \in There PROVE Sound(c)' /\ (Decided(c) => Decided(c)')
  <2>1. book'[c] = book[c] /\ history'[c] = history[c]  BY <1>0, <1>2, <1>3
  <2>2. Sound(c)  BY <1>0 DEF Tables
  <2>3. Decided(c) => Decided(c)'  BY <2>1 DEF Decided
  <2> QED  BY <1>5, <2>1, <2>2, <2>3 DEF Sound
<1>8. Sound(b)'
  <2>1. book'[b] = r /\ history'[b] = <<e>>  BY <1>2, <1>3
  <2>2. reports[b] = {}  BY <1>0 DEF Tables
  <2> QED  BY <1>1, <1>4, <1>5, <2>1, <2>2 DEF Sound
<1>9. book' = [c \in There' |-> book'[c]] /\ history' = [c \in There' |-> history'[c]]
  BY <1>2, <1>3, <1>6
<1>10. Tables'  BY <1>0, <1>5, <1>6, <1>7, <1>8, <1>9 DEF Tables
<1> QED  BY <1>5, <1>6, <1>7, <1>10 DEF Grows

\* Playbooks change status, each with a version that says so, and nobody is
\* promoted without one.
LEMMA RevisedIs ==
  ASSUME EInv, UNCHANGED <<conflicts, reports>>,
         book' = [b \in There |-> book'[b]], history' = [b \in There |-> history'[b]],
         \A b \in There :
             /\ RowLike(book'[b]) /\ book'[b].stale = book[b].stale
             /\ \/ history'[b] = history[b] /\ book'[b].status \in {book[b].status} \cup Terminal
                \/ \E e : history'[b] = Append(history[b], e) /\ (book'[b].status = "promoted" => e.status = "promoted")
  PROVE  Tables' /\ Grows
<1>0. Tables /\ There' = There  BY DEF EInv, There
<1>1. ASSUME NEW b \in There PROVE Sound(b)' /\ (Decided(b) => Decided(b)')
  <2>0. Sound(b)  BY <1>0 DEF Tables
  <2>1. CASE history'[b] = history[b] /\ book'[b].status \in {book[b].status} \cup Terminal
    <3>1. Decided(b) => Decided(b)'  BY <2>1 DEF Decided
    <3>2. book'[b].status = "promoted" => Decided(b)'  BY <2>0, <2>1, <3>1 DEF Sound, Terminal
    <3> QED  BY <2>0, <2>1, <3>1, <3>2 DEF Sound
  <2>2. CASE \E e : history'[b] = Append(history[b], e) /\ (book'[b].status = "promoted" => e.status = "promoted")
    <3>1. PICK e : history'[b] = Append(history[b], e) /\ (book'[b].status = "promoted" => e.status = "promoted")
      BY <2>2
    <3>2. history[b] \in Seq(ToSet(history[b]))  BY <2>0 DEF Sound
    <3>3. ToSet(history'[b]) = ToSet(history[b]) \cup {e} /\ history'[b] \in Seq(ToSet(history'[b]))
      BY <3>1, <3>2, Appended
    <3>4. Decided(b) => Decided(b)'  BY <3>3 DEF Decided
    <3>5. book'[b].status = "promoted" => Decided(b)'  BY <3>1, <3>3 DEF Decided
    <3> QED  BY <2>0, <3>3, <3>4, <3>5 DEF Sound
  <2> QED  BY <2>1, <2>2
<1>2. DOMAIN history' = There'  BY <1>0
<1>3. Tables'  BY <1>0, <1>1, <1>2 DEF Tables
<1> QED  BY <1>0, <1>1, <1>3 DEF Grows, Tables

LEMMA CreatingStep ==
  ASSUME EInv, NEW a \in Agent,
         (\E b \in Book : Create(a, b) \/ Bootstrap(a, b)) \/ CreateAuto(a)
  PROVE  EInv'
<1>0. Fits(a)  BY DEF EInv
<1>1. PICK b \in Book : Created(b) /\ \E h : Takes(a, h) /\ (h = Free \/ \E s \in Status : h = [Free EXCEPT !.pc = "decide", !.id = b, !.status = s])
  <2>1. CASE \E b \in Book : Create(a, b)
    BY <2>1 DEF Create, Done
  <2>2. CASE \E b \in Book : Bootstrap(a, b)
    <3>1. PICK b \in Book : Bootstrap(a, b)  BY <2>2
    <3>2. "promoted" \in Status  BY DEF Status
    <3> QED  BY <3>1, <3>2 DEF Bootstrap
  <2>3. CASE CreateAuto(a)
    <3>1. hand[a].id \in Book  BY <1>0, <2>3, PlaybookAssumption DEF PlaybookAssumption, CreateAuto, At, Fits
    <3>2. \A b : (IF Worth[b] = "needs_review" THEN "needs_review" ELSE "promoted") \in Status  BY DEF Status
    <3> QED  BY <2>3, <3>1, <3>2 DEF CreateAuto, Done
  <2> QED  BY <2>1, <2>2, <2>3
<1>2. PICK h : Takes(a, h) /\ (h = Free \/ \E s \in Status : h = [Free EXCEPT !.pc = "decide", !.id = b, !.status = s])
  BY <1>1
<1>3. hand'[a] = h  BY <1>2, TakenIs
<1>4. Fits(a)'
  <2>1. CASE h = Free  BY <1>3, <2>1, FreeFits
  <2>2. CASE \E s \in Status : h = [Free EXCEPT !.pc = "decide", !.id = b, !.status = s]
    <3>1. h.pc = "decide" /\ h.status \in Status /\ HandLike(h)  BY <2>2 DEF HandLike, Free
    <3> QED  BY <1>3, <3>1 DEF Fits
  <2> QED  BY <1>2, <2>1, <2>2
<1> QED  BY <1>1, <1>2, <1>4, CreatedIs, StepKeeps

LEMMA ReadingStep ==
  ASSUME EInv, NEW a \in Agent,
         \/ \E b \in Book : Synthesise(a, b) \/ Search(a, b)
         \/ \E b \in Book, status \in Status : \E to : Review(a, b, status, to)
         \/ Decide(a) \/ Number(a)
         \/ \E target \in There, sources \in SUBSET There : Merge(a, target, sources)
         \/ \E b \in Book, outcome \in Outcome, threshold \in {1, 2} : Feedback(a, b, outcome, threshold)
  PROVE  EInv'
<1>0. Fits(a) /\ Tables  BY DEF EInv
<1>1. CASE \E b \in Book : Synthesise(a, b)
  <2>1. PICK b \in Book : Synthesise(a, b)  BY <1>1
  <2> DEFINE h == [Free EXCEPT !.pc = "synthesised", !.id = b]
  <2>2. Takes(a, h) /\ UNCHANGED tables /\ b \in AutoBook  BY <2>1 DEF Synthesise
  <2>3. hand'[a] = h  BY <2>2, TakenIs
  <2>4. Fits(a)'  BY <2>2, <2>3 DEF Fits, HandLike, Free
  <2> QED  BY <2>2, <2>4, OnlyTakes
<1>2. CASE \E b \in Book : Search(a, b)
  <2>1. PICK b \in Book : Search(a, b)  BY <1>2
  <2> DEFINE h == [Free EXCEPT !.pc = "preflight", !.id = b, !.row = book[b], !.known = reports[b]]
  <2>2. Takes(a, h) /\ UNCHANGED tables /\ b \in There /\ book[b].status = "promoted"  BY <2>1 DEF Search, Sees
  <2>3. hand'[a] = h  BY <2>2, TakenIs
  <2>4. Sound(b)  BY <1>0, <2>2 DEF Tables
  <2>5. There' = There /\ reports' = reports /\ history' = history  BY <2>2 DEF tables, There
  <2>6. Fits(a)'
    <3>1. h.pc = "preflight" /\ h.id = b /\ h.row = book[b] /\ h.known = reports[b] /\ HandLike(h)
      <4>1. h = [Free EXCEPT !.pc = "preflight", !.id = b, !.row = book[b], !.known = reports[b]]  OBVIOUS
      <4> HIDE DEF h
      <4> QED  BY <4>1 DEF Free, HandLike
    <3> HIDE DEF h
    <3> QED  BY <2>2, <2>3, <2>4, <2>5, <3>1 DEF Fits, Sound, Decided
  <2> QED  BY <2>2, <2>6, OnlyTakes
<1>3. CASE (\E b \in Book, status \in Status : \E to : Review(a, b, status, to)) \/ Decide(a)
  <2>1. PICK b, status, to : Deciding(a, b, status, to) /\ status \in Status
    <3>1. CASE Decide(a)
      <4>1. hand[a].pc = "decide" /\ Deciding(a, hand[a].id, hand[a].status, {})  BY <3>1 DEF Decide, At
      <4>2. hand[a].status \in Status  BY <1>0, <4>1 DEF Fits
      <4> QED  BY <4>1, <4>2
    <3>2. CASE \E b \in Book, status \in Status : \E to : Review(a, b, status, to)  BY <3>2 DEF Review
    <3> QED  BY <1>3, <3>1, <3>2
  <2> DEFINE h == [Free EXCEPT !.pc = "number", !.id = b, !.status = status, !.to = to]
  <2>2. Takes(a, h) /\ UNCHANGED tables /\ b \in There  BY <2>1 DEF Deciding, MayDecide, Sees
  <2>3. hand'[a] = h  BY <2>2, TakenIs
  <2>4. There' = There  BY <2>2 DEF tables, There
  <2>5. h.pc = "number" /\ h.id = b /\ h.status = status /\ HandLike(h)
    <3>1. h = [Free EXCEPT !.pc = "number", !.id = b, !.status = status, !.to = to]  OBVIOUS
    <3> HIDE DEF h
    <3> QED  BY <3>1 DEF Free, HandLike
  <2>6. Fits(a)'
    <3> HIDE DEF h
    <3> QED  BY <2>1, <2>2, <2>3, <2>4, <2>5 DEF Fits
  <2> QED  BY <2>2, <2>6, OnlyTakes
<1>4. CASE Number(a)
  <2> DEFINE h == [hand[a] EXCEPT !.pc = "review", !.number = NextVersion(hand[a].id)]
  <2>1. Takes(a, h) /\ UNCHANGED tables /\ hand[a].pc = "number"  BY <1>4 DEF Number, At
  <2>2. hand'[a] = h  BY <2>1, TakenIs
  <2>3. There' = There  BY <2>1 DEF tables, There
  <2>4. h.pc = "review" /\ h.id = hand[a].id /\ h.status = hand[a].status /\ HandLike(h)
    <3> DEFINE k == hand[a]
               n == NextVersion(hand[a].id)
    <3>1. HandLike(k)  BY <1>0 DEF Fits
    <3>2. h = [k EXCEPT !.pc = "review", !.number = n]  OBVIOUS
    <3> HIDE DEF k, n, h
    <3>3. h.pc = "review" /\ h.id = k.id /\ h.status = k.status /\ HandLike(h)
      BY <3>1, <3>2 DEF HandLike
    <3> QED  BY <3>3 DEF k
  <2>5. Fits(a)'
    <3> HIDE DEF h
    <3> QED  BY <1>0, <2>1, <2>2, <2>3, <2>4 DEF Fits
  <2> QED  BY <2>1, <2>5, OnlyTakes
<1>5. CASE \E target \in There, sources \in SUBSET There : Merge(a, target, sources)
  <2>1. PICK h : Takes(a, h) /\ UNCHANGED tables /\ \E target, to : h = [Free EXCEPT !.pc = "merge", !.id = target, !.to = to]
    BY <1>5 DEF Merge
  <2>2. hand'[a] = h  BY <2>1, TakenIs
  <2>3. Fits(a)'  BY <2>1, <2>2 DEF Fits, HandLike, Free
  <2> QED  BY <2>1, <2>3, OnlyTakes
<1>6. CASE \E b \in Book, outcome \in Outcome, threshold \in {1, 2} : Feedback(a, b, outcome, threshold)
  <2>1. PICK b \in Book, outcome \in Outcome, threshold \in {1, 2} : Feedback(a, b, outcome, threshold)  BY <1>6
  <2> DEFINE h == [Free EXCEPT !.pc = "feedback", !.id = b, !.row = book[b],
                               !.outcome = outcome, !.threshold = threshold]
  <2>2. Takes(a, h) /\ UNCHANGED tables /\ b \in There /\ book[b].status \notin Terminal  BY <2>1 DEF Feedback, Sees
  <2>3. hand'[a] = h  BY <2>2, TakenIs
  <2>4. Sound(b)  BY <1>0, <2>2 DEF Tables
  <2>5. There' = There /\ reports' = reports /\ history' = history  BY <2>2 DEF tables, There
  <2>6. Fits(a)'
    <3>1. h.pc = "feedback" /\ h.id = b /\ h.row = book[b] /\ h.outcome = outcome /\ HandLike(h)
      <4>1. h = [Free EXCEPT !.pc = "feedback", !.id = b, !.row = book[b],
                             !.outcome = outcome, !.threshold = threshold]
        OBVIOUS
      <4> HIDE DEF h
      <4> QED  BY <4>1 DEF Free, HandLike
    <3> HIDE DEF h
    <3> QED  BY <2>2, <2>3, <2>4, <2>5, <3>1 DEF Fits, Sound, Decided
  <2> QED  BY <2>2, <2>6, OnlyTakes
<1> QED  BY <1>1, <1>2, <1>3, <1>4, <1>5, <1>6

LEMMA RevisingStep == ASSUME EInv, NEW a \in Agent, ReviewWrite(a) \/ MergeWrite(a) PROVE EInv'
<1>0. Fits(a) /\ Tables  BY DEF EInv
<1>1. Takes(a, Free) /\ conflicts' = conflicts /\ reports' = reports /\ offer' = offer
  BY DEF ReviewWrite, MergeWrite, Done
<1>2. Fits(a)'  BY <1>1, TakenIs, FreeFits
<1>3. \A b \in There : RowLike(book[b])  BY <1>0 DEF Tables, Sound
<1>4. CASE ReviewWrite(a)
  <2> DEFINE h == hand[a]
  <2>0. h.id \in There /\ h.status \in Status  BY <1>0, <1>4 DEF ReviewWrite, At, Fits
  <2>1. /\ book' = [book EXCEPT ![h.id].status = h.status, ![h.id].by = h.to]
        /\ history' = [history EXCEPT ![h.id] = Append(history[h.id], [version |-> h.number, status |-> h.status])]
    BY <1>4 DEF ReviewWrite, Versioned
  <2> HIDE DEF h
  <2>2. /\ book' = [b \in There |-> book'[b]] /\ history' = [b \in There |-> history'[b]]
        /\ \A b \in There : b # h.id => book'[b] = book[b] /\ history'[b] = history[b]
    <3>1. book = [b \in There |-> book[b]] /\ history = [b \in There |-> history[b]]  BY <1>0 DEF Tables
    <3>2. book' = [b \in There |-> book'[b]] /\ \A b \in There : b # h.id => book'[b] = book[b]
      BY <2>1, <3>1
    <3>3. history' = [b \in There |-> history'[b]] /\ \A b \in There : b # h.id => history'[b] = history[b]
      BY <2>1, <3>1
    <3> QED  BY <3>2, <3>3
  <2>3. RowLike(book'[h.id]) /\ book'[h.id].stale = book[h.id].stale /\ book'[h.id].status = h.status
    <3>1. book'[h.id] = [book[h.id] EXCEPT !.status = h.status, !.by = h.to]
      BY <1>0, <2>0, <2>1 DEF Tables
    <3> QED  BY <1>3, <2>0, <3>1 DEF RowLike
  <2>4. \E e : history'[h.id] = Append(history[h.id], e) /\ e.status = h.status
    <3> DEFINE e == [version |-> h.number, status |-> h.status]
    <3>1. e.status = h.status /\ history' = [history EXCEPT ![h.id] = Append(history[h.id], e)]  BY <2>1
    <3>2. h.id \in DOMAIN history  BY <1>0, <2>0 DEF Tables
    <3> HIDE DEF e
    <3>3. history'[h.id] = Append(history[h.id], e)  BY <3>1, <3>2
    <3> QED  BY <3>1, <3>3
  <2>5. Tables' /\ Grows
    <3>1. ASSUME NEW b \in There
          PROVE  /\ RowLike(book'[b]) /\ book'[b].stale = book[b].stale
                 /\ \/ history'[b] = history[b] /\ book'[b].status \in {book[b].status} \cup Terminal
                    \/ \E e : history'[b] = Append(history[b], e) /\ (book'[b].status = "promoted" => e.status = "promoted")
      BY <1>3, <2>2, <2>3, <2>4
    <3> QED  BY <1>1, <2>2, <3>1, RevisedIs
  <2> QED  BY <1>1, <1>2, <2>5, StepKeeps
<1>5. CASE MergeWrite(a)
  <2> DEFINE target == hand[a].id
             to == hand[a].to
  <2>1. /\ book' = [b \in There |-> IF b \in to THEN [book[b] EXCEPT !.status = "superseded", !.by = {target}]
                                    ELSE book[b]]
        /\ history' = [b \in There |->
               IF b \in to \cup {target}
               THEN Append(history[b], [version |-> NextVersion(b), status |-> book'[b].status]) ELSE history[b]]
    BY <1>5 DEF MergeWrite, Versioned
  <2> HIDE DEF target, to
  <2>2. ASSUME NEW b \in There
        PROVE  /\ RowLike(book'[b]) /\ book'[b].stale = book[b].stale
               /\ book'[b].status \in {book[b].status} \cup Terminal
    <3>1. CASE b \in to
      <4>1. book'[b] = [book[b] EXCEPT !.status = "superseded", !.by = {target}]  BY <2>1, <3>1
      <4>2. "superseded" \in Status \cap Terminal  BY DEF Status, Terminal
      <4> QED  BY <1>3, <4>1, <4>2 DEF RowLike
    <3>2. CASE b \notin to  BY <1>3, <2>1, <3>2
    <3> QED  BY <3>1, <3>2
  <2>3. ASSUME NEW b \in There
        PROVE  \/ history'[b] = history[b]
               \/ \E e : history'[b] = Append(history[b], e) /\ (book'[b].status = "promoted" => e.status = "promoted")
    <3>1. CASE b \in to \cup {target}
      <4> DEFINE e == [version |-> NextVersion(b), status |-> book'[b].status]
      <4>1. history'[b] = Append(history[b], e) /\ e.status = book'[b].status  BY <2>1, <3>1
      <4> QED  BY <4>1
    <3>2. CASE b \notin to \cup {target}  BY <2>1, <3>2
    <3> QED  BY <3>1, <3>2
  <2>4. book' = [b \in There |-> book'[b]] /\ history' = [b \in There |-> history'[b]]
    <3>1. book' = [b \in There |-> book'[b]]  BY <2>1
    <3>2. history' = [b \in There |-> history'[b]]
      <4> DEFINE H(b) == IF b \in to \cup {target}
                         THEN Append(history[b], [version |-> NextVersion(b), status |-> book'[b].status])
                         ELSE history[b]
      <4>1. history' = [b \in There |-> H(b)]  BY <2>1
      <4> HIDE DEF H
      <4> QED  BY <4>1
    <3> QED  BY <3>1, <3>2
  <2>5. Tables' /\ Grows  BY <1>1, <2>2, <2>3, <2>4, RevisedIs
  <2> QED  BY <1>1, <1>2, <2>5, StepKeeps
<1> QED  BY <1>4, <1>5

\* A feedback that counts: the row keeps its shape, and what is stale stays counted.
LEMMA CountedIs ==
  ASSUME NEW r, RowLike(r), NEW h, RowLike(h.row), h.outcome \in Outcome
  PROVE  /\ RowLike(Counted(r, h)) /\ Counted(r, h).stale = r.stale + One(h.outcome, {"stale"})
         /\ Counted(r, h).status \in {h.row.status, "needs_review"}
<1> DEFINE s == Recommended(h.row, h.outcome, h.threshold)
           next == [r EXCEPT !.good = @ + One(h.outcome, {"success"}), !.bad = @ + One(h.outcome, {"failed", "misleading"}),
                             !.stale = @ + One(h.outcome, {"stale"}), !.status = s]
           c == Recompute(next)
<1>1. s \in {h.row.status, "needs_review"} /\ s \in Status  BY DEF Recommended, RowLike, Status
<1>2. One(h.outcome, {"stale"}) \in Nat  BY DEF One
<1> HIDE DEF s
<1>3. RowLike(next) /\ next.stale = r.stale + One(h.outcome, {"stale"}) /\ next.status = s
  <2> DEFINE g == One(h.outcome, {"success"})
             d == One(h.outcome, {"failed", "misleading"})
             t == One(h.outcome, {"stale"})
  <2>1. next = [r EXCEPT !.good = @ + g, !.bad = @ + d, !.stale = @ + t, !.status = s]  OBVIOUS
  <2> HIDE DEF g, d, t, next
  <2>2. next.stale = r.stale + t /\ next.status = s
        /\ next = [status |-> next.status, by |-> next.by, good |-> next.good, bad |-> next.bad,
                   stale |-> next.stale, confidence |-> next.confidence]
    BY <2>1 DEF RowLike
  <2>3. r.stale + t \in Nat  BY <1>2 DEF RowLike, t
  <2> QED  BY <1>1, <2>2, <2>3 DEF RowLike, t
<1>4. Counted(r, h) = [next EXCEPT !.confidence = c]  BY DEF Counted, s
<1> HIDE DEF next, c
<1>5. RowLike(Counted(r, h)) /\ Counted(r, h).stale = next.stale /\ Counted(r, h).status = next.status
  <2> DEFINE k == Counted(r, h)
  <2>1. k = [next EXCEPT !.confidence = c]  BY <1>4
  <2> HIDE DEF k
  <2>2. RowLike(k) /\ k.stale = next.stale /\ k.status = next.status  BY <1>3, <2>1 DEF RowLike
  <2> QED  BY <2>2 DEF k
<1> QED  BY <1>1, <1>3, <1>5

LEMMA FeedbackStep == ASSUME EInv, NEW a \in Agent, FeedbackWrite(a) PROVE EInv'
<1>0. Fits(a) /\ Tables /\ hand[a].pc = "feedback"  BY DEF EInv, FeedbackWrite, At
<1>1. Takes(a, Free) /\ offer' = offer /\ history' = history  BY DEF FeedbackWrite, Done
<1>2. Fits(a)'  BY <1>1, TakenIs, FreeFits
<1> SUFFICES ASSUME NEW b, b = hand[a].id, NEW o, o = hand[a].outcome PROVE EInv'  OBVIOUS
<1>3. b \in There /\ o \in Outcome /\ RowLike(hand[a].row) /\ Sound(b) /\ b \in Book
      /\ (hand[a].row.status = "promoted" => Decided(b))
  BY <1>0 DEF Fits, Tables
<1>4. reports' = [reports EXCEPT ![b] = @ \cup (({o} \cap Negative) \X {Owns(a, b)})]
  BY DEF FeedbackWrite, Reflected
<1>o. Owns(a, b) \in BOOLEAN  BY DEF Owns
<1>5. /\ reports' \in [Book -> SUBSET (Negative \X BOOLEAN)]
      /\ \A c \in Book : c # b => reports'[c] = reports[c]
      /\ reports'[b] = reports[b] \cup (({o} \cap Negative) \X {Owns(a, b)})
  BY <1>0, <1>3, <1>4, <1>o DEF Tables
<1>6. CASE Owns(a, b) /\ o # "unknown"
  <2> DEFINE r == Counted(book[b], hand[a])
  <2>1. book' = [book EXCEPT ![b] = r] /\ conflicts' = conflicts \cup Conflicting(b, o)
    BY <1>6 DEF FeedbackWrite
  <2>2. RowLike(r) /\ r.stale = book[b].stale + One(o, {"stale"}) /\ r.status \in {hand[a].row.status, "needs_review"}
    BY <1>3, CountedIs DEF Sound
  <2> HIDE DEF r
  <2>3. There' = There /\ book' = [c \in There |-> book'[c]] /\ book'[b] = r
        /\ \A c \in There : c # b => book'[c] = book[c]
    BY <1>0, <1>3, <2>1 DEF Tables, There
  <2>4. \A c \in There : Decided(c) => Decided(c)'  BY <1>1 DEF Decided
  <2>5. ASSUME NEW c \in There, c # b PROVE Sound(c)'
    <3>1. book'[c] = book[c] /\ history'[c] = history[c] /\ reports'[c] = reports[c] /\ conflicts \subseteq conflicts'
      BY <1>0, <1>1, <1>5, <2>1, <2>3, <2>5 DEF Tables
    <3>2. Sound(c)  BY <1>0 DEF Tables
    <3> QED  BY <2>4, <3>1, <3>2 DEF Sound, Decided
  <2>6. Sound(b)'
    <3>1. book'[b].status = "promoted" => Decided(b)'
      BY <1>1, <1>3, <2>2, <2>3 DEF Decided
    <3>2. <<"stale", TRUE>> \in reports'[b] => book'[b].stale > 0
      <4>1. CASE o = "stale"
        <5>1. One(o, {"stale"}) = 1 /\ book[b].stale \in Nat  BY <1>3, <4>1 DEF One, Sound, RowLike
        <5> QED  BY <2>2, <2>3, <5>1
      <4>2. CASE o # "stale"
        <5>1. One(o, {"stale"}) = 0 /\ book[b].stale \in Nat  BY <1>3, <4>2 DEF One, Sound, RowLike
        <5>2. <<"stale", TRUE>> \in reports'[b] => <<"stale", TRUE>> \in reports[b]  BY <1>5, <4>2
        <5> QED  BY <1>3, <2>2, <2>3, <5>1, <5>2 DEF Sound
      <4> QED  BY <4>1, <4>2
    <3>3. b \in Skilled /\ reports'[b] \cap Grave # {} => b \in conflicts'
      <4>1. CASE o \in {"stale", "misleading"}
        BY <2>1, <4>1 DEF Conflicting
      <4>2. CASE o \notin {"stale", "misleading"}
        <5>1. reports'[b] \cap Grave = reports[b] \cap Grave  BY <1>5, <4>2 DEF Grave
        <5> QED  BY <1>3, <2>1, <5>1 DEF Sound
      <4> QED  BY <4>1, <4>2
    <3>4. RowLike(book'[b]) /\ history'[b] \in Seq(ToSet(history'[b]))  BY <1>1, <1>3, <2>2, <2>3 DEF Sound
    <3> QED  BY <3>1, <3>2, <3>3, <3>4 DEF Sound
  <2>7. Tables'
    <3>1. \A c \in There' : Sound(c)'  BY <2>3, <2>5, <2>6
    <3>2. \A c \in Book \ There' : reports'[c] = {}  BY <1>0, <1>3, <1>5, <2>3 DEF Tables
    <3>3. DOMAIN history' = There' /\ history' = [c \in There' |-> history'[c]] /\ There' \subseteq Book
      BY <1>0, <1>1, <2>3 DEF Tables
    <3> QED  BY <1>5, <2>3, <3>1, <3>2, <3>3 DEF Tables
  <2>8. Grows  BY <1>0, <1>5, <2>1, <2>3, <2>4 DEF Grows, Tables
  <2> QED  BY <1>1, <1>2, <2>7, <2>8, StepKeeps
<1>7. CASE ~(Owns(a, b) /\ o # "unknown")
  <2>1. book' = book /\ conflicts' = conflicts  BY <1>7 DEF FeedbackWrite
  <2>2. There' = There  BY <2>1 DEF There
  <2>3. \A c \in There : Decided(c) => Decided(c)'  BY <1>1 DEF Decided
  <2>4. ASSUME NEW c \in There PROVE Sound(c)'
    <3>1. Sound(c)  BY <1>0 DEF Tables
    <3>2. (<<"stale", TRUE>> \in reports'[c] <=> <<"stale", TRUE>> \in reports[c])
          /\ reports'[c] \cap Grave = reports[c] \cap Grave
      <4>1. CASE c # b  BY <1>0, <1>5, <4>1 DEF Tables
      <4>2. CASE c = b /\ ~Owns(a, b)  BY <1>5, <1>o, <4>2 DEF Grave
      <4>3. CASE c = b /\ o = "unknown"
        <5>1. {o} \cap Negative = {}  BY <4>3 DEF Negative
        <5>2. reports'[b] = reports[b]  BY <1>5, <5>1
        <5> QED  BY <4>3, <5>2
      <4> QED  BY <1>7, <4>1, <4>2, <4>3
    <3> QED  BY <1>1, <2>1, <3>1, <3>2 DEF Sound, Decided
  <2>5. Tables'
    <3>1. \A c \in There' : Sound(c)'  BY <2>2, <2>4
    <3>2. \A c \in Book \ There' : reports'[c] = {}  BY <1>0, <1>3, <1>5, <2>2 DEF Tables
    <3>3. /\ DOMAIN history' = There' /\ history' = [c \in There' |-> history'[c]] /\ There' \subseteq Book
          /\ book' = [c \in There' |-> book'[c]]
      BY <1>0, <1>1, <2>1, <2>2 DEF Tables
    <3> QED  BY <1>5, <3>1, <3>2, <3>3 DEF Tables
  <2>6. Grows  BY <1>0, <1>5, <2>1, <2>2, <2>3 DEF Grows, Tables
  <2> QED  BY <1>1, <1>2, <2>5, <2>6, StepKeeps
<1> QED  BY <1>6, <1>7

LEMMA PreflightStep == ASSUME EInv, NEW a \in Agent, Preflight(a) PROVE EInv'
<1>0. Fits(a) /\ Tables /\ hand[a].pc = "preflight"  BY DEF EInv, Preflight, At
<1>1. Takes(a, Free) /\ UNCHANGED <<book, history, conflicts, reports>>  BY DEF Preflight, Done
<1>2. Fits(a)'  BY <1>1, TakenIs, FreeFits
<1>3. Tables' /\ Grows  BY <1>1, Untouched
<1> DEFINE b == hand[a].id
           known == hand[a].known
           row == hand[a].row
           decision == IF Refuses(b, row) THEN "none" ELSE IF Reserved(b, row) THEN "guided_reuse" ELSE "direct_reuse"
<1>4. /\ row.status = "promoted" /\ known \subseteq reports[b] /\ (<<"stale", TRUE>> \in known => row.stale > 0)
      /\ b \in There /\ Decided(b) /\ Sound(b)
  BY <1>0 DEF Fits, Tables
<1>5. offer'.id = b /\ offer'.known = known /\ offer'.decision = decision
  BY DEF Preflight, Recorded
<1>6. <<"stale", TRUE>> \in known => decision # "direct_reuse"  BY <1>4 DEF Reserved
<1>7. b \in Skilled /\ known \cap Grave # {} => decision = "none"
  BY <1>4 DEF Refuses, Sound
<1>8. offer'.id \in There' /\ Decided(offer.id)'
  BY <1>1, <1>4, <1>5 DEF Decided, There
<1> HIDE DEF b, known, row, decision
<1>9. OfferStands'  BY <1>5, <1>6, <1>7, <1>8 DEF OfferStands
<1> QED  BY <1>1, <1>2, <1>3, <1>9, StepKeeps

LEMMA BackfillStep == ASSUME EInv, NEW a \in Agent, Backfill(a) PROVE EInv'
<1>1. Takes(a, hand[a])  BY DEF EInv, Takes, Backfill
<1>2. Tables' /\ Grows  BY Untouched DEF Backfill
<1>3. Fits(a)'
  <2>1. Fits(a) /\ UNCHANGED <<book, history, conflicts, reports, hand>>  BY DEF EInv, Backfill
  <2> QED  BY <2>1 DEF Fits, Decided, There
<1> QED  BY <1>1, <1>2, <1>3, StepKeeps DEF Backfill

LEMMA EInvNext == EInv /\ [Next]_vars => EInv'
<1> SUFFICES ASSUME EInv, [Next]_vars PROVE EInv'  OBVIOUS
<1>1. CASE UNCHANGED vars
  <2>1. Tables' /\ UNCHANGED <<book, history, conflicts, reports, hand, offer>>  BY <1>1, Untouched DEF vars
  <2>2. OfferStands'  BY <2>1 DEF EInv, OfferStands, Decided, There
  <2>3. \A a \in Agent : Fits(a)'  BY <2>1 DEF EInv, Fits, Decided, There
  <2> QED  BY <2>1, <2>2, <2>3 DEF EInv
<1>2. CASE Next
  <2>1. PICK a \in Agent : Step(a)  BY <1>2 DEF Next
  <2>2. CASE (\E b \in Book : Create(a, b) \/ Bootstrap(a, b)) \/ CreateAuto(a)  BY <2>2, CreatingStep
  <2>3. CASE \/ \E b \in Book : Synthesise(a, b) \/ Search(a, b)
             \/ \E b \in Book, status \in Status : \E to : Review(a, b, status, to)
             \/ Decide(a) \/ Number(a)
             \/ \E target \in There, sources \in SUBSET There : Merge(a, target, sources)
             \/ \E b \in Book, outcome \in Outcome, threshold \in {1, 2} : Feedback(a, b, outcome, threshold)
    BY <2>3, ReadingStep
  <2>4. CASE ReviewWrite(a) \/ MergeWrite(a)  BY <2>4, RevisingStep
  <2>5. CASE CreateRefused(a) \/ DecideNothing(a) \/ Die(a)
    BY <2>5, OnlyDone DEF CreateRefused, DecideNothing, Die
  <2> QED  BY <2>1, <2>2, <2>3, <2>4, <2>5, FeedbackStep, PreflightStep, BackfillStep DEF Step
<1> QED  BY <1>1, <1>2

LEMMA InitEInv == Init => EInv
<1> SUFFICES ASSUME Init PROVE EInv  OBVIOUS
<1>1. There = {} /\ DOMAIN history = {} /\ reports = [b \in Book |-> {}] /\ offer.decision = "none"
  BY DEF Init, There
<1>2. book = [b \in There |-> book[b]] /\ history = [b \in There |-> history[b]]  BY <1>1 DEF Init
<1>3. \A a \in Agent : hand[a] = Free  BY DEF Init
<1>4. \A a \in Agent : Fits(a)
  <2>1. HandLike(Free) /\ Free.pc = "idle"  BY DEF HandLike, Free
  <2> QED  BY <1>3, <2>1 DEF Fits
<1>5. hand = [a \in Agent |-> hand[a]]  BY DEF Init
<1>6. Tables  BY <1>1, <1>2 DEF Tables
<1> QED  BY <1>1, <1>4, <1>5, <1>6 DEF EInv, OfferStands

(* What is offered was promoted by a decision on record, and is not what its
   owner had complained of when it was searched (experience_preflight,
   record_playbook_feedback). *)
THEOREM OffersEarned == Spec => []OffersAreEarned
<1>1. Init => EInv  BY InitEInv
<1>2. EInv /\ [Next]_vars => EInv'  BY EInvNext
<1>3. EInv => OffersAreEarned
  BY DEF EInv, OfferStands, OffersAreEarned, Decided, Grave
<1> QED  BY <1>1, <1>2, <1>3, PTL DEF Spec

(* --------------------------- other promises --------------------------- *)

\* No playbook is deleted, and an episode comes with its playbook.
Joined == There \subseteq There' /\ episodes' \subseteq episodes \cup There'

LEMMA StepJoins == ASSUME [Next]_vars PROVE Joined
<1>1. CASE UNCHANGED vars  BY <1>1 DEF vars, Joined, There
<1>2. CASE Next
  <2>1. PICK a \in Agent : Step(a)  BY <1>2 DEF Next
  <2>2. ASSUME NEW b, Created(b), UNCHANGED episodes \/ episodes' = episodes \cup {b} PROVE Joined
    <3>1. There' = There \cup {b}  BY <2>2 DEF Created, Also, There
    <3> QED  BY <2>2, <3>1 DEF Joined
  <2>3. ASSUME UNCHANGED <<book, episodes>> PROVE Joined  BY <2>3 DEF Joined, There
  <2>4. ASSUME DOMAIN book' = DOMAIN book, UNCHANGED episodes PROVE Joined  BY <2>4 DEF Joined, There
  <2>5. CASE \E b \in Book : Create(a, b) \/ Bootstrap(a, b)  BY <2>5, <2>2 DEF Create, Bootstrap
  <2>6. CASE CreateAuto(a)  BY <2>6, <2>2 DEF CreateAuto, WithEpisode
  <2>7. CASE \/ \E b \in Book : Synthesise(a, b) \/ Search(a, b)
             \/ \E b \in Book, status \in Status : \E to : Review(a, b, status, to)
             \/ Decide(a) \/ DecideNothing(a) \/ Number(a) \/ CreateRefused(a)
             \/ \E target \in There, sources \in SUBSET There : Merge(a, target, sources)
             \/ \E b \in Book, outcome \in Outcome, threshold \in {1, 2} : Feedback(a, b, outcome, threshold)
    BY <2>7, <2>3 DEF Synthesise, Search, Review, Decide, DecideNothing, Deciding, Number, CreateRefused,
                      Merge, Feedback, tables
  <2>8. CASE Preflight(a) \/ Backfill(a) \/ Die(a)  BY <2>8, <2>3 DEF Preflight, Backfill, Die, tables
  <2>9. CASE ReviewWrite(a)  BY <2>9, <2>4 DEF ReviewWrite
  <2>10. CASE MergeWrite(a)  BY <2>10, <2>4 DEF MergeWrite, There
  <2>11. CASE FeedbackWrite(a)  BY <2>11, <2>3, <2>4 DEF FeedbackWrite
  <2> QED  BY <2>1, <2>5, <2>6, <2>7, <2>8, <2>9, <2>10, <2>11 DEF Step
<1> QED  BY <1>1, <1>2

(* Every episode on record has its playbook, whatever promotions race or die
   (promote_experiences, _insert_episode). *)
THEOREM BooksOfEpisodes == Spec => []EpisodesHaveBooks
<1>1. Init => EpisodesHaveBooks  BY DEF Init, EpisodesHaveBooks
<1>2. EpisodesHaveBooks /\ [Next]_vars => EpisodesHaveBooks'  BY StepJoins DEF Joined, EpisodesHaveBooks
<1> QED  BY <1>1, <1>2, PTL DEF Spec

\* What a step may do to a playbook that is out of use.
Lifts(b) ==
    (book[b].status \in Terminal /\ book'[b].status # book[b].status) =>
        \E a \in Agent : /\ hand[a].pc # "idle" /\ hand'[a].pc = "idle" /\ b \in {hand[a].id} \cup hand[a].to
                         /\ hand[a].pc = "feedback" => hand[a].row.status \notin Terminal

LEMMA StepLifts == ASSUME EInv, [Next]_vars, NEW b \in There PROVE Lifts(b)
<1>1. ASSUME book'[b] = book[b] PROVE Lifts(b)  BY <1>1 DEF Lifts
<1>2. ASSUME NEW a \in Agent, Done(a), hand[a].pc # "idle", b \in {hand[a].id} \cup hand[a].to PROVE Lifts(b)
  <2>1. hand'[a].pc = "idle"  BY <1>2, TakenIs DEF Done, Free
  <2>2. Fits(a)  BY DEF EInv
  <2> QED  BY <1>2, <2>1, <2>2 DEF Lifts, Fits
<1>3. CASE UNCHANGED vars  BY <1>1, <1>3 DEF vars
<1>4. CASE Next
  <2>1. PICK a \in Agent : Step(a)  BY <1>4 DEF Next
  <2>2. ASSUME NEW c, Created(c) PROVE Lifts(b)
    <3>1. book'[b] = book[b]  BY <2>2 DEF Created, Also, There
    <3> QED  BY <1>1, <3>1
  <2>3. ASSUME UNCHANGED book PROVE Lifts(b)  BY <2>3, <1>1
  <2>5. CASE \E c \in Book : Create(a, c) \/ Bootstrap(a, c)  BY <2>5, <2>2 DEF Create, Bootstrap
  <2>6. CASE CreateAuto(a)  BY <2>6, <2>2 DEF CreateAuto
  <2>7. CASE \/ \E c \in Book : Synthesise(a, c) \/ Search(a, c)
             \/ \E c \in Book, status \in Status : \E to : Review(a, c, status, to)
             \/ Decide(a) \/ DecideNothing(a) \/ Number(a) \/ CreateRefused(a)
             \/ \E target \in There, sources \in SUBSET There : Merge(a, target, sources)
             \/ \E c \in Book, outcome \in Outcome, threshold \in {1, 2} : Feedback(a, c, outcome, threshold)
    BY <2>7, <2>3 DEF Synthesise, Search, Review, Decide, DecideNothing, Deciding, Number, CreateRefused,
                      Merge, Feedback, tables
  <2>8. CASE Preflight(a) \/ Backfill(a) \/ Die(a)  BY <2>8, <2>3 DEF Preflight, Backfill, Die, tables
  <2>9. CASE ReviewWrite(a)
    <3>1. CASE b = hand[a].id  BY <2>9, <3>1, <1>2 DEF ReviewWrite, At
    <3>2. CASE b # hand[a].id
      <4>1. book'[b] = book[b]  BY <2>9, <3>2 DEF ReviewWrite, There
      <4> QED  BY <1>1, <4>1
    <3> QED  BY <3>1, <3>2
  <2>10. CASE MergeWrite(a)
    <3>1. CASE b \in hand[a].to  BY <2>10, <3>1, <1>2 DEF MergeWrite, At
    <3>2. CASE b \notin hand[a].to
      <4>1. book'[b] = book[b]  BY <2>10, <3>2 DEF MergeWrite
      <4> QED  BY <1>1, <4>1
    <3> QED  BY <3>1, <3>2
  <2>11. CASE FeedbackWrite(a)
    <3>1. CASE b = hand[a].id  BY <2>11, <3>1, <1>2 DEF FeedbackWrite, At
    <3>2. CASE b # hand[a].id
      <4>1. book'[b] = book[b]  BY <2>11, <3>2 DEF FeedbackWrite, There
      <4> QED  BY <1>1, <4>1
    <3> QED  BY <3>1, <3>2
  <2> QED  BY <2>1, <2>5, <2>6, <2>7, <2>8, <2>9, <2>10, <2>11 DEF Step
<1> QED  BY <1>3, <1>4

(* A playbook out of use comes back only by a decision, or by an answer to a
   playbook that was in use when it was read (review_playbook,
   record_playbook_feedback). *)
THEOREM DecisionsLift == Spec => OnlyDecisionsLift
<1>1. Init => EInv  BY InitEInv
<1>2. EInv /\ [Next]_vars => EInv'  BY EInvNext
<1>3. EInv /\ [Next]_vars => [\A b \in There : Lifts(b)]_vars  BY StepLifts
<1> QED  BY <1>1, <1>2, <1>3, PTL DEF Spec, OnlyDecisionsLift, Lifts
=============================================================================
