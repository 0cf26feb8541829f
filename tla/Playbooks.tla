----------------------------- MODULE Playbooks -----------------------------
(* The Experience playbooks of experience_store.py: creation by a tool, by the
   bootstrap of the core playbooks and by the promotion of sessions; review,
   merge and feedback; and the preflight that offers a playbook for reuse.  The
   providers of one process share provider._lock, but a script or another
   process has its own connection, so an operation is its reads and then the one
   transaction that writes: what it read may be stale by then.  A playbook is its
   status, its heir, its counters and its confidence; what its payload says never
   changes (ExperienceSessions). *)
EXTENDS ExperienceSessions, Functions

CONSTANTS Agent, Book, Scope,
          Home, Pool,      \* scope_id and shared_scope_id of a playbook
          Core, CoreClass, \* the playbooks of the bootstrap, and which of them each is
          AutoBook, Session,   \* the playbooks that sessions lead to, and the session of each
          Made,            \* the payloads of those made by hand
          Skilled,         \* playbooks with a related skill
          Reads, Writes,   \* scopes an agent may read and write
          AutoPromote,     \* auto_promote_low_risk
          MinEntries, MinToolEntries, RequireVerification, \* the promotion_* configuration
          RiskyDirect,     \* allow_risky_direct_reuse
          DirectThreshold, \* direct_reuse_min_confidence, per mille
          MaxOps           \* bound: operations begun

Percent == 0..1000
ByHand == Book \ (Core \cup AutoBook)

ASSUME PlaybookAssumption ==
    /\ Core \subseteq Book /\ AutoBook \subseteq Book \ Core
    /\ {Home, Pool} \subseteq [Book -> Scope]
    /\ CoreClass \in [Core -> DOMAIN CorePlaybooks] /\ Core \subseteq Skilled /\ Skilled \subseteq Book \ AutoBook
    /\ DOMAIN Session = AutoBook
    /\ \A b \in AutoBook : \A i \in DOMAIN Session[b] : Session[b][i].role \in Role
    /\ \A b \in ByHand : Made[b].confidence \in Percent
    /\ {Reads, Writes} \subseteq [Agent -> SUBSET Scope] /\ DirectThreshold \in Percent
    /\ {MaxOps, MinEntries, MinToolEntries} \subseteq Nat
    /\ {AutoPromote, RequireVerification, RiskyDirect} \subseteq BOOLEAN

Payload == [b \in Book |-> IF b \in Core THEN CoreSheet(CoreClass[b])
                           ELSE IF b \in AutoBook THEN SheetOf(Session[b]) ELSE Made[b]]
Worth == [b \in AutoBook |-> IF Promotable(Session[b], MinEntries, MinToolEntries, RequireVerification)
                         THEN Quality(Session[b]) ELSE "reject"]

VARIABLES book,      \* procedural_playbooks: id -> row
          history,   \* playbook_versions: id -> rows in the order they were written
          episodes,  \* task_episodes, by the playbook they lead to
          conflicts, \* skill_conflicts that are open
          anchors,   \* playbooks with their skill_anchors
          reports,   \* reflection_events of each: negative outcomes, and if its owner reported them
          offer,     \* the last preflight's answer, for the properties
          hand,      \* what an agent has in hand
          ops        \* bound: operations begun

vars == <<book, history, episodes, conflicts, anchors, reports, offer, hand, ops>>
tables == <<book, history, episodes, conflicts, anchors, reports, offer>>

Status == {"candidate", "needs_review", "reviewed", "promoted", "quarantined", "superseded"}
Terminal == {"quarantined", "superseded"}
Outcome == {"success", "partial", "failed", "stale", "misleading", "unknown"}
Negative == {"failed", "stale", "misleading"}

None == [status |-> "candidate", by |-> {}, good |-> 0, bad |-> 0, stale |-> 0, confidence |-> 0]
Free == [pc |-> "idle", id |-> CHOOSE b \in Book : TRUE, to |-> {}, status |-> "candidate",
         row |-> None, number |-> 0, known |-> {}, outcome |-> "unknown", threshold |-> 1]

There == DOMAIN book
Sees(a, b) == b \in There /\ {Home[b], Pool[b]} \cap Reads[a] # {}
SameOwner(b, c) == {Home[b], Pool[b]} \cap {Home[c], Pool[c]} # {}
NextVersion(b) == 1 + Max({0} \cup {v.version : v \in ToSet(history[b])})

PTypeOK ==
    /\ There \subseteq Book /\ DOMAIN history = There /\ episodes \subseteq AutoBook
    /\ \A b \in There : /\ book[b].status \in Status /\ book[b].by \subseteq Book
                        /\ book[b].confidence \in Percent
                        /\ {book[b].good, book[b].bad, book[b].stale} \subseteq 0..MaxOps
    /\ conflicts \subseteq Skilled /\ anchors \subseteq Skilled
    /\ offer.decision \in {"none", "direct_reuse", "guided_reuse"}
    /\ ops \in 0..MaxOps

Init == /\ book = [b \in {} |-> None] /\ history = [b \in {} |-> <<>>]
        /\ episodes = {} /\ conflicts = {} /\ anchors = {} /\ ops = 0
        /\ reports = [b \in Book |-> {}]
        /\ offer = [id |-> CHOOSE b \in Book : TRUE, decision |-> "none", known |-> {}]
        /\ hand = [a \in Agent |-> Free]

Takes(a, h) == hand' = [hand EXCEPT ![a] = h]
Done(a) == Takes(a, Free)
Starts(a) == hand[a].pc = "idle" /\ ops < MaxOps /\ ops' = ops + 1
At(a, pc) == hand[a].pc = pc /\ UNCHANGED ops

(* One commit of create_playbook: the candidate and its first version. *)
Also(f, b, e) == [c \in DOMAIN f \cup {b} |-> IF c = b THEN e ELSE f[c]]
Created(b) ==
    /\ b \notin There
    /\ book' = Also(book, b, [None EXCEPT !.confidence = Payload[b].confidence])
    /\ history' = Also(history, b, <<[version |-> 1, status |-> "candidate"]>>)
    /\ UNCHANGED <<conflicts, anchors, reports, offer>>

Create(a, b) == Starts(a) /\ b \in ByHand /\ Home[b] \in Writes[a]
                /\ Created(b) /\ Done(a) /\ UNCHANGED episodes

(* bootstrap_core_playbooks passes by what it can see; otherwise it creates and,
   in a second transaction, promotes. *)
Bootstrap(a, b) ==
    /\ Starts(a) /\ b \in Core /\ Home[b] \in Writes[a]
    /\ Created(b) /\ Takes(a, [Free EXCEPT !.pc = "decide", !.id = b, !.status = "promoted"])
    /\ UNCHANGED episodes

(* promote_experiences looks at a session: it must be worth it, have no episode,
   and no live playbook of its class and title may rest on the same entries; one
   that rests on no session has none. *)
Similar(b, c) == c \in AutoBook /\ Payload[b].class = Payload[c].class /\ SameWork(Session[b], Session[c])
Synthesise(a, b) ==
    /\ Starts(a) /\ b \in AutoBook /\ Home[b] \in Writes[a]
    /\ Worth[b] # "reject" /\ b \notin episodes \cup There
    /\ \A c \in There : Home[c] \in Reads[a] /\ book[c].status \notin Terminal => ~Similar(b, c)
    /\ Takes(a, [Free EXCEPT !.pc = "synthesised", !.id = b]) /\ UNCHANGED tables

\* Altered, to try the properties: the episode committed on its own, the candidate in another transaction.
CreateAutoLate(a) ==
    /\ At(a, "synthesised")
    /\ \/ /\ hand[a].id \notin episodes /\ episodes' = episodes \cup {hand[a].id}
          /\ UNCHANGED <<book, history, conflicts, anchors, reports, offer, hand>>
       \/ /\ hand[a].id \in episodes /\ Created(hand[a].id) /\ UNCHANGED episodes /\ Done(a)

(* The episode is inserted and create_playbook commits it with the candidate. *)
WithEpisode(b) == episodes' = episodes \cup {b}
CreateAuto(a) ==
    LET b == hand[a].id
        next == IF Worth[b] = "needs_review" THEN "needs_review" ELSE "promoted"
    IN /\ At(a, "synthesised") /\ Created(b) /\ WithEpisode(b)
       /\ IF next = "promoted" /\ ~AutoPromote THEN Done(a)
          ELSE Takes(a, [Free EXCEPT !.pc = "decide", !.id = b, !.status = next])

(* Another agent's insert came first: the constraint on the id refuses this one. *)
CreateRefused(a) == At(a, "synthesised") /\ hand[a].id \in There /\ Done(a) /\ UNCHANGED tables

(* review_playbook reads the row, and its heir, and checks them. *)
MayDecide(a, b, status, to) ==
    /\ Sees(a, b)
    /\ IF status = "superseded" THEN \E c \in Book : to = {c} /\ c # b /\ Sees(a, c) /\ SameOwner(b, c)
       ELSE to = {}
    /\ book[b].status # status \/ book[b].by # to
Deciding(a, b, status, to) ==
    /\ MayDecide(a, b, status, to)
    /\ Takes(a, [Free EXCEPT !.pc = "number", !.id = b, !.status = status, !.to = to])
    /\ UNCHANGED tables
Review(a, b, status, to) == Starts(a) /\ Deciding(a, b, status, to)
Decide(a) == At(a, "decide") /\ Deciding(a, hand[a].id, hand[a].status, {})
DecideNothing(a) == /\ At(a, "decide") /\ ~MayDecide(a, hand[a].id, hand[a].status, {})
                    /\ Done(a) /\ UNCHANGED tables

(* The number of the new version is read before the transaction begins. *)
Number(a) == /\ At(a, "number")
             /\ Takes(a, [hand[a] EXCEPT !.pc = "review", !.number = NextVersion(hand[a].id)])
             /\ UNCHANGED tables

Versioned(b, number, status) == Append(history[b], [version |-> number, status |-> status])
Anchored(b, status) == IF status = "promoted" THEN anchors \cup ({b} \cap Skilled) ELSE anchors

ReviewWrite(a) ==
    LET h == hand[a] IN
    /\ At(a, "review")
    /\ book' = [book EXCEPT ![h.id].status = h.status, ![h.id].by = h.to]
    /\ history' = [history EXCEPT ![h.id] = Versioned(h.id, h.number, h.status)]
    /\ anchors' = Anchored(h.id, h.status)
    /\ Done(a) /\ UNCHANGED <<episodes, conflicts, reports, offer>>

(* merge_playbooks: every source is checked against the target, whose own status
   is not looked at; then all of them are written in one transaction. *)
Merge(a, target, sources) ==
    LET changing == {b \in sources : ~(book[b].status = "superseded" /\ book[b].by = {target})}
    IN /\ Starts(a) /\ sources # {} /\ target \notin sources
       /\ \A b \in sources \cup {target} : Sees(a, b)
       /\ changing # {} /\ \A b \in changing : SameOwner(b, target)
       /\ Takes(a, [Free EXCEPT !.pc = "merge", !.id = target, !.to = changing])
       /\ UNCHANGED tables

MergeWrite(a) ==
    LET target == hand[a].id IN
    /\ At(a, "merge")
    /\ book' = [b \in There |-> IF b \in hand[a].to
                                THEN [book[b] EXCEPT !.status = "superseded", !.by = {target}] ELSE book[b]]
    /\ history' = [b \in There |->
         IF b \in hand[a].to \cup {target} THEN Versioned(b, NextVersion(b), book'[b].status) ELSE history[b]]
    /\ Done(a) /\ UNCHANGED <<episodes, conflicts, anchors, reports, offer>>

\* record_skill_feedback passes on what it heard of a skill, with a patience of 2.
Thresholds(b) == {1} \cup IF b \in Skilled THEN {2} ELSE {}

\* Altered, to try the properties: feedback on whatever is there.
FeedbackOnAny(a, b, outcome, threshold) ==
    /\ Starts(a) /\ Sees(a, b)
    /\ Takes(a, [Free EXCEPT !.pc = "feedback", !.id = b, !.row = book[b],
                             !.outcome = outcome, !.threshold = threshold])
    /\ UNCHANGED tables

(* record_playbook_feedback reads the row; a playbook out of use takes none. *)
Feedback(a, b, outcome, threshold) ==
    /\ Starts(a) /\ Sees(a, b) /\ book[b].status \notin Terminal
    /\ threshold \in Thresholds(b)
    /\ Takes(a, [Free EXCEPT !.pc = "feedback", !.id = b, !.row = book[b],
                             !.outcome = outcome, !.threshold = threshold])
    /\ UNCHANGED tables

One(outcome, kinds) == IF outcome \in kinds THEN 1 ELSE 0
Recommended(row, outcome, threshold) ==
    IF outcome \in Negative /\ row.bad + row.stale + 1 >= threshold THEN "needs_review" ELSE row.status

Least(n, m) == IF n < m THEN n ELSE m
Minus(n, m) == IF n < m THEN 0 ELSE n - m

\* Altered, to try the properties: the value before it is brought into range.
RecomputeUnbounded(row) ==
    (650 * row.confidence) \div 1000 + (300 * (row.good + 1)) \div (row.good + row.bad + 2) + 50 + 300 * row.good

(* Per mille, rounded down. *)
Recompute(row) ==
    LET gain == (650 * row.confidence) \div 1000 + (300 * (row.good + 1)) \div (row.good + row.bad + 2)
                + (IF row.status = "promoted" THEN 50 ELSE 0)
        loss == Least(200, 50 * row.stale) + (IF row.bad > 0 /\ row.bad >= row.good THEN 150 ELSE 0)
    IN Least(950, Minus(gain, loss))

Counted(row, h) ==
    LET next == [row EXCEPT !.good = @ + One(h.outcome, {"success"}), !.bad = @ + One(h.outcome, {"failed", "misleading"}),
                            !.stale = @ + One(h.outcome, {"stale"}), !.status = Recommended(h.row, h.outcome, h.threshold)]
    IN [next EXCEPT !.confidence = Recompute(next)]

ConflictingLess(b, outcome) == IF outcome = "stale" /\ b \in Skilled THEN {b} ELSE {}
Conflicting(b, outcome) == IF outcome \in {"stale", "misleading"} /\ b \in Skilled THEN {b} ELSE {}

(* Only the owner's scope, and an outcome that is known, changes the playbook. *)
Owns(a, b) == Home[b] \in Writes[a]

\* _record_feedback_reflection_event, whoever reports.
Reflected(a, b, outcome) == [reports EXCEPT ![b] = @ \cup (({outcome} \cap Negative) \X {Owns(a, b)})]

FeedbackWrite(a) ==
    LET b == hand[a].id  outcome == hand[a].outcome IN
    /\ At(a, "feedback") /\ Done(a)
    /\ IF Owns(a, b) /\ outcome # "unknown"
       THEN /\ book' = [book EXCEPT ![b] = Counted(@, hand[a])]
            /\ conflicts' = conflicts \cup Conflicting(b, outcome)
       ELSE UNCHANGED <<book, conflicts>>
    /\ reports' = Reflected(a, b, outcome)
    /\ UNCHANGED <<history, episodes, anchors, offer>>

(* experience_preflight: the search reads a promoted row, then its conflicts and
   anchors are read, and the answer is recorded. *)
Search(a, b) ==
    /\ Starts(a) /\ Sees(a, b) /\ book[b].status = "promoted"
    /\ Takes(a, [Free EXCEPT !.pc = "preflight", !.id = b, !.row = book[b], !.known = reports[b]])
    /\ UNCHANGED tables

Unanchored(b) == b \in Skilled \ anchors
Refuses(b, row) == \/ Forbids(Payload[b]) \/ b \in conflicts
                   \/ row.stale \notin Payload[b].tolerated
Reserved(b, row) == \/ Guides(Payload[b], RiskyDirect) \/ Unanchored(b) \/ row.stale > 0
                    \/ row.confidence < DirectThreshold
Recorded(h, decision) == [id |-> h.id, known |-> h.known, decision |-> decision]
Preflight(a) ==
    LET b == hand[a].id  row == hand[a].row IN
    /\ At(a, "preflight") /\ Done(a)
    /\ offer' = Recorded(hand[a], IF Refuses(b, row) THEN "none"
                                  ELSE IF Reserved(b, row) THEN "guided_reuse" ELSE "direct_reuse")
    /\ UNCHANGED <<book, history, episodes, conflicts, anchors, reports>>

(* A provider that starts fills in the anchors of promoted playbooks. *)
Backfill(a) ==
    /\ Starts(a) /\ anchors' = anchors \cup {b \in There \cap Skilled : book[b].status = "promoted"}
    /\ UNCHANGED <<book, history, episodes, conflicts, reports, offer, hand>>

(* The process dies: what it had not committed is rolled back. *)
Die(a) == hand[a].pc # "idle" /\ Done(a) /\ UNCHANGED <<tables, ops>>

Step(a) ==
    \/ \E b \in Book : Create(a, b) \/ Bootstrap(a, b) \/ Synthesise(a, b) \/ Search(a, b)
    \/ CreateAuto(a) \/ CreateRefused(a)
    \/ \E b \in Book, status \in Status \ {"candidate"}, to \in {{}} \cup {{c} : c \in Book} : Review(a, b, status, to)
    \/ Decide(a) \/ DecideNothing(a) \/ Number(a) \/ ReviewWrite(a)
    \/ \E target \in There, sources \in SUBSET There : Merge(a, target, sources)
    \/ MergeWrite(a)
    \/ \E b \in Book, outcome \in Outcome, threshold \in {1, 2} : Feedback(a, b, outcome, threshold)
    \/ FeedbackWrite(a) \/ Preflight(a) \/ Backfill(a) \/ Die(a)

Next == \E a \in Agent : Step(a)
Spec == Init /\ [][Next]_vars

(* What is offered was promoted by a decision on record; what its owner called
   stale before the search is never offered for direct reuse; and what its owner
   called stale or misleading is, when a skill rests on it, not offered at all --
   whatever answers, reviews and searches overlapped (experience_preflight,
   record_playbook_feedback). *)
OffersAreEarned ==
    offer.decision # "none" =>
        /\ \E v \in ToSet(history[offer.id]) : v.status = "promoted"
        /\ <<"stale", TRUE>> \in offer.known => offer.decision # "direct_reuse"
        /\ offer.id \in Skilled => offer.known \cap ({"stale", "misleading"} \X {TRUE}) = {}

(* A playbook out of use comes back only by a decision, or by an answer that was
   on its way when it was taken out of use (review_playbook,
   record_playbook_feedback). *)
OnlyDecisionsLift ==
    [][\A b \in There : book[b].status \in Terminal /\ book'[b].status # book[b].status =>
          \E a \in Agent : /\ hand[a].pc # "idle" /\ hand'[a].pc = "idle" /\ b \in {hand[a].id} \cup hand[a].to
                           /\ hand[a].pc = "feedback" => hand[a].row.status \notin Terminal]_vars

(* Every episode on record has its playbook: a promotion that dies or loses a
   race leaves both or none, or the session would be passed by for ever
   (promote_experiences, _insert_episode). *)
EpisodesHaveBooks == episodes \subseteq There

(* Whatever was superseded leads to a playbook that is not: "Merging should make
   the surviving playbook clear" (merge_playbooks). *)
Heirs(b) == {c \in Book : \E n \in 1..Cardinality(Book) : \E path \in [0..n -> Book] :
               /\ path[0] = b /\ path[n] = c
               /\ \A i \in 0..(n - 1) : path[i] \in There /\ path[i + 1] \in book[path[i]].by}
SurvivorIsClear ==
    \A b \in There : book[b].status = "superseded" => \E c \in Heirs(b) \cap There : book[c].status # "superseded"

(* No two sessions' playbooks in use stand for the same work: "Detect
   near-duplicate auto playbooks from overlapping journal windows"
   (_similar_playbook_exists). *)
NoTwins == \A b, c \in There \cap AutoBook :
             b # c /\ {book[b].status, book[c].status} \cap Terminal = {} => ~Similar(b, c)
=============================================================================
