----------------------------- MODULE RecallScore -----------------------------
(***************************************************************************)
(* How recall grades and orders what it found (scoring.py, recall.py,      *)
(* graph.py, freshness.py).  Scores are per mille and rounded down.  What  *)
(* the text analysis says of a text - its overlap with the query, its      *)
(* similarity, the projects and entities it names - is a constant.         *)
(*                                                                         *)
(* A candidate is a record [id, text, at, target, scope, path, lex, vec,   *)
(* bm, rrf]; bm is Absent when the full-text index did not find the row.   *)
(***************************************************************************)
EXTENDS Integers, FiniteSets, Sequences, FiniteSetsExt

CONSTANTS
    Overlap,        \* [Text -> per mille]  word overlap with the query and phrase bonus
    Similarity,     \* [Text -> per mille]  of the text's vector to the query's
    ProjectsOf,     \* [Text -> set]        projects a text names
    EntitiesOf,     \* [Text -> set]        other entities a text names
    QueryProjects, QueryEntities, QueryWords,
    FreshHints,     \* how many words of the query ask for what is recent
    Quality,        \* [id -> per mille]    mean of confidence, trust, importance
    Facts,          \* [id -> set]          fact_freshness rows of a memory: [status, until, at]
    Now,            \* when the search is made
    Policy,         \* [id -> class]        of the temporal policy
    Decay,          \* [id -> per mille]    what age leaves of a score
    DecayWeight,    \* per mille            how much of the decay counts
    Mode,           \* "hybrid", "lexical" or "vector"
    RelationsRank   \* does relation_rerank_enabled hold

Absent == -1
MinScore == 180
VectorMinScore == 120
VectorOnlyMinScore == 680

Clamp(x) == IF x < 0 THEN 0 ELSE IF x > 1000 THEN 1000 ELSE x
Times(x, y) == (x * y) \div 1000

LexicalScore(text, source, target) ==
    Clamp(Overlap[text]
          + (CASE source = "curated" -> 180 [] source = "tool" -> 80 [] OTHER -> 20)
          + (CASE target = "general" -> -40 [] OTHER -> 60))

\* The full-text ranks of one search, stretched over the whole scale.
Bm25Score(text, texts) ==
    LET raw == {Overlap[t] : t \in texts}
    IN  IF Cardinality(raw) = 1 THEN 1000
        ELSE ((Overlap[text] - Min(raw)) * 1000) \div (Max(raw) - Min(raw))

\* Reciprocal rank fusion: ids that two rankings or more contain.  A ranking
\* is a function from its ids to their positions.
RrfRaw(id, rankings) ==
    LET Part(k) == IF id \in DOMAIN rankings[k].place
                   THEN (rankings[k].weight * 1000) \div (60 + rankings[k].place[id])
                   ELSE 0
    IN  MapThenSumSet(Part, DOMAIN rankings)

Signals(id, rankings) == Cardinality({k \in DOMAIN rankings : id \in DOMAIN rankings[k].place})

RrfScores(ids, rankings) ==
    LET fused == {id \in ids : Signals(id, rankings) >= 2}
        best  == Max({1} \cup {RrfRaw(id, rankings) : id \in fused})
    IN  [id \in ids |-> IF id \in fused THEN (RrfRaw(id, rankings) * 1000) \div best ELSE 0]

\* One score of a candidate's three, by the mode of retrieval.
FinalScore(i) ==
    LET bm    == IF i.bm = Absent THEN 0 ELSE i.bm
        alone == {x \in {i.lex, i.vec, bm} : x > 0}
        base  == IF Cardinality({k \in 1..3 : <<i.lex, i.vec, bm>>[k] > 0}) = 1
                 THEN Max(alone)
                 ELSE Clamp(Times(i.lex, 450) + Times(i.vec, 550) + Times(bm, 150))
    IN  CASE Mode = "vector"  -> i.vec
          [] Mode = "lexical" -> i.lex
          [] OTHER -> Clamp(IF i.rrf > 0 THEN Times(base, 820) + Times(i.rrf, 180) ELSE base)

QualityAdjusted(score, id) == Clamp(score + Times(Quality[id] - 500, 80))

EntityOverlapBonus(text) ==
    IF QueryEntities = {} THEN 0
    ELSE (60 * Cardinality(QueryEntities \cap EntitiesOf[text])) \div Cardinality(QueryEntities)

\* Entities two steps or less from the query's, by what the candidates name together.
Reached(texts) ==
    LET step(S) == S \cup UNION {EntitiesOf[t] : t \in {x \in texts : EntitiesOf[x] \cap S # {}}}
        reach[d \in 0..2] == IF d = 0 THEN QueryEntities ELSE step(reach[d - 1])
    IN  reach

EntityDistanceBonus(text, texts) ==
    LET near == {d \in 0..2 : EntitiesOf[text] \cap Reached(texts)[d] # {}}
    IN  IF near = {} THEN 0 ELSE 40 \div (Min(near) + 1)

\* What the stored relations add or take: a memory that replaces another
\* gains, the one it replaces loses.  An edge is [from, type, to].
RelationBonus(id, edges) ==
    LET Out(types) == Cardinality({e \in edges : e.from = id /\ e.type \in types})
        In(types)  == Cardinality({e \in edges : e.to = id /\ e.type \in types})
        sum == 40 * Out({"supersedes", "supports", "depends_on", "affects", "owned_by"})
               + 40 * In({"supports"})
               + 10 * (Out({"same_topic"}) + In({"same_topic"}))
               - 40 * In({"supersedes", "invalidates"})
    IN  IF ~RelationsRank THEN 0
        ELSE IF sum > 80 THEN 80 ELSE IF sum < -80 THEN -80 ELSE sum

\* What has been checked expires; what needs a check or is stale stays so.  A
\* status nobody knows is "unknown".  The synonyms of a status are one here.
FreshnessStatus(f) ==
    CASE f.status \in {"stale", "needs_live_check", "expired"} -> f.status
      [] f.status = "current" -> IF f.until # Absent /\ f.until < Now THEN "expired" ELSE "current"
      [] OTHER -> "unknown"

Severity == [current |-> 0, unknown |-> 1, needs_live_check |-> 2, expired |-> 2, stale |-> 3]

\* A memory is as fresh as the worst of its facts, the newest of those.
Freshness(id) ==
    LET Sev(f) == Severity[FreshnessStatus(f)]
        worst  == {f \in Facts[id] : \A g \in Facts[id] : Sev(g) <= Sev(f)}
    IN  IF Facts[id] = {} THEN "untracked"
        ELSE FreshnessStatus(CHOOSE f \in worst : \A g \in worst : g.at <= f.at)

FreshnessPenalty(id) ==
    CASE Freshness(id) = "stale" -> 350
      [] Freshness(id) = "expired" -> 280
      [] Freshness(id) \in {"needs_live_check", "unknown"} -> 180
      [] OTHER -> 0

PolicyWeight(class) ==
    CASE class = "durable_fact" -> 250 [] class = "episodic" -> 800 [] OTHER -> 1000

\* The score a candidate is kept or rejected by.
BaseScore(i, items, edges) ==
    LET texts   == {x.text : x \in items}
        raised  == Clamp(QualityAdjusted(FinalScore(i), i.id)
                         + EntityOverlapBonus(i.text)
                         + EntityDistanceBonus(i.text, texts)
                         + RelationBonus(i.id, edges))
        checked == Times(raised, 1000 - FreshnessPenalty(i.id))
        weight  == Times(DecayWeight, PolicyWeight(Policy[i.id]))
    IN  Times(checked, (1000 - weight) + Times(weight, Decay[i.id]))

\* A query about one project is not answered from another's.
EntityScopeMismatch(text) ==
    IF QueryProjects # {}
    THEN ProjectsOf[text] # {} /\ QueryProjects \cap ProjectsOf[text] = {}
    ELSE LET asked == QueryEntities \cup (EntitiesOf[text] \cap QueryWords)
         IN  EntitiesOf[text] # {} /\ asked # {} /\ asked \cap EntitiesOf[text] = {}

Rejects(i, base) ==
    \/ EntityScopeMismatch(i.text)
    \/ i.lex = 0 /\ i.vec > 0 /\ base < VectorOnlyMinScore
    \/ base < MinScore

\* A query that asks for what is recent lifts the recent among the kept.
FreshnessWeight ==
    IF FreshHints = 0 THEN 0 ELSE Min({420, 220 + 100 * FreshHints})

RecencyBonus(i, base, times) ==
    IF FreshnessWeight = 0 \/ base <= 0 \/ Max(times) = Min(times) THEN 0
    ELSE Times(Times(FreshnessWeight, ((i.at - Min(times)) * 1000) \div (Max(times) - Min(times))),
               Min({1000, (base * 1000) \div 600}))

==============================================================================
