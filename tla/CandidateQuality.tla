-------------------------- MODULE CandidateQuality --------------------------
(* What memory_quality.py makes of a candidate memory when nobody reviews it: a
   grade is what the row says of itself -- its target and source, its type, its
   evidence, its confidence and importance per mille -- and which of the lists of
   terms its text has something of. *)
EXTENDS Naturals

ProfileTarget == {"user", "memory", "project", "ops"}
StableType == {"factual", "preference", "procedure", "workflow", "pitfall", "decision", "constraint",
               "project", "resource"}
NoiseType == {"summary", "episodic", "tool_trace"}
Grade == [target : ProfileTarget \cup {"general"}, source : {"tool-store", "other"},
          type : StableType \cup NoiseType \cup {"unknown"}, evidence : BOOLEAN, stale : BOOLEAN,
          terms : SUBSET {"review", "progress"}, confidence : 0..1000, importance : 0..1000]

(* Only a person may decide on what is off the profile's targets, secret, marked
   for a stale review, or speaks of credentials, releases and the like. *)
ForPeople(g, secret) ==
    g.target \notin ProfileTarget \/ secret \/ g.stale \/ "review" \in g.terms

IsNoise(g) ==
    \/ g.type \in NoiseType
    \/ "progress" \in g.terms /\ g.type \in {"summary", "decision", "project"}

Confident(g) ==
    \/ g.target = "user" /\ g.confidence >= 780
    \/ g.source = "tool-store" /\ g.confidence >= 860 /\ g.importance >= 550
    \/ g.confidence >= 780 /\ g.importance >= 550
    \/ g.importance >= 820 /\ g.confidence >= 620

\* What becomes of a candidate; "candidate" keeps it.
Decision(g, secret) ==
    IF ForPeople(g, secret) THEN "candidate"
    ELSE IF IsNoise(g) THEN "archived"
    ELSE IF g.type \in StableType /\ g.evidence /\ Confident(g) THEN "promoted" ELSE "candidate"
=============================================================================
