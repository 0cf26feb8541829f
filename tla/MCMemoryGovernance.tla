------------------------- MODULE MCMemoryGovernance -------------------------
(* Two or three rows, a tool and a script beside it, for TLC. *)
EXTENDS MemoryGovernance
MCContrary == {{"yes", "no"}}
\* "no" depends on what "junk" speaks of; "yes" and "junk" are about the same.
MCSpeaks == [x \in Text |->
    [entities |-> IF x = "key" THEN {} ELSE {"atlas"}, replaces |-> x = "no", old |-> FALSE,
     near |-> [type \in Typed |-> IF x = "no" /\ type = "depends_on" THEN {"atlas"} ELSE {}]]]
MCLikeness == [pair \in Text \X Text |-> IF pair[1] = pair[2] THEN 1000
                                         ELSE IF "no" \in {pair[1], pair[2]} THEN 100 ELSE 300]
MCGraded == [x \in Text |->
    [target |-> "project", source |-> "other", type |-> IF x = "junk" THEN "episodic" ELSE "factual",
     evidence |-> TRUE, stale |-> FALSE, terms |-> IF x = "key" THEN {"review"} ELSE {},
     confidence |-> IF x = "no" THEN 700 ELSE 800, importance |-> 600]]
\* A surer row fares no worse: along the thresholds, raising a grade's confidence
\* or importance never takes a promotion back.
Level == {0, 619, 620, 779, 780, 859, 860, 1000}
Sample == [target : {"user", "project", "general"}, source : {"tool-store", "other"},
           type : {"factual", "episodic", "unknown"}, evidence : BOOLEAN, stale : {FALSE}, terms : {{}},
           confidence : Level, importance : {0, 549, 550, 819, 820, 1000}]
ASSUME MCSurerIsNoWorse ==
    \A g \in Sample, c, i \in Level :
        Decision(g, FALSE) = "promoted" /\ c >= g.confidence /\ i >= g.importance
        => Decision([g EXCEPT !.confidence = c, !.importance = i], FALSE) = "promoted"
=============================================================================
