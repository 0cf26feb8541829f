------------------------ MODULE RelationExtraction ------------------------
(* The edges of memory_relations that relation_extraction.py reads off the texts
   of the memories.  They are generated for one memory at a time, when a tool has
   stored or updated it, against the rows of its scope that are shown; the
   others keep what was generated before. *)
EXTENDS Integers, FiniteSets

CONSTANTS Text,     \* classes of content
          Entity,   \* what texts speak of
          Speaks,   \* what the patterns find in each text
          Likeness, \* semantic_similarity of two texts, per mille
          MaxPairs  \* pairs compared for one memory

Typed == {"depends_on", "owned_by", "affects", "invalidates"}

\* near: the entities within reach of a trigger of the relation.
Speech == [entities : SUBSET Entity, replaces : BOOLEAN, old : BOOLEAN, near : [Typed -> SUBSET Entity]]

ASSUME ExtractionAssumption ==
    /\ Speaks \in [Text -> Speech] /\ MaxPairs \in Nat \ {0}
    /\ Likeness \in [Text \X Text -> 0..1000]
    /\ \A x, y \in Text : Likeness[x, y] = Likeness[y, x]

Shared(x, y) == Speaks[x].entities \cap Speaks[y].entities # {}
SameTopic(x, y) == Likeness[x, y] >= 680 \/ (Shared(x, y) /\ Likeness[x, y] >= 240)
Replaces(x, y) == Shared(x, y) /\ Speaks[x].replaces /\ (Speaks[y].old \/ Likeness[x, y] >= 240)
Names(x, y, type) == Speaks[x].near[type] \cap Speaks[y].entities # {}

\* What text x says of text y, whichever was written first.
Claims(x, y) ==
    (IF SameTopic(x, y) THEN {"same_topic"} ELSE {}) \cup
    (IF Replaces(x, y) THEN {"supersedes"} ELSE {}) \cup {type \in Typed : Names(x, y, type)}

\* Only the later row supersedes; of the same time, each may.
Extracted(table, a, b) ==
    {<<a, b, type>> : type \in {c \in Claims(table[a].text, table[b].text) :
                                   c = "supersedes" => table[a].at >= table[b].at}}

Later(table, a, b) == table[a].at > table[b].at \/ (table[a].at = table[b].at /\ a > b)

\* The scan takes the shown rows from the latest on until its pairs are used up.
Compared(table, m, shown) ==
    IF m \notin shown THEN {}
    ELSE {k \in shown \ {m} : Cardinality({j \in shown \ {m, k} : Later(table, j, k)}) < MaxPairs}

\* The generated edges after sync_extracted_relations_for_memory of m: those of
\* every compared pair anew, none where the two contradict each other.
Regenerated(links, table, m, shown, opposed) ==
    LET peers == Compared(table, m, shown)
        kept == {l \in links : \A k \in peers : {l[1], l[2]} # {m, k}}
    IN  kept \cup UNION {Extracted(table, m, k) \cup Extracted(table, k, m) : k \in {p \in peers : {m, p} \notin opposed}}

\* A link is grounded when the texts of its two rows, as they read now, call for it.
Grounded(link, table, opposed) ==
    /\ link[3] \in Claims(table[link[1]].text, table[link[2]].text)
    /\ {link[1], link[2]} \notin opposed
=============================================================================
