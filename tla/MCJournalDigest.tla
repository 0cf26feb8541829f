-------------------------- MODULE MCJournalDigest --------------------------
(* Small instances of JournalDigest for TLC. *)
EXTENDS JournalDigest, TLC

CONSTANTS r1, r2, r3, m1, m2, m3, f1, f2, s1, s2

\* Everything in one chat.
OneHome == [e \in Entry |-> s1]
OwnScope == [s \in Scope |-> {s}]
Symmetry == Permutations(Run) \cup Permutations(Memory \ UserMemory) \cup Permutations(Fact)
=============================================================================
