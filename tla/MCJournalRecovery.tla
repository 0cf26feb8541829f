-------------------------- MODULE MCJournalRecovery --------------------------
(* Small instances of JournalRecovery for TLC. *)
EXTENDS JournalRecovery, TLC

CONSTANTS r1, r2, r3, m1, m2, m3, f1, f2, s1, s2

\* Everything in one chat, or the first entry in a chat of its own.
OneHome == [e \in Entry |-> s1]
TwoHomes == [e \in Entry |-> IF e = 1 THEN s1 ELSE s2]
OwnScope == [s \in Scope |-> {s}]
Symmetry == Permutations(Run) \cup Permutations(Memory) \cup Permutations(Fact)
=============================================================================
