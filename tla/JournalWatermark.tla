-------------------------- MODULE JournalWatermark --------------------------
(***************************************************************************)
(* What the journal digest promises, said once and without any of its      *)
(* machinery: an entry of `journal_entries` leaves the backlog only with   *)
(* durable evidence of what became of it (a memory it is a source of, or a *)
(* rejection receipt), only an explicit operator replay puts it back, and  *)
(* only a settled entry may be pruned.  The promise is the docstring of    *)
(* apply_journal_candidates (src/journal.py) read as a specification.      *)
(***************************************************************************)
CONSTANT Entry

VARIABLES
  status,     \* [Entry -> {"absent", "open", "settled", "gone"}]
  evidenced   \* the entries for which a durable outcome is on record

avars == <<status, evidenced>>

InState(s) == {e \in Entry : status[e] = s}

AInit ==
  /\ status = [e \in Entry |-> "absent"]
  /\ evidenced = {}

Stage(e) ==
  /\ status[e] = "absent"
  /\ status' = [status EXCEPT ![e] = "open"]
  /\ UNCHANGED evidenced

\* Evidence may arrive long before the entry leaves the backlog.
Note(S) ==
  /\ S \cap InState("absent") = {}
  /\ evidenced' = evidenced \cup S
  /\ UNCHANGED status

\* The watermark moves over S: every entry of S has its evidence in that step.
Settle(S) ==
  /\ S \cap InState("absent") = {}
  /\ S \subseteq evidenced'
  /\ evidenced \subseteq evidenced'
  /\ status' = [e \in Entry |-> IF e \in S /\ status[e] = "open"
                                THEN "settled" ELSE status[e]]

\* Operator replay: settled entries return to the backlog.
Reopen(S) ==
  /\ S \subseteq InState("settled")
  /\ status' = [e \in Entry |-> IF e \in S THEN "open" ELSE status[e]]
  /\ evidenced \ S \subseteq evidenced'
  /\ evidenced' \subseteq evidenced

Retire(S) ==
  /\ S \subseteq InState("settled")
  /\ status' = [e \in Entry |-> IF e \in S THEN "gone" ELSE status[e]]
  /\ evidenced' = evidenced \ S

ANext ==
  \/ \E e \in Entry : Stage(e)
  \/ \E S \in SUBSET Entry : Note(S) \/ Settle(S) \/ Reopen(S) \/ Retire(S)

ASpec == AInit /\ [][ANext]_avars
=============================================================================
