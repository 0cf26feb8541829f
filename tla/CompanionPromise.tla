-------------------------- MODULE CompanionPromise --------------------------
(* What the vector companion promises about a memory, whatever operations do:
   its record differs from the row only while an operation on it is under way,
   unless the provider says that its companion is not to be trusted.  Excused
   are memories that two actors had hold of at once, or whose operation failed
   where the provider does not learn of it; a rebuild makes them good. *)
CONSTANT Memory

VARIABLES differs,  \* memories whose record does not agree with their row
          busy,     \* memories with an operation under way
          excused,
          trusted   \* the provider calls its companion ready

cvars == <<differs, busy, excused, trusted>>

Init == differs = {} /\ busy = {} /\ excused = {} /\ trusted \in BOOLEAN

Only(m, s, t) == s \ {m} = t \ {m}

(* An operation on m begins, goes on or ends.  It changes nothing about other
   memories, and it ends only with a record that agrees. *)
Operate(m) ==
    /\ Only(m, differs, differs') /\ Only(m, busy, busy')
    /\ excused' \in {excused, excused \cup {m}}
    /\ trusted' = trusted
    /\ m \in busy \cup busy'
    /\ trusted /\ m \in differs' => m \in busy' \cup excused'

(* The provider stops trusting its companion; operations may end with that. *)
Distrust ==
    /\ trusted' = FALSE /\ busy' \subseteq busy /\ excused' = excused
    /\ \A m \in Memory : (m \in differs) # (m \in differs') => m \in busy

(* While it is not trusted it may be rebuilt.  A rebuild excuses what is under way
   when it reads the rows. *)
Rebuild == ~trusted /\ trusted' = FALSE /\ busy' = busy
Trust == trusted' = TRUE /\ UNCHANGED <<differs, busy, excused>> /\ differs \subseteq busy \cup excused

(* Some other process rebuilds it, from rows that may be outdated by then. *)
Foreign ==
    /\ UNCHANGED <<busy, trusted>> /\ excused \subseteq excused'
    /\ excused' \subseteq excused \cup busy
    /\ differs' \subseteq differs \cup excused

\* Some other process empties it, to fill it for another embedder or because it
\* fails while it rewrites all of it.
Emptied == UNCHANGED <<busy, trusted>> /\ excused' = Memory

Next == (\E m \in Memory : Operate(m)) \/ Distrust \/ Rebuild \/ Trust \/ Foreign \/ Emptied

Spec == Init /\ [][Next]_cvars
=============================================================================
