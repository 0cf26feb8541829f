---------------------------- MODULE MCPlaybooks ----------------------------
(* A core playbook with a skill, one of a session (and, in one instance, one of
   the session grown longer), and one made by hand, for TLC. *)
EXTENDS Playbooks
CONSTANTS host, script, core, auto, later, hers, own, pool
MCHome == [b \in Book |-> own]
MCPool == [b \in Book |-> pool]
MCCoreClass == [b \in Core |-> "journal_backlog_drain"]
Entry(id, role, marks) == [id |-> id, role |-> role, marks |-> marks]
\* A session that ends well, after an earlier failure, and the same one a turn later.
MCWork == <<Entry(1, "user", {"scope-recall", "journal"}),
            Entry(2, "tool", {"python -m pytest", "ruff", "failure"}),
            Entry(3, "assistant", {}), Entry(4, "tool", {"python -m pytest", "n passed"}),
            Entry(5, "tool", {"ruff"}), Entry(6, "tool", {"doctor", "ok=true"}),
            Entry(7, "assistant", {"finished"})>>
MCSession == [b \in AutoBook |-> IF b = auto THEN MCWork
                             ELSE Append(MCWork, Entry(8, "assistant", {"done"}))]
MCMade == [b \in ByHand |-> [class |-> "review", confidence |-> 950, capabilities |-> {"read_only"},
              environment |-> FALSE, default |-> "unset", direct |-> TRUE, review |-> FALSE,
              allowed |-> {}, tolerated |-> 0..1]]
MCReads == [a \in Agent |-> {own, pool}]
MCWrites == [a \in Agent |-> {own}]
ASSUME MCWorth == \A b \in AutoBook : Worth[b] = "auto_promote_eligible"
=============================================================================
