-------------------------- MODULE MCNightlyDigest --------------------------
(* Two runs of one day with a task that used tools and a talk of the day before, beside a tool. *)
EXTENDS NightlyDigest, TLC
CONSTANTS cron, hand, gateway, task, chat, port, proxy, noproxy

Line(s, role, tool, hint, proof, size) ==
    [session |-> s, today |-> TRUE, role |-> role, tool |-> tool, hint |-> hint, proof |-> proof, kept |-> TRUE, size |-> size]
MCDay == <<task, chat>>
MCTalk == << Line(task, "user", FALSE, TRUE, FALSE, 80), Line(task, "tool", TRUE, FALSE, FALSE, 500),
             Line(task, "assistant", TRUE, TRUE, TRUE, 90),
             [Line(chat, "user", FALSE, TRUE, FALSE, 70) EXCEPT !.today = FALSE] >>
MCGist == [s \in {task, chat} |-> IF s = task THEN {port, proxy} ELSE {proxy}]
Noted(text) == [text |-> text, kind |-> "decision", raw |-> FALSE, transient |-> FALSE, durable |-> TRUE, sure |-> TRUE,
                trigger |-> TRUE, verified |-> TRUE, steps |-> FALSE, toolchain |-> FALSE]
MCDraft == {Noted({port}), [Noted({noproxy}) EXCEPT !.transient = TRUE]}
MCTold == {{port}}
MCKnown == {[text |-> {port}, scope |-> "pooled", life |-> "promoted"]}
MCContrary == {{proxy, noproxy}}
MCFailure == {[words |-> {"timed out"}, class |-> {}], [words |-> {"401"}, class |-> {}], [words |-> {}, class |-> {"json"}]}
\* A run that collects touches nothing that others see, so only it moves.
CollectsAlone == \A r \in Run : nightly[r].pc \in {"collect", "failed"} => nightly'[r] # nightly[r]
Runs == Permutations(Run)
=============================================================================
