--------------------------- MODULE JournalRecovery ---------------------------
(***************************************************************************)
(* The operator's recovery of failed digests (src/journal_recovery.py) next*)
(* to the digest itself.  schedule_replay puts quarantined entries back on *)
(* the backlog, classify_recovery_candidates closes them; both first read  *)
(* the candidates, then re-read each entry, and change it in one           *)
(* transaction that commits after the last one.                            *)
(***************************************************************************)
EXTENDS JournalDigest

VARIABLE op      \* local variables and program point of the recovery command

Item == Entry \X Run
Op == [pc : {"idle", "next", "checked"}, mode : {"replay", "classify"}, alone : BOOLEAN,
       items : SUBSET Item, current : Item \cup {<<>>}, held : SUBSET Item]
IdleOp == [pc |-> "idle", mode |-> "replay", alone |-> FALSE, items |-> {},
           current |-> <<>>, held |-> {}]

rvars == <<watermark, rejections, links, mem, runRow, pend, lock, task, faults,
           forgotten, claims, op>>

\* Fault: an entry that already produced a memory counts as a candidate.
Quarantined == {i \in Item : /\ watermark[i[1]] = i[2]
                             /\ rejections[i[1]][i[2]] = "quarantine"}

\* find_replay_candidates: rejected with a retry or dead-letter reason by the
\* run the entry is marked with, and no source of any memory.
ReplayCandidates ==
  {i \in Item : /\ watermark[i[1]] = i[2]
                /\ rejections[i[1]][i[2]] = "quarantine"
                /\ ~Linked(i[1])}

RInit == Init /\ op = IdleOp

\* The first read; the operator's limit leaves some of the candidates out.
\* Nothing in the code keeps digests away: an operator may have stopped them
\* (alone) or not.
Find(mode, alone) ==
  /\ op.pc = "idle"
  /\ alone => \A r \in Run : ~Active(r)
  /\ \E I \in SUBSET ReplayCandidates :
       /\ I # {}
       /\ op' = [op EXCEPT !.pc = "next", !.mode = mode, !.alone = alone, !.items = I]
  /\ UNCHANGED vars

\* The next entry is read again, before the UPDATE opens a transaction (or
\* within the one an earlier entry opened).
Check(i) ==
  /\ op.pc = "next" /\ i \in op.items
  /\ op' = IF watermark[i[1]] = i[2]
           THEN [op EXCEPT !.pc = "checked", !.items = @ \ {i}, !.current = i]
           ELSE [op EXCEPT !.items = @ \ {i}]
  /\ UNCHANGED vars

\* The UPDATE.  A replay's names the entry only; a classification's also names
\* the reason, and changes nothing when that is not the one it read.
Change ==
  /\ op.pc = "checked"
  /\ MayWrite("recovery")
  /\ lock' = "recovery"
  /\ LET e == op.current[1]
         r == op.current[2]
         hits == IF op.mode = "replay" THEN watermark[e] # "pruned"
                 ELSE rejections[e][r] = "quarantine"
     IN op' = [op EXCEPT !.pc = "next", !.current = <<>>,
                         !.held = IF hits THEN @ \cup {op.current} ELSE @]
  /\ UNCHANGED <<store, pend, task, faults, history>>

\* The receipts after the commit: a replay deletes the one it read, a
\* classification rewrites its reason.
\* Fault: a classification deletes the receipt too.
ReceiptsLost ==
  [e \in Entry |-> [r \in Run |->
     IF <<e, r>> \in op.held THEN "none" ELSE rejections[e][r]]]
ReceiptsAfter ==
  [e \in Entry |-> [r \in Run |->
     IF <<e, r>> \in op.held
     THEN IF op.mode = "replay" THEN "none" ELSE "classified"
     ELSE rejections[e][r]]]

\* Fault: replay forgets to reset processed_run_id.
ReopenedNot == {}
Reopened == IF op.mode = "replay" THEN {i[1] : i \in op.held} ELSE {}

Finish ==
  /\ op.pc = "next" /\ op.items = {}
  /\ lock \in {Nobody, "recovery"} \/ op.held = {}
  /\ lock' = IF lock = "recovery" THEN Nobody ELSE lock
  /\ watermark' = [e \in Entry |-> IF e \in Reopened THEN "unprocessed" ELSE watermark[e]]
  /\ rejections' = ReceiptsAfter
  /\ op' = IdleOp
  /\ UNCHANGED <<links, mem, runRow, pend, task, faults, history>>

\* An exception or the end of the process rolls the transaction back.
GiveUp ==
  /\ op.pc # "idle"
  /\ faults < MaxFaults
  /\ faults' = faults + 1
  /\ lock' = IF lock = "recovery" THEN Nobody ELSE lock
  /\ op' = IdleOp
  /\ UNCHANGED <<store, pend, task, history>>

Recover ==
  \/ \E mode \in {"replay", "classify"}, alone \in BOOLEAN : Find(mode, alone)
  \/ \E i \in Item : Check(i)
  \/ Change \/ Finish \/ GiveUp

\* Digests and provider go on meanwhile; no digest starts while they are stopped.
Others ==
  /\ \/ ProviderStep
     \/ \E r \in Run :
          \/ Begin(r) /\ ~op.alone
          \/ Progress(r) \/ Abort(r) \/ Crash(r)
  /\ UNCHANGED op

RNext == Recover \/ Others

RSpec == RInit /\ [][RNext]_rvars
-----------------------------------------------------------------------------
RTypeOK == TypeOK /\ op \in Op

FailuresReopened ==
  \A e \in Entry :
    watermark[e] \in Run /\ watermark'[e] = "unprocessed" =>
      rejections[e][watermark[e]] = "quarantine" /\ ~Linked(e)

\* Recovery reopens an entry only while the receipt of the run it is marked
\* with says that the digest failed, and no memory came of it: a stale receipt
\* must not reopen what a newer run has handled (find_replay_candidates).
ReopensOnlyCurrentFailures == [][FailuresReopened]_rvars

\* The same of a recovery for which the operator stopped the digests, with the
\* provider still storing, archiving and deleting memories.
AloneReopensOnlyFailures == [][op.alone => FailuresReopened]_rvars
=============================================================================
