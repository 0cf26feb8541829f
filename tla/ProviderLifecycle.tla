------------------------- MODULE ProviderLifecycle -------------------------
(* The threads of one provider (provider.py, capture.py): the host's thread,
   which calls the hooks one after the other, the capture writer with its
   queue, and the background digests.  The host waits for the others with time
   limits only, so each wait may end before what it waits for. *)
EXTENDS Naturals, Sequences, SequencesExt, FiniteSets

CONSTANTS Text,          \* captured texts; each is enqueued at most once
          Interval,      \* digest_interval_hours, in ticks of the clock
          MaxClock,      \* bound: ticks
          MaxCalls       \* bound: hooks the host calls

ASSUME LifecycleAssumption ==
    Interval \in Nat \ {0} /\ MaxClock \in Nat \ {0} /\ MaxCalls \in Nat

VARIABLES setup,     \* options that are switched on
          clock,     \* time.time()
          host,      \* program point of the host's thread, the hook it runs
          calls,     \* hooks called so far (bound)
          lock,      \* who holds provider._lock across steps
          open,      \* the provider has a connection
          lost,      \* ... which a failed reopening has left closed
          queue,     \* _write_queue
          writer,    \* program point and job of writer_loop
          stop,      \* _stop
          event,     \* the event of the last flush is set
          promised,  \* history: texts enqueued before the last flush
          late,      \* history: a wait of shutdown has run out of time
          stored, failed,     \* texts the writer has stored; whose store raised
          digest,    \* program points of the background digests ever started
          started,   \* _last_journal_digest_started, 0 for never
          status     \* _last_journal_digest_status

capture == <<queue, writer, stop, event, promised, stored, failed>>
schedule == <<digest, started, status>>
connection == <<open, lost>>
lvars == <<setup, clock, host, calls, lock, connection, late, capture, schedule>>

Option == {"background_digest_synchronous", "digest_on_session_end", "auto_promotion_enabled"}
Job == [kind : {"store"}, text : Text] \cup [kind : {"flush", "poison"}]
NoJob == [kind |-> "poison"]
Hook == {"none", "turn", "compress", "end", "flush", "shutdown"}
HostPoint == {"new", "idle", "stage", "trigger", "inline", "capture", "flush", "wait", "session",
              "promote", "stop", "join", "joindigest", "close", "closed"}
DigestPoint == {"run", "promote", "promoting", "done"}
Handled == stored \cup failed

LTypeOK ==
    /\ setup \subseteq Option
    /\ clock \in 0..MaxClock /\ calls \in 0..MaxCalls
    /\ host \in [pc : HostPoint, hook : Hook]
    /\ lock \in {"nobody", "digest", "host"}
    /\ open \in BOOLEAN /\ lost \in BOOLEAN /\ stop \in BOOLEAN /\ event \in BOOLEAN /\ late \in BOOLEAN
    /\ queue \in Seq(Job)
    /\ writer \in [pc : {"none", "check", "get", "work", "ended"}, job : Job]
    /\ promised \subseteq Text /\ stored \subseteq Text /\ failed \subseteq Text
    /\ digest \in Seq(DigestPoint)
    /\ started \in 0..MaxClock
    /\ status \in {"never_run", "running", "ok", "error"}

LInit ==
    /\ setup \in SUBSET Option
    /\ clock = 1 /\ calls = 0
    /\ host = [pc |-> "new", hook |-> "none"]
    /\ lock = "nobody" /\ open = FALSE /\ lost = FALSE /\ late = FALSE
    /\ queue = <<>> /\ writer = [pc |-> "none", job |-> NoJob]
    /\ stop = FALSE /\ event = FALSE /\ promised = {}
    /\ stored = {} /\ failed = {}
    /\ digest = <<>> /\ started = 0 /\ status = "never_run"

Queued == {j.text : j \in {k \in ToSet(queue) : k.kind = "store"}}
InHand == IF writer.pc = "work" /\ writer.job.kind = "store" THEN {writer.job.text} ELSE {}
Accepted == Queued \cup InHand \cup Handled
HostGoes(pc) == host' = [host EXCEPT !.pc = pc]
Return == host' = [pc |-> "idle", hook |-> "none"]

------------------------------------------------------------------------------
(* The host's thread *)

\* initialize opens the connection and starts the writer.
Initialize ==
    /\ host.pc = "new" /\ Return
    /\ open' = TRUE /\ stop' = FALSE
    /\ writer' = [pc |-> "check", job |-> NoJob]
    /\ UNCHANGED <<setup, clock, calls, lock, lost, late, queue, event, promised, stored, failed, schedule>>

\* The hooks begin with staging, but for flush and shutdown.
Call(hook) ==
    /\ host.pc = "idle" /\ calls < MaxCalls
    /\ calls' = calls + 1
    /\ host' = [hook |-> hook, pc |-> IF hook \in {"flush", "shutdown"} THEN "flush" ELSE "stage"]
    /\ UNCHANGED <<setup, clock, lock, connection, late, capture, schedule>>

\* The recovery of a store by the agent closes the connection and fails to open
\* another.  No later recovery mends that: an error of a closed connection is
\* none that calls for one.
LoseConnection ==
    /\ host.pc = "idle" /\ calls < MaxCalls /\ lock = "nobody" /\ ~lost
    /\ lost' = TRUE /\ calls' = calls + 1
    /\ UNCHANGED <<setup, clock, host, lock, open, late, capture, schedule>>

Connected == open /\ ~lost

\* Journal entries are staged under the lock.  An exception ends the hook; a
\* turn or the end of a session may also have nothing to stage.
Stage ==
    /\ host.pc = "stage" /\ lock = "nobody"
    /\ CASE host.hook = "turn"     -> (Connected /\ HostGoes("trigger")) \/ HostGoes("capture") \/ Return
         [] host.hook = "compress" -> (Connected /\ HostGoes("trigger")) \/ Return
         [] host.hook = "end"      -> HostGoes("flush") \/ Return
    /\ UNCHANGED <<setup, clock, calls, lock, connection, late, capture, schedule>>

\* Mutant: the interval alone decides whether a digest may start.
NeverAlive == FALSE

DigestAlive == digest # <<>> /\ Last(digest) # "done"
TooSoon == started # 0 /\ clock - started < Interval
AfterTrigger == IF host.hook = "turn" THEN HostGoes("capture") ELSE Return

\* _maybe_start_background_journal_digest
Trigger ==
    /\ host.pc = "trigger"
    /\ IF DigestAlive \/ TooSoon
         THEN AfterTrigger /\ UNCHANGED schedule
         ELSE /\ started' = clock /\ status' = "running"
              /\ digest' = Append(digest, "run")
              /\ IF "background_digest_synchronous" \in setup THEN HostGoes("inline") ELSE AfterTrigger
    /\ UNCHANGED <<setup, clock, calls, lock, connection, late, capture>>

\* A synchronous digest keeps the host's thread.
Inline ==
    /\ host.pc = "inline" /\ ~DigestAlive
    /\ AfterTrigger
    /\ UNCHANGED <<setup, clock, calls, lock, connection, late, capture, schedule>>

\* What the extractors may find in a turn: candidates of the LLM, or else of the
\* regular expressions or the raw user text, and then the raw assistant text.
Captures == {s \in SeqOf(Text \ Accepted, 2) : IsInjective(s)}

Capture ==
    /\ host.pc = "capture"
    /\ \E found \in Captures :
           queue' = queue \o [i \in DOMAIN found |-> [kind |-> "store", text |-> found[i]]]
    /\ Return
    /\ UNCHANGED <<setup, clock, calls, lock, connection, late, writer, stop, event, promised, stored, failed, schedule>>

\* Mutant: the flush is skipped and counts as done.
FlushSkipped ==
    /\ host.pc = "flush"
    /\ event' = TRUE /\ promised' = {}
    /\ HostGoes("wait")
    /\ UNCHANGED <<setup, clock, calls, lock, connection, late, queue, writer, stop, stored, failed, schedule>>

\* flush_writer puts an event into the queue and waits for it.
Flush ==
    /\ host.pc = "flush"
    /\ queue' = Append(queue, [kind |-> "flush"])
    /\ event' = FALSE /\ promised' = Accepted
    /\ HostGoes("wait")
    /\ UNCHANGED <<setup, clock, calls, lock, connection, late, writer, stop, stored, failed, schedule>>

AfterFlush ==
    CASE host.hook = "flush"    -> Return
      [] host.hook = "end"      -> HostGoes("session")
      [] host.hook = "shutdown" -> HostGoes("stop")

FlushDone ==
    /\ host.pc = "wait" /\ event
    /\ AfterFlush
    /\ UNCHANGED <<setup, clock, calls, lock, connection, late, capture, schedule>>

FlushTimesOut ==
    /\ host.pc = "wait"
    /\ AfterFlush
    /\ late' = (late \/ host.hook = "shutdown")
    /\ UNCHANGED <<setup, clock, calls, lock, connection, capture, schedule>>

\* _run_session_end_journal_digest runs in the host's thread, whatever the
\* background does, and may be followed by a promotion under the lock.
SessionDigest ==
    /\ host.pc = "session"
    /\ \/ "digest_on_session_end" \in setup /\ "auto_promotion_enabled" \in setup
          /\ Connected /\ lock = "nobody" /\ lock' = "host" /\ HostGoes("promote")
       \/ Return /\ UNCHANGED lock
    /\ UNCHANGED <<setup, clock, calls, connection, late, capture, schedule>>

\* Mutant: the lock is kept.
SessionPromotedLocked ==
    /\ host.pc = "promote" /\ Return
    /\ UNCHANGED <<setup, clock, calls, lock, connection, late, capture, schedule>>

SessionPromoted ==
    /\ host.pc = "promote"
    /\ lock' = "nobody" /\ Return
    /\ UNCHANGED <<setup, clock, calls, connection, late, capture, schedule>>

\* shutdown_writer sets the flag and sends the poison pill to a living writer.
Stop ==
    /\ host.pc = "stop"
    /\ stop' = TRUE
    /\ IF writer.pc = "ended"
         THEN HostGoes("joindigest") /\ UNCHANGED queue
         ELSE HostGoes("join") /\ queue' = Append(queue, [kind |-> "poison"])
    /\ UNCHANGED <<setup, clock, calls, lock, connection, late, writer, event, promised, stored, failed, schedule>>

Join ==
    /\ \/ host.pc = "join" /\ writer.pc = "ended" /\ HostGoes("joindigest") /\ UNCHANGED late
       \/ host.pc = "join" /\ HostGoes("joindigest") /\ late' = TRUE
       \/ host.pc = "joindigest" /\ ~DigestAlive /\ HostGoes("close") /\ UNCHANGED late
       \/ host.pc = "joindigest" /\ HostGoes("close") /\ late' = TRUE
    /\ UNCHANGED <<setup, clock, calls, lock, connection, capture, schedule>>

\* Mutant: the connection is closed without the lock.
CloseAtOnce ==
    /\ host.pc = "close"
    /\ open' = FALSE /\ HostGoes("closed")
    /\ UNCHANGED <<setup, clock, calls, lock, lost, late, capture, schedule>>

\* The lock is waited for without a limit.
Close ==
    /\ host.pc = "close" /\ lock = "nobody"
    /\ open' = FALSE /\ HostGoes("closed")
    /\ UNCHANGED <<setup, clock, calls, lock, lost, late, capture, schedule>>

------------------------------------------------------------------------------
(* The writer *)

CheckStop ==
    /\ writer.pc = "check"
    /\ writer' = [writer EXCEPT !.pc = IF stop THEN "ended" ELSE "get"]
    /\ UNCHANGED <<setup, clock, host, calls, lock, connection, late, queue, stop, event, promised, stored, failed, schedule>>

\* get(timeout=0.2): an empty queue sends it back to the check of the flag.
Get ==
    /\ writer.pc = "get"
    /\ IF queue = <<>>
         THEN writer' = [writer EXCEPT !.pc = "check"] /\ UNCHANGED queue
         ELSE writer' = [pc |-> "work", job |-> Head(queue)] /\ queue' = Tail(queue)
    /\ UNCHANGED <<setup, clock, host, calls, lock, connection, late, stop, event, promised, stored, failed, schedule>>

\* Mutant: the writer does not keep a job.
WriterForgets(pc) == writer' = [pc |-> pc]

WriterGoes(pc) == writer' = [pc |-> pc, job |-> NoJob]

\* Mutants: a failed store is put back at the end of the queue; it ends the writer.
StoreJobAgain ==
    /\ writer.pc = "work" /\ writer.job.kind = "store" /\ lock = "nobody"
    /\ \/ Connected /\ stored' = stored \cup {writer.job.text} /\ UNCHANGED queue
       \/ queue' = Append(queue, writer.job) /\ UNCHANGED stored
    /\ WriterGoes("check")
    /\ UNCHANGED <<setup, clock, host, calls, lock, connection, late, stop, event, promised, failed, schedule>>

StoreJobUncaught ==
    /\ writer.pc = "work" /\ writer.job.kind = "store" /\ lock = "nobody"
    /\ \/ Connected /\ stored' = stored \cup {writer.job.text} /\ WriterGoes("check") /\ UNCHANGED failed
       \/ failed' = failed \cup {writer.job.text} /\ WriterGoes("ended") /\ UNCHANGED stored
    /\ UNCHANGED <<setup, clock, host, calls, lock, connection, late, queue, stop, event, promised, schedule>>

\* After a failure the connection is asked whether a transaction is open, outside
\* of any try: one that is closed raises, and the thread ends.
StoreJob ==
    /\ writer.pc = "work" /\ writer.job.kind = "store" /\ lock = "nobody"
    /\ \/ Connected /\ stored' = stored \cup {writer.job.text} /\ WriterGoes("check") /\ UNCHANGED failed
       \/ /\ failed' = failed \cup {writer.job.text} /\ UNCHANGED stored
          /\ WriterGoes(IF open /\ lost THEN "ended" ELSE "check")
    /\ UNCHANGED <<setup, clock, host, calls, lock, connection, late, queue, stop, event, promised, schedule>>

\* The event of a flush that has timed out is nobody's any more.
FlushJob ==
    /\ writer.pc = "work" /\ writer.job.kind = "flush"
    /\ event' = (event \/ \A j \in ToSet(queue) : j.kind # "flush")
    /\ WriterGoes("check")
    /\ UNCHANGED <<setup, clock, host, calls, lock, connection, late, queue, stop, promised, stored, failed, schedule>>

PoisonJob ==
    /\ writer.pc = "work" /\ writer.job.kind = "poison"
    /\ WriterGoes("ended")
    /\ UNCHANGED <<setup, clock, host, calls, lock, connection, late, queue, stop, event, promised, stored, failed, schedule>>

------------------------------------------------------------------------------
(* Background digests *)

\* Mutant: a failure is not reported.
FailureUnreported(k) ==
    /\ digest[k] = "run"
    /\ digest' = [digest EXCEPT ![k] = "done"]
    /\ status' \in {"ok", "running"}
    /\ UNCHANGED <<setup, clock, host, calls, lock, connection, late, capture, started>>

\* run_journal_digest ends, well or not; promotion follows a good one.  When it
\* raises, a closed connection raises once more, before the status is set.
DigestReports(k) ==
    /\ digest[k] = "run"
    /\ \/ /\ status' = "ok"
          /\ digest' = [digest EXCEPT ![k] = IF "auto_promotion_enabled" \in setup THEN "promote" ELSE "done"]
       \/ status' \in {"error"} \cup (IF open /\ lost THEN {"running"} ELSE {})
          /\ digest' = [digest EXCEPT ![k] = "done"]
    /\ UNCHANGED <<setup, clock, host, calls, lock, connection, late, capture, started>>

\* Without a connection the promotion raises, which is swallowed; so it does with
\* a closed one, which ends the thread.
PromotionBegins(k) ==
    /\ digest[k] = "promote" /\ lock = "nobody"
    /\ IF Connected THEN lock' = "digest" /\ digest' = [digest EXCEPT ![k] = "promoting"]
               ELSE digest' = [digest EXCEPT ![k] = "done"] /\ UNCHANGED lock
    /\ UNCHANGED <<setup, clock, host, calls, connection, late, capture, started, status>>

PromotionEnds(k) ==
    /\ digest[k] = "promoting"
    /\ lock' = "nobody" /\ digest' = [digest EXCEPT ![k] = "done"]
    /\ UNCHANGED <<setup, clock, host, calls, connection, late, capture, started, status>>

Tick ==
    /\ clock < MaxClock /\ clock' = clock + 1
    /\ UNCHANGED <<setup, host, calls, lock, connection, late, capture, schedule>>

HostStep ==
    \/ Initialize \/ Stage \/ Trigger \/ Inline \/ Capture
    \/ Flush \/ FlushDone \/ FlushTimesOut \/ SessionDigest \/ SessionPromoted
    \/ Stop \/ Join \/ Close
WriterStep == CheckStop \/ Get \/ StoreJob \/ FlushJob \/ PoisonJob
DigestStep(k) == DigestReports(k) \/ PromotionBegins(k) \/ PromotionEnds(k)

LNext ==
    \/ \E hook \in Hook \ {"none"} : Call(hook)
    \/ LoseConnection \/ HostStep \/ WriterStep \/ Tick
    \/ \E k \in DOMAIN digest : DigestStep(k)

LSpec == LInit /\ [][LNext]_lvars

\* A thread that can go on is scheduled; nobody has to call a hook.
LFairSpec ==
    /\ LSpec /\ WF_lvars(HostStep) /\ WF_lvars(WriterStep)
    /\ \A k \in 1..MaxClock : WF_lvars(k \in DOMAIN digest /\ DigestStep(k))

------------------------------------------------------------------------------
(* flush() returns True only when every text that was enqueued before it has been
   stored or has failed, although the host goes on, other flushes have timed
   out, and the stop flag may end the writer between two jobs (flush_writer,
   writer_loop). *)
FlushIsTruthful == event => promised \subseteq Handled

(* A shutdown whose waits did not run out of time has left no text behind in the
   queue or in the hands of the writer: the flush precedes the flag
   (shutdown_writer). *)
CleanShutdownLosesNothing ==
    host.pc = "closed" /\ ~late => Queued \cup InHand = {}

(* However long a digest takes, a provider has at most one in the background,
   so with the one at the end of a session two at a time: the overlap that
   JournalDigest allows (_maybe_start_background_journal_digest). *)
OneBackgroundDigest ==
    \A j, k \in DOMAIN digest : digest[j] # "done" /\ digest[k] # "done" => j = k

(* The status that stats report says "running" while a background digest is at
   work, and after it only if that digest failed with a lost connection at hand. *)
StatusIsTruthful ==
    LET atWork == \E k \in DOMAIN digest : digest[k] = "run"
    IN (atWork => status = "running") /\ (status = "running" => atWork \/ lost)

(* Nothing is promoted through a connection that shutdown, or a recovery that
   failed, has closed. *)
PromotesOnOpenConnection == (\E k \in DOMAIN digest : digest[k] = "promoting") => Connected

(* Background digests in step with the provider: at most one, reported while it
   works and only then, and none that promotes after the shutdown. *)
DigestsInStep == OneBackgroundDigest /\ StatusIsTruthful /\ PromotesOnOpenConnection

(* A queued text is handled in the end, whatever store before it fails, unless the
   provider is shut down or has lost its connection: then the first store to
   fail ends the writer, and what is queued stays (writer_loop,
   _rollback_conn_after_error). *)
QueueDrains ==
    \A t \in Text : (t \in Queued) ~> (t \in Handled \/ host.hook = "shutdown" \/ lost)

(* A shutdown ends, whatever the writer and the digests are doing. *)
ShutdownEnds == (host.hook = "shutdown") ~> (host.pc = "closed")
=============================================================================
