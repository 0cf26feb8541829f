---------------------------- MODULE JournalDigest ----------------------------
(***************************************************************************)
(* The journal digest of scope-recall: concurrent digest runs over the     *)
(* SQLite truth store.  Journal entries are staged as provenance, a run    *)
(* loads a bounded batch of them, extracts candidate memories (by an LLM   *)
(* or a heuristic), applies the candidates one by one, each in its own     *)
(* short transactions, and at the very end marks the entries it decided.   *)
(*                                                                         *)
(* Every action below is one SQLite transaction or one autocommit read of  *)
(* one connection; between two of them another run, a hard delete, an      *)
(* archive, an exception or the death of the process may come.             *)
(*                                                                         *)
(* Data is abstracted to what the properties tell apart.  The content of a *)
(* memory is a set of facts, a candidate carries one fact (or Noise when   *)
(* _candidate_rejection_reason refuses it).  All entries belong to one     *)
(* user, so that all digest memories share that user's shared scope.       *)
(***************************************************************************)
EXTENDS Naturals, Sequences, FiniteSets

CONSTANTS
  Entry,          \* ids of journal_entries, in order of creation
  Run,            \* run ids: uuid4().hex of each call of run_journal_digest
  Memory,         \* ids of memories
  UserMemory,     \* bound: the ids that explicit stores can draw, of Memory
  Fact,           \* what a piece of text can say
  Noise,          \* the fact of a candidate that the quality gates reject
  Scope,          \* local scope ids (chats, threads) of one user
  HomeOf,         \* [Entry -> Scope]: scope_id of the entry
  Reads,          \* [Scope -> SUBSET Scope]: accessible_scope_ids
  Limit,          \* journal.max_entries_per_digest
  Threshold,      \* journal.dynamic_backlog_threshold
  Ceiling,        \* journal.max_entries_per_digest_ceiling
  Retention,      \* BOOLEAN: journal.retention_days > 0
  Capacity,       \* facts that fit in the 900 characters of a merged text
  MaxCandidates,  \* bound: candidates of one extraction
  MaxActive,      \* bound: digest runs in flight at once
  MaxFaults       \* bound: exceptions and crashes in one behaviour

\* The words of the watermark column that are not run ids.
Unset == {"absent", "unprocessed", "pruned"}
Nobody == "nobody"      \* no connection holds the write lock
NoMemory == "no-memory"

ASSUME ConstantsAssumption ==
  /\ Entry \subseteq Nat /\ IsFiniteSet(Entry)
  /\ Run \cap (Unset \cup {Nobody, "recovery"}) = {}
  /\ Noise \notin Fact
  /\ NoMemory \notin Memory
  /\ UserMemory \subseteq Memory
  /\ IsFiniteSet(Scope)
  /\ HomeOf \in [Entry -> Scope]
  /\ Reads \in [Scope -> SUBSET Scope]
  /\ Limit \in Nat \ {0} /\ Ceiling \in Nat /\ Threshold \in Nat
  /\ Retention \in BOOLEAN
  /\ Capacity \in Nat /\ MaxCandidates \in Nat
  /\ MaxActive \in Nat /\ MaxFaults \in Nat

VARIABLES
  watermark,   \* [Entry -> Run \cup Unset]: processed_run_id, and the row's existence
  rejections,  \* [Entry -> [Run -> Reason]]: journal_rejections, keyed (entry, run)
  links,       \* SUBSET (Memory \X Entry): memory_journal_sources
  mem,         \* [Memory -> row]: memories
  runRow,      \* [Run -> {"none", "ok", "error"}]: journal_digest_runs
  pend,        \* [Entry -> Reason]: receipts written by the open transaction
  lock,        \* the connection whose transaction holds the WAL write lock
  task,        \* [Run -> local variables and program point of the run]
  faults,      \* how many exceptions and crashes there were
  forgotten,   \* history: entries one of whose links a hard delete removed
  claims       \* history: <<m, e, f>> while m, with fact f owed to entry e, exists

store == <<watermark, rejections, links, mem, runRow>>
history == <<forgotten, claims>>
vars == <<watermark, rejections, links, mem, runRow, pend, lock, task, faults,
          forgotten, claims>>
-----------------------------------------------------------------------------
Reason == {"none", "filtered", "covered", "no-candidate", "quarantine", "classified"}
Row == [life : {"absent", "visible", "hidden", "deleted"},
        facts : SUBSET Fact, digest : BOOLEAN]
Candidate == [entries : SUBSET Entry, fact : Fact \cup {Noise}]
Task == [pc : {"new", "load", "extract", "apply", "cover", "update", "rewrite",
               "probe", "insert", "link", "mark", "prune", "sweep", "record",
               "ended"},
         scopes : Seq(Scope), limit : Nat, total : Nat,
         batch : SUBSET Entry, rest : SUBSET Entry, cands : Seq(Candidate),
         target : Memory \cup {NoMemory}, base : SUBSET Fact,
         decided : SUBSET Entry, lost : SUBSET Entry]

FreshTask == [pc |-> "new", scopes |-> <<>>, limit |-> 0, total |-> 0,
              batch |-> {}, rest |-> {}, cands |-> <<>>, target |-> NoMemory,
              base |-> {}, decided |-> {}, lost |-> {}]
EndedTask == [FreshTask EXCEPT !.pc = "ended"]
NoPend == [e \in Entry |-> "none"]

Active(r) == task[r].pc \notin {"new", "ended"}
Backlog == {e \in Entry : watermark[e] = "unprocessed"}
Visible(m) == mem[m].life = "visible"
Exists(m) == mem[m].life \in {"visible", "hidden"}
\* Fault: the key column is left empty.
SameKeyUnset(m, f) == mem[m].facts = {}
\* dedup_key of the memory and of a text that says f.
SameKey(m, f) == mem[m].facts = {f}
\* Another connection cannot write while somebody's transaction is open.
MayWrite(c) == lock \in {Nobody, c}

\* The run goes on with local variables t.
Goto(r, t) == task' = [task EXCEPT ![r] = t]

\* rejections after INSERT OR REPLACE of one receipt per entry of S.
Rejected(r, S, reason) ==
  [e \in Entry |-> IF e \in S THEN [rejections[e] EXCEPT ![r] = reason]
                              ELSE rejections[e]]
\* rejections after the commit of the receipts r holds in its transaction.
Committed(r) ==
  [e \in Entry |-> IF pend[e] # "none" THEN [rejections[e] EXCEPT ![r] = pend[e]]
                                       ELSE rejections[e]]
Pending(S, reason) == [e \in Entry |-> IF e \in S THEN reason ELSE pend[e]]

\* ORDER BY created_at, id LIMIT n
Oldest(n, S) == {e \in S : Cardinality({f \in S : f < e}) < n}

\* _dynamic_journal_digest_limit: a backlog above the threshold raises it.
MaxOf(a, b) == IF a > b THEN a ELSE b
MinOf(a, b) == IF a < b THEN a ELSE b
EffectiveLimit ==
  LET backlog == Cardinality(Backlog) IN
  IF backlog <= Threshold THEN Limit ELSE MinOf(backlog, MaxOf(Limit, Ceiling))

\* _unprocessed_scopes: the scopes with work, the one of the oldest entry first.
WaitingScopes == {HomeOf[e] : e \in Backlog}
ScopeOrder(q) ==
  /\ {q[i] : i \in DOMAIN q} = WaitingScopes
  /\ \A i, j \in DOMAIN q : i < j =>
       \E e \in Backlog : /\ HomeOf[e] = q[i]
                          /\ \A f \in Backlog : HomeOf[f] = q[j] => e < f

\* Fault: the new text replaces the old one.
MergedOver(facts, f) == {f}
\* merge_memory_text: the union of the two texts, cut off at 900 characters.
Merged(facts, f) ==
  IF f \in facts \/ Cardinality(facts) < Capacity THEN facts \cup {f} ELSE facts
-----------------------------------------------------------------------------
Init ==
  /\ watermark = [e \in Entry |-> "absent"]
  /\ rejections = [e \in Entry |-> [r \in Run |-> "none"]]
  /\ links = {}
  /\ mem = [m \in Memory |-> [life |-> "absent", facts |-> {}, digest |-> FALSE]]
  /\ runRow = [r \in Run |-> "none"]
  /\ pend = NoPend
  /\ lock = Nobody
  /\ task = [r \in Run |-> FreshTask]
  /\ faults = 0
  /\ forgotten = {}
  /\ claims = {}
-----------------------------------------------------------------------------
(***************************************************************************)
(* The provider: sync_turn appends, the tools store, archive and delete.   *)
(***************************************************************************)
\* append_journal_entry inserting a new row; its id is the next one.
AppendEntry(e) ==
  /\ MayWrite("provider")
  /\ watermark[e] = "absent"
  /\ \A f \in Entry : f < e => watermark[f] # "absent"
  /\ watermark' = [watermark EXCEPT ![e] = "unprocessed"]
  /\ UNCHANGED <<rejections, links, mem, runRow, pend, lock, task, faults, history>>

\* store_row for an explicit store: no visible duplicate, so a new row.
UserStore(m, f) ==
  /\ MayWrite("provider")
  /\ m \in UserMemory
  /\ mem[m].life = "absent"
  /\ \A n \in Memory : ~(Visible(n) /\ SameKey(n, f))
  /\ mem' = [mem EXCEPT ![m] = [life |-> "visible", facts |-> {f}, digest |-> FALSE]]
  /\ UNCHANGED <<watermark, rejections, links, runRow, pend, lock, task, faults, history>>

\* A soft archive: the row stays, hidden from recall and from matching.
Archive(m) ==
  /\ MayWrite("provider")
  /\ Visible(m)
  /\ mem' = [mem EXCEPT ![m].life = "hidden"]
  /\ UNCHANGED <<watermark, rejections, links, runRow, pend, lock, task, faults, history>>

\* delete_rows: the row goes, and its provenance links with it.
HardDelete(m) ==
  /\ MayWrite("provider")
  /\ Exists(m)
  /\ mem' = [mem EXCEPT ![m].life = "deleted"]
  /\ links' = {l \in links : l[1] # m}
  /\ forgotten' = forgotten \cup {e \in Entry : <<m, e>> \in links}
  /\ claims' = {c \in claims : c[1] # m}
  /\ UNCHANGED <<watermark, rejections, runRow, pend, lock, task, faults>>
-----------------------------------------------------------------------------
(***************************************************************************)
(* One digest run.                                                         *)
(***************************************************************************)
\* run_journal_digest up to its loop.  A run that finds nothing to load
\* returns without a trace and is left out.
Begin(r) ==
  /\ task[r].pc = "new"
  /\ Cardinality({o \in Run : Active(o)}) < MaxActive
  /\ \/ \* command line and timer: every scope with work
        /\ Backlog # {}
        /\ \E q \in [1 .. Cardinality(WaitingScopes) -> WaitingScopes] :
             /\ ScopeOrder(q)
             /\ Goto(r, [task[r] EXCEPT !.pc = "load",
                                        !.scopes = SubSeq(q, 1, MinOf(EffectiveLimit, Len(q))),
                                        !.limit = EffectiveLimit])
     \/ \* background thread, and session end with the limit as configured: the
        \* provider's own scope
        \E s \in Scope, n \in {EffectiveLimit, Limit} :
          /\ \E e \in Backlog : HomeOf[e] \in Reads[s]
          /\ Goto(r, [task[r] EXCEPT !.pc = "load", !.scopes = <<s>>, !.limit = n])
  /\ UNCHANGED <<store, pend, lock, faults, history>>

\* The top of the loop over scopes.  ensure_journal_schema runs a script, and
\* a script commits what the connection still held; it needs no lock, for the
\* tables are there.
Load(r) ==
  /\ task[r].pc = "load"
  /\ task[r].scopes # <<>> /\ task[r].total < task[r].limit
  /\ LET s == Head(task[r].scopes)
         B == Oldest(task[r].limit - task[r].total,
                     {e \in Backlog : HomeOf[e] \in Reads[s]})
     IN Goto(r, [task[r] EXCEPT !.scopes = Tail(@), !.batch = B,
                             !.total = @ + Cardinality(B),
                             !.pc = IF B = {} THEN "load" ELSE "extract"])
  /\ rejections' = IF lock = r THEN Committed(r) ELSE rejections
  /\ pend' = IF lock = r THEN NoPend ELSE pend
  /\ lock' = IF lock = r THEN Nobody ELSE lock
  /\ UNCHANGED <<watermark, links, mem, runRow, faults, history>>

\* No scope is left, or no room for more entries.
EndOfScopes(r) ==
  /\ task[r].pc = "load"
  /\ task[r].scopes = <<>> \/ task[r].total >= task[r].limit
  /\ Goto(r,
                IF task[r].total = 0 THEN EndedTask
                ELSE [FreshTask EXCEPT !.pc = "mark", !.decided = task[r].decided,
                                       !.lost = task[r].lost])
  /\ UNCHANGED <<store, pend, lock, faults, history>>

\* The extraction failed as a whole (retries exhausted, not retryable, nothing
\* parsed): every loaded entry gets a quarantine receipt, not yet committed.
Quarantine(r) ==
  /\ task[r].pc = "extract"
  /\ MayWrite(r)
  /\ lock' = r
  /\ pend' = Pending(task[r].batch, "quarantine")
  /\ Goto(r, [task[r] EXCEPT !.pc = "load", !.decided = @ \cup task[r].batch,
                          !.batch = {}])
  /\ UNCHANGED <<store, faults, history>>

\* The extraction returned candidates cs.  The answers for the sessions of
\* `lost` did not parse; another one did, so the error is not raised.
Extract(r, cs, lost) ==
  /\ task[r].pc = "extract"
  /\ lost # task[r].batch
  /\ LET covered == UNION {cs[i].entries : i \in DOMAIN cs}
     IN /\ covered \subseteq task[r].batch \ lost
        /\ Goto(r, [task[r] EXCEPT !.pc = "apply", !.cands = cs,
                                !.batch = {}, !.lost = @ \cup lost,
                                !.rest = task[r].batch \ covered])
  /\ UNCHANGED <<store, pend, lock, faults, history>>

\* What an extraction of at most MaxCandidates candidates can return for B.
Extractions(B) ==
  UNION {[1 .. n -> {c \in [entries : SUBSET B, fact : Fact \cup {Noise}] :
                       c.entries # {}}] : n \in 0 .. MaxCandidates}

\* Fault: the quality gates let everything through.
RefusedNever(c) == FALSE
\* _candidate_rejection_reason: target, length, template noise, capture filter
\* and the low-value shapes of _low_value_promotion_reason.
Refused(c) == c.fact = Noise

Candidates(r) == task[r].cands
Current(r) == Head(task[r].cands)

\* The candidate at the head is done; D are the entries it decides.
Advance(r, D) ==
  Goto(r, [task[r] EXCEPT !.pc = "apply", !.cands = Tail(@), !.target = NoMemory,
                       !.base = {}, !.decided = @ \cup D])

\* A candidate that the quality gates refuse.
Filter(r) ==
  /\ task[r].pc = "apply" /\ Candidates(r) # <<>>
  /\ Refused(Current(r))
  /\ MayWrite(r)
  /\ rejections' = Rejected(r, Current(r).entries, "filtered")
  /\ Advance(r, Current(r).entries)
  /\ UNCHANGED <<watermark, links, mem, runRow, pend, lock, faults, history>>

\* _find_match: an exact duplicate is full coverage; a memory that says it
\* among other things may score as coverage, for a merge or not at all; any
\* other visible memory may score for a merge (same topic) or not.
Match(r) ==
  /\ task[r].pc = "apply" /\ Candidates(r) # <<>>
  /\ ~Refused(Current(r))
  /\ LET f == Current(r).fact
         twin == \E m \in Memory : Visible(m) /\ SameKey(m, f)
     IN \/ /\ \E m \in Memory : Visible(m) /\ f \in mem[m].facts
           /\ Goto(r, [task[r] EXCEPT !.pc = "cover"])
        \/ /\ ~twin
           /\ \E m \in Memory :
                /\ Visible(m)
                /\ Goto(r, [task[r] EXCEPT !.pc = "update", !.target = m,
                                        !.base = mem[m].facts])
        \/ /\ ~twin
           /\ Goto(r, [task[r] EXCEPT !.pc = "probe"])
  /\ UNCHANGED <<store, pend, lock, faults, history>>

\* Fault: a covered candidate does not advance its entries.
CoverAndKeep(r) ==
  /\ task[r].pc = "cover"
  /\ MayWrite(r)
  /\ rejections' = Rejected(r, Current(r).entries, "covered")
  /\ Advance(r, {})
  /\ UNCHANGED <<watermark, links, mem, runRow, pend, lock, faults, history>>

\* "existing memory covers candidate"
Cover(r) ==
  /\ task[r].pc = "cover"
  /\ MayWrite(r)
  /\ rejections' = Rejected(r, Current(r).entries, "covered")
  /\ Advance(r, Current(r).entries)
  /\ UNCHANGED <<watermark, links, mem, runRow, pend, lock, faults, history>>

\* Fault: the entries advance although the row was not updated.
UpdateUnchecked(r) ==
  /\ task[r].pc = "update"
  /\ IF Exists(task[r].target)
     THEN Goto(r, [task[r] EXCEPT !.pc = "rewrite"])
     ELSE Advance(r, Current(r).entries)
  /\ UNCHANGED <<store, pend, lock, faults, history>>

\* update_row, its SELECT: without the row the entries stay undecided.
Update(r) ==
  /\ task[r].pc = "update"
  /\ IF Exists(task[r].target)
     THEN Goto(r, [task[r] EXCEPT !.pc = "rewrite"])
     ELSE Advance(r, {})
  /\ UNCHANGED <<store, pend, lock, faults, history>>

\* update_row, its UPDATE and commit: the text merged from what _find_match
\* saw replaces whatever the row says now, and the row is classified anew, which
\* revives one that was archived meanwhile; a deleted row stays deleted.
Rewrite(r) ==
  /\ task[r].pc = "rewrite"
  /\ MayWrite(r)
  /\ mem' = IF Exists(task[r].target)
            THEN [mem EXCEPT ![task[r].target].life = "visible",
                             ![task[r].target].facts = Merged(task[r].base, Current(r).fact)]
            ELSE mem
  /\ Goto(r, [task[r] EXCEPT !.pc = "link"])
  /\ UNCHANGED <<watermark, rejections, links, runRow, pend, lock, faults, history>>

\* store_row, its SELECT: a visible row with the same dedup_key is kept.
Probe(r) ==
  /\ task[r].pc = "probe"
  /\ \/ \E m \in Memory :
          /\ Visible(m) /\ SameKey(m, Current(r).fact)
          /\ MayWrite(r)   \* its updated_at is touched
          /\ Goto(r, [task[r] EXCEPT !.pc = "link", !.target = m])
     \/ /\ \A m \in Memory : ~(Visible(m) /\ SameKey(m, Current(r).fact))
        /\ Goto(r, [task[r] EXCEPT !.pc = "insert"])
  /\ UNCHANGED <<store, pend, lock, faults, history>>

\* store_row, its INSERT and commit.
Insert(r) ==
  /\ task[r].pc = "insert"
  /\ MayWrite(r)
  /\ \E m \in Memory \ UserMemory :
       /\ mem[m].life = "absent"
       /\ mem' = [mem EXCEPT ![m] = [life |-> "visible",
                                     facts |-> {Current(r).fact}, digest |-> TRUE]]
       /\ Goto(r, [task[r] EXCEPT !.pc = "link", !.target = m])
  /\ UNCHANGED <<watermark, rejections, links, runRow, pend, lock, faults, history>>

\* _merge_metadata, _record_journal_sources and commit, for all three ways
\* here.  The link is written whether or not the memory is still there.
Link(r) ==
  /\ task[r].pc = "link"
  /\ MayWrite(r)
  /\ LET m == task[r].target
         E == Current(r).entries
     IN /\ links' = links \cup ({m} \X E)
        /\ claims' = IF Exists(m) THEN claims \cup {<<m, e, Current(r).fact>> : e \in E}
                                  ELSE claims
        /\ Advance(r, E)
  /\ UNCHANGED <<watermark, rejections, mem, runRow, pend, lock, faults, forgotten>>

\* No candidate is left: the loaded entries that none of them names get a
\* receipt, not yet committed.
Review(r) ==
  /\ task[r].pc = "apply" /\ Candidates(r) = <<>>
  /\ IF task[r].rest = {} THEN UNCHANGED <<pend, lock>>
     ELSE /\ MayWrite(r)
          /\ lock' = r
          /\ pend' = Pending(task[r].rest, "no-candidate")
  /\ Goto(r, [task[r] EXCEPT !.pc = "load", !.decided = @ \cup task[r].rest,
                          !.batch = {}, !.rest = {}])
  /\ UNCHANGED <<store, faults, history>>

\* mark_entries_processed: with its commit the pending receipts become durable.
Mark(r) ==
  /\ task[r].pc = "mark"
  /\ task[r].decided # {} => MayWrite(r)
  /\ watermark' = [e \in Entry |->
                     IF e \in task[r].decided /\ watermark[e] \notin {"absent", "pruned"}
                     THEN r ELSE watermark[e]]
  /\ rejections' = IF lock = r THEN Committed(r) ELSE rejections
  /\ pend' = IF lock = r THEN NoPend ELSE pend
  /\ lock' = IF lock = r THEN Nobody ELSE lock
  /\ Goto(r, [FreshTask EXCEPT !.pc = "prune", !.lost = task[r].lost])
  /\ UNCHANGED <<links, mem, runRow, faults, history>>

\* Fault: the filter on processed_run_id is missing.
Aged(cutoff) == {e \in Entry : watermark[e] \notin {"absent", "pruned"} /\ e <= cutoff}
\* Processed entries of at least that age.
Prunable(cutoff) == {e \in Entry : watermark[e] \notin Unset /\ e <= cutoff}

\* _prune_processed_journal, its SELECT: processed entries older than a
\* cutoff, which is somewhere between two entries.
PruneSelect(r) ==
  /\ task[r].pc = "prune"
  /\ \/ Goto(r, [task[r] EXCEPT !.pc = "record"])
     \/ /\ Retention
        /\ \E cutoff \in Entry :
             /\ Prunable(cutoff) # {}
             /\ Goto(r, [task[r] EXCEPT !.pc = "sweep", !.batch = Prunable(cutoff)])
  /\ UNCHANGED <<store, pend, lock, faults, history>>

\* ... and its three DELETEs, by id.
PruneDelete(r) ==
  /\ task[r].pc = "sweep"
  /\ MayWrite(r)
  /\ LET old == task[r].batch
     IN /\ links' = {l \in links : l[2] \notin old}
        /\ rejections' = [e \in Entry |-> IF e \in old THEN [o \in Run |-> "none"]
                                                       ELSE rejections[e]]
        /\ watermark' = [e \in Entry |-> IF e \in old THEN "pruned" ELSE watermark[e]]
  /\ Goto(r, [FreshTask EXCEPT !.pc = "record"])
  /\ UNCHANGED <<mem, runRow, pend, lock, faults, history>>

\* The "ok" row of journal_digest_runs.
Record(r) ==
  /\ task[r].pc = "record"
  /\ MayWrite(r)
  /\ runRow' = [runRow EXCEPT ![r] = "ok"]
  /\ Goto(r, EndedTask)
  /\ UNCHANGED <<watermark, rejections, links, mem, pend, lock, faults, history>>
-----------------------------------------------------------------------------
(***************************************************************************)
(* Failure.  Any step may raise ("database is locked", a disk error).  The *)
(* handler's ensure_journal_schema commits what the transaction held, then *)
(* an "error" row follows; if the handler fails too, or the process dies,  *)
(* the transaction is rolled back.  Nothing is marked either way.          *)
(***************************************************************************)
Ending(r) ==
  /\ task[r].pc \notin {"new", "ended"}
  /\ faults < MaxFaults
  /\ faults' = faults + 1
  /\ Goto(r, EndedTask)
  /\ pend' = IF lock = r THEN NoPend ELSE pend
  /\ lock' = IF lock = r THEN Nobody ELSE lock

Abort(r) ==
  /\ MayWrite(r)
  /\ Ending(r)
  /\ rejections' = IF lock = r THEN Committed(r) ELSE rejections
  /\ runRow' = [runRow EXCEPT ![r] = "error"]
  /\ UNCHANGED <<watermark, links, mem, history>>

Crash(r) ==
  /\ Ending(r)
  /\ UNCHANGED <<store, history>>
-----------------------------------------------------------------------------
ExtractSome(r) ==
  \E lost \in SUBSET task[r].batch :
    \E cs \in Extractions(task[r].batch \ lost) : Extract(r, cs, lost)

\* What a run does by itself once begun.
Progress(r) ==
  \/ Load(r) \/ EndOfScopes(r) \/ Quarantine(r) \/ ExtractSome(r)
  \/ Filter(r) \/ Match(r) \/ Cover(r) \/ Update(r) \/ Rewrite(r)
  \/ Probe(r) \/ Insert(r) \/ Link(r) \/ Review(r)
  \/ Mark(r) \/ PruneSelect(r) \/ PruneDelete(r) \/ Record(r)

DigestStep(r) == Begin(r) \/ Progress(r) \/ Abort(r) \/ Crash(r)

ProviderStep ==
  \/ \E e \in Entry : AppendEntry(e)
  \/ \E m \in Memory : Archive(m) \/ HardDelete(m)
  \/ \E m \in Memory, f \in Fact : UserStore(m, f)

Next == ProviderStep \/ \E r \in Run : DigestStep(r)

Spec == Init /\ [][Next]_vars

\* A timer or the next turns of the conversation start runs while there is
\* work, and a run that has begun is a running thread.
FairSpec == /\ Spec
            /\ WF_vars(\E r \in Run : Begin(r))
            /\ \A r \in Run : WF_vars(Progress(r))

-----------------------------------------------------------------------------
\* The promise of JournalWatermark, and how this module keeps it.
Linked(e) == \E m \in Memory : <<m, e>> \in links
Status(e) == CASE watermark[e] = "absent" -> "absent"
               [] watermark[e] = "unprocessed" -> "open"
               [] watermark[e] = "pruned" -> "gone"
               [] OTHER -> "settled"
Evidenced == {e \in Entry : /\ watermark[e] \notin {"absent", "pruned"}
                           /\ \/ \E r \in Run : rejections[e][r] # "none"
                              \/ Linked(e) \/ e \in forgotten}
Promise == INSTANCE JournalWatermark
             WITH status <- [e \in Entry |-> Status(e)], evidenced <- Evidenced

\* No entry leaves the backlog without evidence, none comes back by itself and
\* only settled ones are pruned: the digest implements its promise.
KeepsPromise == Promise!ASpec

TypeOK ==
  /\ watermark \in [Entry -> Run \cup Unset]
  /\ rejections \in [Entry -> [Run -> Reason]]
  /\ links \subseteq Memory \X Entry
  /\ mem \in [Memory -> Row]
  /\ runRow \in [Run -> {"none", "ok", "error"}]
  /\ pend \in [Entry -> Reason]
  /\ lock \in Run \cup {Nobody, "recovery"}
  /\ task \in [Run -> Task]
  /\ faults \in Nat
  /\ forgotten \subseteq Entry
  /\ claims \subseteq Memory \X Entry \X Fact

\* There is a durable outcome of e that run r (or an earlier one) left.
Receipted(e, r) == rejections[e][r] # "none" \/ Linked(e) \/ e \in forgotten

\* An entry behind the watermark has a durable outcome on record: a receipt of
\* the very run named in processed_run_id, or a memory it is a source of (or
\* was, until an explicit delete).  Runs overlap, die and raise at any step;
\* the watermark must never get ahead of the evidence.
SettledHasReceipt ==
  \A e \in Entry : watermark[e] \in Run => Receipted(e, watermark[e])

\* With one run at a time, whatever crashes and retries come and whatever is
\* archived or deleted meanwhile, the digest never stores the same fact twice as
\* two visible memories.
Twins(m, n) == /\ m # n /\ Visible(m) /\ Visible(n)
               /\ mem[m].facts = mem[n].facts /\ Cardinality(mem[m].facts) = 1
NoTwinDigestMemories ==
  \A m, n \in Memory : Twins(m, n) => ~(mem[m].digest /\ mem[n].digest)

\* With one run at a time, a memory keeps every fact some entry was consumed
\* for, unless its text is at its length limit.
ClaimsKept ==
  \A c \in claims : LET m == c[1] IN
    c[3] \in mem[m].facts \/ Cardinality(mem[m].facts) >= Capacity
\* Every staged entry eventually leaves the backlog, through crashes, errors
\* and memories deleted under the digest's feet.
BacklogDrains ==
  \A e \in Entry : watermark[e] = "unprocessed" ~> watermark[e] \in Run \cup {"pruned"}

\* A digest memory can be traced back: unless its source entry is still going to
\* be digested or was pruned, some link names it.
AtRest == lock = Nobody /\ \A r \in Run : ~Active(r)
DigestMemoriesTraceable ==
  AtRest /\ Backlog = {} =>
    \A m \in Memory : mem[m].digest /\ Visible(m) => \E e \in Entry : <<m, e>> \in links

\* A deletion leaves no provenance row of a memory that is gone.
NoOrphanLinks == \A l \in links : Exists(l[1])

\* The write-time dedupe: one visible row per text.
NoRepeatedRows == \A m, n \in Memory : ~Twins(m, n)

\* An entry whose extraction failed to parse is not filed as reviewed.
ParseFailureIsSignalled ==
  \A r \in Run : \A e \in task[r].lost :
    watermark[e] = r => rejections[e][r] # "no-candidate"
=============================================================================
