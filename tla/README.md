# scope-recall in TLA+

scope-recall is a memory provider for the Hermes agent.  It stages the turns of
a conversation in an SQLite *journal*, digests the journal into durable
*memories*, keeps a vector index beside them, and lets tools and operators
store, merge, archive, delete, govern and recover.  This directory holds TLA+
modules of the parts of it that have state worth worrying about, the TLC
configurations that check them, and proofs about them.

## 1. Inventory

| part | code | state it keeps | operations |
|---|---|---|---|
| journal digest | `journal.py`, `journal_store.py`, `journal_extractors.py` | `journal_entries` (watermark `processed_run_id`), `memory_journal_sources`, `journal_rejections`, `journal_digest_runs` | append an entry; a run: load, extract, apply candidates, mark, prune, record; the error handler |
| journal recovery | `journal_recovery.py` | the same tables | replay or classify entries whose digest failed |
| truth store | `sql_store.py`, `storage_views.py` | `memories`, FTS, entities, relations, feedback | store, update, delete, exact dedupe, migrations |
| capture | `capture.py`, `capture_llm.py`, `capture_filters.py`, `gating.py` | a queue, a writer thread, a stop flag | enqueue, write, flush, shut down |
| provider | `provider.py` | one connection, one lock, the digest thread, session and turn | initialise, sync a turn, session end, shut down, recover from lock errors |
| vector companion | `vector_runtime.py`, `vector_store.py`, `sqlite_vector_store.py`, `pgvector_store.py` | the index, its readiness and repair marks | upsert, delete, search, repair |
| memory operations | `memory_ops.py`, `maintenance_ops.py`, `tooling.py` | `memories` and the index | semantic merge, update, merge, archive, delete, dedupe, feedback |
| governance | `governance*.py`, `forgetting.py`, `prospective_governance.py` | lifecycle in metadata, `governance_audit_events` | plan, apply, roll back; forgetting |
| recall | `recall.py`, `recall_pipeline.py`, `scoring.py`, `freshness.py`, `aliases.py` (aliases of words) | last recalled turns | search, fuse, filter, budget |
| scope identity | `scope.py` | none (pure) | local, shared and pool scope ids; which are readable, which writable |
| graph and relations | `graph*.py`, `relation_extraction.py` | `memory_entities`, `memory_relations` | sync entities, relate, conflict counters |
| candidates | `candidate_*.py` | candidate rows | propose, review, promote |
| experience | `experience_*.py`, `skill_bridge.py` | episodes, playbooks | extract, promote, preflight, feedback |
| nightly digest | `nightly_digest.py`, `nightly_llm.py`, `event_digest.py` | digest runs and sources | the older digest over session files |
| telemetry | `telemetry.py` | retrieval events | record, prune |
| config, CLI, installer, imports | `config.py`, `cli.py`, `installer.py`, `migration*.py` | files, an import ledger | install, update, import |
| bridges, doctors | `external_bridge.py`, `postgres_bridge.py`, `doctor_*.py` | none of their own | read, report |

How they interact.  The provider runs in the agent's process with several
threads: the agent's own, the capture writer and the background digest.  They
share one connection under one lock, but a digest opens a connection of its
own.  Timers and operators start further digests and recoveries in other
processes.  All meet in one SQLite file in WAL mode: one writer at a time, a
reader sees what is committed.  The vector index is a second store, changed
before or after the truth, never together with it.

What is hard: runs of the digest overlap and are not told of each other; every
candidate is applied in two or three short transactions; receipts wait in an
open transaction that the next schema check commits; an exception commits them
too, a death rolls them back; memories are deleted and archived between a look
and the write that relies on it; queues and threads are stopped with a time
limit.  `PROJECT.json` lists these hazards, each at its line, with the
properties aimed at it.

What makes each part correct, and is stated in its module: the journal loses no
entry and digests none twice without a trace; recovery reopens only failures;
a flush means what it says; the index follows the truth or says it does not;
archives can be undone, and conflict fields and relations follow the texts;
recall shows nothing hidden and nothing of another person, and misses nothing it
could have shown; a playbook that is offered was earned by decisions; an
upgrade loses nothing, and its rollback returns what was there.

## 2. Modules

| module | models | checked by | role |
|---|---|---|---|
| `JournalWatermark` | what the digest promises about an entry | `overlap`, `recovery` | abstract specification |
| `JournalDigest` | staging, digest runs, pruning, failures; the provider's stores, archives and deletes as far as they touch the journal | `overlap`, `retries` | implements `JournalWatermark` |
| `JournalRecovery` | the operator's replay and classification, next to running digests | `recovery` | extends `JournalDigest` |
| `ProviderConnections` | the providers' shared connections, `provider._lock`, and what happens after a locked database | `shared`, `locked` | of its own |
| `ProviderLifecycle` | the host's hooks, the capture queue and its writer, background digests, shutdown | `lifecycle` | of its own; above the two before |
| `CompanionPromise` | what the vector companion promises about a memory | `companion` | abstract specification |
| `VectorCompanion` | rows and vector records under the operations that change both, set-up and repair | `companion` | implements `CompanionPromise` |
| `CandidateQuality` | what the classifier makes of a candidate memory | `records` | pure |
| `RelationExtraction` | the relations read off two texts, and their regeneration | `records` | pure |
| `MemoryGovernance` | the rows of memories under tools, forgetting, cleanup with rollback, and the review scripts | `records` | extends the two pure ones |
| `ExperienceSessions` | what promotion reads off a session | `playbooks` | pure |
| `Playbooks` | playbooks from creation to review, merge, feedback and preflight | `playbooks` | extends it |
| `NightlyDigest` | runs of the older digest over the sessions of a day | `nightly` | of its own |
| `ScopeIdentity` | who may read and write which scope | `recall` | pure |
| `RecallScore` | how candidates are graded and ordered | `recall` | pure |
| `Recall` | a search, what a turn injects, telemetry, the listing surfaces | `recall` | extends the two pure ones |
| `PluginInstall` | install, upgrade, activation, rollback; rollout of all profiles and its rollback | `install` | of its own |
| `MC...` | small instances | | for TLC |
| `JournalDigestProofs` | theorems about `JournalDigest` and `JournalRecovery` | | for TLAPS |
| `ProviderProofs` | theorems about `ProviderConnections` and `ProviderLifecycle` | | for TLAPS |
| `VectorCompanionProofs`, `RecallProofs`, `MemoryGovernanceProofs`, `PlaybooksProofs`, `NightlyDigestProofs`, `PluginInstallProofs` | theorems about the module each is named for | | for TLAPS |

The modules meet at the tables: the writer of `ProviderLifecycle` and the tools
run the store of `ProviderConnections`; a background digest is a run of
`JournalDigest`; `VectorCompanion` and `MemoryGovernance` look at the same
operations of `memory_ops.py` once for the index and once for the metadata;
`Recall` sees what all of them leave behind, as writers of other processes.

### JournalWatermark

An entry is absent, open, settled or gone, and some entries have evidence (a
source link or a receipt).  It may be settled only in a step after which it has
evidence; settled evidence is never dropped except by a replay (which reopens
the entry in the same step) or by pruning (which retires it).

### JournalDigest

State: `watermark[e]` is `processed_run_id` (a run, `"unprocessed"` for the empty
string) and says whether the row exists at all; `rejections[e][r]` is
`journal_rejections`, whose key is (entry, run); `links` is
`memory_journal_sources`; `mem[m]` is a row of `memories`: its lifecycle, the
facts its text states and whether the digest created it; `runRow` is
`journal_digest_runs`.  `lock` and `pend` are the one open write transaction of
WAL mode and the receipts in it.  `task[r]` holds the program point and local
variables of a run.  `forgotten` and `claims` are history variables: entries
that lost a link to an explicit delete, and what a memory owes to an entry.

Actions, one per transaction or autocommit read, in the order of the code:

* `AppendEntry`, `UserStore`, `Archive`, `HardDelete`: the provider.
* `Begin` (the dynamic limit and the scopes with work, or one scope of the
  provider), `Load` (schema script and SELECT), `Quarantine` or `Extract` (what
  the extractor may return: up to `MaxCandidates` candidates over any of the
  entries, or a failure, or the loss of some chunks), then for each candidate
  `Filter`, or `Match` followed by `Cover`, or by `Update` and `Rewrite`, or by
  `Probe` and `Insert`, and `Link`; `Review` for the entries nobody named.
* `EndOfScopes`, `Mark`, `PruneSelect`, `PruneDelete`, `Record`.
* `Abort` (an exception: the handler's schema script commits what was pending)
  and `Crash` (it is rolled back), at any step.

A text is the set of facts it states; `Merged` adds one unless the text is at
its limit of 900 characters (`Capacity` facts).  Similarity scores are a free
choice among what the thresholds 0.88 and 0.55 allow, except that an exact
duplicate always covers.  All entries belong to one user, so every digest memory
is in that user's shared scope and is writable; `_find_match`'s limit of 300 rows
is not reached.  `Rewrite` classifies the row anew, as `update_row` does, so it revives
a memory that was archived after the run chose it.  An entry whose session consists of tool messages only is
skipped by the LLM extractor; it then counts as named by no candidate.

### JournalRecovery

`op` is the recovery command: `Find` reads the candidates, `Check` re-reads one
entry, `Change` is its UPDATE, and `Finish` the commit.  `GiveUp` is a failure.
`op.alone` says whether the operator stopped the digests for this recovery; the
code does not ask for it.

### ProviderConnections

One level below the digest: not what is written, but on which connection, under
which lock, and who ends the transaction.

| model | code |
|---|---|
| `mutex[p]` | `provider._lock` of provider `p` |
| `tx[c]` | the connection: in no transaction, in one without (`"open"`) or with (`"write"`) SQLite's write lock, closed |
| `gen[p]` | which connection object `self._conn` is; a thread that read an older one works on a closed connection |
| `pending`, `durable` | the writes of a store (row, index entry, relation edges) in the open transaction and on disk |
| `task[t]` | program point and locals of a thread: the agent's, or the capture writer |
| `left`, `touched` | the bound on operations; the connections used since a recovery began (history) |

Staging (`StartAppend`, `NextEntry`, `InsertEntry`, `InsertRefused`,
`EndAppend`) holds the lock over all entries of a turn.  A store is `StartStore`
(the connection is read), `Enter`, `InsertRow`, `IndexRow`, `CommitStore`
(or `TouchDuplicate`, when a second attempt finds what the first one stored), then
`MarkConflicts` and, with relation extraction on, `EraseEdges`, `InsertEdges`,
`CommitEdges`, which the code runs on the shared connection *without* the lock.
`StatementRefused` is "database is locked", `StatementOnClosed` a statement on
a closed connection.  Then come `RollbackAfterError` and, for a first failure
of the store tool that was a lock, the recovery: `RollbackPeer` for every other
provider, `ProbeOpen` or `ProbeBusy`, `Reopen` or `ReopenFails`, `ReprobeOpen`
or `ReprobeBusy`, and one more attempt.  A connection that is closed raises when it is
asked whether a transaction is open (`provider.py:1084`, `1115`), and neither place
catches that: a peer without an open connection ends the recovery and the tool
call, the remaining peers untouched (`RollbackPeer`), and a writer thread whose handler
meets its own closed connection ends (`AfterRollback`, location `"dead"`).  `RunBegins` and `RunEnds` are a
connection that is not a provider's (a digest, another process).  A
statement that meets the write lock either waits until it is free, and is then
an ordinary step, or fails; which of the two is left open.

### ProviderLifecycle

The host calls one hook after the other (`Call`); a hook stages (`Stage`), may
start a background digest (`Trigger`, with the check that none is alive and the
interval has passed), captures (`Capture`: what filters, gate and the LLM find is
a choice) or flushes (`Flush`, `FlushDone`, `FlushTimesOut`); a session end goes
on to the digest of the session (`SessionDigest`) and the promotion
(`SessionPromoted`), and `shutdown` to `Stop`, `Join` and `Close`.
The writer loop is `CheckStop`, `Get`, `StoreJob`, `FlushJob`, `PoisonJob`; a background digest
is `DigestReports`, `PromotionBegins`, `PromotionEnds`.  `LoseConnection` is what the recovery
of `ProviderConnections` may leave behind: a connection that is set but closed (`lost`).
From then on a store that fails ends the writer, a digest that raises leaves its
status at `running`, and nothing is staged or promoted.  Every wait of the host
has a time limit, so each has a step that ends it early: `late` remembers that
one of them did.

### CompanionPromise and VectorCompanion

The promise: a memory's record differs from its row only while an operation on
it is under way, unless the provider says that its companion needs repair.
`excused` lists what the promise does not cover, and why it is not a way out: a
memory that two actors had hold of at once, one a digest changes (a digest
marks its own companion and not the provider's), one whose operation failed
where the provider does not learn of it (a hard delete that removed the record and
not the row, and `UpdateBreaks`: an update that raises after `update_row` committed,
when it reads the row back or marks its conflicts, `memory_ops.py:311` to `323`), and all of them when a digest opens the
index for an embedder of other dimensions or fails while it rewrites it.  `VectorCompanion` has the steps of each operation in
the order of the code: `StoreRow`, or `UpdateRow` with `Reread` and `MarkConflicts`, then `Enter`,
`Embed` or `Unindex`; for a forget `BeginForget`, `Drop`, `Remove` or `Hide`,
`Commit`; for repair `BeginSetup`, `OpenStore`, `ReadRows`, `Sync`, `Report`.
`lock` is `provider._lock`, `vlock` the vector lock, nested as the code nests
them; a digest has a connection, a companion and locks of its own.
`backend` is the configured store, chosen at the start.  For each of the three,
`LanceUpsertFails`, `LanceRepaired` and their counterparts say what a replacement
that raises may leave (LanceDB deletes and then adds, the others write in one
transaction) and what `repair_records` keeps; `Opened` is what a change of
dimensions does to it, and `SyncFails` where in `sync_vector_index` it may stop.
Physical duplicates in LanceDB and the fallback from one store to another are left out.  Every
call of the index may fail, and so may every statement on the rows that comes after the
first write of its operation (before it, a failure changes nothing and is no step; one of a repair that reads the
rows ends it like one of the index before it is changed); a
failure of `Enter` to read the lifecycle counts the row as visible, as the code
does.  `Restart` is the death of the provider's
process.  The refinement maps the difference of row and record to `differs`,
`store = "ready"` to `trusted`.

### MemoryGovernance, CandidateQuality, RelationExtraction

A row is its text (one of a small set), the time of its last change and the
metadata that govern it: lifecycle, the batches that archived, promoted or
forgot it, and its conflicts.  `edges` are the `contradicts` relations, `links` the
generated ones, `audit` the `governance_audit_events`.

| action | code |
|---|---|
| `StorePick`, `Insert`, `Mark`, `Relate` | `store_or_merge` in the sections of its lock: the look for a similar row, the row, its conflict fields, its relations |
| `ToolUpdate`, `Update`, `Remark`, `Relate` | `update_memory` |
| `ToolMerge`, `Update`, ..., `DeleteSources` | `merge_memories` |
| `HardDelete`, `Forget`, `Dedupe` | the tools of those names |
| `GovernRead`, `GovernWrite` | `govern_memories`: read in one section, written back in another |
| `Forgetting`, `ForgettingFails`, `ForgettingRestores` | a forgetting run, one that fails, and the compensation |
| `Cleanup`, `Rollback`, `ReadFirst`, `CleanupWrite`, `RollbackWrite`, `Backfill` | `governance_cleanup.py`: a job holds what it read until it writes |
| `Review`, `ReviewWrite`, `Promote`, `PromoteWrite` | the two scripts about candidates |
| `Hygiene` | removal of edges to rows that are gone |

A tool's own window between a read and a write is modelled against jobs only
where the code leaves the lock; a job reads the row before its transaction and
may write what is stale by then.  Semantic similarity and the merged text are
choices; the scope filters, redaction and `feedback_memory` are left out.  A
grade belongs to a text.  An operator's reviewed ids override the
classifier, even its check for an active twin.  A relation synchronisation that
fails (its edges roll back; `ProviderConnections` has that step) and relation
extraction switched off are left out.

`CandidateQuality` translates the classifier's lists and thresholds;
`MCSurerIsNoWorse`, evaluated on every run of its MC module, checks along all
thresholds that a candidate with more confidence or importance is never worse
off.  `RelationExtraction` says which relations two texts call for
(`Extracted`), and what a regeneration for one memory leaves (`Regenerated`):
the edges of rows it did not look at stay as they were, which is what the
properties about relations are about.

### ExperienceSessions and Playbooks

`ExperienceSessions` is what promotion reads off a journaled session: whether it
ended well (`ClosedWell`), its checks, risk, task class, score and quality, and whether
it is `Promotable`; two sessions are the `SameWork` when their entries
overlap enough.  An entry is its role and the tokens of the code's lists that its text
contains; a token inside another is in the other's groups as well.

In `Playbooks`, the agents are processes with connections of their own, so each
operation is its reads and then one transaction that writes: `Search` then
`Preflight`, `Merge` then `MergeWrite`, `Feedback` then `FeedbackWrite`, `Review`
and `Decide` with `Number` and `ReviewWrite` for the version, `Synthesise` then
`CreateAuto` with its episode, `Bootstrap` of the core playbooks, `Backfill` of
anchors; `Die` may come between.  Confidences are per mille, rounded down.  What
a preflight finds similar and `force` are permissive choices, a search answers
one candidate.  The operator's mode gates, dry runs, replay benchmarks and skill
candidates, which change no playbook, are left out, as are evidence anchors and
the LIMIT of the journal window.

### NightlyDigest

One target, texts as sets of facts.  A run goes through the sessions of its day,
chunk by chunk (`Extracts`, `Replied`, `CallFails` with the code's own
classification of failures by their words, retries and the heuristic fallback),
then per candidate `MatchRow` and `UpdateRow` with `CiteRow`, or `StoreRow`, `PutRow`,
`CiteNewRow`; then the sweep (`FindDuplicates`, `DeleteRows`) and `Record`.
`Break`, `BreakCited` and `RecordError` are an error and its handler, `Die` a
death after which the run may be begun again.

The provider's tools, its captures and the journal digest write the same table and
scopes meanwhile.  A store of one of them is `Asks` and `Inserts`, the two statements of
`store_row` with `desk` between them; `Rewrites` is `update_row`, `Archive` a forget and
`Removes` a hard delete.  `fresh` is a history variable: the rows others inserted or
rewrote since a sweep last looked at every text.  Those of another profile, the owner of a pool, are
left out: a row of a pool that this profile may only read is there from the start.
Left out: inference of scopes, dry runs, counts, vector upserts; a session is
truncated only when it is not chunked, as in the code.  The action constraint
`CollectsAlone` lets a run go first that only collects or has failed, which is sound
because those steps touch nothing that others read: the run's own variables and its
row of the ledger.

### ScopeIdentity, RecallScore, Recall

`ScopeIdentity` is `scope.py`: scopes as sequences of labelled parts, the mapping
of accounts to canonical users, the scopes of before the mapping.  `RecallScore`
has the grades per mille, rounded down, with every bonus, penalty and
threshold, and how fresh a memory is by the worst of its facts
(`fact_freshness`); what the analysis says of a text is a constant.  `Recall` has a
search as the reads the code makes without a lock: `SearchRows`, `SearchIndex`,
`ReadTruth`, `ProveHits`, `Verify`, `Rank`; then `Render`, `CheckInjected` and
`WriteInjected` for a turn and a context pack; `Browse` is a profile, a
probe or the archive; `TurnStart` and `SessionSwitch` are the host's; `Archive`,
`Promote`, `Rewrite`, `Delete`, `Exclude` and `SyncIndex` are other processes.  The three SELECTs of
`SearchRows` are one read; words from LIKE and aliases are in the same overlap; lifecycle
filters on metadata that was already read are left out, for they repeat the
first; hits of several scopes are ranked together.  Of candidates with equal scores
and times the code takes the larger id first, the model any.  Telemetry of candidates and
selections, which moves no counter, and the config gates are left out.
`RecallAssumption` says what the constants are, and one thing about the operator:
between a write and a read he may add accounts to the mapping, but he does not
take one out.  Without that `OnlyOwnMemories` is false: an account that takes over
the canonical name of another inherits its memories, which the code intends.

### PluginInstall

A plugin directory holds nothing, a link to a checkout, or a tree of some
version that is whole, thin, broken or nameless: what a copy or a removal that
stops midway leaves.  A call goes through `Look`, `Backup`, `Remove`, `Place`,
`Verify`, `Configure`, `WriteConfig`, `Bootstrap`, `RestoreConfig`, in the order and with the early
returns of `installer.py`; a rollout does so for each profile with `Save` before
and `WriteReceipt` at the end, `Revert` works the receipt off; the profiles still to do are
a set, taken in the order of their names (`First`).  Any step may
fail, and `Crash` is a death.  Staging is private and part of the check before
it; a copy is atomic except when it fails; a receipt is always asked for and
keeps the applied actions; it is written whole, though the code writes it in place: a
death in the middle leaves a receipt that a rollback refuses; the checkouts that links lead to stay intact.

## 3. Runs

| run | instance | question |
|---|---|---|
| `overlap` | 1 entry, 2 overlapping runs, 2 memories (one the user's), 1 fault, pruning | does the watermark ever pass an entry without evidence (`SettledHasReceipt`), and does the digest implement `JournalWatermark` (`KeepsPromise`)? |
| `retries` | 1 entry, 3 runs in turn, 2 memories, 1 fault, pruning, fair scheduling | are facts stored twice by a retry (`NoTwinDigestMemories`), are merged facts kept (`ClaimsKept`), does every entry leave the backlog (`BacklogDrains`)? |
| `recovery` | 2 entries in 2 chats, 2 overlapping runs, 1 memory, 1 fault, recovery at any time | `KeepsPromise` with recovery too; `AloneReopensOnlyFailures` if the digests are stopped |
| `shared` | 2 providers, one with a busy writer thread, relations on, 2 operations a thread | is a store that returned on disk (`AckedIsDurable`), and none torn (`StoreAllOrNothing`)? |
| `locked` | the same without relations, 1 operation a thread, a connection of somebody else, fair scheduling | does the recovery cope with peers that are merely dirty (`RecoveryIsEnough`), does every operation end (`OperationsEnd`)? |
| `lifecycle` | 2 texts, 3 hooks, 2 ticks of the clock, interval 1, any options, a connection that may be lost, fair scheduling | does a flush mean what it says (`FlushIsTruthful`), does a shutdown in time lose nothing (`CleanShutdownLosesNothing`), are digests, their status and promotions in step (`DigestsInStep`), does the queue drain while the connection is not lost (`QueueDrains`) and a shutdown end (`ShutdownEnds`)? |
| `companion` | 2 memories, an agent, a writer and a digest, each of the 3 backends, 1 rewrite, 3 operations, 2 faults or deaths, fair scheduling | does the companion implement its promise (`KeepsCompanionPromise`), does every operation end (`OperationsFinish`)? |
| `records` | 2 ids, 4 texts (two contrary, one noise, one secret), a tool and a job, 4 operations | can every archive be explained and undone (`ArchivesOnRecord`), do the tools keep conflict fields and relations true (`ToolsKeepConflicts`, `ToolsKeepRelations`), does nothing come back unasked (`OnlyAskedRevivals`)? |
| `playbooks` | a host and a script, a core playbook with a skill, two of one session, one by hand, 4 operations, deaths | are offers earned (`OffersAreEarned`), has every episode its playbook (`EpisodesHaveBooks`), do only decisions lift one out of quarantine (`OnlyDecisionsLift`)? |
| `nightly` | 2 runs of a day with 2 sessions beside a tool that stores, rewrites, archives and deletes, 3 facts, 3 ids, 3 writes, 2 attempts, deaths | are twins swept that runs made or met (`TwinsAreSwept`), successes traceable (`SuccessIsTraceable`), pooled rows left alone (`PooledStays`)? |
| `recall` | 4 memories of 3 accounts in 4 scopes, 2 texts, a curated file, 2 searches, 1 write of another process with any refreshing of the index, 1 fault | was what is shown recallable (`ShownWasRecallable`), is it the reader's (`OnlyOwnMemories`), is a live match found (`LiveMatchIsFound`), do counters match the log (`HitsMatchLog`)? |
| `install` | 2 operators, 2 profiles, 2 versions, 3 calls in turn with 1 failure or death, or 2 calls at a time | is nothing of the operator's lost (`NothingIsLost`), does a rollback return what was there (`RollbackReturns`), is a success whole (`SuccessIsWhole`)? |

`overlap` and `shared`, `lifecycle`, `companion` and `recall` also check the type invariant of
their module; `GTypeOK`, `RTypeOK`, `NTypeOK`, `PTypeOK` and `ITypeOK` of the other
modules say what shapes their variables have and are in no run.

Bounds of the journal.  `MaxActive` caps the runs in flight and `MaxFaults` the
exceptions and deaths; `MaxCandidates` the candidates of one extraction;
`UserMemory` the ids that explicit stores draw.  Run and memory ids are used
once, so their number bounds the length of a behaviour, which is why deadlock is
not checked.  Two runs are enough for every race the code has: a race is between
a read of one connection and a write of another, and a third run only adds more
of the same writes.  One entry is enough where the property speaks of one entry
or of the texts of memories; `recovery` and `parse` take two, because an
entry's fate there depends on its neighbour (two scopes in one run, a limit of
one with a ceiling of two, a batch of which a part is lost).  Symmetry is over
runs, facts and the memories that are not the user's; a run with a liveness
property uses none.

`NoTwinDigestMemories` and `ClaimsKept` are about one run at a time
(`MaxActive = 1`): with overlapping runs the code does store twins (`NoRepeatedRows` below),
and a merge computed from an older text overwrites a newer one.  They also leave
out a governance rollback that makes an archived row visible again.  `recovery`
has no pruning: a replay between the SELECT and the DELETEs of a prune reopens an
entry that is then deleted undigested, so `KeepsPromise` fails with both.  It
takes a replay within milliseconds of a prune of the same old entry.

Bounds of the connections.  `MaxOps` is the number of operations a thread starts,
and a staged entry counts as one; with two, a provider is left dirty by one
operation and met in that state by another.  Two providers are enough, for each
step involves at most a provider and one peer.  `Run` is empty in `shared`, where
the two operations are needed; `locked` has a foreign connection and one
operation.  `StoreAllOrNothing` speaks of captures only with
`RelationSync` off: relation extraction takes no lock, so its commit may carry
half of the writer thread's store, which a rollback then cannot undo.  The store
tool itself is safe, for it runs in the thread that extracts relations, and
durability does not depend on it.  The search for a similar memory before a store
(`semantic_merge`) and vector records are not part of this module.

Bounds of the lifecycle.  Three hooks are enough for a capture, a flush that runs
out of time and a shutdown; with an interval of one, two ticks let a
second digest become due while the first is at work.  Texts are captured at most once,
which makes `stored` and `failed` a record of each.

Bounds of the companion.  Two memories, because repair reads and replaces all of
them; one rewrite, so a record can be of an outdated text; three operations let a
forget or an update overlap with a repair of the provider or a digest and a store
precede them; every backend is an initial state.  Two faults are a
failure of one database and a death after it.

Bounds of the records.  Two ids make every pair there is, with `MaxPairs` at
least their number of peers; three would be needed for a merge of two sources
into a third, whose steps are those of a merge of one.  Four operations are an
archive, something that touches the row meanwhile, a rollback, and one more.  Texts are
the four classes the code tells apart here: two that contradict, noise, and a
secret.

Bounds of the playbooks.  Two agents, for every race is between a read of one and a
write of the other; a book of each kind, and two of the same session so that
promotions meet.  Of the nightly digest: two runs and one other writer, who tells one
text that the sessions tell too, so that all three may store it; three ids and three
writes are a row of each, and with fewer stores a rewrite, a forget or a delete besides; the window of rows that `find_match` sees is three, so it
is not the limit here.  Of a search: a limit of one over four memories, so
something always falls off; the index gives one record per scope; one write of another
process may fall between any two reads.  Of the
installer: three calls in turn (a rollout, a call that changes what it left, a
rollback) or two at once.  The two modes are separate because a failure amid an
overlap breaks statements that only speak of undisturbed calls.

Fairness of the digest (`FairSpec`): weak fairness of starting a run, for the
background thread is offered a start on every turn and a timer starts the
command; weak fairness of each run's own steps, for a run that has begun is a
running thread.  None for the steps of the provider, for faults, or for recovery.
`BacklogDrains` also depends on there being finitely many faults and deletions in
a behaviour, as in the instance: memories that vanish under every single run
would keep an entry in the backlog for ever, and rightly so.

Fairness of the connections: weak fairness of each thread's steps, for a
thread is scheduled and every statement returns within SQLite's busy timeout;
weak fairness of `RunEnds`, for a foreign transaction ends.  A thread waits only
at `Free`; a lock is taken finitely often, operations being bounded, so weak
fairness is enough.  With an unbounded supply of other threads' operations
Python's lock would have to be fair, which it is not promised to be.  No thread
has to start an operation.

Fairness of the lifecycle (`LFairSpec`): weak fairness of the host's thread within
a hook, of the writer, and of each digest's thread: each is a scheduled thread,
and each wait of the host ends by its time limit if by nothing else.  Nobody has
to call a hook.  Of the companion (`VFairSpec`): weak fairness of the steps of each
thread, for a database answers or fails; operations are bounded, so a thread that
waits for a lock is not overtaken for ever.  The other modules state no
fairness and have no liveness properties.

### Statements that do not hold

While modelling, sentences of the repository turned out not to hold.  Each is
stated as a property beside the others; no run checks it.  To see the counterexample, put the
property in the place of those of the cfg named (those of the last column that
are files of their own need nothing).

| property | what happens | see |
|---|---|---|
| `DigestMemoriesTraceable` | "every digest memory can be traced back" (`DESIGN.md:111`): `store_row` commits before the links are written (`journal.py:534`); a death in between and a retry that extracts something else leave a memory without any link | `retries` |
| `NoOrphanLinks` | the links are written without a look whether the memory is still there (`journal.py:336`), although `doctor_journal.py:341` calls such links failures | `overlap` |
| `NoRepeatedRows` | "write-time exact dedupe prevents repeat SQLite rows" (`README.md:1112`): probe and insert are two steps without a unique key (`sql_store.py:631`) | `overlap` |
| `ParseFailureIsSignalled` | parse errors are raised only when every chunk failed (`journal_extractors.py:265`), against `journal.py:688` | `MCJournalDigest_parse.cfg` |
| `ReopensOnlyCurrentFailures` | the replay's UPDATE names the entry only (`journal_recovery.py:198`), so an entry that a newer run marked in between is reopened, against `journal_recovery.py:82` | `recovery` |
| `IdleHoldsNothing` | a duplicate append returns without a commit and keeps the write lock (`journal_store.py:250`), which `provider.py:1079` warns of | `shared` |
| `ConnectionKeptOpen` | the recovery closes the connection before its successor works (`provider.py:1151`), against `provider.py:1076` | `locked` |
| `ForgottenStaysOut` | an upsert that read its row before a forget writes the record after it (`vector_runtime.py:311`), against the comment at `memory_ops.py:622` | `companion` |
| `RollbackUndoesItsOwn` | a row that a batch archived, an update revived and the user forgot is restored by the rollback of that batch: updates keep its batch id (`governance_cleanup.py:499`) | `MCMemoryGovernance_undo.cfg` |
| `RelationsStayGrounded` | a row that comes back by a rollback comes back to relations its peer has outgrown (`governance_cleanup.py`, against the docstring at `memory_ops.py:289`) | `records` |
| `ToolsKeepRelations` | beyond the pair budget an update does not refresh what it does not compare (`relation_extraction.py`) | `MCMemoryGovernance_pairs.cfg` |
| `SurvivorIsClear` | two merges in opposite directions supersede each other's survivor, against `experience_store.py:647` | `playbooks` |
| `NoTwins` | two promoters of overlapping windows both pass `_similar_playbook_exists` (`experience_promotion.py:297`) | `playbooks` |
| `SweepKeepsLiveText` | the sweep of duplicates (`nightly_digest.py:1086`) keeps the row that changed last, an archived one, and hard-deletes the live copy, against `sql_store.py:830` | `nightly` |
| `RetriedFailuresFallBack` | a `JSONDecodeError` is retried as an unknown error, but the message it is raised again with is classified as a parse failure, so the fallback that `--no-heuristic-fallback` speaks of does not come | `nightly` |
| `ArchivedTakeNoPlace` | "excluded before recall candidate limiting" (`docs/governance.cleanup.md:91`, `storage_views.py:18`): the index limits before anybody asks about lifecycle (`storage_views.py:324`) | `MCRecall_crowded.cfg` |
| `OnlyArchiveShowsExcluded` | "the only path that should return excluded records" (`storage_views.py:491`): profile and probe list them too (`memory_ops.py:894`, `1065`) | `recall` |
| `RolloutIsReversible` | a profile whose install fails after the removal began is noted as not applied, and the rollback passes it over (`scripts/rollout.profiles.py:236`, against its lines 6 to 8) | `install` |

Four properties that do hold carry an excuse, because the statement without it is
false of the code.

* `QueueDrains`, unless the connection is lost.  When a recovery fails to reopen, the next
  store of the writer fails; the handler asks the closed connection whether a
  transaction is open, which raises (`capture.py:55`, `provider.py:1084`), and the writer
  ends with its queue unwritten.  Nobody starts another one before the next `initialize`.  The status of a background digest
  that raises then stays at `running`, although the thread is over (`StatusIsTruthful`).
* `RecoveryIsEnough`, unless a peer is without an open connection.  The same question to a
  peer raises out of the recovery (`provider.py:1115`): one provider whose reopening failed
  defeats the recoveries of all others, and a dirty peer after it is never rolled back.
* `KeepsCompanionPromise`, unless an update broke off between its row and its record
  (`memory_ops.py:317`): the record is that of the old text while the companion is ready, until the
  next repair.
* `TwinsAreSwept`, but for rows that others inserted or rewrote after the last look of a
  sweep.  The look of `store_row` takes no notice of forgotten rows (`sql_store.py:631`), so storing a forgotten text is
  enough to have it twice.

Observations without a property.  Bootstrapped and session playbooks always carry environment
constraints, so they are never offered for direct reuse.  The digests'
`update_row` never refreshes relations.  Switching the mapping of accounts on
makes the command line's user a named one, and curated files are then no longer
recalled in single-user mode.  Rows of policy `historical_only` are injected but
not logged.  At turn 0 nothing counts as recently recalled.  A crash of the
legacy copy in `migration.py` after SQLite created an empty file keeps the
legacy rows from ever being migrated.  `sqlite_vector_store` deletes all records
when the dimensions differ, and LanceDB's table is dropped then: a digest whose
primary embedder is out of reach empties the index of a provider that goes on to
call it ready.  `LanceVectorStore.repair_records` drops the table before it makes
the new one (`vector_store.py:346`), and the SQLite store deletes all records
before it puts the kept ones back: a digest that fails there leaves an empty
index that the provider goes on to call ready, until the next set-up.  A dry run of the rollout with the same receipt path
overwrites the earlier receipt.  A plugin that is a symlink makes a rollback refuse the
whole receipt.

## 4. Proofs

Each `...Proofs` module proves, for every value of the constants, properties that
the runs of section 3 check on small instances.  The pattern is the same
everywhere: an inductive invariant as a conjunction of named parts, TLC's word
that it holds on the instance of a run, a lemma per action (or per kind of
action, by what it may disturb) that a step keeps it, and a last step that puts
them together.  No theorem needs more about the constants than the `ASSUME` of
its module, except where an extra hypothesis is named below.

| theorem | states | of |
|---|---|---|
| `TypeCorrect` | `[]TypeOK` | `JournalDigest` |
| `ReceiptsSafe` | `[]SettledHasReceipt` | |
| `PromiseKept` | `KeepsPromise`: `JournalDigest` implements `JournalWatermark` | |
| `OneRunKeepsClaims`, `OneRunNoTwins` | `[]ClaimsKept`, `[]NoTwinDigestMemories`, if `MaxActive = 1` | |
| `RecoveryKeepsReceipts` | `[]SettledHasReceipt` under recovery | `JournalRecovery` |
| `RecoveryKeepsPromise` | `KeepsPromise` under recovery, if `~Retention` | |
| `AloneReopensFailures` | `AloneReopensOnlyFailures` | |
| `ConnectionsTyped` | `[]TypeOK`, with the discipline of `provider._lock` | `ProviderConnections` |
| `AckedStoresAreDurable` | `[]AckedIsDurable` | |
| `StoresAreAtomic` | `[]StoreAllOrNothing` | |
| `RecoverySuffices` | `RecoveryIsEnough` | |
| `TypesHold` | `[]LTypeOK` | `ProviderLifecycle` |
| `FlushesAreTruthful` | `[]FlushIsTruthful` | |
| `ShutdownLosesNothing` | `[]CleanShutdownLosesNothing` | |
| `DigestsStayInStep` | `[]DigestsInStep` | |
| `CompanionTypesHold` | `[]VTypeOK` | `VectorCompanion` |
| `CompanionPromiseKept` | `KeepsCompanionPromise`: it implements `CompanionPromise`, if `OneAgent` | |
| `ArchivesRecorded` | `[]ArchivesOnRecord` | `MemoryGovernance` |
| `RevivalsAsked` | `OnlyAskedRevivals` | |
| `ConflictsKept` | `ToolsKeepConflicts` | |
| `RelationsRefreshed` | `ToolsKeepRelations`, if `MaxPairs >= MaxRows - 1` | |
| `OffersEarned` | `[]OffersAreEarned` | `Playbooks` |
| `BooksOfEpisodes` | `[]EpisodesHaveBooks` | |
| `DecisionsLift` | `OnlyDecisionsLift` | |
| `SuccessTraced` | `[]SuccessIsTraceable` | `NightlyDigest` |
| `TwinsSwept` | `[]TwinsAreSwept` | |
| `PoolsStay` | `PooledStays` | |
| `NobodyElses` | `[]OnlyOwnMemories` | `Recall` |
| `ShownWasSeen` | `[]ShownWasRecallable` | |
| `HitsAreEvents` | `[]HitsMatchLog` | |
| `LiveIsFound` | `[]LiveMatchIsFound`, if an overlap is 0 or at least 10 | |
| `ShapeKept` | `[]QTypeOK` | |
| `NothingLost` | `[]NothingIsLost` | `PluginInstall` |
| `SuccessWhole` | `[]SuccessIsWhole` | |
| `RollbackGivesBack` | `[]RollbackReturns` | |

### JournalDigestProofs

* `TypeOK` alone is not inductive: `Link` puts the current candidate into `links`,
  so it must exist.  `ControlOK` adds that a run inside the handling of a
  candidate has one, with a real fact, and a chosen memory where one is used.
* `SettledHasReceipt`: the watermark moves only at `Mark`, long after the evidence
  was written, so the invariant must say what is already true of the entries a
  run has decided: `DecidedSecured` states that each of them either has its
  outcome on record or has a receipt pending in the transaction that this very
  run holds.  Evidence is taken away only by pruning (of settled entries, which
  it retires) and by a hard delete (which leaves the entry in `forgotten`),
  nobody else can end a transaction a run holds, and `Mark` commits the pending
  receipts together with the watermark.
* `PromiseKept` is the refinement, step by step.  A prune deletes what an earlier
  SELECT found settled, so `PInv` says what a run knows of the entries in its
  hands: `OnlyStagedMarked` (who has a watermark is or was staged), `TasksNameStaged`
  (a run handles staged entries only) and `SweepSettled` (what a prune is about
  to delete is still settled, for nothing in `JournalDigest` reopens an entry).
  Each step is then one action of `JournalWatermark` or leaves its variables alone.
* The properties of runs in turn.  `OneActive` follows from the guard of `Begin`.
  `Hand` says of the one run at work what its reads are still worth: the text it
  will merge into is the text of the memory; if that is one fact, no visible memory of the digest states just
  it (`Sole`), since the merge may revive a row that was archived meanwhile; what it will insert is nobody's yet,
  and what it will link holds the fact or is full.  The provider's steps between
  a read and a write do not touch texts the digest made, except by archiving and
  deleting, which drop the claim.

* Recovery is beside all this: it changes watermarks, so what a run knows of its
  entries may become false in its hands.  `RecoveryKeepsReceipts` needs that a run
  which marked or ended has nothing left to decide (`Behind`), and that the entries
  the command read were of such runs (`WasMarked`).  `RecoveryKeepsPromise` assumes
  that nothing is pruned: a replay between the SELECT and the DELETE of a prune
  reopens an entry that is then deleted, so with both it is false.
  `AloneReopensFailures` carries from the read to the UPDATE that the entry's
  last run is still the one that failed (`StillFailed`), which is what an operator
  gains by stopping the digests.

### ProviderProofs: connections

* `TypeOK` includes the discipline of the lock: a thread holds `provider._lock`
  exactly in the sections of `Holding`, through failures, rollbacks and reopening.
* `AckedIsDurable`: `Progress` says that what a store has written so far is on disk
  or pending on the connection it still uses.  Somebody else may commit it (an
  unlocked relation update) or end the connection, but whoever rolls back or
  replaces a connection takes its provider's lock, and between a store's first
  write and its commit that lock is the storing thread's.
* `StoreAllOrNothing` needs SQLite's lock as well: what is pending on a connection
  means that it has the write lock (`PendingWrites`) and no other has it
  (`OneWriter`), so a statement that is refused had nothing pending before it, and
  a store that has begun to write is not refused.  `Intact` says for each thread
  where its writes may be at each point.  `Calm` is what a step leaves alone of the
  stores of all others; steps under the lock, without it, and without writes each
  have a lemma that they are calm.
* `RecoveryIsEnough`: `Covered` says that while a thread recovers, every other
  provider whose connection is in a write transaction is one it still has to roll
  back, or one that somebody used since the recovery began (`touched`).  Rolling a
  peer back takes it off the list only when it is clean, and whoever begins a
  write is noted by all who recover at that moment (`Noted`).  A thread gives up
  when it cannot write; `Attached` says that its own connection is then not the
  reason, because nobody replaces or closes the connection that a recovery goes
  on to use.  The other way out is a peer that is closed, which only a recovery of its
  own that failed leaves.

### ProviderProofs: life cycle

`LInv` has two halves.  `DigestInv`: which hook the host is in at which point, who
holds the lock for a promotion (`LockMatches`), and that every digest but the
last is over (`OnlyLast`), because a new one is started only when the last is not
alive.  `QueueInv`: every text is in one place (`Placed`); what was promised to the
last flush is handled, in hand, or in the queue before a flush (`PromiseAhead`),
so an event that is set was set behind it; nothing is accepted while the host
waits (`NothingNew`), and after a last flush in time the queue stays empty
(`Drained`).  Queues are sequences of any length.  A lost connection ends the writer, which
takes nothing out of the queue, so it makes no flush untrue: the waits run out.

### VectorCompanionProofs

`VInv` gives the discipline of both locks.  The refinement holds when the provider
runs one tool at a time (`OneAgent`; writers and digests are any number): `CInv`
says that an operation on a memory that is not excused has it for itself and is
in step with row and record (`Alone`), which an update that breaks off is not, that a rebuild knows what the rows still
say except of excused memories (`Looked`), and that the provider does not trust its
companion while it rebuilds it (`Rebuilding`).  Without `OneAgent` the theorem is
false, and TLC shows why: `setup_vector_layer` takes no lock, so of two repairs in
two threads the first may declare the companion ready while the second has
emptied it.

### MemoryGovernanceProofs

Jobs apply what they read earlier, a tool writes back what it saw, and events of
the audit bring metadata back.  `GInv` therefore demands of all these copies what
it demands of the table: `Fits` for the rows (`Rows`), for what a tool and a job
hold (`InTool`, `InJob`), and `Witnessed` for the metadata in events.  `Recorded` is
the demand: metadata that say archived have an event that says so, a batch's
mark has its archive event.  The audit only grows, so what was on record stays
so.  `RevivalsAsked` and `ConflictsKept` are read off the same step lemmas
(`Stays`, `Mirrors`).  `RelationsRefreshed` adds that a generated relation is between
two different rows that were once there (`Ends`).  `Relate` compares the row in hand
with all others when the budget covers them (`AllCompared`, a bound on a cardinality),
so it leaves the row no relation that the texts do not call for; every other step
of a tool shows no row anew and rewrites none but the one it goes on to relate
(`Settled`).  Beyond the budget the statement is false, and
`MCMemoryGovernance_pairs.cfg` shows how: that is why the theorem assumes it.

### PlaybooksProofs

`EInv` says of every table row that a promoted playbook has the decision on record
and that what its owner complained of was counted (`Sound`), and of what an agent
holds that it was so when read, and that the part of it that can only grow still
is (`Fits`); an offer is built from such a row (`OfferStands`).  `BooksOfEpisodes`
is inductive as it stands.  `DecisionsLift` looks at each write once more.

### NightlyDigestProofs

`TwinsSwept` is the deep one: `Swept` says that for every pair of twins neither of which is
`fresh` *some* run's sweep is still to come or holds one of the two in its list (`Due`).  A store that
makes a twin is followed by that run's sweep; a sweep that ends has looked at the
table after every row that was there, which is when `fresh` is cleared.  A row that another
writer inserts or rewrites is fresh, so it asks for no sweep.  `Traced` says that a row which a run wrote
last is cited, about to be cited, or the run fails.  `PoolsStay` needs `Citing`.

### RecallProofs

* `NobodyElses` is about the scopes first: `ReadersOwn` says, for any two runtimes,
  that a scope in which one of them writes is readable for the other only if they
  are the same person, by account or by the mapping, and for scratch
  only in the same conversation.  `ReadableOnly` lists what a reader may read label
  by label, old scopes of linked accounts included; the rest compares labels.
  The invariant (`FoundOK`, `ShownOK`) carries `Own` from the rows, the records and
  the hits through merging and ranking to what is shown.
* `HitsAreEvents`: an event that is in the log already counts nothing, so the two
  sets whose sizes are added have no member in common (`CountsStep`).
* `ShownWasSeen` needs what each phase may still rely on (`SeenOK`): a lexical
  candidate was recallable when it was read; a hit of the index whose row was
  visible a step ago was recallable then if it is not excluded now, for nothing
  takes an exclusion back; and nothing joins after the last check.
* `LiveIsFound` follows one durable text through a search (`LiveOK`): not more rows
  match than a query selects, so all are among the best (`AllAreBest`); merging may
  let another candidate of the same text stand for it, also one of the index, so
  all candidates must be eligible (`VerifyKeeps`); an order of a finite set leaves
  none out (`OrderIs`, an injection between sets of one size), so each is told as
  kept or rejected.  The hypothesis is about the weight of one word: with more than
  72 words that count, a row that has one of them only is no candidate of the
  words, though the limit counted it.
* Finite sets are the means: a maximum, a newest duplicate and a subsequence exist
  because sets of numbers have a least member (`Least`, `MaxIsThere`, `OnlyIs`), which
  the library's facts on well-founded orders give without induction over data.

### PluginInstallProofs

`Safe` says that the first plugin is in its place or in a backup and that whoever
is about to clear the directory relies on a backup which exists, and the same of
the configuration.  `Whole` says how far an undisturbed install has come; it needs
`Alone`, that of calls that do not overlap only one is remembered.

`RollbackReturns` needs an invariant of the receipt and of both calls, `RInv`, which
TLC checked on the run `install` before it was proved.  `Sounds` says of the
actions a rollout notes, and of the receipt left of them: one for each profile, and the
backup it names holds what the profile had; backups are only added to (`Grown`), so
whatever is installed later leaves that true.  `Rolling` says that the
profiles a rollout still has to do are as they were when it looked at them, so what it saves is
what the action says; `Reverting` says that a rollback has returned the profiles
it is done with and has cleared the one it places.  An action is applied only
after it was saved, but the proof does not need that: the rollback refuses a
receipt with an action that names no backup.

### What is only model-checked, and why

* Liveness: `BacklogDrains`, `OperationsEnd`, `QueueDrains`, `ShutdownEnds`,
  `OperationsFinish`.  Fairness and ENABLED are out of the prover's reach.
* The grades of `RecallScore`, the verdicts of `CandidateQuality` and the reading of
  `ExperienceSessions` as functions: no theorem needs more of them than that they
  are values.
* `GTypeOK`, `RTypeOK`, `NTypeOK`, `PTypeOK` and `ITypeOK` are in no run and no theorem
  states them; the inductive invariants say as much of the shapes as the proofs need.

No module declares a RECURSIVE operator.

## 5. Not modelled, and plan

`PROJECT.json` gives for every part what is left out and why.  In short: text
processing (filters, patterns, prompts, embeddings) is a choice or a constant;
schema creation, full-text triggers and migrations; configuration, command line, the
import from openclaw; the bridges to other databases and the doctors and
reports, which change no state of their own.  The embedders are external: a call
may fail, and what it gives belongs to a text.  What each module abstracts is
said in its section above.

Next are proofs: the type invariants that are in no run.
