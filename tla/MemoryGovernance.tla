-------------------------- MODULE MemoryGovernance --------------------------
(* The life of the rows of memories under the tools of memory_ops.py, the
   operator's forgetting.py and governance_cleanup.py, and the two scripts that
   review candidates.  A tool runs on the provider's connection and takes
   provider._lock for each of its sections; a script has its own connection,
   and what it read before its first write may be stale when it writes.  A row is
   its text, the clock of its last change and the metadata that govern it. *)
EXTENDS CandidateQuality, RelationExtraction, FiniteSets, FiniteSetsExt, Functions

CONSTANTS MaxRows,   \* bound: ids ever given to rows, in the order of their creation
          MaxOps,    \* bound: operations begun
          Contrary,  \* pairs of texts that is_conflicting tells apart
          Graded,    \* the grade of each text's row
          Noise,     \* texts that cleanup and forgetting archive
          Secret     \* texts that forgetting deletes, which no store accepts

ASSUME GovernanceAssumption ==
    /\ MaxRows \in Nat \ {0} /\ MaxOps \in Nat
    /\ Noise \subseteq Text /\ Secret \subseteq Text
    /\ \A pair \in Contrary : pair \subseteq Text
    /\ Graded \in [Text -> Grade]

Id == 1..MaxRows
Clock == 0..MaxOps
Batch == 0..MaxOps \* one new batch per operation, 0 for none

VARIABLES row,     \* the table: id -> row, for the ids that are there
          given,   \* ids given so far
          edges,   \* memory_relations of type contradicts, as unordered pairs
          links,   \* the generated memory_relations: <<source, target, type>>
          audit,   \* governance_audit_events
          tool,    \* what the provider's tool has in hand
          job,     \* what the operator's job has in hand
          clock    \* bound: operations begun; the time

gvars == <<row, given, edges, links, audit, tool, job, clock>>

Life == {"promoted", "candidate", "archived", "superseded"}
Meta == [life : Life, mark : Batch, promotion : Batch, forgot : Batch, conflicts : SUBSET Id]
Fresh(life) == [life |-> life, mark |-> 0, promotion |-> 0, forgot |-> 0, conflicts |-> {}]

\* store_event_candidates marks its rows as event digest for good.
NewRow(x, at, life) == [text |-> x, at |-> at, digest |-> life = "candidate", meta |-> Fresh(life)]
There == DOMAIN row
Archived(meta) == meta.life = "archived"
Shown(m) == m \in There /\ row[m].meta.life \notin {"archived", "superseded"}
Active(m) == Shown(m) /\ row[m].meta.life # "candidate"
BothEnds(m, pairs) == UNION {pair \in pairs : m \in pair}
Peers(m, pairs) == {k \in Id \ {m} : {m, k} \in pairs}
Newest(ids) == CHOOSE m \in ids : \A k \in ids : row[m].at > row[k].at \/ (row[m].at = row[k].at /\ m >= k)

Event(act, batch, m, was, after) ==
    [act |-> act, batch |-> batch, id |-> m, at |-> clock', was |-> was.at, before |-> was.meta, after |-> after]

NoRows == [m \in {} |-> row[m]]
NoTool == [pc |-> "idle", id |-> 1, text |-> CHOOSE x \in Text : TRUE, sources |-> {},
           seen |-> NoRows]
NoJob == [pc |-> "idle", kind |-> "none", batch |-> 0, todo |-> {}, life |-> "promoted", held |-> NoRows]

GTypeOK ==
    /\ There \subseteq 1..given /\ given \in 0..MaxRows /\ clock \in Clock
    /\ \A m \in There : /\ row[m].text \in Text /\ row[m].at \in Clock /\ row[m].meta \in Meta
                        /\ m \notin row[m].meta.conflicts
    /\ \A pair \in edges : pair \subseteq 1..given /\ Cardinality(pair) = 2
    /\ \A l \in links : l[1] \in 1..given /\ l[2] \in (1..given) \ {l[1]} /\ l[3] \in Typed \cup {"same_topic", "supersedes"}
    /\ \A e \in audit : e.batch \in 1..clock /\ e.id \in 1..given /\ e.before \in Meta /\ e.after \in Meta
    /\ tool.pc \in {"idle", "insert", "mark", "update", "remark", "relate", "delete", "govern", "restore"}
    /\ tool.sources \subseteq Id /\ DOMAIN tool.seen \subseteq Id
    /\ job.pc \in {"idle", "read", "write"} /\ job.todo \subseteq Id /\ DOMAIN job.held \subseteq Id

\* One row from before this version, archived without an audit event or not.
GInit ==
    /\ \E x \in Text, life \in {"promoted", "archived"} :
          row = [m \in {1} |-> NewRow(x, 0, life)]
    /\ given = 1 /\ edges = {} /\ links = {} /\ audit = {} /\ clock = 0
    /\ tool = NoTool /\ job = NoJob

Begin == clock < MaxOps /\ clock' = clock + 1
BeginTool == tool.pc = "idle" /\ Begin
BeginJob == job.pc = "idle" /\ Begin

(* ------------------------------ helpers ------------------------------- *)

\* The conflict fields of a row mirror its edges.
Synced(table, pairs, ids) ==
    [m \in DOMAIN table |-> IF m \in ids THEN [table[m] EXCEPT !.meta.conflicts = Peers(m, pairs)] ELSE table[m]]

\* _mark_conflicts_for_memory: m against the rows it contradicts, both ways.
Marked(m, text, rebuild) ==
    LET old == IF rebuild THEN {pair \in edges : m \in pair} ELSE {}
        found == {k \in There \ {m} : Shown(k) /\ {row[k].text, text} \in Contrary}
        pairs == (edges \ old) \cup {{m, k} : k \in found}
        affected == {m} \cup found \cup UNION old
    IN  /\ edges' = pairs
        /\ row' = IF rebuild \/ found # {} THEN Synced(row, pairs, affected) ELSE row

\* sync_extracted_relations_for_memory, after a store or an update.
Unlinked(ids) == {l \in links : {l[1], l[2]} \cap ids = {}}
RelatedOver(m) == links \cup Regenerated({}, row, m, {k \in There : Shown(k)}, edges)
Related(m) == Regenerated(links, row, m, {k \in There : Shown(k)}, edges)

\* delete_rows: the rows with their edges; the peers that stay are told.
DeleteUnsynced(ids) ==
    /\ row' = Restrict(row, There \ ids)
    /\ edges' = {pair \in edges : pair \cap ids = {}} /\ links' = Unlinked(ids)

Delete(ids) ==
    LET pairs == {pair \in edges : pair \cap ids = {}}
        peers == (UNION {Peers(m, edges) : m \in ids}) \ ids
    IN  /\ row' = Synced(Restrict(row, There \ ids), pairs, peers)
        /\ edges' = pairs /\ links' = Unlinked(ids)

WithMeta(table, m, meta) == [table EXCEPT ![m] = [@ EXCEPT !.meta = meta, !.at = clock']]
Purge(meta, batch) == [meta EXCEPT !.life = "archived", !.mark = batch]

(* ------------------------------- tools -------------------------------- *)

\* store_memory_now looks for a row to merge with, and lets go of the lock.
StorePick(x) ==
    /\ BeginTool /\ x \notin Secret
    /\ \/ (\E m \in There : Shown(m) /\ row[m].text = x) /\ tool' = tool
       \/ \E m \in There, merged \in Text \ Secret :
             /\ Shown(m) /\ row[m].text # x /\ {row[m].text, x} \notin Contrary
             /\ tool' = [tool EXCEPT !.pc = "update", !.id = m, !.text = merged]
       \/ /\ ~ \E m \in There : Shown(m) /\ row[m].text = x
          /\ tool' = [tool EXCEPT !.pc = "insert", !.text = x]
    /\ UNCHANGED <<row, given, edges, links, audit, job>>

\* store_row: a duplicate among the active rows is touched, else there is a new row.
StoreRow(x, life) ==
    LET twins == {m \in There : Active(m) /\ row[m].text = x}
    IN  IF twins # {}
        THEN /\ row' = [row EXCEPT ![Newest(twins)].at = clock']
             /\ given' = given
        ELSE /\ given < MaxRows
             /\ given' = given + 1
             /\ row' = [m \in There \cup {given'} |-> IF m = given' THEN NewRow(x, clock', life) ELSE row[m]]

Insert ==
    /\ tool.pc = "insert"
    /\ UNCHANGED <<edges, links, audit, job, clock>>
    /\ StoreRow(tool.text, "promoted")
    /\ tool' = IF given' = given THEN NoTool ELSE [tool EXCEPT !.pc = "mark", !.id = given']

Mark ==
    /\ tool.pc = "mark" /\ Marked(tool.id, tool.text, FALSE) /\ tool' = [tool EXCEPT !.pc = "relate"]
    /\ UNCHANGED <<given, links, audit, job, clock>>

\* store_event_candidates
StoreCandidate(x) ==
    /\ BeginTool /\ x \notin Secret /\ StoreRow(x, "candidate")
    /\ UNCHANGED <<edges, links, audit, tool, job>>

ToolUpdate(m, x) ==
    /\ BeginTool /\ m \in There /\ x \notin Secret
    /\ tool' = [tool EXCEPT !.pc = "update", !.id = m, !.text = x]
    /\ UNCHANGED <<row, given, edges, links, audit, job>>

\* update_row: the metadata stay, but the row is classified anew.
RewrittenClean(old, x) == [old EXCEPT !.text = x, !.at = clock', !.meta = Fresh("promoted")]
Rewritten(old, x) == [old EXCEPT !.text = x, !.at = clock', !.meta.life = "promoted"]

Update ==
    /\ tool.pc = "update"
    /\ UNCHANGED <<given, edges, links, audit, job, clock>>
    /\ IF tool.id \in There
       THEN /\ row' = [row EXCEPT ![tool.id] = Rewritten(@, tool.text)]
            /\ tool' = [tool EXCEPT !.pc = "remark"]
       ELSE UNCHANGED row /\ tool' = NoTool

Remark ==
    /\ tool.pc = "remark"
    /\ UNCHANGED <<given, links, audit, job, clock>>
    /\ IF tool.id \in There THEN Marked(tool.id, row[tool.id].text, TRUE) ELSE UNCHANGED <<row, edges>>
    /\ tool' = [tool EXCEPT !.pc = "relate"]

\* A second section, and for an update of a row that is gone none at all.
Relate ==
    /\ tool.pc = "relate" /\ links' = Related(tool.id)
    /\ tool' = IF tool.sources = {} THEN NoTool ELSE [tool EXCEPT !.pc = "delete"]
    /\ UNCHANGED <<row, given, edges, audit, job, clock>>

ToolMerge(m, ids, x) ==
    /\ BeginTool /\ x \notin Secret
    /\ m \in There /\ ids \subseteq There /\ m \notin ids /\ ids # {}
    /\ tool' = [tool EXCEPT !.pc = "update", !.id = m, !.sources = ids, !.text = x]
    /\ UNCHANGED <<row, given, edges, links, audit, job>>

DeleteSources ==
    /\ tool.pc = "delete" /\ Delete(tool.sources) /\ tool' = NoTool
    /\ UNCHANGED <<given, audit, job, clock>>

HardDelete(m) ==
    /\ BeginTool /\ m \in There /\ Delete({m})
    /\ UNCHANGED <<given, audit, tool, job>>

ForgetQuietly(m) ==
    /\ BeginTool /\ m \in There
    /\ row' = WithMeta(row, m, [row[m].meta EXCEPT !.life = "archived", !.forgot = clock'])
    /\ UNCHANGED <<given, edges, links, audit, tool, job>>

\* archive_memories; what is archived already is passed over.
Forget(m) ==
    LET after == [row[m].meta EXCEPT !.life = "archived", !.forgot = clock']
    IN  /\ BeginTool /\ m \in There
        /\ IF Archived(row[m].meta) THEN UNCHANGED <<row, audit>>
           ELSE /\ row' = WithMeta(row, m, after)
                /\ audit' = audit \cup {Event("soft_archive", clock', m, row[m], after)}
        /\ UNCHANGED <<given, edges, links, tool, job>>

\* dedupe_memories: of each text the newest row stays, hidden or not.
Dedupe ==
    /\ BeginTool
    /\ Delete(There \ {Newest({k \in There : row[k].text = row[m].text}) : m \in There})
    /\ UNCHANGED <<given, audit, tool, job>>

\* govern_memories reads every row, lets go of the lock, and writes their metadata.
GovernRead ==
    /\ BeginTool
    /\ tool' = [tool EXCEPT !.pc = "govern", !.seen = row]
    /\ UNCHANGED <<row, given, edges, links, audit, job>>

GovernWrite ==
    /\ tool.pc = "govern"
    /\ UNCHANGED <<given, edges, links, audit, job, clock>>
    /\ row' = [m \in There |-> IF m \in DOMAIN tool.seen THEN [row[m] EXCEPT !.meta = tool.seen[m].meta] ELSE row[m]]
    /\ tool' = NoTool

(* ----------------------------- forgetting ----------------------------- *)

\* build_forgetting_report: what is noise, and all but the oldest of the same text.
SoftItems ==
    LET live == {m \in There : ~Archived(row[m].meta)}
    IN  {m \in live : row[m].text \in Noise \ Secret} \cup
        {m \in live : \E k \in live : k < m /\ row[k].text = row[m].text}
HardItems == {m \in There : ~Archived(row[m].meta) /\ row[m].text \in Secret}

\* run_forgetting under provider._lock.  A companion without the vectors of the
\* archived rows lets it go on; hard deletion needs a companion.
Forgetting(hard, companion) ==
    LET batch == clock'
        archived == [m \in There |-> IF m \in SoftItems THEN [row[m] EXCEPT !.meta = Purge(row[m].meta, batch), !.at = batch]
                                     ELSE row[m]]
        gone == IF hard /\ companion THEN HardItems ELSE {}
        pairs == {pair \in edges : pair \cap SoftItems = {}}
        told == (UNION {Peers(m, pairs) : m \in gone}) \ gone
        left == {pair \in pairs : pair \cap gone = {}}
    IN  /\ BeginTool
        /\ row' = Synced(Restrict(archived, There \ gone), left, told)
        /\ edges' = left /\ links' = Unlinked(SoftItems \cup gone)
        /\ audit' = audit \cup {Event("soft_archive", batch, m, row[m], Purge(row[m].meta, batch)) : m \in SoftItems}
                          \cup {Event("hard_delete", batch, m, archived[m], archived[m].meta) : m \in gone}
        /\ UNCHANGED <<given, tool, job>>

\* The companion fails on the archived rows: the transaction is rolled back,
\* and the rows are restored once more in a second one.
ForgettingFails ==
    /\ BeginTool /\ SoftItems # {}
    /\ tool' = [tool EXCEPT !.pc = "restore", !.seen = Restrict(row, SoftItems)]
    /\ UNCHANGED <<row, given, edges, links, audit, job>>

ForgettingRestores ==
    /\ tool.pc = "restore"
    /\ UNCHANGED <<given, edges, links, audit, job, clock>>
    /\ row' = [m \in There |-> IF m \in DOMAIN tool.seen
                               THEN [row[m] EXCEPT !.meta = tool.seen[m].meta, !.at = tool.seen[m].at] ELSE row[m]]
    /\ tool' = NoTool

(* -------------------------- cleanup, rollback ------------------------- *)

Archives(batch) == {e \in audit : e.act = "soft_archive" /\ e.batch = batch}

\* What apply_cleanup and rollback_cleanup_batch ask of a row they have just read.
MayArchive(meta) == ~Archived(meta)
MayRestore(e, meta) ==
    /\ Archived(meta)
    /\ IF meta.mark # 0 THEN meta.mark = e.batch ELSE meta = e.after
Wanted(m) ==
    /\ m \in There
    /\ IF job.kind = "cleanup" THEN MayArchive(row[m].meta)
       ELSE \E e \in Archives(job.batch) : e.id = m /\ MayRestore(e, row[m].meta)

Cleanup ==
    /\ BeginJob
    /\ job' = [job EXCEPT !.pc = "read", !.kind = "cleanup", !.batch = clock',
                          !.todo = {m \in There : ~Archived(row[m].meta) /\ row[m].text \in Noise}]
    /\ job'.todo # {}
    /\ UNCHANGED <<row, given, edges, links, audit, tool>>

Rollback(batch) ==
    /\ BeginJob /\ Archives(batch) # {}
    /\ job' = [job EXCEPT !.pc = "read", !.kind = "rollback", !.batch = batch, !.todo = {e.id : e \in Archives(batch)}]
    /\ UNCHANGED <<row, given, edges, links, audit, tool>>

\* The first row is read before the transaction begins.
ReadFirst(m) ==
    /\ job.pc = "read" /\ m \in job.todo
    /\ job' = IF Wanted(m) THEN [job EXCEPT !.pc = "write", !.todo = @ \ {m}, !.held = Restrict(row, {m})]
              ELSE IF job.todo = {m} THEN NoJob
              ELSE [job EXCEPT !.todo = @ \ {m}]
    /\ UNCHANGED <<row, given, edges, links, audit, tool, clock>>

\* The row as it was read first, and the others as the transaction finds them.
Read(m) == IF m \in DOMAIN job.held THEN job.held[m] ELSE row[m]
Changed == DOMAIN job.held \cup {m \in job.todo : Wanted(m)}

CleanupWrite ==
    /\ job.pc = "write" /\ job.kind = "cleanup"
    /\ UNCHANGED <<given, edges, links, tool, clock>>
    /\ row' = [m \in There |-> IF m \in Changed THEN [row[m] EXCEPT !.meta = Purge(Read(m).meta, job.batch), !.at = clock]
                               ELSE row[m]]
    /\ audit' = audit \cup {Event("soft_archive", job.batch, m, Read(m), Purge(Read(m).meta, job.batch)) : m \in Changed}
    /\ job' = NoJob

RollbackWrite ==
    LET undone(m) == CHOOSE e \in Archives(job.batch) : e.id = m
    IN  /\ job.pc = "write" /\ job.kind = "rollback"
        /\ UNCHANGED <<given, edges, links, tool, clock>>
        /\ row' = [m \in There |-> IF m \in Changed THEN [row[m] EXCEPT !.meta = undone(m).before, !.at = undone(m).was] ELSE row[m]]
        /\ audit' = audit \cup {Event("rollback_soft_archive", job.batch, m, Read(m), undone(m).before) : m \in Changed}
        /\ job' = NoJob

\* backfill_legacy_archive_audit: archived rows without marker and evidence.
Audited == {e.id : e \in {d \in audit : d.act \in {"soft_archive", "legacy_archive_backfill", "promotion archived"}}}
Marker(meta) == meta.mark # 0 \/ meta.promotion # 0 \/ meta.forgot # 0
Backfill ==
    LET legacy == {m \in There : Archived(row[m].meta) /\ m \notin Audited /\ ~Marker(row[m].meta)}
    IN  /\ BeginJob /\ legacy # {}
        /\ audit' = audit \cup {Event("legacy_archive_backfill", clock', m, row[m], row[m].meta) : m \in legacy}
        /\ UNCHANGED <<row, given, edges, links, tool, job>>

(* ------------------------- candidates, hygiene ------------------------ *)

CandidateLike(r) == r.meta.life = "candidate" \/ r.digest
Hold(m, kind, life) ==
    job' = [job EXCEPT !.pc = "write", !.kind = kind, !.batch = clock', !.life = life, !.held = Restrict(row, {m})]

\* review_candidate
Review(m, life) ==
    /\ BeginJob /\ m \in There /\ CandidateLike(row[m])
    /\ Hold(m, "review", life)
    /\ UNCHANGED <<row, given, edges, links, audit, tool>>

ReviewWrite ==
    \E m \in DOMAIN job.held :
        LET after == [job.held[m].meta EXCEPT !.life = job.life]
        IN  /\ job.pc = "write" /\ job.kind = "review"
            /\ UNCHANGED <<given, tool, clock>>
            /\ row' = IF m \in There THEN WithMeta(row, m, after) ELSE row
            /\ edges' = IF job.life = "promoted" THEN edges ELSE {pair \in edges : m \notin pair}
            /\ links' = IF job.life = "promoted" THEN links ELSE Unlinked({m})
            /\ audit' = audit \cup {Event("review", job.batch, m, job.held[m], after)}
            /\ job' = NoJob

\* What promotion decides by itself: no other active row may say the same.
Twin(m) == \E k \in There \ {m} : Active(k) /\ row[k].text = row[m].text
Decided(m) == LET d == Decision(Graded[row[m].text], row[m].text \in Secret)
              IN IF d = "promoted" /\ Twin(m) THEN "candidate" ELSE d

\* promote_memory_candidates for one candidate: as it decides, or as the operator
\* says who lists the candidate among the reviewed ones.
Promote(m, life, reviewed) ==
    /\ BeginJob /\ m \in There /\ row[m].meta.life = "candidate"
    /\ reviewed \/ life = Decided(m)
    /\ Hold(m, "promotion", life)
    /\ UNCHANGED <<row, given, edges, links, audit, tool>>

StillThere(m) == m \in There
StillCandidate(m) == m \in There /\ row[m].meta.life = "candidate"

PromoteWrite ==
    \E m \in DOMAIN job.held :
        LET after == [job.held[m].meta EXCEPT !.life = job.life, !.promotion = job.batch]
        IN  /\ job.pc = "write" /\ job.kind = "promotion"
            /\ UNCHANGED <<given, edges, links, tool, clock>>
            /\ IF StillCandidate(m)
               THEN /\ row' = WithMeta(row, m, after)
                    /\ audit' = audit \cup {Event(IF job.life = "archived" THEN "promotion archived" ELSE "promotion", job.batch, m, job.held[m], after)}
               ELSE UNCHANGED <<row, audit>>
            /\ job' = NoJob

\* repair_graph_hygiene
Hygiene ==
    /\ BeginJob
    /\ edges' = {pair \in edges : \A m \in pair : Shown(m)}
    /\ links' = {l \in links : Shown(l[1]) /\ Shown(l[2])}
    /\ UNCHANGED <<row, given, audit, tool, job>>

(* --------------------------- specification ---------------------------- *)

ToolSection == Insert \/ Mark \/ Update \/ Remark \/ Relate \/ DeleteSources
ToolBegins ==
    \/ \E x \in Text : StorePick(x) \/ StoreCandidate(x)
    \/ \E m \in There : HardDelete(m) \/ Forget(m)
    \/ \E m \in There, x \in Text : ToolUpdate(m, x)
    \/ \E m \in There, ids \in SUBSET There, x \in Text : ToolMerge(m, ids, x)
    \/ Dedupe
ForgettingRun ==
    \/ \E hard, companion \in BOOLEAN : Forgetting(hard, companion)
    \/ ForgettingFails \/ ForgettingRestores
Govern == GovernRead \/ GovernWrite
Job ==
    \/ Cleanup \/ \E b \in Batch \ {0} : Rollback(b)
    \/ \E m \in Id : ReadFirst(m)
    \/ CleanupWrite \/ RollbackWrite \/ Backfill \/ Hygiene
    \/ \E m \in There, life \in {"promoted", "archived", "superseded"} : Review(m, life)
    \/ \E m \in There, life \in {"promoted", "archived"}, reviewed \in BOOLEAN : Promote(m, life, reviewed)
    \/ ReviewWrite \/ PromoteWrite

GNext == ToolSection \/ ToolBegins \/ ForgettingRun \/ Govern \/ Job
GSpec == GInit /\ [][GNext]_gvars

(* ----------------------------- properties ----------------------------- *)

\* Every row that was archived since the start has an audit event that says
\* so, and the batch a row is marked with can be rolled back: the receipts of
\* cleanup, forgetting, forget, promotion and review survive whatever else
\* rewrites metadata.
ArchivesOnRecord ==
    \A m \in There :
        LET meta == row[m].meta
        IN  Archived(meta) =>
            /\ m = 1 \/ \E e \in audit : e.id = m /\ Archived(e.after)
            /\ meta.mark # 0 => \E e \in Archives(meta.mark) : e.id = m

\* The tools keep the conflict fields of every row equal to its edges, over
\* stores, rewrites, merges, deduplication and forgetting of either side.
Mirrored == \A m \in There : row[m].meta.conflicts = Peers(m, edges)
ToolsKeepConflicts == [][(ToolSection \/ ToolBegins) /\ Mirrored => Mirrored']_gvars

\* The tools leave no generated relation between shown rows that their texts no
\* longer call for: "conflict and relation metadata must be refreshed so recall
\* does not rely on stale companion state" (memory_ops.py).  The row a tool has
\* in hand is about to be related anew.
InHand == IF tool.pc \in {"mark", "remark", "relate"} THEN {tool.id} ELSE {}
LinksGrounded == \A l \in links : Shown(l[1]) /\ Shown(l[2]) /\ {l[1], l[2]} \cap InHand = {} => Grounded(l, row, edges)
ToolsKeepRelations == [][(ToolSection \/ ToolBegins) /\ LinksGrounded => LinksGrounded']_gvars

\* The same of every step: nobody brings a row back to relations that its peers
\* have outgrown meanwhile.
RelationsStayGrounded == [][LinksGrounded => LinksGrounded']_gvars

\* An archived row comes back only through a rewrite of it, the rollback of
\* a batch that archived it, a review, or the restoring write of govern or of
\* a failed forgetting: no promotion or cleanup that read it earlier revives it.
Revivals == Update \/ RollbackWrite \/ ReviewWrite \/ GovernWrite \/ ForgettingRestores
OnlyAskedRevivals ==
    [][\A m \in There : Archived(row[m].meta) /\ m \in DOMAIN row' /\ ~Archived(row'[m].meta) => Revivals]_gvars

\* What a rollback decides to restore was archived last by the batch it rolls
\* back, or a later decision is undone: "only undo the exact archived state
\* produced by this batch" (governance_cleanup.py).
LastArchive(m) == CHOOSE e \in audit : /\ e.id = m /\ e.act = "soft_archive"
                                       /\ \A d \in audit : d.id = m /\ d.act = "soft_archive" => d.at <= e.at
RollbackUndoesItsOwn ==
    [][\A m \in job.todo : ReadFirst(m) /\ job.kind = "rollback" /\ job'.pc = "write"
                              => LastArchive(m).batch = job.batch]_gvars
=============================================================================
