----------------------- MODULE MemoryGovernanceProofs -----------------------
(* Theorems about MemoryGovernance for any texts, relations, grades and bounds:
   archives stay on record, archived rows come back only when somebody asks, and
   the tools keep the conflict fields equal to the edges and leave no relation
   that the texts do not call for. *)
EXTENDS MemoryGovernance, FiniteSetTheorems, TLAPS

MetaLike(meta) == meta = [x \in {"life", "mark", "promotion", "forgot", "conflicts"} |-> meta[x]]
RowLike(w) == w = [x \in {"text", "at", "digest", "meta"} |-> w[x]] /\ MetaLike(w.meta)

\* What the audit says of row m when its metadata are meta, or were.
ArchivedBy(events, batch, m) == \E e \in events : e.act = "soft_archive" /\ e.batch = batch /\ e.id = m
Recorded(events, m, meta) ==
    /\ Archived(meta) => m = 1 \/ \E e \in events : e.id = m /\ Archived(e.after)
    /\ meta.mark # 0 => ArchivedBy(events, meta.mark, m)

\* The rows of a table, and the metadata an event can bring back.
Fits(events, table) == \A m \in DOMAIN table : RowLike(table[m]) /\ Recorded(events, m, table[m].meta)
Witnessed(events) == \A e \in events : MetaLike(e.before) /\ Recorded(events, e.id, e.before)

Rows == given \in 1..MaxRows /\ There \subseteq 1..given /\ Fits(audit, row)
Edges == \A pair \in edges : pair \subseteq 1..given

\* What was read earlier is as much on record as what is there now.
InTool ==
    /\ tool = [x \in {"pc", "id", "text", "sources", "seen"} |-> tool[x]]
    /\ Fits(audit, tool.seen) /\ (tool.pc = "mark" => tool.id \in 1..given)
InJob ==
    /\ job = [x \in {"pc", "kind", "batch", "todo", "life", "held"} |-> job[x]]
    /\ Fits(audit, job.held)
    /\ job.pc = "write" /\ job.kind = "rollback" =>
           \A m \in DOMAIN job.held : ArchivedBy(audit, job.batch, m)

GInv == Rows /\ Edges /\ Witnessed(audit) /\ InTool /\ InJob

\* What a step does to archived rows, and to the mirror of the edges.
Stays == \A m \in There : Archived(row[m].meta) /\ m \in There' => Archived(row'[m].meta)
Mirrors == Mirrored => Mirrored'

USE GovernanceAssumption DEF GovernanceAssumption

(* ------------------------------ records ------------------------------- *)

LEMMA FreshIs ==
  ASSUME NEW x, NEW at, NEW life
  PROVE  LET w == NewRow(x, at, life)
         IN  RowLike(w) /\ w.meta.life = life /\ w.meta.mark = 0 /\ w.meta.conflicts = {} /\ w.text = x
  BY DEF NewRow, Fresh, RowLike, MetaLike

\* Metadata with the lifecycle and the batch of others are as much on record.
LEMMA RecordedAs ==
  ASSUME NEW events, NEW m, NEW old, NEW new, Recorded(events, m, old), new.mark = old.mark,
         Archived(new) => Archived(old)
  PROVE  Recorded(events, m, new)
  BY DEF Recorded

LEMMA RecordedOn ==
  ASSUME NEW events, NEW more, events \subseteq more, NEW m, NEW meta, Recorded(events, m, meta)
  PROVE  Recorded(more, m, meta)
  BY DEF Recorded, ArchivedBy

LEMMA FitsOn ==
  ASSUME NEW events, NEW more, events \subseteq more, NEW table, Fits(events, table)
  PROVE  Fits(more, table)
  BY RecordedOn DEF Fits

LEMMA RestrictFits ==
  ASSUME NEW events, NEW table, Fits(events, table), NEW ids, ids \subseteq DOMAIN table
  PROVE  /\ Fits(events, Restrict(table, ids)) /\ DOMAIN Restrict(table, ids) = ids
         /\ \A m \in ids : Restrict(table, ids)[m] = table[m]
  BY DEF Fits, Restrict

LEMMA SyncedFits ==
  ASSUME NEW events, NEW table, Fits(events, table), NEW pairs, NEW ids
  PROVE  LET new == Synced(table, pairs, ids)
         IN  /\ Fits(events, new) /\ DOMAIN new = DOMAIN table
             /\ \A m \in DOMAIN table :
                    /\ new[m].meta.life = table[m].meta.life
                    /\ new[m].meta.conflicts = IF m \in ids THEN Peers(m, pairs) ELSE table[m].meta.conflicts
<1> DEFINE new == Synced(table, pairs, ids)
<1>1. DOMAIN new = DOMAIN table  BY DEF Synced
<1>2. ASSUME NEW m \in DOMAIN table
      PROVE  /\ RowLike(new[m]) /\ Recorded(events, m, new[m].meta)
             /\ new[m].meta.life = table[m].meta.life
             /\ new[m].meta.conflicts = IF m \in ids THEN Peers(m, pairs) ELSE table[m].meta.conflicts
  <2>1. RowLike(table[m]) /\ Recorded(events, m, table[m].meta)  BY DEF Fits
  <2>2. CASE m \notin ids
    <3>1. new[m] = table[m]  BY <2>2 DEF Synced
    <3> QED  BY <2>1, <2>2, <3>1
  <2>3. CASE m \in ids
    <3> DEFINE meta == [table[m].meta EXCEPT !.conflicts = Peers(m, pairs)]
    <3>1. new[m] = [table[m] EXCEPT !.meta = meta]  BY <2>1, <2>3 DEF Synced, RowLike
    <3>2. MetaLike(meta) /\ meta.life = table[m].meta.life /\ meta.mark = table[m].meta.mark
          /\ meta.conflicts = Peers(m, pairs)
      <4>1. MetaLike(table[m].meta)  BY <2>1 DEF RowLike
      <4> QED  BY <4>1 DEF MetaLike
    <3> HIDE DEF meta, new
    <3>3. RowLike(new[m]) /\ new[m].meta = meta  BY <2>1, <3>1, <3>2 DEF RowLike
    <3>4. Recorded(events, m, meta)  BY <2>1, <3>2, RecordedAs DEF Archived
    <3> QED  BY <2>3, <3>2, <3>3, <3>4
  <2> QED  BY <2>2, <2>3
<1> HIDE DEF new
<1>3. Fits(events, new)  BY <1>1, <1>2 DEF Fits
<1> QED  BY <1>1, <1>2, <1>3 DEF new

(* ------------------------------ one step ------------------------------ *)

LEMMA Kept ==
  ASSUME GInv, audit \subseteq audit', given' \in given..MaxRows, There' \subseteq 1..given', Fits(audit, row)',
         Edges', \A e \in audit' : e \in audit \/ (MetaLike(e.before) /\ Recorded(audit', e.id, e.before)),
         tool' = tool \/ InTool', job' = job \/ InJob'
  PROVE  GInv'
<1>1. given \in 1..MaxRows /\ given' \in 1..MaxRows /\ 1..given \subseteq 1..given'  BY DEF GInv, Rows
<1>2. Witnessed(audit)'
  <2> SUFFICES ASSUME NEW e \in audit' PROVE MetaLike(e.before) /\ Recorded(audit', e.id, e.before)
    BY DEF Witnessed
  <2>1. CASE e \in audit
    <3>1. MetaLike(e.before) /\ Recorded(audit, e.id, e.before)  BY <2>1 DEF GInv, Witnessed
    <3> QED  BY <3>1, RecordedOn
  <2> QED  BY <2>1
<1>3. InTool'
  <2>1. CASE tool' = tool
    <3>1. InTool  BY DEF GInv
    <3>2. Fits(audit', tool.seen)  BY <3>1, FitsOn DEF InTool
    <3> QED  BY <1>1, <2>1, <3>1, <3>2 DEF InTool
  <2> QED  BY <2>1
<1>4. InJob'
  <2>1. CASE job' = job
    <3>1. InJob  BY DEF GInv
    <3>2. Fits(audit', job.held)  BY <3>1, FitsOn DEF InJob
    <3>3. job.pc = "write" /\ job.kind = "rollback" => \A m \in DOMAIN job.held : ArchivedBy(audit', job.batch, m)
      BY <3>1 DEF InJob, ArchivedBy
    <3> QED  BY <2>1, <3>1, <3>2, <3>3 DEF InJob
  <2> QED  BY <2>1
<1> QED  BY <1>1, <1>2, <1>3, <1>4 DEF GInv, Rows

\* A step of the tool that leaves the tables alone.
LEMMA OnlyTool ==
  ASSUME GInv, UNCHANGED <<row, given, edges, audit, job>>, InTool'
  PROVE  GInv' /\ Stays /\ Mirrors
<1>1. GInv'  BY DEF GInv, Rows, Edges, Fits, Witnessed, InJob, There
<1>2. Stays /\ Mirrors  BY DEF Stays, Mirrors, Mirrored, There, Peers
<1> QED  BY <1>1, <1>2

LEMMA OnlyJob ==
  ASSUME GInv, UNCHANGED <<row, given, edges, audit, tool>>, InJob'
  PROVE  GInv' /\ Stays
<1>1. GInv'  BY DEF GInv, Rows, Edges, Fits, Witnessed, InTool, There
<1>2. Stays  BY DEF Stays, There
<1> QED  BY <1>1, <1>2

LEMMA NoToolIs ==
  NoTool = [x \in {"pc", "id", "text", "sources", "seen"} |-> NoTool[x]] /\ NoTool.pc = "idle" /\ DOMAIN NoTool.seen = {}
  BY DEF NoTool, NoRows

LEMMA NoJobIs ==
  /\ NoJob = [x \in {"pc", "kind", "batch", "todo", "life", "held"} |-> NoJob[x]]
  /\ NoJob.pc = "idle" /\ NoJob.kind = "none" /\ DOMAIN NoJob.held = {}
  BY DEF NoJob, NoRows

\* The tool goes on, is done, or has read the rows.
LEMMA ToolGoes ==
  ASSUME GInv, audit' = audit, given' \in given..MaxRows,
         \/ tool' = NoTool
         \/ /\ tool' = [x \in {"pc", "id", "text", "sources", "seen"} |-> tool'[x]] /\ tool'.seen = tool.seen
            /\ tool'.pc = "mark" => tool'.id \in 1..given'
  PROVE  InTool'
<1>1. CASE tool' = NoTool
  <2>1. NoTool' = NoTool'  OBVIOUS
  <2> QED  BY <1>1, NoToolIs DEF InTool, Fits
<1>2. CASE tool'.seen = tool.seen /\ tool' = [x \in {"pc", "id", "text", "sources", "seen"} |-> tool'[x]]
           /\ (tool'.pc = "mark" => tool'.id \in 1..given')
  BY <1>2 DEF GInv, InTool, Fits
<1> QED  BY <1>1, <1>2

LEMMA JobEnds ==
  ASSUME job' = NoJob
  PROVE  InJob'
  BY NoJobIs DEF InJob, Fits

(* ------------------------------- helpers ------------------------------ *)

LEMMA StoreRowKeeps ==
  ASSUME GInv, NEW x, NEW life, life # "archived", StoreRow(x, life), UNCHANGED <<edges, audit>>
  PROVE  /\ given' \in given..MaxRows /\ There' \subseteq 1..given' /\ Fits(audit, row)' /\ Edges'
         /\ Stays /\ Mirrors
<1> DEFINE twins == {m \in There : Active(m) /\ row[m].text = x}
<1>0. Rows /\ Edges  BY DEF GInv
<1>1. CASE twins # {}
  <2> DEFINE k == Newest(twins)
  <2>1. row' = [row EXCEPT ![k].at = clock'] /\ given' = given  BY <1>1 DEF StoreRow
  <2>2. There' = There  BY <2>1 DEF There
  <2> HIDE DEF k, twins
  <2>3. ASSUME NEW m \in There PROVE RowLike(row'[m]) /\ row'[m].meta = row[m].meta
    <3>1. RowLike(row[m])  BY <1>0 DEF Rows, Fits, There
    <3>2. CASE m # k  BY <2>1, <3>1, <3>2 DEF There
    <3>3. CASE m = k
      <4>1. row'[m] = [row[m] EXCEPT !.at = clock']  BY <2>1, <3>3 DEF There
      <4> QED  BY <3>1, <4>1 DEF RowLike
    <3> QED  BY <3>2, <3>3
  <2>4. Fits(audit, row)'  BY <1>0, <2>2, <2>3 DEF Rows, Fits, There
  <2>5. Stays /\ Mirrors  BY <2>2, <2>3 DEF Stays, Mirrors, Mirrored, Peers
  <2> QED  BY <1>0, <2>1, <2>2, <2>4, <2>5 DEF Rows, Edges
<1>2. CASE twins = {}
  <2> DEFINE n == given + 1
  <2>1. /\ given < MaxRows /\ given' = n
        /\ row' = [m \in There \cup {n} |-> IF m = n THEN NewRow(x, clock', life) ELSE row[m]]
    BY <1>2 DEF StoreRow
  <2>2. n \in given..MaxRows /\ n \notin There /\ There' = There \cup {n}  BY <1>0, <2>1 DEF Rows, There
  <2> DEFINE new == NewRow(x, clock', life)
  <2>3. row'[n] = new /\ \A m \in There : row'[m] = row[m]  BY <2>1, <2>2
  <2>4. RowLike(new) /\ new.meta.life = life /\ new.meta.mark = 0 /\ new.meta.conflicts = {}  BY FreshIs
  <2> HIDE DEF new
  <2>5. Recorded(audit, n, new.meta)  BY <2>4 DEF Recorded, Archived
  <2>6. Fits(audit, row)'  BY <1>0, <2>2, <2>3, <2>4, <2>5 DEF Rows, Fits, There
  <2>7. Stays  BY <2>2, <2>3 DEF Stays
  <2>8. Mirrors
    <3> SUFFICES ASSUME Mirrored, NEW m \in There' PROVE row'[m].meta.conflicts = Peers(m, edges)
      BY DEF Mirrors, Mirrored
    <3>1. CASE m = n
      <4>1. \A k : {n, k} \notin edges  BY <1>0, <2>1 DEF Edges, Rows
      <4> QED  BY <2>3, <2>4, <3>1, <4>1 DEF Peers
    <3> QED  BY <2>2, <2>3, <3>1 DEF Mirrored
  <2> QED  BY <1>0, <2>1, <2>2, <2>6, <2>7, <2>8 DEF Rows, Edges
<1> QED  BY <1>1, <1>2

LEMMA MarkedKeeps ==
  ASSUME GInv, NEW m \in 1..given, NEW text, NEW rebuild \in BOOLEAN, Marked(m, text, rebuild),
         UNCHANGED <<given, audit>>
  PROVE  There' = There /\ Fits(audit, row)' /\ Edges' /\ Stays /\ Mirrors
<1> DEFINE old == IF rebuild THEN {pair \in edges : m \in pair} ELSE {}
           found == {k \in There \ {m} : Shown(k) /\ {row[k].text, text} \in Contrary}
           pairs == (edges \ old) \cup {{m, k} : k \in found}
           affected == {m} \cup found \cup UNION old
<1>0. Rows /\ Edges  BY DEF GInv
<1>1. edges' = pairs /\ row' = IF rebuild \/ found # {} THEN Synced(row, pairs, affected) ELSE row  BY DEF Marked
<1>2. Edges'  BY <1>0, <1>1 DEF Edges, Rows
<1>3. CASE ~rebuild /\ found = {}
  <2>1. row' = row /\ edges' = edges  BY <1>1, <1>3
  <2> QED  BY <1>0, <1>2, <2>1 DEF Rows, Fits, There, Stays, Mirrors, Mirrored, Peers
<1>4. CASE rebuild \/ found # {}
  <2>1. row' = Synced(row, pairs, affected)  BY <1>1, <1>4
  <2>2. \A k, j : k \notin affected => ({k, j} \in pairs <=> {k, j} \in edges)
    <3> SUFFICES ASSUME NEW k, NEW j, k \notin affected PROVE {k, j} \in pairs <=> {k, j} \in edges
      OBVIOUS
    <3>1. {k, j} \notin old  OBVIOUS
    <3>2. \A i \in found : {k, j} # {m, i}  OBVIOUS
    <3> QED  BY <3>1, <3>2
  <2> HIDE DEF pairs, affected
  <2>3. /\ Fits(audit, row') /\ There' = There
        /\ \A k \in There : /\ row'[k].meta.life = row[k].meta.life
                            /\ row'[k].meta.conflicts = IF k \in affected THEN Peers(k, pairs) ELSE row[k].meta.conflicts
    BY <1>0, <2>1, SyncedFits DEF Rows, There
  <2>4. Stays  BY <2>3 DEF Stays, Archived
  <2>5. Mirrors
    <3> SUFFICES ASSUME Mirrored, NEW k \in There PROVE row'[k].meta.conflicts = Peers(k, pairs)
      BY <1>1, <2>3 DEF Mirrors, Mirrored
    <3>1. CASE k \notin affected
      <4>1. Peers(k, pairs) = Peers(k, edges)  BY <2>2, <3>1 DEF Peers
      <4> QED  BY <2>3, <3>1, <4>1 DEF Mirrored
    <3> QED  BY <2>3, <3>1
  <2> QED  BY <1>2, <2>3, <2>4, <2>5
<1> QED  BY <1>3, <1>4

LEMMA DeleteKeeps ==
  ASSUME GInv, NEW ids, Delete(ids), UNCHANGED <<given, audit>>
  PROVE  There' = There \ ids /\ Fits(audit, row)' /\ Edges' /\ Stays /\ Mirrors
<1> DEFINE left == Restrict(row, There \ ids)
           pairs == {pair \in edges : pair \cap ids = {}}
           peers == (UNION {Peers(m, edges) : m \in ids}) \ ids
<1>0. Rows /\ Edges  BY DEF GInv
<1>1. edges' = pairs /\ row' = Synced(left, pairs, peers)  BY DEF Delete
<1>2. Edges'  BY <1>0, <1>1 DEF Edges
<1>3. Fits(audit, left) /\ DOMAIN left = There \ ids /\ \A m \in There \ ids : left[m] = row[m]
  BY <1>0, RestrictFits DEF Rows, There
<1>4. \A m \in There \ ids : m \notin peers => Peers(m, pairs) = Peers(m, edges)
  <2> SUFFICES ASSUME NEW m \in There \ ids, m \notin peers, NEW k \in Id \ {m}
               PROVE  {m, k} \in pairs <=> {m, k} \in edges
    BY DEF Peers
  <2>1. m \in Id  BY <1>0 DEF Rows, Id
  <2>2. {m, k} \in edges => k \notin ids
    <3> SUFFICES ASSUME {m, k} \in edges, k \in ids PROVE FALSE  OBVIOUS
    <3>1. {k, m} = {m, k}  OBVIOUS
    <3>2. m \in Peers(k, edges)  BY <2>1, <3>1 DEF Peers
    <3>3. m \in UNION {Peers(i, edges) : i \in ids}  BY <3>2
    <3> QED  BY <3>3
  <2> QED  BY <2>2
<1> HIDE DEF left, pairs, peers
<1>5. /\ Fits(audit, row') /\ There' = There \ ids
      /\ \A m \in There \ ids :
             /\ row'[m].meta.life = row[m].meta.life
             /\ row'[m].meta.conflicts = IF m \in peers THEN Peers(m, pairs) ELSE row[m].meta.conflicts
  BY <1>1, <1>3, SyncedFits DEF There
<1>6. Stays  BY <1>5 DEF Stays, Archived
<1>7. Mirrors  BY <1>1, <1>4, <1>5 DEF Mirrors, Mirrored
<1> QED  BY <1>2, <1>5, <1>6, <1>7

\* One row gets metadata that are on record.
LEMMA WithMetaKeeps ==
  ASSUME GInv, audit \subseteq audit', NEW m, NEW meta, MetaLike(meta), Recorded(audit', m, meta),
         row' = WithMeta(row, m, meta)
  PROVE  /\ There' = There /\ Fits(audit, row)' /\ \A k \in There : k # m => row'[k] = row[k]
         /\ m \in There => row'[m].meta = meta
<1>0. row' = [row EXCEPT ![m] = [@ EXCEPT !.meta = meta, !.at = clock']]  BY DEF WithMeta
<1>1. There' = There /\ \A k \in There : k # m => row'[k] = row[k]  BY <1>0 DEF There
<1>2. Fits(audit', row)  BY FitsOn DEF GInv, Rows
<1>3. m \in There => RowLike(row'[m]) /\ row'[m].meta = meta
  <2> SUFFICES ASSUME m \in There PROVE RowLike(row'[m]) /\ row'[m].meta = meta  OBVIOUS
  <2>1. RowLike(row[m])  BY <1>2 DEF Fits, There
  <2>2. row'[m] = [[row[m] EXCEPT !.meta = meta] EXCEPT !.at = clock']  BY <1>0 DEF There
  <2> QED  BY <2>1, <2>2 DEF RowLike
<1>4. Fits(audit, row)'  BY <1>1, <1>2, <1>3 DEF Fits, There
<1> QED  BY <1>1, <1>3, <1>4

(* ------------------------------- tools -------------------------------- *)

LEMMA GivenIs ==
  ASSUME GInv
  PROVE  given \in given..MaxRows /\ There \subseteq 1..given /\ Fits(audit, row) /\ Edges
  BY DEF GInv, Rows

\* What is new in the audit: nothing, here.
LEMMA KeptQuietly ==
  ASSUME GInv, audit' = audit, given' \in given..MaxRows, There' \subseteq 1..given', Fits(audit, row)', Edges',
         tool' = tool \/ InTool', job' = job \/ InJob'
  PROVE  GInv'
  BY Kept

LEMMA InsertStep ==
  ASSUME GInv, Insert
  PROVE  GInv' /\ Stays /\ Mirrors
<1>1. /\ given' \in given..MaxRows /\ There' \subseteq 1..given' /\ Fits(audit, row)' /\ Edges'
      /\ Stays /\ Mirrors
  <2>1. StoreRow(tool.text, "promoted") /\ UNCHANGED <<edges, audit>>  BY DEF Insert
  <2> QED  BY <2>1, StoreRowKeeps
<1>2. InTool'
  <2>1. \/ tool' = NoTool
        \/ given' # given /\ tool' = [tool EXCEPT !.pc = "mark", !.id = given']
    BY DEF Insert
  <2>2. CASE tool' = NoTool  BY <1>1, <2>2, ToolGoes DEF Insert
  <2>3. CASE given' # given /\ tool' = [tool EXCEPT !.pc = "mark", !.id = given']
    <3>1. InTool /\ given' \in 1..given'  BY <1>1 DEF GInv, Rows
    <3>2. /\ tool' = [x \in {"pc", "id", "text", "sources", "seen"} |-> tool'[x]] /\ tool'.seen = tool.seen
          /\ tool'.id \in 1..given'
      BY <2>3, <3>1 DEF InTool
    <3> QED  BY <1>1, <3>2, ToolGoes DEF Insert
  <2> QED  BY <2>1, <2>2, <2>3
<1> QED  BY <1>1, <1>2, KeptQuietly DEF Insert

LEMMA MarkStep ==
  ASSUME GInv, Mark
  PROVE  GInv' /\ Stays /\ Mirrors
<1>0. InTool /\ tool.id \in 1..given  BY DEF GInv, InTool, Mark
<1>1. There' = There /\ Fits(audit, row)' /\ Edges' /\ Stays /\ Mirrors
  BY <1>0, MarkedKeeps DEF Mark
<1>2. InTool'
  <2>1. /\ tool' = [x \in {"pc", "id", "text", "sources", "seen"} |-> tool'[x]] /\ tool'.seen = tool.seen
        /\ tool'.pc = "relate"
    BY <1>0 DEF InTool, Mark
  <2> QED  BY <2>1, ToolGoes, GivenIs DEF Mark
<1> QED  BY <1>1, <1>2, KeptQuietly, GivenIs DEF Mark

LEMMA UpdateStep ==
  ASSUME GInv, Update
  PROVE  GInv' /\ Mirrors
<1>0. InTool /\ Rows  BY DEF GInv
<1>1. InTool'
  <2>1. \/ tool' = NoTool
        \/ tool' = [tool EXCEPT !.pc = "remark"]
    BY DEF Update
  <2>2. CASE tool' = NoTool  BY <2>2, ToolGoes, GivenIs DEF Update
  <2>3. CASE tool' = [tool EXCEPT !.pc = "remark"]
    <3>1. /\ tool' = [x \in {"pc", "id", "text", "sources", "seen"} |-> tool'[x]] /\ tool'.seen = tool.seen
          /\ tool'.pc = "remark"
      BY <1>0, <2>3 DEF InTool
    <3> QED  BY <3>1, ToolGoes, GivenIs DEF Update
  <2> QED  BY <2>1, <2>2, <2>3
<1>2. There' = There /\ Fits(audit, row)' /\ Mirrors
  <2>1. CASE row' = row  BY <1>0, <2>1 DEF Rows, Fits, There, Mirrors, Mirrored, Peers, Update
  <2>2. CASE tool.id \in There /\ row' = [row EXCEPT ![tool.id] = Rewritten(@, tool.text)]
    <3>1. There' = There  BY <2>2 DEF There
    <3>2. ASSUME NEW m \in There
          PROVE  /\ RowLike(row'[m]) /\ Recorded(audit, m, row'[m].meta)
                 /\ row'[m].meta.conflicts = row[m].meta.conflicts
      <4>1. RowLike(row[m]) /\ Recorded(audit, m, row[m].meta)  BY <1>0 DEF Rows, Fits, There
      <4>2. CASE m # tool.id
        <5>1. row'[m] = row[m]  BY <2>2, <4>2 DEF There
        <5> QED  BY <4>1, <5>1
      <4>3. CASE m = tool.id
        <5> DEFINE old == row[m]
                   meta == [old.meta EXCEPT !.life = "promoted"]
        <5>1. row'[m] = [old EXCEPT !.text = tool.text, !.at = clock', !.meta.life = "promoted"]
          BY <2>2, <4>3 DEF There, Rewritten
        <5>2. MetaLike(old.meta) /\ RowLike(old)  BY <4>1 DEF RowLike
        <5>3. MetaLike(meta) /\ meta.life = "promoted" /\ meta.mark = old.meta.mark
              /\ meta.conflicts = old.meta.conflicts
          BY <5>2 DEF MetaLike
        <5>4. row'[m] = [x \in {"text", "at", "digest", "meta"} |->
                            IF x = "text" THEN tool.text ELSE IF x = "at" THEN clock'
                            ELSE IF x = "meta" THEN meta ELSE old[x]]
          BY <5>1, <5>2 DEF RowLike
        <5> HIDE DEF old, meta
        <5>5. row'[m].meta = meta  BY <5>4
        <5>6. RowLike(row'[m])  BY <5>3, <5>4, <5>5 DEF RowLike
        <5>7. Recorded(audit, m, meta)
          <6>1. Recorded(audit, m, old.meta)  BY <4>1 DEF old
          <6>2. ~Archived(meta)  BY <5>3 DEF Archived
          <6> QED  BY <5>3, <6>1, <6>2, RecordedAs
        <5> QED  BY <5>3, <5>5, <5>6, <5>7 DEF old
      <4> QED  BY <4>2, <4>3
    <3>3. audit' = audit /\ edges' = edges  BY DEF Update
    <3>4. Fits(audit, row)'  BY <3>1, <3>2, <3>3 DEF Fits, There
    <3>5. Mirrors  BY <3>1, <3>2, <3>3 DEF Mirrors, Mirrored, Peers
    <3> QED  BY <3>1, <3>4, <3>5
  <2> QED  BY <2>1, <2>2 DEF Update
<1>3. Edges'  BY GivenIs DEF Update, Edges
<1> QED  BY <1>1, <1>2, <1>3, KeptQuietly, GivenIs DEF Update

LEMMA RemarkStep ==
  ASSUME GInv, Remark
  PROVE  GInv' /\ Stays /\ Mirrors
<1>0. InTool  BY DEF GInv
<1>1. There' = There /\ Fits(audit, row)' /\ Edges' /\ Stays /\ Mirrors
  <2>1. CASE tool.id \in There
    <3>1. Marked(tool.id, row[tool.id].text, TRUE) /\ UNCHANGED <<given, audit>>  BY <2>1 DEF Remark
    <3>2. tool.id \in 1..given  BY <2>1, GivenIs
    <3> QED  BY <3>1, <3>2, MarkedKeeps
  <2>2. CASE tool.id \notin There
    <3>1. UNCHANGED <<row, edges, given, audit>>  BY <2>2 DEF Remark
    <3> QED  BY <3>1, GivenIs DEF Fits, There, Edges, Stays, Mirrors, Mirrored, Peers
  <2> QED  BY <2>1, <2>2
<1>2. InTool'
  <2>1. /\ tool' = [x \in {"pc", "id", "text", "sources", "seen"} |-> tool'[x]] /\ tool'.seen = tool.seen
        /\ tool'.pc = "relate"
    BY <1>0 DEF InTool, Remark
  <2> QED  BY <2>1, ToolGoes, GivenIs DEF Remark
<1> QED  BY <1>1, <1>2, KeptQuietly, GivenIs DEF Remark

LEMMA RelateStep ==
  ASSUME GInv, Relate
  PROVE  GInv' /\ Stays /\ Mirrors
<1>0. InTool  BY DEF GInv
<1>1. InTool'
  <2>1. CASE tool' = NoTool  BY <2>1, ToolGoes, GivenIs DEF Relate
  <2>2. CASE tool' = [tool EXCEPT !.pc = "delete"]
    <3>1. /\ tool' = [x \in {"pc", "id", "text", "sources", "seen"} |-> tool'[x]] /\ tool'.seen = tool.seen
          /\ tool'.pc = "delete"
      BY <1>0, <2>2 DEF InTool
    <3> QED  BY <3>1, ToolGoes, GivenIs DEF Relate
  <2> QED  BY <2>1, <2>2 DEF Relate
<1> QED  BY <1>1, OnlyTool DEF Relate

\* DeleteSources, HardDelete and Dedupe.
LEMMA DeleteStep ==
  ASSUME GInv, NEW ids, Delete(ids), UNCHANGED <<given, audit, job>>, tool' \in {tool, NoTool}
  PROVE  GInv' /\ Stays /\ Mirrors
<1>1. There' = There \ ids /\ Fits(audit, row)' /\ Edges' /\ Stays /\ Mirrors  BY DeleteKeeps
<1>2. tool' = tool \/ InTool'  BY ToolGoes, GivenIs
<1> QED  BY <1>1, <1>2, KeptQuietly, GivenIs

\* StorePick, ToolUpdate and ToolMerge.
LEMMA PickStep ==
  ASSUME GInv, UNCHANGED <<row, given, edges, audit, job>>,
         \/ tool' = tool
         \/ \E pc \in {"update", "insert"}, text \in Text :
               \/ tool' = [tool EXCEPT !.pc = pc, !.text = text]
               \/ \E m \in There : \/ tool' = [tool EXCEPT !.pc = pc, !.id = m, !.text = text]
                                  \/ \E ids \in SUBSET There :
                                        tool' = [tool EXCEPT !.pc = pc, !.id = m, !.sources = ids, !.text = text]
  PROVE  GInv' /\ Stays /\ Mirrors
<1>0. InTool  BY DEF GInv
<1>1. InTool'
  <2>1. CASE tool' = tool  BY <1>0, <2>1 DEF InTool, Fits
  <2>2. CASE tool' # tool
    <3>1. /\ tool' = [x \in {"pc", "id", "text", "sources", "seen"} |-> tool'[x]] /\ tool'.seen = tool.seen
          /\ tool'.pc \in {"update", "insert"}
      BY <1>0, <2>2 DEF InTool
    <3> QED  BY <3>1, ToolGoes, GivenIs
  <2> QED  BY <2>1, <2>2
<1> QED  BY <1>1, OnlyTool

LEMMA CandidateStep ==
  ASSUME GInv, NEW x \in Text, StoreCandidate(x)
  PROVE  GInv' /\ Stays /\ Mirrors
<1>1. StoreRow(x, "candidate") /\ UNCHANGED <<edges, audit, tool, job>>  BY DEF StoreCandidate
<1>2. /\ given' \in given..MaxRows /\ There' \subseteq 1..given' /\ Fits(audit, row)' /\ Edges'
      /\ Stays /\ Mirrors
  BY <1>1, StoreRowKeeps
<1> QED  BY <1>1, <1>2, KeptQuietly

LEMMA ForgetStep ==
  ASSUME GInv, NEW m \in There, Forget(m)
  PROVE  GInv' /\ Stays /\ Mirrors
<1> DEFINE after == [row[m].meta EXCEPT !.life = "archived", !.forgot = clock']
           event == Event("soft_archive", clock', m, row[m], after)
<1>0. UNCHANGED <<given, edges, tool, job>> /\ Edges'  BY GivenIs DEF Forget, Edges
<1>1. CASE Archived(row[m].meta)
  <2>1. UNCHANGED <<row, audit>>  BY <1>1 DEF Forget
  <2> QED  BY <1>0, <2>1, KeptQuietly, GivenIs DEF Fits, There, Stays, Mirrors, Mirrored, Peers
<1>2. CASE ~Archived(row[m].meta)
  <2>1. row' = WithMeta(row, m, after) /\ audit' = audit \cup {event}  BY <1>2 DEF Forget
  <2>2. MetaLike(row[m].meta) /\ Recorded(audit, m, row[m].meta)  BY GivenIs DEF Fits, RowLike, There
  <2>3. MetaLike(after) /\ after.life = "archived" /\ after.mark = row[m].meta.mark
        /\ after.conflicts = row[m].meta.conflicts
    BY <2>2 DEF MetaLike
  <2>4. event.id = m /\ event.before = row[m].meta /\ event.after = after  BY DEF Event
  <2> HIDE DEF after, event
  <2>5. Recorded(audit', m, row[m].meta)  BY <2>1, <2>2, RecordedOn
  <2>6. Recorded(audit', m, after)
    BY <2>1, <2>3, <2>4, <2>5 DEF Recorded, Archived
  <2>7. /\ There' = There /\ Fits(audit, row)' /\ \A k \in There : k # m => row'[k] = row[k]
        /\ row'[m].meta = after
    <3>1. audit \subseteq audit'  BY <2>1
    <3>2. row' = WithMeta(row, m, after)  BY <2>1
    <3>3. There' = There  BY <2>3, <2>6, <3>1, <3>2, WithMetaKeeps
    <3>4. Fits(audit, row)'  BY <2>3, <2>6, <3>1, <3>2, WithMetaKeeps
    <3>5. \A k \in There : k # m => row'[k] = row[k]  BY <2>3, <2>6, <3>1, <3>2, WithMetaKeeps
    <3>6. row'[m].meta = after  BY <2>3, <2>6, <3>1, <3>2, WithMetaKeeps
    <3> QED  BY <3>3, <3>4, <3>5, <3>6
  <2>8. Stays /\ Mirrors
    <3>1. Stays  BY <1>2, <2>7 DEF Stays
    <3>2. Mirrors  BY <1>0, <2>3, <2>7 DEF Mirrors, Mirrored, Peers
    <3> QED  BY <3>1, <3>2
  <2>9. \A e \in audit' : e \in audit \/ (MetaLike(e.before) /\ Recorded(audit', e.id, e.before))
    BY <2>1, <2>2, <2>4, <2>5
  <2> QED  BY <1>0, <2>1, <2>7, <2>8, <2>9, Kept, GivenIs
<1> QED  BY <1>1, <1>2

(* ----------------------- govern and forgetting ------------------------ *)

\* GovernRead and ForgettingFails: the rows are read, or some of them.
LEMMA ReadStep ==
  ASSUME GInv, NEW ids, ids \subseteq There, NEW pc \in {"govern", "restore"}, NEW seen,
         seen = row \/ seen = Restrict(row, ids), tool' = [tool EXCEPT !.pc = pc, !.seen = seen],
         UNCHANGED <<row, given, edges, audit, job>>
  PROVE  GInv' /\ Stays
<1>1. Fits(audit, row) /\ InTool  BY DEF GInv, Rows
<1>2. Fits(audit, seen)  BY <1>1, RestrictFits DEF There
<1>3. tool' = [x \in {"pc", "id", "text", "sources", "seen"} |-> tool'[x]] /\ tool'.pc = pc /\ tool'.seen = seen
  BY <1>1 DEF InTool
<1>4. InTool'  BY <1>2, <1>3 DEF InTool
<1> QED  BY <1>4, OnlyTool

\* GovernWrite and ForgettingRestores: what was read is written back.
LEMMA WriteBackStep ==
  ASSUME GInv, NEW new, row' = [m \in There |-> new[m]], tool' = NoTool, UNCHANGED <<given, edges, audit, job>>,
         \A m \in There : /\ RowLike(new[m])
                           /\ new[m].meta = IF m \in DOMAIN tool.seen THEN tool.seen[m].meta ELSE row[m].meta
  PROVE  GInv'
<1>1. There' = There /\ \A m \in There : row'[m] = new[m]  BY DEF There
<1>2. ASSUME NEW m \in There PROVE Recorded(audit, m, new[m].meta)
  BY DEF GInv, Rows, InTool, Fits, There
<1>3. Fits(audit, row)'  BY <1>1, <1>2 DEF Fits, There
<1>4. Edges' /\ InTool'  BY GivenIs, ToolGoes DEF Edges
<1> QED  BY <1>1, <1>3, <1>4, KeptQuietly, GivenIs

LEMMA GovernWriteStep ==
  ASSUME GInv, GovernWrite
  PROVE  GInv'
<1> DEFINE new == [m \in There |-> IF m \in DOMAIN tool.seen THEN [row[m] EXCEPT !.meta = tool.seen[m].meta] ELSE row[m]]
<1>1. ASSUME NEW m \in There
      PROVE  /\ RowLike(new[m])
             /\ new[m].meta = IF m \in DOMAIN tool.seen THEN tool.seen[m].meta ELSE row[m].meta
  <2>1. RowLike(row[m])  BY DEF GInv, Rows, Fits, There
  <2>2. m \in DOMAIN tool.seen => MetaLike(tool.seen[m].meta)  BY DEF GInv, InTool, Fits, RowLike
  <2> QED  BY <2>1, <2>2 DEF RowLike
<1>2. row' = new /\ tool' = NoTool /\ UNCHANGED <<given, edges, audit, job>>  BY DEF GovernWrite
<1>3. new = [m \in There |-> new[m]]  OBVIOUS
<1> HIDE DEF new
<1> QED  BY <1>1, <1>2, <1>3, WriteBackStep

LEMMA RestoreStep ==
  ASSUME GInv, ForgettingRestores
  PROVE  GInv'
<1> DEFINE new == [m \in There |-> IF m \in DOMAIN tool.seen
                                 THEN [row[m] EXCEPT !.meta = tool.seen[m].meta, !.at = tool.seen[m].at]
                                 ELSE row[m]]
<1>1. ASSUME NEW m \in There
      PROVE  /\ RowLike(new[m])
             /\ new[m].meta = IF m \in DOMAIN tool.seen THEN tool.seen[m].meta ELSE row[m].meta
  <2>1. RowLike(row[m])  BY DEF GInv, Rows, Fits, There
  <2>2. m \in DOMAIN tool.seen => MetaLike(tool.seen[m].meta)  BY DEF GInv, InTool, Fits, RowLike
  <2> QED  BY <2>1, <2>2 DEF RowLike
<1>2. row' = new /\ tool' = NoTool /\ UNCHANGED <<given, edges, audit, job>>  BY DEF ForgettingRestores
<1>3. new = [m \in There |-> new[m]]  OBVIOUS
<1> HIDE DEF new
<1> QED  BY <1>1, <1>2, <1>3, WriteBackStep

\* An archiving batch and what it writes about each row.
LEMMA PurgeIs ==
  ASSUME NEW meta, MetaLike(meta), NEW batch
  PROVE  /\ MetaLike(Purge(meta, batch)) /\ Purge(meta, batch).life = "archived" /\ Purge(meta, batch).mark = batch
         /\ Purge(meta, batch).conflicts = meta.conflicts
  BY DEF Purge, MetaLike

LEMMA PurgeRecorded ==
  ASSUME NEW events, NEW m, NEW meta, MetaLike(meta), NEW batch, NEW e \in events,
         e.act = "soft_archive", e.batch = batch, e.id = m, e.after = Purge(meta, batch)
  PROVE  Recorded(events, m, Purge(meta, batch))
  BY PurgeIs DEF Recorded, ArchivedBy, Archived

LEMMA EventIs ==
  ASSUME NEW act, NEW batch, NEW m, NEW was, NEW after
  PROVE  LET e == Event(act, batch, m, was, after)
         IN  e.act = act /\ e.batch = batch /\ e.id = m /\ e.before = was.meta /\ e.after = after
  BY DEF Event

LEMMA ForgettingStep ==
  ASSUME GInv, NEW hard, NEW companion, Forgetting(hard, companion)
  PROVE  GInv' /\ Stays
<1> DEFINE batch == clock'
           soft == SoftItems
           archived == [m \in There |-> IF m \in soft THEN [row[m] EXCEPT !.meta = Purge(row[m].meta, batch), !.at = batch]
                                      ELSE row[m]]
           gone == IF hard /\ companion THEN HardItems ELSE {}
           pairs == {pair \in edges : pair \cap soft = {}}
           told == (UNION {Peers(m, pairs) : m \in gone}) \ gone
           left == {pair \in pairs : pair \cap gone = {}}
           purges == {Event("soft_archive", batch, m, row[m], Purge(row[m].meta, batch)) : m \in soft}
           deletions == {Event("hard_delete", batch, m, archived[m], archived[m].meta) : m \in gone}
<1>1. /\ row' = Synced(Restrict(archived, There \ gone), left, told) /\ edges' = left
      /\ audit' = (audit \cup purges) \cup deletions /\ UNCHANGED <<given, tool, job>>
  BY DEF Forgetting
<1>2. soft \subseteq There /\ gone \subseteq There  BY DEF SoftItems, HardItems
<1>3. Edges'
  <2>1. left \subseteq edges  OBVIOUS
  <2> QED  BY <1>1, <2>1, GivenIs DEF Edges
<1>4. \A m \in There : RowLike(row[m]) /\ MetaLike(row[m].meta) /\ Recorded(audit, m, row[m].meta)
  BY DEF GInv, Rows, Fits, RowLike, There
<1>5. ASSUME NEW m \in soft PROVE Recorded(audit', m, Purge(row[m].meta, batch))
  <2> DEFINE e == Event("soft_archive", batch, m, row[m], Purge(row[m].meta, batch))
  <2>1. e \in audit'  BY <1>1
  <2>2. e.act = "soft_archive" /\ e.batch = batch /\ e.id = m /\ e.after = Purge(row[m].meta, batch)
    BY DEF Event
  <2>3. MetaLike(row[m].meta)  BY <1>2, <1>4
  <2> HIDE DEF e, batch
  <2> QED  BY <2>1, <2>2, <2>3, PurgeRecorded
<1>6. ASSUME NEW m \in There
      PROVE  /\ RowLike(archived[m]) /\ MetaLike(archived[m].meta) /\ Recorded(audit', m, archived[m].meta)
             /\ Archived(row[m].meta) => Archived(archived[m].meta)
  <2>1. CASE m \in soft
    <3> DEFINE meta == Purge(row[m].meta, batch)
    <3>1. MetaLike(meta) /\ meta.life = "archived"  BY <1>4, PurgeIs
    <3>2. archived[m] = [row[m] EXCEPT !.meta = meta, !.at = batch]  BY <2>1
    <3>3. Recorded(audit', m, meta)  BY <1>5, <2>1
    <3> HIDE DEF meta, archived, batch
    <3>4. RowLike(archived[m]) /\ archived[m].meta = meta  BY <1>4, <3>1, <3>2 DEF RowLike
    <3> QED  BY <3>1, <3>3, <3>4 DEF Archived
  <2>2. CASE m \notin soft
    <3>1. archived[m] = row[m]  BY <2>2
    <3>2. audit \subseteq audit'  BY <1>1
    <3> HIDE DEF archived
    <3> QED  BY <1>4, <3>1, <3>2, RecordedOn
  <2> QED  BY <2>1, <2>2
<1>7. DOMAIN archived = There  OBVIOUS
<1> HIDE DEF archived, gone, left, told, soft, batch
<1>8. Fits(audit', archived)  BY <1>6, <1>7 DEF Fits
<1> DEFINE kept == Restrict(archived, There \ gone)
<1>9. Fits(audit', kept) /\ DOMAIN kept = There \ gone /\ \A m \in There \ gone : kept[m] = archived[m]
  BY <1>7, <1>8, RestrictFits
<1> HIDE DEF kept
<1>10. row' = Synced(kept, left, told)  BY <1>1 DEF kept
<1>11. /\ Fits(audit', row') /\ There' = There \ gone
       /\ \A m \in There \ gone : row'[m].meta.life = kept[m].meta.life
  BY <1>9, <1>10, SyncedFits DEF There
<1>12. Stays  BY <1>6, <1>9, <1>11 DEF Stays, Archived
<1>13. \A e \in audit' : e \in audit \/ (MetaLike(e.before) /\ Recorded(audit', e.id, e.before))
  <2> SUFFICES ASSUME NEW e \in purges \cup deletions
               PROVE  MetaLike(e.before) /\ Recorded(audit', e.id, e.before)
    BY <1>1
  <2>1. CASE e \in purges
    <3>1. PICK m \in soft : e = Event("soft_archive", batch, m, row[m], Purge(row[m].meta, batch))  BY <2>1
    <3>2. e.id = m /\ e.before = row[m].meta  BY <3>1 DEF Event
    <3>3. audit \subseteq audit'  BY <1>1
    <3> QED  BY <1>2, <1>4, <3>2, <3>3, RecordedOn
  <2>2. CASE e \in deletions
    <3>1. PICK m \in gone : e = Event("hard_delete", batch, m, archived[m], archived[m].meta)  BY <2>2
    <3>2. e.id = m /\ e.before = archived[m].meta  BY <3>1 DEF Event
    <3> QED  BY <1>2, <1>6, <3>2
  <2> QED  BY <2>1, <2>2
<1>14. audit \subseteq audit' /\ UNCHANGED <<given, tool, job>>  BY <1>1
<1> QED  BY <1>3, <1>11, <1>12, <1>13, <1>14, Kept, GivenIs

(* -------------------------------- jobs -------------------------------- *)

\* Cleanup, Rollback, and the rest of what is to be read.
LEMMA JobReads ==
  ASSUME GInv, UNCHANGED <<row, given, edges, audit, tool>>, job'.held = job.held, job'.pc = "read",
         job' = [x \in {"pc", "kind", "batch", "todo", "life", "held"} |-> job'[x]]
  PROVE  GInv' /\ Stays
<1>1. InJob'  BY DEF GInv, InJob, Fits
<1> QED  BY <1>1, OnlyJob

\* ReadFirst, Review and Promote: a row is in hand.
LEMMA JobHolds ==
  ASSUME GInv, UNCHANGED <<row, given, edges, audit, tool>>, NEW m \in There, job'.held = Restrict(row, {m}),
         job' = [x \in {"pc", "kind", "batch", "todo", "life", "held"} |-> job'[x]],
         job'.kind = "rollback" => ArchivedBy(audit, job'.batch, m)
  PROVE  GInv' /\ Stays
<1>1. Fits(audit, Restrict(row, {m})) /\ DOMAIN Restrict(row, {m}) = {m}  BY GivenIs, RestrictFits DEF There
<1>2. Fits(audit', job'.held) /\ DOMAIN job'.held = {m}  BY <1>1
<1>3. job'.kind = "rollback" => \A k \in DOMAIN job'.held : ArchivedBy(audit', job'.batch, k)  BY <1>2
<1>4. InJob'  BY <1>2, <1>3 DEF InJob
<1> QED  BY <1>4, OnlyJob

LEMMA CleanupStep ==
  ASSUME GInv, Cleanup
  PROVE  GInv' /\ Stays
<1>1. job = [x \in {"pc", "kind", "batch", "todo", "life", "held"} |-> job[x]]  BY DEF GInv, InJob
<1>2. /\ job'.held = job.held /\ job'.pc = "read"
      /\ job' = [x \in {"pc", "kind", "batch", "todo", "life", "held"} |-> job'[x]]
  BY <1>1 DEF Cleanup
<1> QED  BY <1>2, JobReads DEF Cleanup

LEMMA RollbackStep ==
  ASSUME GInv, NEW batch, Rollback(batch)
  PROVE  GInv' /\ Stays
<1>1. job = [x \in {"pc", "kind", "batch", "todo", "life", "held"} |-> job[x]]  BY DEF GInv, InJob
<1>2. /\ job'.held = job.held /\ job'.pc = "read"
      /\ job' = [x \in {"pc", "kind", "batch", "todo", "life", "held"} |-> job'[x]]
  BY <1>1 DEF Rollback
<1> QED  BY <1>2, JobReads DEF Rollback

LEMMA ReadFirstStep ==
  ASSUME GInv, NEW m, ReadFirst(m)
  PROVE  GInv' /\ Stays
<1>1. job = [x \in {"pc", "kind", "batch", "todo", "life", "held"} |-> job[x]] /\ job.pc = "read"
  BY DEF GInv, InJob, ReadFirst
<1>2. CASE Wanted(m)
  <2>1. job' = [job EXCEPT !.pc = "write", !.todo = @ \ {m}, !.held = Restrict(row, {m})]  BY <1>2 DEF ReadFirst
  <2>2. /\ job'.held = Restrict(row, {m}) /\ job'.kind = job.kind /\ job'.batch = job.batch
        /\ job' = [x \in {"pc", "kind", "batch", "todo", "life", "held"} |-> job'[x]]
    BY <1>1, <2>1
  <2>3. m \in There  BY <1>2 DEF Wanted
  <2>4. job.kind = "rollback" => ArchivedBy(audit, job.batch, m)  BY <1>2 DEF Wanted, ArchivedBy, Archives
  <2> QED  BY <2>2, <2>3, <2>4, JobHolds DEF ReadFirst
<1>3. CASE ~Wanted(m) /\ job.todo = {m}
  <2>1. job' = NoJob  BY <1>3 DEF ReadFirst
  <2> QED  BY <2>1, JobEnds, OnlyJob DEF ReadFirst
<1>4. CASE ~Wanted(m) /\ job.todo # {m}
  <2>1. job' = [job EXCEPT !.todo = @ \ {m}]  BY <1>4 DEF ReadFirst
  <2>2. /\ job'.held = job.held /\ job'.pc = "read"
        /\ job' = [x \in {"pc", "kind", "batch", "todo", "life", "held"} |-> job'[x]]
    BY <1>1, <2>1
  <2> QED  BY <2>2, JobReads DEF ReadFirst
<1> QED  BY <1>2, <1>3, <1>4

LEMMA HoldStep ==
  ASSUME GInv, NEW m \in There, NEW kind \in {"review", "promotion"}, NEW life, Hold(m, kind, life),
         UNCHANGED <<row, given, edges, audit, tool>>
  PROVE  GInv' /\ Stays
<1>1. job = [x \in {"pc", "kind", "batch", "todo", "life", "held"} |-> job[x]]  BY DEF GInv, InJob
<1>2. /\ job'.held = Restrict(row, {m}) /\ job'.kind = kind
      /\ job' = [x \in {"pc", "kind", "batch", "todo", "life", "held"} |-> job'[x]]
  BY <1>1 DEF Hold
<1> QED  BY <1>2, JobHolds

LEMMA RewriteKeeps ==
  ASSUME GInv, NEW new, row' = [m \in There |-> new[m]],
         \A m \in There : RowLike(new[m]) /\ Recorded(audit', m, new[m].meta)
  PROVE  There' = There /\ Fits(audit, row)'
  BY DEF Fits, There

LEMMA ReadIs ==
  ASSUME GInv, NEW m \in Changed
  PROVE  MetaLike(Read(m).meta) /\ Recorded(audit, m, Read(m).meta)
<1>1. Fits(audit, row) /\ Fits(audit, job.held)  BY DEF GInv, Rows, InJob
<1>2. CASE m \in DOMAIN job.held  BY <1>1, <1>2 DEF Read, Fits, RowLike
<1>3. CASE m \notin DOMAIN job.held
  <2>1. m \in There  BY <1>3 DEF Changed, Wanted
  <2> QED  BY <1>1, <1>3, <2>1 DEF Read, Fits, RowLike, There
<1> QED  BY <1>2, <1>3

LEMMA CleanupWriteStep ==
  ASSUME GInv, CleanupWrite
  PROVE  GInv' /\ Stays
<1> DEFINE purges == {Event("soft_archive", job.batch, m, Read(m), Purge(Read(m).meta, job.batch)) : m \in Changed}
           new == [m \in There |-> IF m \in Changed
                                 THEN [row[m] EXCEPT !.meta = Purge(Read(m).meta, job.batch), !.at = clock]
                                 ELSE row[m]]
<1>1. /\ row' = new /\ audit' = audit \cup purges /\ job' = NoJob /\ UNCHANGED <<given, edges, tool>>
  BY DEF CleanupWrite
<1>2. ASSUME NEW m \in Changed
      PROVE  Recorded(audit', m, Read(m).meta) /\ Recorded(audit', m, Purge(Read(m).meta, job.batch))
  <2> DEFINE e == Event("soft_archive", job.batch, m, Read(m), Purge(Read(m).meta, job.batch))
  <2>1. e \in audit' /\ audit \subseteq audit'  BY <1>1
  <2>2. /\ e.act = "soft_archive" /\ e.batch = job.batch /\ e.id = m
        /\ e.after = Purge(Read(m).meta, job.batch)
    BY DEF Event
  <2>3. MetaLike(Read(m).meta) /\ Recorded(audit, m, Read(m).meta)  BY ReadIs
  <2> HIDE DEF e
  <2> QED  BY <2>1, <2>2, <2>3, PurgeRecorded, RecordedOn
<1>3. ASSUME NEW m \in There
      PROVE  /\ RowLike(new[m]) /\ Recorded(audit', m, new[m].meta)
             /\ Archived(row[m].meta) => Archived(new[m].meta)
  <2>1. RowLike(row[m]) /\ Recorded(audit, m, row[m].meta)  BY DEF GInv, Rows, Fits, There
  <2>2. CASE m \in Changed
    <3> DEFINE meta == Purge(Read(m).meta, job.batch)
    <3>1. MetaLike(meta) /\ meta.life = "archived"  BY <2>2, ReadIs, PurgeIs
    <3>2. new[m] = [row[m] EXCEPT !.meta = meta, !.at = clock]  BY <2>2
    <3>3. Recorded(audit', m, meta)  BY <1>2, <2>2
    <3> HIDE DEF meta, new
    <3>4. RowLike(new[m]) /\ new[m].meta = meta  BY <2>1, <3>1, <3>2 DEF RowLike
    <3> QED  BY <3>1, <3>3, <3>4 DEF Archived
  <2>3. CASE m \notin Changed
    <3>1. new[m] = row[m] /\ audit \subseteq audit'  BY <1>1, <2>3
    <3> HIDE DEF new
    <3> QED  BY <2>1, <3>1, RecordedOn
  <2> QED  BY <2>2, <2>3
<1>4. new = [m \in There |-> new[m]]  OBVIOUS
<1> HIDE DEF new
<1>5. There' = There /\ Fits(audit, row)'  BY <1>1, <1>3, <1>4, RewriteKeeps
<1>6. Stays  BY <1>1, <1>3 DEF Stays
<1>7. \A e \in audit' : e \in audit \/ (MetaLike(e.before) /\ Recorded(audit', e.id, e.before))
  <2> SUFFICES ASSUME NEW m \in Changed,
                      NEW e, e = Event("soft_archive", job.batch, m, Read(m), Purge(Read(m).meta, job.batch))
               PROVE  MetaLike(e.before) /\ Recorded(audit', e.id, e.before)
    BY <1>1
  <2>1. e.id = m /\ e.before = Read(m).meta  BY DEF Event
  <2> QED  BY <1>2, <2>1, ReadIs
<1>8. Edges' /\ audit \subseteq audit'  BY <1>1, GivenIs DEF Edges
<1> QED  BY <1>1, <1>5, <1>6, <1>7, <1>8, Kept, GivenIs, JobEnds

LEMMA RollbackWriteStep ==
  ASSUME GInv, RollbackWrite
  PROVE  GInv'
<1> DEFINE undone(m) == CHOOSE e \in Archives(job.batch) : e.id = m
           events == {Event("rollback_soft_archive", job.batch, m, Read(m), undone(m).before) : m \in Changed}
           new == [m \in There |-> IF m \in Changed
                                 THEN [row[m] EXCEPT !.meta = undone(m).before, !.at = undone(m).was]
                                 ELSE row[m]]
<1>1. /\ row' = new /\ audit' = audit \cup events /\ job' = NoJob /\ UNCHANGED <<given, edges, tool>>
      /\ job.pc = "write" /\ job.kind = "rollback"
  BY DEF RollbackWrite
<1>2. ASSUME NEW m \in Changed PROVE MetaLike(undone(m).before) /\ Recorded(audit, m, undone(m).before)
  <2>1. \E e \in Archives(job.batch) : e.id = m
    <3>1. CASE m \in DOMAIN job.held  BY <1>1, <3>1 DEF GInv, InJob, ArchivedBy, Archives
    <3>2. CASE m \notin DOMAIN job.held  BY <1>1, <3>2 DEF Changed, Wanted
    <3> QED  BY <3>1, <3>2
  <2>2. undone(m) \in audit /\ undone(m).id = m  BY <2>1 DEF Archives
  <2> HIDE DEF undone
  <2> QED  BY <2>2 DEF GInv, Witnessed
<1> HIDE DEF undone
<1>3. ASSUME NEW m \in There PROVE RowLike(new[m]) /\ Recorded(audit', m, new[m].meta)
  <2>1. RowLike(row[m]) /\ Recorded(audit, m, row[m].meta)  BY DEF GInv, Rows, Fits, There
  <2>2. audit \subseteq audit'  BY <1>1
  <2>3. CASE m \in Changed
    <3> DEFINE meta == undone(m).before
    <3>1. MetaLike(meta) /\ Recorded(audit, m, meta)  BY <1>2, <2>3
    <3>2. new[m] = [row[m] EXCEPT !.meta = meta, !.at = undone(m).was]  BY <2>3
    <3> HIDE DEF meta, new
    <3>4. RowLike(new[m]) /\ new[m].meta = meta  BY <2>1, <3>1, <3>2 DEF RowLike
    <3> QED  BY <2>2, <3>1, <3>4, RecordedOn
  <2>4. CASE m \notin Changed
    <3>1. new[m] = row[m]  BY <2>4
    <3> HIDE DEF new
    <3> QED  BY <2>1, <2>2, <3>1, RecordedOn
  <2> QED  BY <2>3, <2>4
<1>4. new = [m \in There |-> new[m]]  OBVIOUS
<1> HIDE DEF new
<1>5. There' = There /\ Fits(audit, row)'  BY <1>1, <1>3, <1>4, RewriteKeeps
<1>6. \A e \in audit' : e \in audit \/ (MetaLike(e.before) /\ Recorded(audit', e.id, e.before))
  <2> SUFFICES ASSUME NEW m \in Changed,
                      NEW e, e = Event("rollback_soft_archive", job.batch, m, Read(m), undone(m).before)
               PROVE  MetaLike(e.before) /\ Recorded(audit', e.id, e.before)
    BY <1>1
  <2>1. e.id = m /\ e.before = Read(m).meta  BY DEF Event
  <2>2. audit \subseteq audit'  BY <1>1
  <2> QED  BY <2>1, <2>2, ReadIs, RecordedOn
<1>7. Edges' /\ audit \subseteq audit'  BY <1>1, GivenIs DEF Edges
<1> QED  BY <1>1, <1>5, <1>6, <1>7, Kept, GivenIs, JobEnds

LEMMA BackfillStep ==
  ASSUME GInv, Backfill
  PROVE  GInv' /\ Stays
<1> DEFINE legacy == {m \in There : Archived(row[m].meta) /\ m \notin Audited /\ ~Marker(row[m].meta)}
           events == {Event("legacy_archive_backfill", clock', m, row[m], row[m].meta) : m \in legacy}
<1>1. audit' = audit \cup events /\ UNCHANGED <<row, given, edges, tool, job>>  BY DEF Backfill
<1>2. audit \subseteq audit'  BY <1>1
<1>3. Fits(audit', row)  BY <1>2, GivenIs, FitsOn
<1>4. \A e \in audit' : e \in audit \/ (MetaLike(e.before) /\ Recorded(audit', e.id, e.before))
  <2> SUFFICES ASSUME NEW m \in There, NEW e, e = Event("legacy_archive_backfill", clock', m, row[m], row[m].meta)
               PROVE  MetaLike(e.before) /\ Recorded(audit', e.id, e.before)
    BY <1>1
  <2>1. e.id = m /\ e.before = row[m].meta  BY DEF Event
  <2> QED  BY <1>3, <2>1 DEF Fits, RowLike, There
<1>5. There' = There /\ Fits(audit, row)' /\ Edges' /\ Stays
  BY <1>1, <1>3, GivenIs DEF There, Edges, Stays, Fits
<1> QED  BY <1>1, <1>2, <1>4, <1>5, Kept, GivenIs

LEMMA HygieneStep ==
  ASSUME GInv, Hygiene
  PROVE  GInv' /\ Stays
<1>1. /\ There' = There /\ Fits(audit, row)' /\ Edges' /\ Stays
  BY GivenIs DEF Hygiene, There, Edges, Stays, Fits
<1> QED  BY <1>1, KeptQuietly, GivenIs DEF Hygiene

\* One row in hand is written with other metadata, and the audit says so.
LEMMA DecisionKeeps ==
  ASSUME GInv, NEW m \in DOMAIN job.held, NEW after, NEW act, NEW batch, MetaLike(after),
         after.mark = job.held[m].meta.mark,
         audit' = audit \cup {Event(act, batch, m, job.held[m], after)},
         row' = row \/ row' = WithMeta(row, m, after)
  PROVE  /\ There' = There /\ Fits(audit, row)' /\ audit \subseteq audit'
         /\ \A e \in audit' : e \in audit \/ (MetaLike(e.before) /\ Recorded(audit', e.id, e.before))
<1> DEFINE e == Event(act, batch, m, job.held[m], after)
<1>1. e \in audit' /\ audit \subseteq audit' /\ \A d \in audit' : d \in audit \/ d = e  OBVIOUS
<1>2. e.id = m /\ e.before = job.held[m].meta /\ e.after = after  BY DEF Event
<1> HIDE DEF e
<1>3. MetaLike(job.held[m].meta) /\ Recorded(audit, m, job.held[m].meta)  BY DEF GInv, InJob, Fits, RowLike
<1>4. Recorded(audit', m, job.held[m].meta)  BY <1>1, <1>3, RecordedOn
<1>5. Recorded(audit', m, after)  BY <1>1, <1>2, <1>4 DEF Recorded, Archived
<1>6. There' = There /\ Fits(audit, row)'
  <2>1. CASE row' = row
    <3>1. Fits(audit', row)  BY <1>1, GivenIs, FitsOn
    <3> QED  BY <2>1, <3>1 DEF Fits, There
  <2>2. CASE row' = WithMeta(row, m, after)
    <3>1. There' = There  BY <1>1, <1>5, <2>2, WithMetaKeeps
    <3>2. Fits(audit, row)'  BY <1>1, <1>5, <2>2, WithMetaKeeps
    <3> QED  BY <3>1, <3>2
  <2> QED  BY <2>1, <2>2
<1> QED  BY <1>1, <1>2, <1>3, <1>4, <1>6

LEMMA ReviewWriteStep ==
  ASSUME GInv, ReviewWrite
  PROVE  GInv'
<1>1. PICK m \in DOMAIN job.held :
        LET after == [job.held[m].meta EXCEPT !.life = job.life]
        IN  /\ row' = IF m \in There THEN WithMeta(row, m, after) ELSE row
            /\ edges' = IF job.life = "promoted" THEN edges ELSE {pair \in edges : m \notin pair}
            /\ audit' = audit \cup {Event("review", job.batch, m, job.held[m], after)}
            /\ job' = NoJob /\ UNCHANGED <<given, tool>>
  BY DEF ReviewWrite
<1> DEFINE after == [job.held[m].meta EXCEPT !.life = job.life]
<1>2. MetaLike(job.held[m].meta)  BY DEF GInv, InJob, Fits, RowLike
<1>3. MetaLike(after) /\ after.mark = job.held[m].meta.mark  BY <1>2 DEF MetaLike
<1>4. audit' = audit \cup {Event("review", job.batch, m, job.held[m], after)}  BY <1>1
<1>5. row' = row \/ row' = WithMeta(row, m, after)  BY <1>1
<1> HIDE DEF after
<1>6. /\ There' = There /\ Fits(audit, row)' /\ audit \subseteq audit'
      /\ \A e \in audit' : e \in audit \/ (MetaLike(e.before) /\ Recorded(audit', e.id, e.before))
  BY <1>3, <1>4, <1>5, DecisionKeeps
<1>7. edges' \subseteq edges /\ job' = NoJob /\ UNCHANGED <<given, tool>>  BY <1>1
<1>8. Edges'  BY <1>7, GivenIs DEF Edges
<1> QED  BY <1>6, <1>7, <1>8, Kept, GivenIs, JobEnds

LEMMA PromoteWriteStep ==
  ASSUME GInv, PromoteWrite
  PROVE  GInv' /\ Stays
<1>1. PICK m \in DOMAIN job.held :
        LET after == [job.held[m].meta EXCEPT !.life = job.life, !.promotion = job.batch]
        IN  /\ IF StillCandidate(m)
               THEN /\ row' = WithMeta(row, m, after)
                    /\ audit' = audit \cup {Event(IF job.life = "archived" THEN "promotion archived" ELSE "promotion",
                                                  job.batch, m, job.held[m], after)}
               ELSE UNCHANGED <<row, audit>>
            /\ job' = NoJob /\ UNCHANGED <<given, edges, tool>>
  BY DEF PromoteWrite
<1>2. Edges' /\ InJob'  BY <1>1, GivenIs, JobEnds DEF Edges
<1>3. CASE ~StillCandidate(m)
  <2>1. UNCHANGED <<row, audit, given, edges, tool>>  BY <1>1, <1>3
  <2>2. There' = There /\ Fits(audit, row)' /\ Stays  BY <2>1, GivenIs DEF Fits, There, Stays
  <2> QED  BY <1>2, <2>1, <2>2, KeptQuietly, GivenIs
<1>4. CASE StillCandidate(m)
  <2> DEFINE after == [job.held[m].meta EXCEPT !.life = job.life, !.promotion = job.batch]
             act == IF job.life = "archived" THEN "promotion archived" ELSE "promotion"
  <2>1. MetaLike(job.held[m].meta)  BY DEF GInv, InJob, Fits, RowLike
  <2>2. MetaLike(after) /\ after.mark = job.held[m].meta.mark  BY <2>1 DEF MetaLike
  <2>3. audit' = audit \cup {Event(act, job.batch, m, job.held[m], after)}  BY <1>1, <1>4
  <2>4. row' = WithMeta(row, m, after) /\ UNCHANGED <<given, edges, tool>>  BY <1>1, <1>4
  <2> HIDE DEF after, act
  <2>5. /\ There' = There /\ Fits(audit, row)' /\ audit \subseteq audit'
        /\ \A e \in audit' : e \in audit \/ (MetaLike(e.before) /\ Recorded(audit', e.id, e.before))
    BY <2>2, <2>3, <2>4, DecisionKeeps
  <2>6. Stays
    <3>1. \A k \in There : k # m => row'[k] = row[k]  BY <2>4 DEF WithMeta, There
    <3>2. ~Archived(row[m].meta)  BY <1>4 DEF StillCandidate, Archived
    <3> QED  BY <3>1, <3>2 DEF Stays
  <2> QED  BY <1>2, <2>4, <2>5, <2>6, Kept, GivenIs
<1> QED  BY <1>3, <1>4

(* ------------------------------ theorems ------------------------------ *)

LEMMA InitGInv ==
  ASSUME GInit
  PROVE  GInv
<1>1. PICK x \in Text, life \in {"promoted", "archived"} : row = [m \in {1} |-> NewRow(x, 0, life)]  BY DEF GInit
<1> DEFINE new == NewRow(x, 0, life)
<1>2. There = {1} /\ row[1] = new  BY <1>1 DEF There
<1>3. RowLike(new) /\ new.meta.mark = 0  BY FreshIs
<1> HIDE DEF new
<1>4. Recorded(audit, 1, new.meta)  BY <1>3 DEF Recorded
<1>5. Rows  BY <1>2, <1>3, <1>4 DEF Rows, Fits, There, GInit
<1>6. Edges /\ Witnessed(audit)  BY DEF GInit, Edges, Witnessed
<1>7. InTool /\ InJob  BY NoToolIs, NoJobIs DEF GInit, InTool, InJob, Fits
<1> QED  BY <1>5, <1>6, <1>7 DEF GInv

LEMMA ToolsKeep ==
  ASSUME GInv, ToolSection \/ ToolBegins
  PROVE  GInv' /\ (Update \/ Stays) /\ Mirrors
<1>1. CASE Insert \/ Mark \/ Remark \/ Relate  BY <1>1, InsertStep, MarkStep, RemarkStep, RelateStep
<1>2. CASE Update  BY <1>2, UpdateStep
<1>3. CASE DeleteSources  BY <1>3, DeleteStep DEF DeleteSources
<1>4. CASE \E x \in Text : StorePick(x) \/ StoreCandidate(x)
  <2>1. PICK x \in Text : StorePick(x) \/ StoreCandidate(x)  BY <1>4
  <2>2. CASE StorePick(x)
    <3>1. UNCHANGED <<row, given, edges, audit, job>>  BY <2>2 DEF StorePick
    <3>2. \/ tool' = tool
          \/ tool' = [tool EXCEPT !.pc = "insert", !.text = x]
          \/ \E m \in There, merged \in Text : tool' = [tool EXCEPT !.pc = "update", !.id = m, !.text = merged]
      BY <2>2 DEF StorePick
    <3> QED  BY <3>1, <3>2, PickStep
  <2> QED  BY <2>1, <2>2, CandidateStep
<1>5. CASE \E m \in There : HardDelete(m) \/ Forget(m)
  <2>1. PICK m \in There : HardDelete(m) \/ Forget(m)  BY <1>5
  <2>2. CASE HardDelete(m)  BY <2>2, DeleteStep DEF HardDelete
  <2> QED  BY <2>1, <2>2, ForgetStep
<1>6. CASE \E m \in There, x \in Text : ToolUpdate(m, x)
  <2>1. PICK m \in There, x \in Text : ToolUpdate(m, x)  BY <1>6
  <2>2. tool' = [tool EXCEPT !.pc = "update", !.id = m, !.text = x]  BY <2>1 DEF ToolUpdate
  <2> QED  BY <2>1, <2>2, PickStep DEF ToolUpdate
<1>7. CASE \E m \in There, ids \in SUBSET There, x \in Text : ToolMerge(m, ids, x)
  <2>1. PICK m \in There, ids \in SUBSET There, x \in Text : ToolMerge(m, ids, x)  BY <1>7
  <2>2. tool' = [tool EXCEPT !.pc = "update", !.id = m, !.sources = ids, !.text = x]  BY <2>1 DEF ToolMerge
  <2> QED  BY <2>1, <2>2, PickStep DEF ToolMerge
<1>8. CASE Dedupe  BY <1>8, DeleteStep DEF Dedupe
<1> QED  BY <1>1, <1>2, <1>3, <1>4, <1>5, <1>6, <1>7, <1>8 DEF ToolSection, ToolBegins

LEMMA JobsKeep ==
  ASSUME GInv, Job
  PROVE  GInv' /\ (Revivals \/ Stays)
<1>1. CASE Cleanup \/ Backfill \/ Hygiene  BY <1>1, CleanupStep, BackfillStep, HygieneStep
<1>2. CASE \E b \in Batch \ {0} : Rollback(b)  BY <1>2, RollbackStep
<1>3. CASE \E m \in Id : ReadFirst(m)  BY <1>3, ReadFirstStep
<1>4. CASE CleanupWrite  BY <1>4, CleanupWriteStep
<1>5. CASE RollbackWrite  BY <1>5, RollbackWriteStep DEF Revivals
<1>6. CASE \E m \in There, life \in {"promoted", "archived", "superseded"} : Review(m, life)
  <2>1. PICK m \in There, life \in {"promoted", "archived", "superseded"} : Review(m, life)  BY <1>6
  <2>2. Hold(m, "review", life) /\ UNCHANGED <<row, given, edges, audit, tool>>  BY <2>1 DEF Review
  <2> QED  BY <2>2, HoldStep
<1>7. CASE \E m \in There, life \in {"promoted", "archived"}, reviewed \in BOOLEAN : Promote(m, life, reviewed)
  <2>1. PICK m \in There, life \in {"promoted", "archived"}, reviewed \in BOOLEAN : Promote(m, life, reviewed)
    BY <1>7
  <2>2. Hold(m, "promotion", life) /\ UNCHANGED <<row, given, edges, audit, tool>>  BY <2>1 DEF Promote
  <2> QED  BY <2>2, HoldStep
<1>8. CASE ReviewWrite  BY <1>8, ReviewWriteStep DEF Revivals
<1>9. CASE PromoteWrite  BY <1>9, PromoteWriteStep
<1> QED  BY <1>1, <1>2, <1>3, <1>4, <1>5, <1>6, <1>7, <1>8, <1>9 DEF Job

LEMMA GInvNext ==
  ASSUME GInv, [GNext]_gvars
  PROVE  GInv' /\ (Revivals \/ Stays)
<1>1. CASE UNCHANGED gvars
  <2>1. UNCHANGED <<row, given, edges, audit, job, tool>>  BY <1>1 DEF gvars
  <2>2. InTool'  BY <2>1 DEF GInv, InTool, Fits
  <2> QED  BY <2>1, <2>2, OnlyTool
<1>2. CASE ToolSection \/ ToolBegins  BY <1>2, ToolsKeep DEF Revivals
<1>3. CASE \E hard, companion \in BOOLEAN : Forgetting(hard, companion)  BY <1>3, ForgettingStep
<1>4. CASE ForgettingFails
  <2>1. SoftItems \subseteq There  BY DEF SoftItems
  <2>2. tool' = [tool EXCEPT !.pc = "restore", !.seen = Restrict(row, SoftItems)]  BY <1>4 DEF ForgettingFails
  <2> QED  BY <1>4, <2>1, <2>2, ReadStep DEF ForgettingFails
<1>5. CASE ForgettingRestores  BY <1>5, RestoreStep DEF Revivals
<1>6. CASE GovernRead
  <2>1. tool' = [tool EXCEPT !.pc = "govern", !.seen = row]  BY <1>6 DEF GovernRead
  <2> QED  BY <1>6, <2>1, ReadStep DEF GovernRead
<1>7. CASE GovernWrite  BY <1>7, GovernWriteStep DEF Revivals
<1>8. CASE Job  BY <1>8, JobsKeep
<1> QED  BY <1>1, <1>2, <1>3, <1>4, <1>5, <1>6, <1>7, <1>8 DEF GNext, ForgettingRun, Govern

(* Whatever tools, jobs, rollbacks and reviews overlap, every row archived since
   the start has an audit event that says so, and the batch a row is marked with
   is one that archived it (archive_memories, apply_cleanup, run_forgetting). *)
THEOREM ArchivesRecorded == GSpec => []ArchivesOnRecord
<1>1. GInv => ArchivesOnRecord
  <2> SUFFICES ASSUME GInv, NEW m \in There, Archived(row[m].meta)
               PROVE  /\ m = 1 \/ \E e \in audit : e.id = m /\ Archived(e.after)
                      /\ row[m].meta.mark # 0 => \E e \in Archives(row[m].meta.mark) : e.id = m
    BY DEF ArchivesOnRecord
  <2>1. Recorded(audit, m, row[m].meta)  BY DEF GInv, Rows, Fits, There
  <2> QED  BY <2>1 DEF Recorded, ArchivedBy, Archives
<1> QED  BY <1>1, InitGInv, GInvNext, PTL DEF GSpec

(* No promotion, cleanup, deduplication or touch that read a row before it was
   archived brings it back (promote_memory_candidates, apply_cleanup, store_row). *)
THEOREM RevivalsAsked == GSpec => OnlyAskedRevivals
<1> DEFINE Asked == \A m \in There : Archived(row[m].meta) /\ m \in DOMAIN row' /\ ~Archived(row'[m].meta) => Revivals
<1>1. GInv /\ [GNext]_gvars => [Asked]_gvars  BY GInvNext DEF Stays, There
<1> HIDE DEF Asked
<1>2. GSpec => [][Asked]_gvars  BY <1>1, InitGInv, GInvNext, PTL DEF GSpec
<1> QED  BY <1>2 DEF Asked, OnlyAskedRevivals

(* The tools keep the conflict fields of all rows equal to the edges, whatever
   rows come and go (mark_conflicts, update_memory, merge_memories, delete_rows). *)
THEOREM ConflictsKept == GSpec => ToolsKeepConflicts
<1> DEFINE Mirrored2 == (ToolSection \/ ToolBegins) /\ Mirrored => Mirrored'
<1>1. GInv /\ [GNext]_gvars => [Mirrored2]_gvars  BY ToolsKeep DEF Mirrors
<1> HIDE DEF Mirrored2
<1>2. GSpec => [][Mirrored2]_gvars  BY <1>1, InitGInv, GInvNext, PTL DEF GSpec
<1> QED  BY <1>2 DEF Mirrored2, ToolsKeepConflicts

(* ----------------------------- relations ------------------------------ *)

\* A generated relation is between two rows that were once there.
Ends == \A l \in links : l[1] \in 1..given /\ l[2] \in 1..given /\ l[1] # l[2]

LEMMA EndsKept ==
  ASSUME GInv, GInv', Ends, given' \in given..MaxRows, links' \subseteq links
  PROVE  Ends'
<1>1. 1..given \subseteq 1..given'  BY DEF GInv, Rows
<1> QED  BY <1>1 DEF Ends

\* While its budget covers them, a scan compares a row with all that are shown.
LEMMA AllCompared ==
  ASSUME MaxPairs >= MaxRows - 1, NEW table, NEW shown \in SUBSET Id, NEW m \in shown
  PROVE  Compared(table, m, shown) = shown \ {m}
<1> SUFFICES ASSUME NEW k \in shown \ {m}
             PROVE  Cardinality({j \in shown \ {m, k} : Later(table, j, k)}) < MaxPairs
  BY DEF Compared
<1> DEFINE later == {j \in shown \ {m, k} : Later(table, j, k)}
           rest == (Id \ {m}) \ {k}
<1>1. later \in SUBSET rest  OBVIOUS
<1>2. IsFiniteSet(Id) /\ Cardinality(Id) = MaxRows  BY FS_Interval DEF Id
<1>3. IsFiniteSet(Id \ {m}) /\ Cardinality(Id \ {m}) = MaxRows - 1  BY <1>2, FS_RemoveElement
<1>4. IsFiniteSet(rest) /\ Cardinality(rest) = MaxRows - 2
  <2>1. k \in Id \ {m}  OBVIOUS
  <2>2. IsFiniteSet(rest) /\ Cardinality(rest) = Cardinality(Id \ {m}) - 1
    BY <1>3, <2>1, FS_RemoveElement
  <2> QED  BY <1>3, <2>2
<1> HIDE DEF later, rest
<1>5. Cardinality(later) <= Cardinality(rest)  BY <1>1, <1>4, FS_Subset
<1>6. IsFiniteSet(later)  BY <1>1, <1>4, FS_Subset
<1>7. Cardinality(later) \in Nat  BY <1>6, FS_CardinalityType
<1>8. MaxPairs \in Nat /\ MaxRows \in Nat  BY ExtractionAssumption DEF ExtractionAssumption
<1>9. Cardinality(later) < MaxPairs  BY <1>4, <1>5, <1>7, <1>8
<1> QED  BY <1>9 DEF later

LEMMA GivenGrows ==
  ASSUME GInv, [GNext]_gvars
  PROVE  given' \in given..MaxRows
<1>0. given \in 1..MaxRows  BY DEF GInv, Rows
<1>1. CASE given' = given  BY <1>0, <1>1
<1>2. CASE given' = given + 1 /\ given < MaxRows  BY <1>0, <1>2
<1>3. CASE Insert  BY <1>1, <1>2, <1>3 DEF Insert, StoreRow
<1>4. CASE \E x \in Text : StoreCandidate(x)  BY <1>1, <1>2, <1>4 DEF StoreCandidate, StoreRow
<1>5. ASSUME ~Insert, ~ \E x \in Text : StoreCandidate(x) PROVE given' = given
  <2>1. CASE UNCHANGED gvars  BY <2>1 DEF gvars
  <2>2. CASE ToolSection
    BY <1>5, <2>2 DEF ToolSection, Mark, Update, Remark, Relate, DeleteSources
  <2>3. CASE ToolBegins
    BY <1>5, <2>3 DEF ToolBegins, StorePick, HardDelete, Forget, ToolUpdate, ToolMerge, Dedupe
  <2>4. CASE ForgettingRun
    <3>1. ASSUME NEW hard, NEW companion, Forgetting(hard, companion) PROVE given' = given
      BY <3>1 DEF Forgetting
    <3> QED  BY <2>4, <3>1 DEF ForgettingRun, ForgettingFails, ForgettingRestores
  <2>5. CASE Govern  BY <2>5 DEF Govern, GovernRead, GovernWrite
  <2>6. CASE Job
    <3>1. CASE ReviewWrite  BY <3>1 DEF ReviewWrite
    <3>2. CASE PromoteWrite  BY <3>2 DEF PromoteWrite
    <3>3. CASE RollbackWrite  BY <3>3 DEF RollbackWrite
    <3> QED
      BY <2>6, <3>1, <3>2, <3>3 DEF Job, Cleanup, Rollback, ReadFirst, CleanupWrite,
         Backfill, Hygiene, Review, Promote
  <2> QED  BY <2>1, <2>2, <2>3, <2>4, <2>5, <2>6 DEF GNext
<1> QED  BY <1>1, <1>3, <1>4, <1>5

LEMMA EndsStep ==
  ASSUME GInv, GInv', given' \in given..MaxRows, Ends, [GNext]_gvars
  PROVE  Ends'
<1>1. CASE links' \subseteq links  BY <1>1, EndsKept
<1>2. CASE Relate
  <2> DEFINE m == tool.id
             shown == {k \in There : Shown(k)}
             peers == Compared(row, m, shown)
  <2>1. \A k \in peers : k \in There /\ m \in There /\ k # m  BY DEF Compared
  <2>2. There \subseteq 1..given /\ given' = given  BY <1>2 DEF GInv, Rows, Relate
  <2>3. ASSUME NEW l \in links' PROVE l[1] \in 1..given /\ l[2] \in 1..given /\ l[1] # l[2]
    <3>1. \/ l \in links
          \/ \E k \in peers : l \in Extracted(row, m, k) \cup Extracted(row, k, m)
      BY <1>2, <2>3 DEF Relate, Related, Regenerated
    <3>2. ASSUME NEW k \in peers, l \in Extracted(row, m, k) \cup Extracted(row, k, m)
          PROVE  {l[1], l[2]} = {m, k}
      BY <3>2 DEF Extracted
    <3> HIDE DEF m, peers
    <3>3. CASE l \in links  BY <3>3 DEF Ends
    <3>4. CASE \E k \in peers : l \in Extracted(row, m, k) \cup Extracted(row, k, m)
      <4>1. PICK k \in peers : l \in Extracted(row, m, k) \cup Extracted(row, k, m)  BY <3>4
      <4>2. (l[1] = m /\ l[2] = k) \/ (l[1] = k /\ l[2] = m)  BY <4>1 DEF Extracted
      <4> QED  BY <2>1, <2>2, <4>2
    <3> QED  BY <3>1, <3>3, <3>4
  <2> QED  BY <2>2, <2>3 DEF Ends
<1>3. ASSUME ~Relate PROVE links' \subseteq links
  <2>1. CASE UNCHANGED gvars  BY <2>1 DEF gvars
  <2>2. CASE ToolSection
    BY <1>3, <2>2 DEF ToolSection, Insert, Mark, Update, Remark, DeleteSources, Delete, Unlinked
  <2>3. CASE ToolBegins
    BY <2>3 DEF ToolBegins, StorePick, StoreCandidate, HardDelete, Forget, ToolUpdate, ToolMerge,
       Dedupe, Delete, Unlinked
  <2>4. CASE ForgettingRun
    <3>1. ASSUME NEW hard, NEW companion, Forgetting(hard, companion) PROVE links' \subseteq links
      BY <3>1 DEF Forgetting, Unlinked
    <3> QED  BY <2>4, <3>1 DEF ForgettingRun, ForgettingFails, ForgettingRestores
  <2>5. CASE Govern  BY <2>5 DEF Govern, GovernRead, GovernWrite
  <2>6. CASE Job
    <3>1. CASE ReviewWrite  BY <3>1 DEF ReviewWrite, Unlinked
    <3>2. CASE Hygiene  BY <3>2 DEF Hygiene
    <3>3. CASE PromoteWrite  BY <3>3 DEF PromoteWrite
    <3>4. CASE RollbackWrite  BY <3>4 DEF RollbackWrite
    <3> QED
      BY <2>6, <3>1, <3>2, <3>3, <3>4 DEF Job, Cleanup, Rollback, ReadFirst, CleanupWrite,
         Backfill, Review, Promote
  <2> QED  BY <2>1, <2>2, <2>3, <2>4, <2>5, <2>6 DEF GNext
<1> QED  BY <1>1, <1>2, <1>3

\* What a step must leave alone for the links that it leaves: it shows no row anew
\* and rewrites none, but the one that its tool goes on to relate.
Settled(k) == Shown(k) /\ k \notin InHand

LEMMA GroundedKept ==
  ASSUME Ends, LinksGrounded, links' \subseteq links,
         \A k \in 1..given : Settled(k)' => Settled(k) /\ row'[k].text = row[k].text,
         \A pair \in edges' : pair \in edges \/ pair \cap InHand' # {}
  PROVE  LinksGrounded'
<1> SUFFICES ASSUME NEW l \in links', Shown(l[1])', Shown(l[2])', {l[1], l[2]} \cap InHand' = {}
             PROVE  Grounded(l, row', edges')
  BY DEF LinksGrounded
<1>1. l \in links /\ l[1] \in 1..given /\ l[2] \in 1..given  BY DEF Ends
<1>2. Settled(l[1])' /\ Settled(l[2])'  BY DEF Settled
<1>3. /\ Settled(l[1]) /\ row'[l[1]].text = row[l[1]].text
      /\ Settled(l[2]) /\ row'[l[2]].text = row[l[2]].text
  BY <1>1, <1>2
<1>4. Grounded(l, row, edges)  BY <1>1, <1>3 DEF LinksGrounded, Settled
<1> QED  BY <1>3, <1>4 DEF Grounded

\* Telling rows of their conflicts changes nothing else.
LEMMA SyncedText ==
  ASSUME NEW table, NEW m \in DOMAIN table, RowLike(table[m]), NEW pairs, NEW ids
  PROVE  Synced(table, pairs, ids)[m].text = table[m].text
<1>1. CASE m \notin ids  BY <1>1 DEF Synced
<1>2. CASE m \in ids
  <2> DEFINE meta == [table[m].meta EXCEPT !.conflicts = Peers(m, pairs)]
  <2>1. Synced(table, pairs, ids)[m] = [table[m] EXCEPT !.meta = meta]  BY <1>2 DEF Synced, RowLike
  <2> HIDE DEF meta
  <2> QED  BY <2>1 DEF RowLike
<1> QED  BY <1>1, <1>2

LEMMA StoreRowShows ==
  ASSUME GInv, NEW x, NEW life, StoreRow(x, life), NEW k \in 1..given, Shown(k)'
  PROVE  Shown(k) /\ row'[k].text = row[k].text
<1> DEFINE twins == {m \in There : Active(m) /\ row[m].text = x}
<1>0. There \subseteq 1..given /\ given \in 1..MaxRows  BY DEF GInv, Rows
<1>1. CASE twins # {}
  <2> DEFINE n == Newest(twins)
  <2>1. row' = [row EXCEPT ![n].at = clock']  BY <1>1 DEF StoreRow
  <2> HIDE DEF n, twins
  <2>2. There' = There  BY <2>1 DEF There
  <2>3. k \in There  BY <2>2 DEF Shown
  <2>4. RowLike(row[k])  BY <2>3 DEF GInv, Rows, Fits, There
  <2>5. row'[k] = IF k = n THEN [row[k] EXCEPT !.at = clock'] ELSE row[k]  BY <2>1, <2>3 DEF There
  <2>6. row'[k].text = row[k].text /\ row'[k].meta = row[k].meta  BY <2>4, <2>5 DEF RowLike
  <2> QED  BY <2>3, <2>6 DEF Shown
<1>2. CASE twins = {}
  <2>1. /\ given' = given + 1
        /\ row' = [m \in There \cup {given'} |-> IF m = given' THEN NewRow(x, clock', life) ELSE row[m]]
    BY <1>2 DEF StoreRow
  <2>2. k # given' /\ k \in There  BY <1>0, <2>1 DEF Shown, There
  <2>3. row'[k] = row[k]  BY <2>1, <2>2
  <2> QED  BY <2>2, <2>3 DEF Shown
<1> QED  BY <1>1, <1>2

LEMMA MarkedShows ==
  ASSUME GInv, NEW m \in 1..given, NEW text, NEW rebuild \in BOOLEAN, Marked(m, text, rebuild)
  PROVE  /\ \A k \in 1..given : Shown(k)' => Shown(k) /\ row'[k].text = row[k].text
         /\ \A pair \in edges' : pair \in edges \/ m \in pair
<1> DEFINE old == IF rebuild THEN {pair \in edges : m \in pair} ELSE {}
           found == {k \in There \ {m} : Shown(k) /\ {row[k].text, text} \in Contrary}
           pairs == (edges \ old) \cup {{m, k} : k \in found}
           affected == {m} \cup found \cup UNION old
<1>1. edges' = pairs /\ row' = IF rebuild \/ found # {} THEN Synced(row, pairs, affected) ELSE row  BY DEF Marked
<1>2. \A pair \in edges' : pair \in edges \/ m \in pair  BY <1>1
<1> HIDE DEF pairs, affected
<1>3. ASSUME NEW k \in 1..given, Shown(k)' PROVE Shown(k) /\ row'[k].text = row[k].text
  <2>1. CASE row' = row  BY <1>3, <2>1 DEF Shown, There
  <2>2. CASE row' = Synced(row, pairs, affected)
    <3>1. Fits(audit, row)  BY GivenIs
    <3>2. There' = There /\ k \in There  BY <1>3, <2>2 DEF Synced, There, Shown
    <3>3. row'[k].meta.life = row[k].meta.life  BY <2>2, <3>1, <3>2, SyncedFits DEF There
    <3>4. row'[k].text = row[k].text  BY <2>2, <3>1, <3>2, SyncedText DEF Fits, There
    <3> QED  BY <1>3, <3>2, <3>3, <3>4 DEF Shown
  <2> QED  BY <1>1, <2>1, <2>2
<1> QED  BY <1>2, <1>3

LEMMA DeleteShows ==
  ASSUME GInv, NEW ids, Delete(ids)
  PROVE  /\ \A k \in 1..given : Shown(k)' => Shown(k) /\ row'[k].text = row[k].text
         /\ edges' \subseteq edges /\ links' \subseteq links
<1> DEFINE left == Restrict(row, There \ ids)
           pairs == {pair \in edges : pair \cap ids = {}}
           peers == (UNION {Peers(m, edges) : m \in ids}) \ ids
<1>1. edges' = pairs /\ row' = Synced(left, pairs, peers) /\ links' = Unlinked(ids)  BY DEF Delete
<1>2. edges' \subseteq edges /\ links' \subseteq links  BY <1>1 DEF Unlinked
<1>3. Fits(audit, left) /\ DOMAIN left = There \ ids /\ \A m \in There \ ids : left[m] = row[m]
  BY GivenIs, RestrictFits DEF There
<1> HIDE DEF left, pairs, peers
<1>4. ASSUME NEW k \in 1..given, Shown(k)' PROVE Shown(k) /\ row'[k].text = row[k].text
  <2>1. There' = There \ ids /\ k \in There \ ids  BY <1>1, <1>3, <1>4 DEF Synced, There, Shown
  <2>2. row'[k].meta.life = row[k].meta.life  BY <1>1, <1>3, <2>1, SyncedFits
  <2>3. row'[k].text = row[k].text  BY <1>1, <1>3, <2>1, SyncedText DEF Fits
  <2> QED  BY <1>4, <2>1, <2>2, <2>3 DEF Shown
<1> QED  BY <1>2, <1>4

\* A relation of the row in hand is generated anew against every row that is shown.
LEMMA RelateGrounds ==
  ASSUME MaxPairs >= MaxRows - 1, GInv, Ends, LinksGrounded, Relate
  PROVE  LinksGrounded'
<1> DEFINE m == tool.id
           shown == {k \in There : Shown(k)}
           peers == Compared(row, m, shown)
<1>0. InHand = {m} /\ UNCHANGED <<row, edges>>  BY DEF Relate, InHand
<1>1. shown \in SUBSET Id
  <2>1. There \subseteq 1..given /\ given \in 1..MaxRows  BY DEF GInv, Rows
  <2>2. 1..given \subseteq Id  BY <2>1 DEF Id
  <2> QED  BY <2>1, <2>2
<1>2. m \in shown => peers = shown \ {m}  BY <1>1, AllCompared
<1>3. links' = Regenerated(links, row, m, shown, edges)  BY DEF Relate, Related
<1> SUFFICES ASSUME NEW l \in links', Shown(l[1]), Shown(l[2]) PROVE Grounded(l, row, edges)
  BY <1>0 DEF LinksGrounded, Shown, There
<1>4. \/ l \in links /\ \A k \in peers : {l[1], l[2]} # {m, k}
      \/ \E k \in peers : {m, k} \notin edges /\ l \in Extracted(row, m, k) \cup Extracted(row, k, m)
  BY <1>3 DEF Regenerated
<1>5. l[1] \in shown /\ l[2] \in shown  BY DEF Shown
<1> HIDE DEF m, shown, peers
<1>6. CASE l \in links /\ \A k \in peers : {l[1], l[2]} # {m, k}
  <2>1. l[1] # l[2]  BY <1>6 DEF Ends
  <2>2. l[1] # m
    <3> SUFFICES ASSUME l[1] = m PROVE FALSE  OBVIOUS
    <3>1. l[2] \in peers  BY <1>2, <1>5, <2>1
    <3> QED  BY <1>6, <3>1
  <2>3. l[2] # m
    <3> SUFFICES ASSUME l[2] = m PROVE FALSE  OBVIOUS
    <3>1. l[1] \in peers  BY <1>2, <1>5, <2>1
    <3>2. {l[1], l[2]} = {m, l[1]}  OBVIOUS
    <3> QED  BY <1>6, <3>1, <3>2
  <2>4. {l[1], l[2]} \cap InHand = {}  BY <1>0, <2>2, <2>3
  <2> QED  BY <1>6, <2>4 DEF LinksGrounded
<1>7. CASE \E k \in peers : {m, k} \notin edges /\ l \in Extracted(row, m, k) \cup Extracted(row, k, m)
  <2>1. PICK k \in peers : {m, k} \notin edges /\ l \in Extracted(row, m, k) \cup Extracted(row, k, m)
    BY <1>7
  <2>2. {k, m} = {m, k}  OBVIOUS
  <2>3. CASE l \in Extracted(row, m, k)
    <3>1. l[1] = m /\ l[2] = k /\ l[3] \in Claims(row[m].text, row[k].text)  BY <2>3 DEF Extracted
    <3> QED  BY <2>1, <3>1 DEF Grounded
  <2>4. CASE l \in Extracted(row, k, m)
    <3>1. l[1] = k /\ l[2] = m /\ l[3] \in Claims(row[k].text, row[m].text)  BY <2>4 DEF Extracted
    <3> QED  BY <2>1, <2>2, <3>1 DEF Grounded
  <2> QED  BY <2>1, <2>3, <2>4
<1> QED  BY <1>4, <1>6, <1>7

\* A step of the tool after which it has no row in hand that it had not before.
LEMMA StillGrounded ==
  ASSUME Ends, LinksGrounded, InHand \subseteq InHand', links' \subseteq links, edges' \subseteq edges,
         \A k \in 1..given : Shown(k)' => Shown(k) /\ row'[k].text = row[k].text
  PROVE  LinksGrounded'
BY GroundedKept DEF Settled

LEMMA IdleHand ==
  ASSUME tool.pc \notin {"mark", "remark", "relate"}
  PROVE  InHand = {}
BY DEF InHand

LEMMA MarkGrounds ==
  ASSUME GInv, Ends, LinksGrounded, Mark \/ Remark
  PROVE  LinksGrounded'
<1>0. InTool /\ links' = links  BY DEF GInv, Mark, Remark
<1>1. tool.pc \in {"mark", "remark"} /\ tool' = [tool EXCEPT !.pc = "relate"]  BY DEF Mark, Remark
<1>2. tool'.pc = "relate" /\ tool'.id = tool.id  BY <1>0, <1>1 DEF InTool
<1>3. InHand = {tool.id} /\ InHand' = {tool.id}  BY <1>1, <1>2 DEF InHand
<1>4. \/ \E text : \E rebuild \in BOOLEAN : tool.id \in 1..given /\ Marked(tool.id, text, rebuild)
      \/ UNCHANGED <<row, edges>>
  <2>1. CASE Mark  BY <1>0, <2>1 DEF Mark, InTool
  <2>2. CASE Remark  BY <2>2, GivenIs DEF Remark
  <2> QED  BY <2>1, <2>2
<1>5. CASE \E text : \E rebuild \in BOOLEAN : tool.id \in 1..given /\ Marked(tool.id, text, rebuild)
  <2>1. /\ \A k \in 1..given : Shown(k)' => Shown(k) /\ row'[k].text = row[k].text
        /\ \A pair \in edges' : pair \in edges \/ tool.id \in pair
    BY <1>5, MarkedShows
  <2>2. \A k \in 1..given : Settled(k)' => Settled(k) /\ row'[k].text = row[k].text
    BY <1>3, <2>1 DEF Settled
  <2>3. \A pair \in edges' : pair \in edges \/ pair \cap InHand' # {}
    <3> SUFFICES ASSUME NEW pair \in edges', pair \notin edges PROVE pair \cap InHand' # {}  OBVIOUS
    <3>1. tool.id \in pair /\ tool.id \in InHand'  BY <1>3, <2>1
    <3> QED  BY <3>1
  <2> QED  BY <1>0, <2>2, <2>3, GroundedKept
<1>6. CASE UNCHANGED <<row, edges>>
  <2>1. \A k \in 1..given : Shown(k)' => Shown(k) /\ row'[k].text = row[k].text
    BY <1>6 DEF Shown, There
  <2> QED  BY <1>0, <1>3, <1>6, <2>1, StillGrounded
<1> QED  BY <1>4, <1>5, <1>6

LEMMA InsertGrounds ==
  ASSUME GInv, Ends, LinksGrounded, NEW x, NEW life, StoreRow(x, life), UNCHANGED <<edges, links>>,
         tool.pc \notin {"mark", "remark", "relate"}
  PROVE  LinksGrounded'
<1>1. \A k \in 1..given : Shown(k)' => Shown(k) /\ row'[k].text = row[k].text  BY StoreRowShows
<1>2. InHand \subseteq InHand'  BY IdleHand
<1> QED  BY <1>1, <1>2, StillGrounded

LEMMA UpdateGrounds ==
  ASSUME GInv, Ends, LinksGrounded, Update
  PROVE  LinksGrounded'
<1>0. InTool /\ UNCHANGED <<edges, links>>  BY DEF GInv, Update
<1>1. InHand = {}  BY IdleHand DEF Update
<1>2. CASE tool.id \in There
  <2>1. row' = [row EXCEPT ![tool.id] = Rewritten(@, tool.text)] /\ tool' = [tool EXCEPT !.pc = "remark"]
    BY <1>2 DEF Update
  <2>2. tool'.pc = "remark" /\ tool'.id = tool.id  BY <1>0, <2>1 DEF InTool
  <2>3. InHand' = {tool.id}  BY <2>2 DEF InHand
  <2>4. There' = There /\ \A k \in There : k # tool.id => row'[k] = row[k]  BY <2>1 DEF There
  <2>5. \A k \in 1..given : Settled(k)' => Settled(k) /\ row'[k].text = row[k].text
    BY <1>1, <2>3, <2>4 DEF Settled, Shown
  <2> QED  BY <1>0, <2>5, GroundedKept
<1>3. CASE tool.id \notin There
  <2>1. row' = row  BY <1>3 DEF Update
  <2>2. \A k \in 1..given : Shown(k)' => Shown(k) /\ row'[k].text = row[k].text
    BY <2>1 DEF Shown, There
  <2> QED  BY <1>0, <1>1, <2>2, StillGrounded
<1> QED  BY <1>2, <1>3

LEMMA DeleteGrounds ==
  ASSUME GInv, Ends, LinksGrounded, NEW ids, Delete(ids), tool.pc \notin {"mark", "remark", "relate"}
  PROVE  LinksGrounded'
BY DeleteShows, IdleHand, StillGrounded

LEMMA ForgetGrounds ==
  ASSUME GInv, Ends, LinksGrounded, NEW m \in There, Forget(m)
  PROVE  LinksGrounded'
<1> DEFINE after == [row[m].meta EXCEPT !.life = "archived", !.forgot = clock']
<1>0. UNCHANGED <<edges, links>> /\ tool.pc = "idle"  BY DEF Forget, BeginTool
<1>1. InHand = {}  BY <1>0, IdleHand
<1>2. CASE row' = row
  <2>1. \A k \in 1..given : Shown(k)' => Shown(k) /\ row'[k].text = row[k].text
    BY <1>2 DEF Shown, There
  <2> QED  BY <1>0, <1>1, <2>1, StillGrounded
<1>3. CASE row' = WithMeta(row, m, after)
  <2>1. row' = [row EXCEPT ![m] = [row[m] EXCEPT !.meta = after, !.at = clock']]  BY <1>3 DEF WithMeta
  <2>2. RowLike(row[m]) /\ MetaLike(row[m].meta)  BY GivenIs DEF Fits, There, RowLike
  <2>3. after.life = "archived"  BY <2>2 DEF MetaLike
  <2> HIDE DEF after
  <2>4. There' = There /\ row'[m] = [row[m] EXCEPT !.meta = after, !.at = clock']
        /\ \A k \in There : k # m => row'[k] = row[k]
    BY <2>1 DEF There
  <2>5. row'[m].meta = after  BY <2>2, <2>4 DEF RowLike
  <2>6. \A k \in 1..given : Shown(k)' => Shown(k) /\ row'[k].text = row[k].text
    BY <2>3, <2>4, <2>5 DEF Shown
  <2> QED  BY <1>0, <1>1, <2>6, StillGrounded
<1> QED  BY <1>2, <1>3 DEF Forget

LEMMA ToolsGround ==
  ASSUME MaxPairs >= MaxRows - 1, GInv, Ends, LinksGrounded, ToolSection \/ ToolBegins
  PROVE  LinksGrounded'
<1>1. CASE Mark \/ Remark  BY <1>1, MarkGrounds
<1>2. CASE Relate  BY <1>2, RelateGrounds
<1>3. CASE Update  BY <1>3, UpdateGrounds
<1>4. CASE Insert
  <2>1. StoreRow(tool.text, "promoted") /\ UNCHANGED <<edges, links>>  BY <1>4 DEF Insert
  <2>2. tool.pc = "insert"  BY <1>4 DEF Insert
  <2> QED  BY <2>1, <2>2, InsertGrounds
<1>5. CASE DeleteSources  BY <1>5, DeleteGrounds DEF DeleteSources
<1>6. CASE Dedupe \/ \E m \in There : HardDelete(m)
  BY <1>6, DeleteGrounds DEF Dedupe, HardDelete, BeginTool
<1>7. CASE \E m \in There : Forget(m)  BY <1>7, ForgetGrounds
<1>8. CASE \E x \in Text : StoreCandidate(x)
  <2>1. PICK x \in Text : StoreCandidate(x)  BY <1>8
  <2>2. StoreRow(x, "candidate") /\ UNCHANGED <<edges, links>> /\ tool.pc = "idle"
    BY <2>1 DEF StoreCandidate, BeginTool
  <2> QED  BY <2>2, InsertGrounds
<1>9. ASSUME tool.pc = "idle", UNCHANGED <<row, edges, links>> PROVE LinksGrounded'
  <2>1. InHand = {}  BY <1>9, IdleHand
  <2>2. \A k \in 1..given : Shown(k)' => Shown(k) /\ row'[k].text = row[k].text
    BY <1>9 DEF Shown, There
  <2> QED  BY <1>9, <2>1, <2>2, StillGrounded
<1>10. CASE \E x \in Text : StorePick(x)  BY <1>9, <1>10 DEF StorePick, BeginTool
<1>11. CASE \E m \in There, x \in Text : ToolUpdate(m, x)  BY <1>9, <1>11 DEF ToolUpdate, BeginTool
<1>12. CASE \E m \in There, ids \in SUBSET There, x \in Text : ToolMerge(m, ids, x)
  BY <1>9, <1>12 DEF ToolMerge, BeginTool
<1> QED
  BY <1>1, <1>2, <1>3, <1>4, <1>5, <1>6, <1>7, <1>8, <1>10, <1>11, <1>12 DEF ToolSection, ToolBegins

(* A tool leaves no generated relation between shown rows that their texts no
   longer call for, as long as a scan may compare a row with all others
   (sync_extracted_relations_for_memory; update_memory, merge_memories). *)
THEOREM RelationsRefreshed == ASSUME MaxPairs >= MaxRows - 1 PROVE GSpec => ToolsKeepRelations
<1> DEFINE Refreshed == (ToolSection \/ ToolBegins) /\ LinksGrounded => LinksGrounded'
<1>1. GInit => GInv /\ Ends  BY InitGInv DEF GInit, Ends
<1>2. GInv /\ Ends /\ [GNext]_gvars => (GInv /\ Ends)'
  <2> SUFFICES ASSUME GInv, Ends, [GNext]_gvars PROVE GInv' /\ Ends'  OBVIOUS
  <2>1. GInv'  BY GInvNext
  <2>2. given' \in given..MaxRows  BY GivenGrows
  <2> QED  BY <2>1, <2>2, EndsStep
<1>3. GInv /\ Ends /\ [GNext]_gvars => [Refreshed]_gvars  BY ToolsGround
<1> HIDE DEF Refreshed
<1>4. GSpec => [][Refreshed]_gvars  BY <1>1, <1>2, <1>3, PTL DEF GSpec
<1> QED  BY <1>4 DEF Refreshed, ToolsKeepRelations
==============================================================================
