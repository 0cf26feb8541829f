-------------------------------- MODULE Recall --------------------------------
(***************************************************************************)
(* A search of the memories of one runtime (recall.py, recall_pipeline.py, *)
(* storage_views.py), what a turn puts into the prompt (prompting.py), the *)
(* telemetry of it (telemetry.py), and the surfaces that list rows without *)
(* a search (memory_ops.py), beside writers that change the truth and the  *)
(* index in other processes.                                               *)
(*                                                                         *)
(* A search reads the store several times and holds no lock in between:    *)
(* the rows its words find, the index, the truth of what the index gave,   *)
(* whether those may be retrieved, the curated files, and, after merging   *)
(* what it has, once more whether all of it may be retrieved.              *)
(***************************************************************************)
EXTENDS RecallScore, ScopeIdentity, SequencesExt

CONSTANTS
    Memory, Text,
    Curated,        \* ids of the entries of the curated files
    CuratedText,    \* [Curated -> Text]
    Author,         \* [Memory -> [account, chat, config]]  who wrote it, under which mapping
    TargetOf,       \* [Memory -> "general", "pooled" or "project"]
    Historical,     \* memories of retrieval policy historical_only
    Edges,          \* stored relations, records [from, type, to]
    FirstRows,      \* the rows a run may begin with, a set of functions on Memory
    Readers,        \* the runtimes that may search, records [account, chat, config]
    Pool,           \* the pool's id, or Empty when it is not enabled
    CuratedMode, CuratedUsers,
    Limit, CandidatePool, VectorTopK,
    GeneralMode, GeneralWeight,
    MaxItems, MinRepeated,
    Session,
    MaxWrites, MaxTurn, MaxSearches, MaxFaults   \* bounds of an instance

VARIABLES
    row,        \* [Memory -> the row]: here, life, excluded, text, at, hits
    record,     \* [Memory -> the record of the index, a set of at most one]
    clock,      \* the time of the last change of a row
    reader,     \* the runtime this provider serves
    pc, kind,   \* where a search stands, and for whom it runs
    lex, hits, vec,     \* candidates so far, and what the index returned
    ranked, rejected,   \* the outcome: kept candidates in order, and the others
    block,      \* ids a turn puts into the prompt, while their telemetry is written
    listed,     \* ids a surface without a search shows now
    session, turn, lastTurn,    \* of the provider, in memory
    log,        \* injected events, the append-only log
    failures,   \* telemetry_write_failures
    searches, faults,
    seen, checked, wrote    \* history: recallable at some moment, eligible at the last check,
                            \* and whether a row changed, since the search began

truth   == <<row, record, clock>>
found   == <<lex, hits, vec>>
outcome == <<ranked, rejected, block>>
agent   == <<session, turn, lastTurn>>
events  == <<log, failures>>
history == <<seen, checked, wrote>>
vars    == <<truth, reader, pc, kind, found, outcome, listed, agent, events, searches, faults, history>>

Life == {"promoted", "candidate", "archived"}
Row  == [here : BOOLEAN, life : Life, excluded : BOOLEAN, text : Text, at : Nat, hits : Nat]

\* A run begins with rows that were not injected yet.  An operator who maps
\* accounts may add to the mapping between a write and a read, but he gives no
\* person's name to another; a mapping that is read names accounts that are.
ASSUME RecallAssumption ==
    /\ IsFiniteSet(Memory) /\ Memory # {} /\ IsFiniteSet(Curated) /\ Memory \cap Curated = {}
    /\ FirstRows \subseteq [Memory -> Row] /\ \A first \in FirstRows, m \in Memory : first[m].hits = 0
    /\ TargetOf \in [Memory -> {"general", "pooled", "project"}] /\ CuratedText \in [Curated -> Text]
    /\ Overlap \in [Text -> Nat]
    /\ Limit \in Nat /\ CandidatePool \in Nat /\ VectorTopK \in Nat /\ MaxItems \in Nat /\ MaxTurn \in Nat
    /\ Author \in [Memory -> Runtime] /\ Readers \subseteq Runtime
    /\ \A r \in Readers, m \in Memory : Author[m].config.aliases \subseteq r.config.aliases
    /\ \A r \in Readers : \A alias \in r.config.aliases : alias.canonical # Empty /\ alias.account = Key(alias.account)

\* Where a writer of this account puts a row, by its target.
ScopeOf ==
    [m \in Memory |->
       LET a == Author[m]
       IN  CASE TargetOf[m] = "general" -> LocalScope(a.account, a.chat, a.config)
             [] TargetOf[m] = "pooled"  -> PoolScope(Normalized(a.account, a.config), Pool)
             [] OTHER                   -> SharedScope(a.account, a.config)]

AccessibleTo ==
    [r \in Readers |->
       AccessibleScopes(r.account, r.chat, r.config)
       \cup IF Pool = Empty THEN {} ELSE {PoolScope(Normalized(r.account, r.config), Pool)}]

Accessible == AccessibleTo[reader]

\* Candidates and archived rows are hidden from a search.
Visible(m) == row[m].life \notin {"candidate", "archived"}

\* The graph and the index hide archived rows only.
Kept(m) == row[m].life # "archived"

\* The proof by the excluded, as it was before: an id nobody knows passes.
NotExcluded(ids) == {m \in ids : ~(row[m].here /\ row[m].excluded)}

\* Positive proof: the row is there and is not excluded.
Eligible(ids) == {m \in ids : row[m].here /\ ~row[m].excluded}

Recallable(m) == m \in Eligible(Memory) /\ Visible(m) /\ ScopeOf[m] \in Accessible

-------------------------------------------------------------------------------
\* The rows the words find: the best of the full-text index and the newest
\* that contain a word, of each at most SqlPool.

SqlPool == 2 * (IF CandidatePool > Limit THEN CandidatePool ELSE Limit)

\* The members of a set, none behind one that is better.
Orders(S, Better(_, _)) == {s \in SetToSeqs(S) : \A i, j \in DOMAIN s : i < j => ~Better(s[j], s[i])}

\* What of a sequence belongs to a set, in its order.
Only(s, S) ==
    LET places == {n \in DOMAIN s : s[n] \in S}
    IN  [k \in 1..Cardinality(places) |->
           s[CHOOSE n \in places : Cardinality({x \in places : x <= n}) = k]]

Best(S, n, Better(_, _)) == {x \in S : Cardinality({y \in S \ {x} : Better(y, x)}) < n}

ByRank(x, y) ==
    \/ Overlap[row[x].text] > Overlap[row[y].text]
    \/ Overlap[row[x].text] = Overlap[row[y].text] /\ row[x].at > row[y].at
ByTime(x, y) == row[x].at > row[y].at

\* As it was once: the limit first, the hidden taken out of what it left.
SqlRowsLimitFirst ==
    LET rows == {m \in Memory : row[m].here /\ ScopeOf[m] \in Accessible /\ Overlap[row[m].text] > 0}
        kept == {m \in Best(rows, SqlPool, ByTime) : Recallable(m)}
    IN  [fts |-> kept, all |-> kept]

\* What the query's words select: the full-text rows and the others.
SqlRows ==
    LET rows == {m \in Memory : Recallable(m) /\ Overlap[row[m].text] > 0}
    IN  [fts |-> Best(rows, SqlPool, ByRank), all |-> Best(rows, SqlPool, ByRank) \cup Best(rows, SqlPool, ByTime)]

LexItem(m, rows) ==
    [id |-> m, text |-> row[m].text, at |-> row[m].at, target |-> TargetOf[m], scope |-> ScopeOf[m], path |-> "lexical",
     lex |-> LexicalScore(row[m].text, "turn", TargetOf[m]), vec |-> 0, rrf |-> 0,
     bm |-> IF m \in rows.fts THEN Bm25Score(row[m].text, {row[x].text : x \in rows.fts}) ELSE Absent]

VecItem(h) ==
    [id |-> h.id, text |-> h.text, at |-> h.at, target |-> TargetOf[h.id], scope |-> ScopeOf[h.id], path |-> "vector",
     lex |-> 0, vec |-> Similarity[h.text], rrf |-> 0, bm |-> Absent]

CuratedItem(c) ==
    [id |-> c, text |-> CuratedText[c], at |-> 0, target |-> "user", scope |-> <<>>, path |-> "curated",
     lex |-> LexicalScore(CuratedText[c], "curated", "user"), vec |-> 0, rrf |-> 0, bm |-> Absent]

\* Curated files belong to the profile: who may read them is a policy.
CuratedAllowed ==
    LET user == Normalized(reader.account, reader.config).user
    IN  CASE CuratedMode = "disabled" -> FALSE
          [] CuratedUsers # {} -> user \in CuratedUsers
          [] CuratedMode = "explicit-users" -> FALSE
          [] CuratedMode = "profile-global" -> TRUE
          [] OTHER -> user = Empty

CuratedFound ==
    IF CuratedAllowed THEN {i \in {CuratedItem(c) : c \in Curated} : i.lex >= MinScore} ELSE {}

Clear ==
    /\ lex' = {} /\ hits' = {} /\ vec' = {}
    /\ ranked' = <<>> /\ rejected' = {} /\ block' = <<>>

\* A step of the search, which changes no row, and what the history keeps of it.
Searching(from, to) ==
    /\ pc = from
    /\ pc' = to
    /\ UNCHANGED <<truth, reader, kind, listed, searches>>

Fails == faults < MaxFaults /\ faults' = faults + 1
Works == UNCHANGED faults

-------------------------------------------------------------------------------
Init ==
    /\ row \in FirstRows
    /\ record = [m \in Memory |-> {[id |-> m, text |-> row[m].text, at |-> row[m].at]}]
    /\ clock = Max({row[m].at : m \in Memory})
    /\ reader \in Readers
    /\ pc = "idle" /\ kind = "tool"
    /\ lex = {} /\ hits = {} /\ vec = {}
    /\ ranked = <<>> /\ rejected = {} /\ block = <<>> /\ listed = {}
    /\ session = (CHOOSE x \in Session : TRUE) /\ turn = 0 /\ lastTurn = [m \in Memory \cup Curated |-> 0]
    /\ log = {} /\ failures = 0
    /\ searches = 0 /\ faults = 0
    /\ seen = {} /\ checked = {} /\ wrote = FALSE

\* A search begins: for a tool, for a context pack, or for the prompt of a turn.
Begin ==
    /\ pc = "idle" /\ searches < MaxSearches
    /\ pc' = "lexical" /\ kind' \in {"tool", "context", "prefetch"}
    /\ Clear
    /\ searches' = searches + 1
    /\ seen' = {m \in Memory : Recallable(m)} /\ checked' = {} /\ wrote' = FALSE
    /\ listed' = {}
    /\ UNCHANGED <<truth, reader, agent, events, faults>>

SearchRows ==
    /\ Searching("lexical", "vector")
    /\ lex' = {i \in {LexItem(m, SqlRows) : m \in SqlRows.all} : 2 * i.lex >= MinScore}
    /\ UNCHANGED <<hits, vec, outcome, agent, events, faults, history>>

\* The index answers by similarity, each scope for itself, knowing neither
\* lifecycle nor exclusion; or it is not there.
TopK == Max({CandidatePool, Limit, VectorTopK})

SearchIndex ==
    /\ Searching("vector", "meta")
    /\ \/ LET records == {h \in UNION {record[m] : m \in Memory} : ScopeOf[h.id] \in Accessible}
          IN  \E pick \in SUBSET records :
                 /\ \A scope \in {ScopeOf[h.id] : h \in records} :
                       LET near == {h \in records : ScopeOf[h.id] = scope}
                       IN  /\ Cardinality(pick \cap near) = Min({TopK, Cardinality(near)})
                           /\ \A h \in pick \cap near, x \in near \ pick : Similarity[h.text] >= Similarity[x.text]
                 /\ hits' = pick
          /\ Works
       \/ hits' = {} /\ Fails
    /\ UNCHANGED <<lex, vec, outcome, agent, events, history>>

\* The truth of what the index gave: rows that are gone or hidden drop out.
ReadTruth ==
    /\ Searching("meta", "proof")
    /\ \/ /\ vec' = {VecItem(h) : h \in {x \in hits : /\ row[x.id].here /\ Visible(x.id)
                                                      /\ Similarity[x.text] >= VectorMinScore}}
          /\ Works
       \/ vec' = {} /\ Fails
    /\ hits' = {}
    /\ UNCHANGED <<lex, outcome, agent, events, history>>

ProveHits ==
    /\ Searching("proof", "verify")
    /\ \/ vec' = {i \in vec : i.id \in Eligible(Memory)} /\ Works
       \/ vec' = {} /\ Fails
    /\ UNCHANGED <<lex, hits, outcome, agent, events, history>>

-------------------------------------------------------------------------------
\* Rankings of the three searches, for the fusion.
Places(items, Better(_, _)) ==
    [id \in {i.id : i \in items} |->
       LET i == CHOOSE x \in items : x.id = id
       IN  1 + Cardinality({y \in items : Better(y, i)})]

Rankings ==
    LET ByWord(x, y) == x.bm > y.bm \/ (x.bm = y.bm /\ x.at > y.at)
        ByMeaning(x, y) == x.vec > y.vec \/ (x.vec = y.vec /\ x.at > y.at)
        ByGrade(x, y) == x.lex > y.lex
    IN  [lexical |-> [place |-> Places(lex, ByWord), weight |-> 1000],
         bm25    |-> [place |-> Places({i \in lex : i.bm > 0}, ByWord), weight |-> 1000],
         vector  |-> [place |-> Places(vec, ByMeaning), weight |-> 1000],
         curated |-> [place |-> Places(CuratedFound, ByGrade), weight |-> 1250]]

Candidates ==
    LET items == lex \cup vec \cup CuratedFound
        fused == RrfScores({i.id : i \in items}, Rankings)
    IN  {[i EXCEPT !.rrf = fused[i.id]] : i \in items}

\* Scratch and durable texts are merged apart; curated entries stay alone.
DedupKey(i) ==
    IF i.path = "curated" THEN <<"curated", i.id>>
    ELSE <<IF i.target = "general" THEN "scratch" ELSE "durable", i.text>>

Preferred(group) ==
    LET newest == {i \in group : \A j \in group : i.at >= j.at}
        words  == {i \in newest : i.path = "lexical"}
    IN  CHOOSE i \in newest : words # {} => i \in words

MergeGroup(group) ==
    LET p == Preferred(group)
    IN  [p EXCEPT !.lex = Max({i.lex : i \in group}),
                  !.vec = Max({i.vec : i \in group}),
                  !.rrf = Max({i.rrf : i \in group}),
                  !.bm  = IF p.bm # Absent THEN p.bm ELSE Max({i.bm : i \in group})]

\* Candidates of one text become one: the newest stays, with the best scores.
Merged(items) ==
    {MergeGroup({i \in items : DedupKey(i) = k}) : k \in {DedupKey(i) : i \in items}}

\* Scratch rows count less, and by default only those of this conversation.
GeneralPolicy(items) ==
    LET weigh(i) == [i EXCEPT !.lex = Times(i.lex, GeneralWeight), !.vec = Times(i.vec, GeneralWeight),
                              !.rrf = Times(i.rrf, GeneralWeight),
                              !.bm = IF i.bm = Absent THEN 0 ELSE Times(i.bm, GeneralWeight)]
        own == LocalScope(reader.account, reader.chat, reader.config)
    IN  {IF i.target = "general" THEN weigh(i) ELSE i :
           i \in {x \in items : \/ x.target # "general"
                                \/ GeneralMode = "always"
                                \/ GeneralMode = "same-scope" /\ x.scope = own}}

\* The last line of defence: what cannot be proved eligible now is out, and
\* everything of the store is out when the proof cannot be had.
Verify ==
    /\ Searching("verify", "rank")
    /\ LET merged  == Merged(Candidates)
           curated == {i \in merged : i.path = "curated"}
       IN  \/ /\ lex' = GeneralPolicy(curated \cup {i \in merged : i.id \in Eligible({x.id : x \in merged} \cap Memory)})
              /\ checked' = {m \in Memory : row[m].here /\ ~row[m].excluded} /\ Works
           \/ lex' = curated /\ checked' = {} /\ Fails
    /\ vec' = {}
    /\ UNCHANGED <<hits, outcome, agent, events, seen, wrote>>

\* Relations count between rows that may be seen.
Evidence ==
    LET known == {m \in Memory : row[m].here /\ Visible(m) /\ ScopeOf[m] \in Accessible}
    IN  {e \in Edges : e.from \in known /\ e.to \in known}

\* The candidates with the scores they are kept by, and the kept with those
\* they are ordered by.  Of equals the larger id comes first, here any.
Graded == {[item |-> i, base |-> BaseScore(i, lex, Evidence)] : i \in lex}
Passed == {g \in Graded : ~Rejects(g.item, g.base)}
Scored ==
    LET times == {g.item.at : g \in Passed}
    IN  {[id |-> g.item.id, text |-> g.item.text, at |-> g.item.at, base |-> g.base,
          score |-> g.base + RecencyBonus(g.item, g.base, times)] : g \in Passed}

Ahead(x, y) ==
    \/ x.score > y.score
    \/ x.score = y.score /\ x.base > y.base
    \/ x.score = y.score /\ x.base = y.base /\ x.at > y.at

Rank ==
    /\ Searching("rank", CASE kind = "tool" -> "idle" [] kind = "prefetch" -> "render" [] OTHER -> "check")
    /\ \E order \in Orders(Scored, Ahead) :
          /\ ranked' = [n \in DOMAIN order |-> [id |-> order[n].id, text |-> order[n].text]]
          /\ block' = IF kind = "context" THEN [n \in 1..Min({Limit, Len(order)}) |-> order[n].id] ELSE <<>>
    /\ rejected' = {g.item.text : g \in Graded \ Passed}
    /\ lex' = {}
    /\ UNCHANGED <<hits, vec, agent, events, faults, history>>

\* The limit forgotten where the list is cut.
ReturnedAll == ranked

\* What a search returns.
Returned == SubSeq(ranked, 1, Min({Limit, Len(ranked)}))

-------------------------------------------------------------------------------
\* The block of a turn: not what a recent turn had, and only so many.
Recent(id) == lastTurn[id] # 0 /\ turn - lastTurn[id] < MinRepeated

Render ==
    /\ pc = "render"
    /\ LET ids   == [n \in DOMAIN Returned |-> Returned[n].id]
           fresh == Only(ids, {id \in Range(ids) : ~Recent(id)})
           taken == SubSeq(fresh, 1, Min({MaxItems, Len(fresh)}))
       IN  /\ block' = taken
           /\ lastTurn' = [id \in DOMAIN lastTurn |-> IF id \in Range(taken) THEN turn ELSE lastTurn[id]]
           /\ pc' = IF taken = <<>> THEN "idle" ELSE "check"
    /\ UNCHANGED <<truth, reader, kind, found, ranked, rejected, listed, session, turn, events, searches, faults, history>>

\* Telemetry asks again which of them may be injected, without the lock ...
Countable(id) == id \in Eligible(Memory) /\ id \notin Historical

CheckInjected ==
    /\ Searching("check", "inject")
    /\ \/ block' = Only(block, Curated) \o Only(block, {m \in Memory : Countable(m)}) /\ Works
       \/ block' = Only(block, Curated) /\ Fails
    /\ UNCHANGED <<found, ranked, rejected, agent, events, history>>

\* ... and writes events and counters under it, all or none: an event that is
\* there already counts nothing, a row that changed meanwhile undoes all.
Request == <<IF kind = "context" THEN "context" ELSE "recall", session, turn>>

Entries == {[request |-> Request, id |-> block[n], rank |-> n] : n \in DOMAIN block}

\* The counters moved for every event, also for one that was there already.
CountedAgain(id) == Cardinality({e \in Entries : e.id = id})

\* What the counters of the rows count: events that were new.
Counted(id) == Cardinality({e \in Entries \ log : e.id = id})

WriteInjected ==
    /\ pc = "inject" /\ pc' = "idle"
    /\ \/ /\ \A e \in Entries \ log : e.id \in Memory => Countable(e.id)
          /\ log' = log \cup Entries
          /\ row' = [m \in Memory |-> [row[m] EXCEPT !.hits = @ + Counted(m)]]
          /\ UNCHANGED failures /\ Works
       \/ /\ \E e \in Entries \ log : e.id \in Memory /\ ~Countable(e.id)
          /\ failures' = failures + 1
          /\ UNCHANGED <<log, row>> /\ Works
       \/ failures' = failures + 1 /\ UNCHANGED <<log, row>> /\ Fails
    /\ block' = <<>>
    /\ UNCHANGED <<record, clock, reader, kind, found, ranked, rejected, listed, agent, searches, history>>

\* The host starts a turn, and switches sessions, with or without forgetting
\* what it recalled; a process begun anew for a session has forgotten it too.
TurnStart ==
    /\ pc = "idle" /\ turn < MaxTurn /\ searches < MaxSearches
    /\ turn' = turn + 1 /\ listed' = {}
    /\ UNCHANGED <<truth, reader, pc, kind, found, outcome, session, lastTurn, events, searches, faults, history>>

SessionSwitch ==
    /\ pc = "idle" /\ searches < MaxSearches
    /\ session' \in Session /\ listed' = {}
    /\ \/ turn > 0 /\ turn' = 0 /\ lastTurn' = [id \in DOMAIN lastTurn |-> 0]
       \/ session' # session /\ UNCHANGED <<turn, lastTurn>>
    /\ UNCHANGED <<truth, reader, pc, kind, found, outcome, events, searches, faults, history>>

-------------------------------------------------------------------------------
\* The surfaces that list rows without a search.  A profile shows promoted
\* rows, of scratch also candidates; a probe shows all that
\* are not archived.
ProfileShows(m, candidates) ==
    /\ row[m].here /\ ScopeOf[m] \in Accessible
    /\ IF candidates \/ TargetOf[m] = "general" THEN row[m].life # "archived" ELSE row[m].life = "promoted"

ProbeShows(m) == row[m].here /\ ScopeOf[m] \in Accessible /\ Kept(m)

ArchiveShows(m) == row[m].here /\ row[m].excluded /\ ScopeOf[m] \in Accessible

Browse ==
    /\ pc = "idle" /\ searches < MaxSearches
    /\ \/ \E candidates \in BOOLEAN : listed' = {m \in Memory : ProfileShows(m, candidates)}
                                                \cup (IF CuratedAllowed THEN Curated ELSE {})
       \/ listed' = {m \in Memory : ProbeShows(m)}
       \/ listed' = {m \in Memory : ArchiveShows(m)}
    /\ kind' = "browse"
    /\ Clear
    /\ searches' = searches + 1
    /\ UNCHANGED <<truth, reader, pc, agent, events, faults, history>>

-------------------------------------------------------------------------------
\* Other processes change the rows.
Change(m, new) ==
    /\ clock' = clock + 1
    /\ row' = [row EXCEPT ![m] = new]
    /\ listed' = {}
    /\ UNCHANGED <<record, reader, pc, kind, found, outcome, agent, events, searches, faults, checked>>
    /\ seen' = seen \cup {x \in Memory : Recallable(x)'}
    /\ wrote' = TRUE

MayChange(m) == row[m].here /\ clock < Cardinality(Memory) + MaxWrites

Archive(m) == MayChange(m) /\ row[m].life # "archived" /\ Change(m, [row[m] EXCEPT !.life = "archived", !.at = clock + 1])
Promote(m) == MayChange(m) /\ row[m].life = "candidate" /\ Change(m, [row[m] EXCEPT !.life = "promoted", !.at = clock + 1])
Rewrite(m) == MayChange(m) /\ \E text \in Text \ {row[m].text} : Change(m, [row[m] EXCEPT !.text = text, !.at = clock + 1])
Delete(m)  == MayChange(m) /\ Change(m, [row[m] EXCEPT !.here = FALSE])
Exclude(m) == MayChange(m) /\ ~row[m].excluded /\ Change(m, [row[m] EXCEPT !.excluded = TRUE])

\* The index follows when it can: a record is brought up to date or removed.
SyncIndex(m) ==
    /\ record' = [record EXCEPT ![m] = IF row[m].here /\ Kept(m)
                                       THEN {[id |-> m, text |-> row[m].text, at |-> row[m].at]} ELSE {}]
    /\ record' # record
    /\ listed' = {}
    /\ UNCHANGED <<row, clock, reader, pc, kind, found, outcome, agent, events, searches, faults, history>>

Search  == Begin \/ SearchRows \/ SearchIndex \/ ReadTruth \/ ProveHits \/ Verify \/ Rank
Inject  == Render \/ CheckInjected \/ WriteInjected
Write   == \E m \in Memory : Archive(m) \/ Promote(m) \/ Rewrite(m) \/ Delete(m) \/ Exclude(m) \/ SyncIndex(m)

Next == Search \/ Inject \/ TurnStart \/ SessionSwitch \/ Browse \/ Write

Spec == Init /\ [][Next]_vars

-------------------------------------------------------------------------------
\* The state has the shape the code gives it.
QTypeOK ==
    /\ \A m \in Memory : /\ row[m].here \in BOOLEAN /\ row[m].excluded \in BOOLEAN
                         /\ row[m].life \in Life /\ row[m].text \in Text
                         /\ row[m].at <= clock /\ row[m].hits <= Cardinality(log)
                         /\ Cardinality(record[m]) <= 1
    /\ pc \in {"idle", "lexical", "vector", "meta", "proof", "verify", "rank", "render", "check", "inject"}
    /\ \A n \in DOMAIN block : block[n] \in Memory \cup Curated
    /\ Range(block) \subseteq Memory \cup Curated
    /\ Len(Returned) <= Limit
    /\ \A id \in DOMAIN lastTurn : lastTurn[id] <= turn

\* However writers move between the reads of a search: a row it returns was
\* one it might recall at some moment of the search, and it was there and not
\* excluded at the last check, after which nothing joins the candidates.  What
\* an archive, a delete or an exclusion took away before is not brought back
\* by the index or by a duplicate (recall.py, _filter_eligible).
ShownWasRecallable ==
    \A n \in DOMAIN ranked : ranked[n].id \in Memory => ranked[n].id \in seen \cap checked

\* One runtime and the author of a row are the same person, by the account or
\* by the mapping of the operator.
SamePerson(a, b) ==
    \/ Key(Normalized(a, reader.config)) = Key(Normalized(b, reader.config))
    \/ \E x, y \in reader.config.aliases :
          /\ x.account = Key(Normalized(a, reader.config)) /\ y.account = Key(Normalized(b, reader.config))
          /\ x.canonical = y.canonical

\* Nobody is shown what somebody else wrote, and scratch of one conversation
\* is shown in no other (scope.py: a safety boundary).
OnlyOwnMemories ==
    \A m \in ({ranked[n].id : n \in DOMAIN ranked} \cup listed) \cap Memory :
       /\ SamePerson(reader.account, Author[m].account)
       /\ TargetOf[m] = "general" => Author[m].chat \in {reader.chat, Empty}

\* A search during which no row changes, and whose last check answers, finds
\* what there is, with the index or without it: when not more rows match than
\* a query may select, the text of each durable one is among the kept or the
\* rejected.  Rows that are hidden, excluded or foreign take
\* no place in the limit and suppress no duplicate (storage_views.py).
LiveMatchIsFound ==
    LET matches == {m \in Memory : Recallable(m) /\ Overlap[row[m].text] > 0}
    IN  /\ pc = "idle" /\ searches > 0 /\ kind # "browse" /\ ~wrote /\ matches \subseteq checked
        /\ Cardinality(matches) <= SqlPool
        => \A m \in matches : TargetOf[m] # "general" =>
              row[m].text \in rejected \cup {ranked[n].text : n \in DOMAIN ranked}

\* The counter of a row counts the injected events of the log, whatever fails
\* or is repeated, within a turn or after a restart (telemetry.py).
HitsMatchLog ==
    \A m \in Memory : row[m].here => row[m].hits = Cardinality({e \in log : e.id = m})

\* Documented for the index too (docs/governance.cleanup.md), and not so: an
\* archived row whose record is still there takes a place of a live one.
ArchivedTakeNoPlace ==
    pc = "proof" /\ ~wrote /\ faults = 0 =>
       \A m \in Memory : LET near == {x \in Memory : Recallable(x) /\ ScopeOf[x] = ScopeOf[m] /\ record[x] # {}}
                         IN  /\ Recallable(m) /\ record[m] = {[id |-> m, text |-> row[m].text, at |-> row[m].at]}
                             /\ Similarity[row[m].text] >= VectorMinScore
                             /\ Cardinality(near) <= TopK
                             => m \in {i.id : i \in vec}

\* Said of the search of archived rows (storage_views.py), and not so: a
\* profile and a probe list excluded rows too.
OnlyArchiveShowsExcluded == \A m \in listed \cap Memory : row[m].excluded => \A x \in listed : x \in Memory /\ row[x].excluded

===============================================================================
