--------------------------- MODULE NightlyDigest ---------------------------
(* nightly_digest.py: a job that reads one day of sessions from the host's
   database, asks an LLM chunk by chunk what is worth keeping, and writes that to
   the memories, beside another run of the same day and beside whoever else writes
   the table: tools, captures and the journal digest store, rewrite, archive and
   delete in the same scopes.  There is no watermark: a run that died is simply begun again, and
   what keeps it from storing everything twice is find_match and the sweep.
   A content is a set of facts; the candidates of one target are modelled. *)
EXTENDS Naturals, FiniteSets, FiniteSetsExt, Sequences, SequencesExt

CONSTANTS Run,         \* runs of the digest on this date, by cron and by hand
          Day,         \* the sessions of the database, in the order they started
          Talk,        \* its messages, in the order of their time stamps
          Header, ChunkChars, MaxSessionChars, \* sizes, in characters
          Gist,        \* session -> the facts a heuristic candidate would hold
          Draft,       \* candidates the LLM may name
          Failure,     \* exceptions a call may raise
          Fact, Contrary, \* facts, and pairs of them that exclude each other
          Known,       \* memories of before: a text, a scope and a life
          AllowFallback, MaxAttempts, LimitSessions,
          MaxRows, MaxWrites, \* bounds: rows ever stored, writes to rows
          Window,      \* rows that find_match looks at
          Writer, Told \* who else stores into the scopes of this profile, and texts they may write

ASSUME NightlyAssumption ==
    /\ MaxAttempts \in Nat \ {0} /\ MaxRows \in Nat /\ Window \in Nat
    /\ \A d \in Draft : d.text \subseteq Fact
    /\ "none" \notin Run /\ \A text \in Told : text \subseteq Fact

Id == 1..MaxRows
Scope == {"shared", "own", "pooled"} \* pooled: readable and not this profile's to write
Writable == {"shared", "own"}

VARIABLES row,     \* memories: id -> row
          given,   \* ids given so far
          sources, \* memory_digest_sources, as pairs <<row, run>>
          ledger,  \* nightly_digest_runs: run -> status
          nightly, \* what each process of the digest has in hand
          now,     \* writes so far, the time of the last one
          desk,    \* what each other writer is about to insert
          fresh    \* history: rows others inserted or rewrote since a sweep last looked at every text

others == <<desk, fresh>>
nvars == <<row, given, sources, ledger, nightly, now, desk, fresh>>

(* ----------------------------- candidates ----------------------------- *)

\* score_digest_candidate
Reusable(c) == c.trigger /\ (c.verified \/ c.steps) /\ ~c.transient /\ ~c.raw
Quality(c) ==
    CASE c.raw \/ c.transient \/ (c.toolchain /\ ~c.verified) -> "reject"
      [] c.kind \in {"workflow", "procedure", "pitfall"} /\ Reusable(c) -> "promote"
      [] c.kind # "summary" /\ c.sure /\ (Reusable(c) \/ c.verified) -> "promote"
      [] OTHER -> "candidate"

\* candidate_is_allowed; durable: long enough, and let through by the capture filters
Allowed(c) == c.durable /\ Quality(c) # "reject"
LifeOf(c) == IF Quality(c) = "candidate" THEN "candidate" ELSE "promoted"

\* load_session_bundles: the sessions of the day that have a message in a known role.
Said(s) == SelectSeq(Talk, LAMBDA m : m.session = s /\ m.today /\ m.role \in {"user", "assistant", "tool"})
Bundles ==
    LET all == SelectSeq(Day, LAMBDA s : Said(s) # <<>>)
    IN  IF LimitSessions > 0 THEN SubSeq(all, 1, Min({LimitSessions, Len(all)})) ELSE all

\* session_chunks: lines are added to a chunk until the next one would not fit.
ChunkCount(s) ==
    LET lines == SelectSeq(Said(s), LAMBDA m : m.role # "tool" /\ m.kept)
        total == FoldLeft(LAMBDA n, m : n + m.size, Header, lines)
        add(acc, m) == IF acc.size + m.size + 1 > ChunkChars /\ acc.size > Header
                       THEN [full |-> acc.full + 1, size |-> Header + m.size + 1]
                       ELSE [acc EXCEPT !.size = @ + m.size + 1]
    IN  IF Min({total, MaxSessionChars}) <= ChunkChars THEN 1
        ELSE FoldLeft(add, [full |-> 0, size |-> Header], lines).full + 1

\* heuristic_candidates: a workflow of the tools of a task, else a summary of what was asked.
Heuristic(s) ==
    LET some(role, P(_)) == \E m \in Range(Said(s)) : m.role = role /\ P(m)
        tools == some("tool", LAMBDA m : m.tool) \/ some("assistant", LAMBDA m : m.tool)
        draft(kind, verified, steps) ==
            [text |-> Gist[s], kind |-> kind, raw |-> FALSE, transient |-> FALSE, durable |-> TRUE, sure |-> TRUE,
             trigger |-> TRUE, verified |-> verified, steps |-> steps, toolchain |-> kind = "workflow"]
    IN  IF tools
        THEN <<draft("workflow", some("assistant", LAMBDA m : m.proof), some("assistant", LAMBDA m : m.tool))>>
        ELSE IF some("user", LAMBDA m : m.hint /\ m.size >= 60)
        THEN <<draft("summary", some("user", LAMBDA m : m.proof), FALSE)>>
        ELSE <<>>

(* ------------------------------ the LLM ------------------------------- *)

\* classify_llm_error looks for words in this order; the first kind that has one wins.
Kinds == << [kind |-> "timeout", words |-> {"timed out"}, retry |-> TRUE],
            [kind |-> "rate_limit", words |-> {"429"}, retry |-> TRUE],
            [kind |-> "server", words |-> {"500"}, retry |-> TRUE],
            [kind |-> "network", words |-> {"connection"}, retry |-> TRUE],
            [kind |-> "auth", words |-> {"401"}, retry |-> FALSE],
            [kind |-> "quota", words |-> {"402"}, retry |-> FALSE],
            [kind |-> "parse", words |-> {"json"}, retry |-> FALSE] >>
Unknown == [kind |-> "unknown", words |-> {}, retry |-> TRUE]
Classify(words) ==
    LET hits == {i \in DOMAIN Kinds : Kinds[i].words \cap words # {}}
    IN  IF hits = {} THEN Unknown ELSE Kinds[Min(hits)]

\* call_llm_with_retries raises again with the name of the exception's class in front.
Raised(f) == f.words \cup f.class \cup Classify(f.words).words

\* _parse_llm_candidates_with_status
ReplyStatus(reply) ==
    CASE reply.form = "empty" -> "empty"
      [] reply.form = "garbled" -> "parse"
      [] \E d \in reply.items : Allowed(d) -> "parsed"
      [] reply.items = {} -> "explicit_skip"
      [] OTHER -> "filtered"
Replies == {[form |-> f, items |-> {}] : f \in {"empty", "garbled"}}
           \cup {[form |-> "items", items |-> ds] : ds \in {{}} \cup {{d} : d \in Draft}}

\* nightly_status_payload; one event stands for both kinds of reply that could not be read.
StatusOf(events, found) ==
    CASE ~found /\ "llm_skipped" \in events -> "error"
      [] events # {} -> "ok_with_fallback"
      [] OTHER -> "ok"

(* ------------------------------- a run -------------------------------- *)

Idle == [pc |-> "off", by |-> "llm", todo |-> <<>>, chunk |-> 1, attempt |-> 1, own |-> <<>>,
         got |-> <<>>, events |-> {}, seen |-> {}, id |-> 1, text |-> {}, doomed |-> {}, swept |-> FALSE, found |-> FALSE]
Pc == {"off", "collect", "apply", "update", "store", "put", "cite", "delete", "record", "failed", "done", "dead"}

There == DOMAIN row
Active(m) == m \in There /\ row[m].life = "promoted"
Put(m, r) == [k \in There \cup {m} |-> IF k = m THEN r ELSE row[k]]
Nothing == [text |-> {}, scope |-> "none"]
Touch == now < MaxWrites /\ now' = now + 1

\* A profile with nothing, or with one memory, its own or of a pool it may only read.
NInit ==
    /\ \E old \in {[i \in {} |-> 0]} \cup
                  {[i \in {1} |-> [text |-> k.text, scope |-> k.scope, life |-> k.life, at |-> 0, run |-> "none"]] :
                      k \in Known} : row = old
    /\ given = Cardinality(There) /\ sources = {} /\ now = 0
    /\ ledger = [r \in Run |-> "none"] /\ nightly = [r \in Run |-> Idle]
    /\ desk = [w \in Writer |-> Nothing] /\ fresh = {}

Goes(r, job) == nightly' = [nightly EXCEPT ![r] = job]
Stays == UNCHANGED <<row, given, sources, ledger, now, desk>>
Keep == Stays /\ UNCHANGED fresh

\* run_digest returns at once when the day has no messages.
Start(r) ==
    /\ nightly[r].pc = "off" /\ Keep
    /\ \E extractor \in {"llm", "heuristic"} :
          Goes(r, IF Bundles = <<>> THEN [Idle EXCEPT !.pc = "done"]
                  ELSE [Idle EXCEPT !.pc = "collect", !.by = extractor, !.todo = Bundles])

Session(r) == Head(nightly[r].todo)

\* The candidates of a session join those of the run, and the next session begins.
Close(job, more) ==
    LET left == Tail(job.todo)
        all == job.got \o job.own \o more
    IN  [job EXCEPT !.got = all, !.found = all # <<>>, !.own = <<>>, !.todo = left, !.chunk = 1, !.attempt = 1,
                    !.pc = IF left = <<>> THEN "apply" ELSE "collect"]

Extracts(r) ==
    /\ nightly[r].pc = "collect" /\ nightly[r].by = "heuristic" /\ Keep
    /\ Goes(r, Close(nightly[r], Heuristic(Session(r))))

\* A reply is parsed; unreadable ones leave an event, or raise when nothing may fall back.
Replied(r, reply) ==
    LET job == nightly[r]
        status == ReplyStatus(reply)
        lost == status \in {"empty", "parse"}
        read == [job EXCEPT !.attempt = 1, !.chunk = @ + 1,
                            !.own = @ \o SetToSeq({d \in reply.items : Allowed(d)}),
                            !.events = IF lost THEN @ \cup {"llm_skipped"} ELSE @]
    IN  /\ job.pc = "collect" /\ job.by = "llm" /\ Keep
        /\ Goes(r, IF lost /\ ~AllowFallback THEN [Idle EXCEPT !.pc = "failed"]
                   ELSE IF job.chunk = ChunkCount(Session(r)) THEN Close(read, <<>>) ELSE read)

\* A call raises: it is made again, or the session falls back to its heuristic candidates, or the run fails.
CallFails(r, f) ==
    LET job == nightly[r]
        kind == Classify(Raised(f))
    IN  /\ job.pc = "collect" /\ job.by = "llm" /\ Keep
        /\ Goes(r, IF Classify(f.words).retry /\ job.attempt < MaxAttempts THEN [job EXCEPT !.attempt = @ + 1]
                   ELSE IF ~AllowFallback \/ ~kind.retry THEN [Idle EXCEPT !.pc = "failed"]
                   ELSE Close([job EXCEPT !.events = @ \cup {kind.kind}], Heuristic(Session(r))))

(* ------------------------------- apply -------------------------------- *)

\* find_match looks at the newest rows, whatever their lifecycle; the same text wins, else the
\* best score, which any row that shares a fact may have.
Seen == {m \in There : Cardinality({k \in There : row[k].at > row[m].at \/ (row[k].at = row[m].at /\ k > m)}) < Window}
Same(text) == {m \in Seen : row[m].text = text}
Near(text) == {m \in Seen : row[m].text \cap text # {}}
Opposed(a, b) == \E pair \in Contrary : pair \subseteq a \cup b /\ ~ pair \subseteq a

Drop(job) == [job EXCEPT !.got = Tail(@), !.pc = "apply", !.id = 1, !.text = {}]

\* The first part of apply_candidates: a candidate is skipped, or merged with its match, or stored.
MatchRow(r) ==
    LET job == nightly[r]
        c == Head(job.got)
        tagged == [job EXCEPT !.seen = @ \cup {c.text}]
        new == [tagged EXCEPT !.pc = "store"]
    IN  /\ job.pc = "apply" /\ job.got # <<>> /\ Keep
        /\ \/ (~Allowed(c) \/ c.text \in job.seen) /\ Goes(r, Drop(job))
           \/ /\ Allowed(c) /\ c.text \notin job.seen
              /\ \/ Same(c.text) # {} /\ Goes(r, Drop(tagged))
                 \/ Same(c.text) = {} /\ Goes(r, new) \* nothing near, or a conflict, or not to be written
                 \/ Same(c.text) = {} /\ Near(c.text) # {} /\ Goes(r, Drop(tagged)) \* covered
                 \/ /\ Same(c.text) = {}
                    /\ \E m \in Near(c.text) :
                          /\ row[m].scope \in Writable /\ ~ Opposed(row[m].text, c.text) /\ ~ c.text \subseteq row[m].text
                          /\ Goes(r, [tagged EXCEPT !.pc = "update", !.id = m, !.text = row[m].text \cup c.text])

CanWrite(m) == m \in {k \in There : row[k].scope \in Writable}

\* update_row rewrites the row it finds, and classifies it anew.
UpdateRow(r) ==
    LET job == nightly[r]
    IN  /\ job.pc = "update" /\ UNCHANGED <<given, sources, ledger, others>>
        /\ \/ ~ CanWrite(job.id) /\ Goes(r, Drop(job)) /\ UNCHANGED <<row, now>>
           \/ /\ CanWrite(job.id) /\ Touch
              /\ row' = [row EXCEPT ![job.id].text = job.text, ![job.id].life = "promoted", ![job.id].at = now']
              /\ Goes(r, [job EXCEPT !.pc = "cite"])

\* store_row: the live row with this text that changed last is touched, and a forgotten one is not
\* seen; the look and the insert are two statements.
Live(text, scope) == {m \in There : Active(m) /\ row[m].scope = scope /\ row[m].text = text}
TouchTwin(text, scope) ==
    \E m \in Live(text, scope) : /\ \A k \in Live(text, scope) : row[k].at <= row[m].at
                                 /\ Touch /\ row' = [row EXCEPT ![m].at = now']

StoreRow(r) ==
    LET job == nightly[r]
        text == Head(job.got).text
    IN  /\ job.pc = "store" /\ UNCHANGED <<given, sources, ledger, others>>
        /\ \/ Live(text, "shared") = {} /\ Goes(r, [job EXCEPT !.pc = "put"]) /\ UNCHANGED <<row, now>>
           \/ TouchTwin(text, "shared") /\ Goes(r, Drop(job))

PutRow(r) ==
    LET job == nightly[r]
        c == Head(job.got)
    IN  /\ job.pc = "put" /\ given < MaxRows /\ Touch /\ UNCHANGED <<sources, ledger, others>>
        /\ given' = given + 1
        /\ row' = Put(given', [text |-> c.text, scope |-> "shared", life |-> LifeOf(c), at |-> now', run |-> r])
        /\ Goes(r, [job EXCEPT !.pc = "cite", !.id = given'])

\* Wrong: only new rows are cited.
CiteNewRow(r) ==
    LET job == nightly[r]
    IN  /\ job.pc = "cite" /\ UNCHANGED <<given, ledger, now, others>>
        /\ row' = IF job.id \in There THEN [row EXCEPT ![job.id].run = r] ELSE row
        /\ sources' = IF job.text = {} THEN sources \cup {<<job.id, r>>} ELSE sources
        /\ Goes(r, Drop(job))

\* merge_candidate_metadata, when the row was there before, and record_digest_source.
CiteRow(r) ==
    LET job == nightly[r]
    IN  /\ job.pc = "cite" /\ UNCHANGED <<given, ledger, now, others>>
        /\ row' = IF job.id \in There THEN [row EXCEPT ![job.id].run = r] ELSE row
        /\ sources' = sources \cup {<<job.id, r>>}
        /\ Goes(r, Drop(job))

\* exact_duplicate_groups: of the rows with one text in one scope all but the newest, whatever their lifecycle.
Newer(m) == {k \in There \ {m} : /\ row[k].scope = row[m].scope /\ row[k].text = row[m].text
                                 /\ row[k].at > row[m].at \/ (row[k].at = row[m].at /\ k > m)}
\* Wrong: the shared scope is not swept.
OwnSurplus(scopes) == {m \in There : row[m].scope \in scopes \ {"shared"} /\ Newer(m) # {}}
Surplus(scopes) == {m \in There : row[m].scope \in scopes /\ Newer(m) # {}}

\* cleanup_exact_duplicates: nothing is deleted when the index cannot let the rows go.
FindDuplicates(r) ==
    LET job == nightly[r]
    IN  /\ job.pc = "apply" /\ job.got = <<>> /\ Stays
        /\ \E ids \in {{}, Surplus(Writable)} :
              /\ Goes(r, [job EXCEPT !.pc = IF ids = {} THEN "record" ELSE "delete", !.doomed = ids,
                                     !.swept = ids = Surplus(Writable)])
              /\ fresh' = IF ids = Surplus(Writable) THEN {} ELSE fresh

\* delete_rows: the rows and what cites them.
Gone(ids) ==
    /\ row' = [m \in There \ ids |-> row[m]]
    /\ sources' = {s \in sources : s[1] \notin ids}

DeleteRows(r) ==
    /\ nightly[r].pc = "delete" /\ UNCHANGED <<given, ledger, now, others>>
    /\ Gone({m \in nightly[r].doomed \cap There : row[m].scope \in Writable})
    /\ Goes(r, [nightly[r] EXCEPT !.pc = "record"])

\* The last statement of a run that nothing stopped: its row, with what came of the calls.
Record(r) ==
    LET job == nightly[r]
    IN  /\ job.pc = "record" /\ UNCHANGED <<row, given, sources, now, others>>
        /\ ledger' = [ledger EXCEPT ![r] = StatusOf(job.events, job.found)]
        /\ Goes(r, [Idle EXCEPT !.pc = "done", !.swept = job.swept])

\* A statement raises (a lock that is held too long, a full disk); what was committed stays, and what
\* was written since the last commit goes in with the row of the error.
Break(r) ==
    /\ nightly[r].pc \in {"update", "store", "put", "cite", "delete", "record"} /\ Keep
    /\ Goes(r, [Idle EXCEPT !.pc = "failed"])

BreakCited(r) ==
    LET job == nightly[r]
    IN  /\ job.pc = "cite" /\ UNCHANGED <<given, ledger, now, others>>
        /\ row' = IF job.id \in There THEN [row EXCEPT ![job.id].run = r] ELSE row
        /\ sources' \in {sources, sources \cup {<<job.id, r>>}}
        /\ Goes(r, [Idle EXCEPT !.pc = "failed"])

\* Wrong: the run goes on after the row of its error.
RecordErrorOnly(r) ==
    /\ nightly[r].pc = "failed" /\ UNCHANGED <<row, given, sources, now, others>>
    /\ ledger' = [ledger EXCEPT ![r] = "error"]
    /\ Goes(r, [Idle EXCEPT !.pc = "record"])

RecordError(r) ==
    /\ nightly[r].pc = "failed" /\ UNCHANGED <<row, given, sources, now, others>>
    /\ ledger' = [ledger EXCEPT ![r] = "error"]
    /\ Goes(r, [Idle EXCEPT !.pc = "done"])

\* The process is killed, or cannot even write the row of the error.
Die(r) ==
    /\ nightly[r].pc \notin {"off", "done", "dead"} /\ Keep
    /\ Goes(r, [Idle EXCEPT !.pc = "dead"])

(* --------------------------- other writers ---------------------------- *)

\* Forgetting, by the operator or a tool: the row stays, hidden, and its time moves.
Archive(m) ==
    /\ Active(m) /\ row[m].scope \in Writable /\ Touch
    /\ row' = [row EXCEPT ![m].life = "archived", ![m].at = now']
    /\ UNCHANGED <<given, sources, ledger, nightly, others>>

\* A tool, a capture or the journal digest stores a text with the same store_row: first its look,
Asks(w, text, scope) ==
    /\ desk[w] = Nothing /\ UNCHANGED <<given, sources, ledger, nightly, fresh>>
    /\ \/ TouchTwin(text, scope) /\ UNCHANGED desk
       \/ /\ Live(text, scope) = {} /\ UNCHANGED <<row, now>>
          /\ desk' = [desk EXCEPT ![w] = [text |-> text, scope |-> scope]]

\* and then its insert, or an error.
Inserts(w) ==
    /\ desk[w] # Nothing /\ desk' = [desk EXCEPT ![w] = Nothing] /\ UNCHANGED <<sources, ledger, nightly>>
    /\ \/ UNCHANGED <<row, given, now, fresh>>
       \/ /\ given < MaxRows /\ Touch /\ given' = given + 1 /\ fresh' = fresh \cup {given'}
          /\ row' = Put(given', [text |-> desk[w].text, scope |-> desk[w].scope, life |-> "promoted", at |-> now', run |-> "none"])

\* One of them rewrites a row of the profile with update_row, forgotten or not; the row keeps the mark of its run.
Rewrites(m, text) ==
    /\ CanWrite(m) /\ Touch /\ fresh' = fresh \cup {m}
    /\ row' = [row EXCEPT ![m].text = text, ![m].life = "promoted", ![m].at = now']
    /\ UNCHANGED <<given, sources, ledger, nightly, desk>>

\* A hard delete by a tool.
Removes(m) == CanWrite(m) /\ Gone({m}) /\ Touch /\ UNCHANGED <<given, ledger, nightly, others>>

NNext ==
    \/ \E r \in Run : \/ Start(r) \/ Extracts(r) \/ MatchRow(r) \/ UpdateRow(r) \/ StoreRow(r) \/ PutRow(r)
                      \/ CiteRow(r) \/ FindDuplicates(r) \/ DeleteRows(r) \/ Record(r)
                      \/ Break(r) \/ BreakCited(r) \/ RecordError(r) \/ Die(r)
                      \/ \E reply \in Replies : Replied(r, reply)
                      \/ \E f \in Failure : CallFails(r, f)
    \/ \E m \in Id : Archive(m) \/ Removes(m) \/ \E text \in Told : Rewrites(m, text)
    \/ \E w \in Writer : Inserts(w) \/ \E text \in Told, scope \in Writable : Asks(w, text, scope)

NSpec == NInit /\ [][NNext]_nvars

(* ----------------------------- properties ----------------------------- *)

\* Types, and what the places in a run imply.
NTypeOK ==
    /\ There \subseteq 1..given /\ given \in 0..MaxRows /\ now \in 0..MaxWrites
    /\ \A m \in There : /\ row[m].text \subseteq Fact /\ row[m].scope \in Scope /\ row[m].at \in 0..now
                        /\ row[m].life \in {"promoted", "candidate", "archived"} /\ row[m].run \in Run \cup {"none"}
    /\ sources \subseteq (1..given) \X Run /\ fresh \subseteq 1..given
    /\ \A w \in Writer : desk[w] = Nothing \/ (desk[w].text \in Told /\ desk[w].scope \in Writable)
    /\ \A r \in Run : /\ ledger[r] \in {"none", "ok", "ok_with_fallback", "error"} /\ nightly[r].pc \in Pc
                      /\ (ledger[r] # "none") => nightly[r].pc = "done"
                      /\ nightly[r].pc \in {"update", "store", "put", "cite"} => Allowed(Head(nightly[r].got))
                      /\ nightly[r].pc = "collect" => nightly[r].chunk <= ChunkCount(Session(r))

\* Two runs of the same day, or a run and a tool, may store the same text twice between their looks and
\* their inserts.  Once all runs that began have swept (cleanup_exact_duplicates), the rows that have one
\* text in a scope they write include one that another writer inserted or rewrote after the last look of
\* a sweep: what runs do leaves no twins, and twins that others made before that look are gone.
TwinsAreSwept ==
    (\A r \in Run : nightly[r].pc = "off" \/ (nightly[r].pc = "done" /\ nightly[r].swept))
        => \A m, k \in There \ fresh :
              (row[m].scope = row[k].scope /\ row[m].scope \in Writable /\ row[m].text = row[k].text) => m = k

\* Every row a run wrote last can be traced to its sessions when the run is on record as a success,
\* whatever other runs, forgetting and sweeps did in between (record_digest_source).
SuccessIsTraceable ==
    \A r \in Run : ledger[r] \in {"ok", "ok_with_fallback"}
        => \A m \in There : row[m].run = r => <<m, r>> \in sources

\* No step changes or deletes a memory of a scope that the profile may only read.
PooledStays == [][\A m \in There : row[m].scope = "pooled" => (m \in There' /\ row'[m] = row[m])]_nvars

\* The command line promises heuristic extraction after retryable failures: a failure that was worth
\* another attempt is still one when it is raised again and _fallback_event classifies it.
RetriedFailuresFallBack == \A f \in Failure : Classify(f.words).retry => Classify(Raised(f)).retry

\* delete_rows asks for a justification: what a sweep deletes is a copy of something that is still
\* recalled, not the last live copy beside a forgotten one.
SweepKeepsLiveText ==
    [][\A m \in There : (Active(m) /\ m \notin There')
          => \E k \in There' : row'[k].life = "promoted" /\ row'[k].text = row[m].text /\ row'[k].scope = row[m].scope]_nvars
=============================================================================
