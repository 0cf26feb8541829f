------------------------- MODULE ExperienceSessions -------------------------
(* What the promotion of experiences reads off a journaled session: how it ended
   (task_boundary), what it checked and risked (experience_promotion), which task
   it was (experience_classification), whether it is good enough
   (experience_quality) and what its playbook allows (experience_synthesis).  An
   entry is its id, its role and its marks: the tokens and patterns of the code
   that its text contains; a list of the code is represented by the tokens that
   tell it from the other lists, a Chinese one by its translation. *)
EXTENDS Naturals, Sequences, FiniteSets, FiniteSetsExt, SequencesExt

Role == {"user", "assistant", "tool"}

\* A token that another one contains is in the other's groups as well: "doctor"
\* has a "doc" in it, a "release gate" a "release", "github" a "git".
Pytest == {"pytest", "python -m pytest", "python3 -m pytest"}
Specific == {Pytest \ {"pytest"}, {"python -m pytest"}, Pytest, {"ruff", "pyright", "doctor", "release gate",
             "git", "gh"}, {"repo path"}, {"system path"}, {"shell"}, {"n passed"}, {"ok=true"}}
ToolHint == Pytest \cup {"ruff", "doctor", "release gate", "terminal", "git", "github", "gh", "browser",
             "web_search", "scope_recall"}
Risky == {"push", "tag", "commit", "restart", "delete", "token"}
Authorised == {"authorization", "confirm"}
Completion == {"done", "success", "finished", "passed", "n passed", "ok=true", "green"}
Success == {"ok", "token", "pass", "finished", "passed", "n passed", "ok=true", "green"}

ScopeRecall == {"scope-recall"}
Journal == {"journal", "backlog", "digest", "recovery"}
Docs == {"docs", "doctor", "readme"}
Release == {"release", "release gate", "publish", "pypi", "push", "version", "tag"}
MemoryQuality == {"quality", "candidate", "promote"}
GitHub == {"github", "gh", "pull request", "tag", "pypi", "release", "release gate"}
Hermes == {"hermes", "gateway", "profile", "provider"}

Has(marks, tokens) == marks \cap tokens # {}
Marks(entries) == UNION {e.marks : e \in ToSet(entries)}
Latest(seq, n) == SubSeq(seq, IF Len(seq) > n THEN Len(seq) - n + 1 ELSE 1, Len(seq))
Tail4(s) == Marks(Latest(SelectSeq(s, LAMBDA e : e.role \in {"assistant", "tool"}), 4))
Said(s) == Marks(Latest(SelectSeq(s, LAMBDA e : e.role = "assistant"), 3))

(* The end of the session decides: a failure or a doubt in it outweighs every
   earlier success, and the success must be said there. *)
ClosedWell(s) ==
    /\ ~Has(Tail4(s) \cup Said(s), {"failure", "uncertain"})
    /\ \/ Has(Said(s), Completion)
       \/ Last(s).role = "tool" /\ Has(Tail4(s), Completion)

\* The first thing the user said.
Goal(s) == LET users == SelectSeq(s, LAMBDA e : e.role = "user")
           IN Head(IF users = <<>> THEN s ELSE users).marks
LowSignal(goal) == Has(goal, {"go on", "only answer"})

ToolEntries(s) == Cardinality({i \in DOMAIN s : s[i].role = "tool"})
Tools(s) == Marks(s) \cap ToolHint

Named == {Pytest \cup {"tests"}, {"ruff"}, {"doctor"}, {"release gate"}}
Checks(s) == LET named == Cardinality({c \in Named : Has(Marks(s), c)})
             IN IF named = 0 /\ Has(Marks(s), {"smoke", "verified"}) THEN 1 ELSE named

RiskLevel(s) == IF "secret" \in Marks(s) THEN "secret" ELSE IF Has(Marks(s), Risky) THEN "high" ELSE "low"

TaskClass(s) ==
    LET text == Marks(s) IN
    IF Has(text, ScopeRecall)
    THEN IF Has(text, Journal) THEN "journal_backlog_drain"
         ELSE IF Has(text, Docs) THEN "scope_recall_docs_quality"
         ELSE IF Has(text, Release) THEN "scope_recall_release_closeout"
         ELSE IF Has(text, MemoryQuality) THEN "scope_recall_memory_quality_governance"
         ELSE "scope_recall_quality_check"
    ELSE IF Has(text, GitHub) /\ Has(text, Release) THEN "github_release_publish"
    ELSE IF Has(text, Hermes) THEN "hermes_operations" ELSE "agent_verified_task"

(* assess_experience_quality, per mille: parts of a whole, each with its ceiling. *)
Upto(ceiling, n) == IF n < ceiling THEN n ELSE ceiling
Counts(amount, condition) == IF condition THEN amount ELSE 0
Score(s) ==
    LET hits == Cardinality({p \in Specific : Has(Marks(s), p)})
        parts == Counts(180, ~LowSignal(Goal(s)) /\ "short" \notin Goal(s))
                 + Counts(120, ToolEntries(s) > 0) + Counts(120, Tools(s) # {})
                 + Counts(Upto(240, 120 + 40 * Checks(s)), Checks(s) > 0)
                 + Counts(Upto(180, 80 + 40 * hits), hits > 0)
                 + Counts(80, Len(s) <= 40)
                 + Counts(80, RiskLevel(s) = "low" \/ Has(Marks(s), Authorised))
    IN Upto(IF "failure" \in Tail4(s) THEN 350 ELSE 1000, parts)

Quality(s) == IF Score(s) < 700 THEN "reject"
              ELSE IF Score(s) < 850 \/ RiskLevel(s) # "low" THEN "needs_review"
              ELSE "auto_promote_eligible"

(* The gates of promote_experiences before a session is worth a playbook. *)
Promotable(s, minEntries, minTools, checked) ==
    /\ Len(s) >= minEntries /\ "secret" \notin Marks(s)
    /\ ClosedWell(s) /\ ToolEntries(s) >= minTools /\ Has(Marks(s), Success)
    /\ checked => Checks(s) > 0
    /\ ~LowSignal(Goal(s)) /\ Quality(s) # "reject"

(* Two windows of the journal are the same work when three quarters of the
   smaller one are in the other. *)
Ids(s) == {e.id : e \in ToSet(s)}
SameWork(s, t) ==
    LET common == Cardinality(Ids(s) \cap Ids(t)) IN
    common > 0 /\ 4 * common >= 3 * Min({Cardinality(Ids(s)), Cardinality(Ids(t))})

(* A sheet is what a playbook's payload says: its task class (titles follow it),
   its confidence, the capabilities of its steps, whether it names an environment,
   and its reuse policy; a staleness limit that is not set tolerates everything. *)
Sheet(class, confidence, capabilities, default, direct) ==
    [class |-> class, confidence |-> confidence, capabilities |-> capabilities, environment |-> TRUE,
     default |-> default, direct |-> direct, review |-> FALSE, allowed |-> {}, tolerated |-> Nat]

(* build_experience_playbook_payload, and the confidence promote_experiences puts
   over it.  The environment it is created with names the risk, always. *)
SheetOf(s) ==
    LET careful == RiskLevel(s) # "low" \/ Checks(s) = 0
        payload == IF Checks(s) = 0 THEN 620 ELSE IF RiskLevel(s) = "low" THEN 860 ELSE 780
    IN Sheet(TaskClass(s), Max({payload, Score(s)}),
             {"read_only"} \cup IF RiskLevel(s) = "high" THEN {"local_write"} ELSE {},
             IF careful THEN "guided_reuse" ELSE "direct_reuse", ~careful)

(* CORE_PLAYBOOKS: the risk and the capabilities of each, by task class. *)
CorePlaybooks ==
    [scope_recall_release_closeout |-> [risk |-> "high", capabilities |-> {"read_only", "local_write"}],
     journal_backlog_drain |-> [risk |-> "high", capabilities |-> {"read_only"}],
     scope_recall_codex_audit_loop |-> [risk |-> "low", capabilities |-> {"read_only", "local_write"}],
     github_release_publish |-> [risk |-> "high", capabilities |-> {"read_only", "network_or_remote"}],
     vector_repair_safe_rebuild |-> [risk |-> "high", capabilities |-> {"read_only", "local_write"}],
     candidate_memory_promotion_review |-> [risk |-> "high", capabilities |-> {"read_only", "local_write"}]]

CoreSheet(class) ==
    LET known == CorePlaybooks[class] low == known.risk = "low"
    IN Sheet(class, IF low THEN 880 ELSE 820, known.capabilities,
             IF low THEN "direct_reuse" ELSE "guided_reuse", low)

(* What a sheet alone says against reuse, and against reuse without guidance. *)
RiskyCapability == {"service_control", "network_or_remote", "cross_instance", "credential_adjacent",
                    "destructive_or_irreversible"}
Forbids(sheet) == \/ sheet.default \notin {"unset", "direct_reuse", "guided_reuse"}
                  \/ sheet.allowed # {} /\ ~(sheet.capabilities \subseteq sheet.allowed)
Guides(sheet, riskyDirect) ==
    \/ sheet.default = "guided_reuse" \/ ~sheet.direct \/ sheet.review \/ sheet.environment
    \/ Has(sheet.capabilities, RiskyCapability) /\ ~riskyDirect
=============================================================================
