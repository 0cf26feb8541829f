---------------------------- MODULE PluginInstall ----------------------------
(***************************************************************************)
(* Installing, upgrading, activating and rolling back the plugin copy of   *)
(* the profiles of a host (installer.py), and the rollout of all of them   *)
(* with a receipt (scripts/rollout.profiles.py), beside one another and    *)
(* with steps that fail or are cut short.                                  *)
(*                                                                         *)
(* A copy of the plugin is a tree: whole, thin (its manifest and required  *)
(* files are there, other files are not), broken (a required file is not)  *)
(* or nameless (not even a manifest).  Copying a tree leaves one of the    *)
(* lesser kinds when it stops midway, and so does removing one.            *)
(***************************************************************************)
EXTENDS Integers, Sequences, FiniteSets

CONSTANTS
    Operator,       \* processes that run the installer or the rollout script
    Profiles,       \* the profile homes in the order of their names, a sequence
    Version, Source,    \* versions of the plugin, and the one an operator installs
    Foreign,        \* the version of a tree that is not this plugin
    FirstPlugins,   \* what plugin directories a run may begin with, functions on Home
    FirstConfig, FirstDb,   \* what each home begins with
    MaxCalls, MaxFaults,    \* bounds of an instance: calls in all, failures,
    MaxOverlap, OverlapFrom \* and calls that overlap, without failures, from these beginnings

VARIABLES
    plugin,     \* [Home -> Content], plugins/scope-recall
    backups,    \* [Home -> Seq(Content)], everything under backups/, a path is an index
    config,     \* [Home -> Config], config.yaml
    saved,      \* [Home -> SUBSET Config], its backups
    db,         \* [Home -> Schema], the ledger of memory.sqlite3
    receipt,    \* the receipt of the last rollout or plan: its applied actions
    op,         \* [Operator -> what it runs, or how its last call ended]
    calls, faults,
    first,      \* history: the plugin directories at the beginning
    apart       \* history: no two calls have overlapped

vars == <<plugin, backups, config, saved, db, receipt, op, calls, faults, first, apart>>
disk == <<plugin, backups, config, saved, db>>

Home  == {Profiles[n] : n \in DOMAIN Profiles}
Grade == <<"nameless", "broken", "thin", "whole">>

None == [kind |-> "none", version |-> Foreign, grade |-> "nameless"]
Tree(v, g) == [kind |-> "tree", version |-> v, grade |-> g]
Link(v) == [kind |-> "link", version |-> v, grade |-> "whole"]   \* a symlink to a checkout
Content == {None} \cup {Link(v) : v \in Version}
           \cup {Tree(v, Grade[n]) : v \in Version \cup {Foreign}, n \in 1..4}

Config == {"absent", "user", "ours", "torn"}    \* user: the operator's own text
Schema == {"none", "old", "current", "newer"}

ASSUME InstallAssumption ==
    /\ Profiles \in Seq(Home) /\ Profiles # <<>>
    /\ FirstPlugins \subseteq [Home -> Content] /\ FirstConfig \in [Home -> Config] /\ FirstDb \in [Home -> Schema]

\* What copying or removing a tree may leave when it stops midway.
Lesser(c) == {x \in Content : /\ c.kind = "tree" /\ x.kind = "tree" /\ x.version = c.version
                              /\ \E i, j \in 1..4 : i < j /\ Grade[i] = x.grade /\ Grade[j] = c.grade}

Resolved(c) == IF c.kind = "link" THEN Tree(c.version, "whole") ELSE c

Exists(h) == plugin[h] # None

Named(c) == c.kind # "none" /\ c.version \in Version /\ c.grade # "nameless"
HasRequired(c) == c.kind # "none" /\ c.version \in Version /\ c.grade \in {"thin", "whole"}

\* A backup that rollback accepts, and an installed copy that verify accepts.
ValidBackup(c) == Named(c) /\ HasRequired(c)
Verified(h) == Named(plugin[h]) /\ HasRequired(plugin[h])

\* The ledger: of an older schema, of none, of this one, or of a newer one,
\* which a migration leaves alone.
Current(schema) == schema = "current"
Migrated(schema) == IF schema = "newer" THEN schema ELSE "current"

\* Verification at run time loads the provider and reads the schema ledger.
RuntimeVerified(h) == Verified(h) /\ plugin[h].grade = "whole" /\ Current(db[h])

\* The target is the source tree itself, a link to the checkout installed from;
\* not merely a copy of the same version.
SameVersion(c) == Named(c) /\ c.version = Source
SameTree(c) == c = Link(Source)

-------------------------------------------------------------------------------
\* A call: the steps of install and rollback are shared, what they place is not.
Ended == [kind |-> "none", pc |-> "idle", home |-> Profiles[1], todo |-> {}, activate |-> FALSE,
          path |-> 0, from |-> 0, acts |-> {}]

Idle(o) == op[o].pc \in {"idle", "ok"}

AllIdle == \A o \in Operator : Idle(o)

Starts(o, call) ==
    /\ Idle(o) /\ calls < MaxCalls
    /\ \/ apart /\ AllIdle
       \/ calls < MaxOverlap /\ faults = 0 /\ first \in OverlapFrom
    /\ calls' = calls + 1
    /\ op' = [x \in Operator |->
                 IF x = o THEN IF call.pc = "error" THEN Ended ELSE call
                 ELSE IF Idle(x) THEN Ended ELSE op[x]]
    /\ apart' = (apart /\ AllIdle)
    /\ UNCHANGED first

\* Of a call that failed nothing is remembered.
Goes(o, call) ==
    /\ op' = [op EXCEPT ![o] = IF call.pc \in {"idle", "error"} THEN Ended ELSE call]
    /\ UNCHANGED <<calls, first, apart>>
To(o, pc) == Goes(o, [op[o] EXCEPT !.pc = pc])

Fails == apart /\ faults < MaxFaults /\ faults' = faults + 1
Works == UNCHANGED faults

\* The profiles a call still has to do are taken in their order.
First(todo) == Profiles[CHOOSE n \in DOMAIN Profiles : Profiles[n] \in todo
                                                      /\ \A m \in 1..(n - 1) : Profiles[m] \notin todo]
Next1(call) ==
    IF call.todo = {} THEN [call EXCEPT !.pc = IF call.kind = "rollout" THEN "receipt" ELSE "ok"]
    ELSE [call EXCEPT !.pc = IF call.kind = "rollout" THEN "save" ELSE "backup",
                      !.home = First(call.todo), !.todo = @ \ {First(call.todo)}, !.path = 0]

\* The end of one installation or restoration: a rollout notes it and goes on
\* to the next profile, a rollback of several goes on only if it worked.
Done(call, worked) ==
    CASE call.kind \in {"install", "undo"} ->
            [call EXCEPT !.pc = IF ~worked THEN "error" ELSE IF call.activate THEN "config" ELSE "verify"]
      [] call.kind = "rollout" ->
            Next1([call EXCEPT !.acts = {IF a.home = call.home THEN [a EXCEPT !.applied = worked] ELSE a : a \in @}])
      [] call.kind = "revert" -> IF worked THEN Next1(call) ELSE [call EXCEPT !.pc = "error"]

EndsAs(o, worked) == Goes(o, Done(op[o], worked))

-------------------------------------------------------------------------------
Init ==
    /\ plugin \in FirstPlugins /\ first = plugin
    /\ backups = [h \in Home |-> <<>>]
    /\ config = FirstConfig /\ saved = [h \in Home |-> {}]
    /\ db = FirstDb
    /\ receipt = {}
    /\ op = [o \in Operator |-> Ended]
    /\ calls = 0 /\ faults = 0 /\ apart = TRUE

\* What install does once it has looked at the target: it is the source, it is
\* not ours to replace, or the source is staged beside it.
Looked(call, c, force) ==
    CASE SameTree(c) -> Done(call, TRUE)
      [] ~SameTree(c) /\ c # None /\ ~force /\ ~Named(c) -> Done(call, FALSE)
      [] OTHER -> [call EXCEPT !.pc = "backup"]

Install(o) ==
    \E h \in Home, force, activate \in BOOLEAN :
       /\ Starts(o, Looked([Ended EXCEPT !.kind = "install", !.home = h, !.activate = activate], plugin[h], force))
       /\ UNCHANGED <<disk, receipt, faults>>

\* Another backup than the one a result names is validated like it.
Undo(o) ==
    \E h \in Home : \E n \in DOMAIN backups[h] :
       /\ ValidBackup(backups[h][n])
       /\ Starts(o, [Ended EXCEPT !.kind = "undo", !.pc = "backup", !.home = h, !.from = n])
       /\ UNCHANGED <<disk, receipt, faults>>

\* The rollout looks at every profile before it touches one.  A profile that is
\* not there, or a canary that is not selected, stops all of it, but as a plan
\* does it still writes the receipt, in which nothing is applied then.
Rollout(o) ==
    \E selected \in (SUBSET Home) \ {{}}, canary \in Home \cup {"nobody"}, apply, missing \in BOOLEAN :
       LET goes == apply /\ ~missing /\ (canary \in Home => canary \in selected)
           todo == IF goes THEN {h \in selected : canary \in {h, "nobody"}} ELSE {}
           acts == {[home |-> h, existed |-> Exists(h), path |-> 0, applied |-> FALSE, before |-> plugin[h]] : h \in todo}
       IN  /\ Starts(o, Next1([Ended EXCEPT !.kind = "rollout", !.todo = todo, !.acts = acts]))
           /\ UNCHANGED <<disk, receipt, faults>>

\* The backup the rollout makes for the receipt, before it calls install.
Save(o) ==
    LET h == op[o].home
        c == plugin[h]
    IN  /\ op[o].pc = "save"
        /\ \/ /\ c = None /\ To(o, "look") /\ UNCHANGED backups /\ Works
           \/ /\ c # None /\ backups' = [backups EXCEPT ![h] = Append(@, c)] /\ Works
              /\ Goes(o, [op[o] EXCEPT !.pc = "look",
                             !.acts = {IF a.home = h THEN [a EXCEPT !.path = Len(backups'[h])] ELSE a : a \in @}])
           \/ \E x \in Lesser(c) : backups' = [backups EXCEPT ![h] = Append(@, x)] /\ Fails /\ EndsAs(o, FALSE)
        /\ UNCHANGED <<plugin, config, saved, db, receipt>>

Look(o) ==
    /\ op[o].pc = "look"
    /\ Goes(o, Looked(op[o], plugin[op[o].home], TRUE))
    /\ UNCHANGED <<disk, receipt, faults>>

\* Every action of a receipt is validated before the first is undone.  A backup
\* that is a link leads out of the profile and is refused.
Revertible(a) ==
    a.existed => a.path # 0 /\ backups[a.home][a.path].kind = "tree" /\ ValidBackup(backups[a.home][a.path])

Revert(o) ==
    LET todo == {a.home : a \in receipt}
        call == [Ended EXCEPT !.kind = "revert", !.todo = todo, !.acts = receipt]
    IN  /\ Starts(o, IF \A a \in receipt : Revertible(a) THEN Next1(call) ELSE [call EXCEPT !.pc = "error"])
        /\ UNCHANGED <<disk, receipt, faults>>

-------------------------------------------------------------------------------
\* What was there is copied to a backup of its own, whatever it is.
BackupNamed(c) == Named(c)
Worth(c) == c # None

Backup(o) ==
    LET h == op[o].home
        c == plugin[h]
    IN  /\ op[o].pc = "backup"
        /\ \/ ~Worth(c) /\ To(o, "remove") /\ UNCHANGED backups /\ Works
           \/ /\ Worth(c) /\ backups' = [backups EXCEPT ![h] = Append(@, c)] /\ Works
              /\ Goes(o, [op[o] EXCEPT !.pc = "remove", !.path = Len(backups'[h])])
           \/ \E x \in Lesser(c) : backups' = [backups EXCEPT ![h] = Append(@, x)] /\ Fails /\ EndsAs(o, FALSE)
        /\ UNCHANGED <<plugin, config, saved, db, receipt>>

\* A tree goes file by file.
Remove(o) ==
    LET h == op[o].home
    IN  /\ op[o].pc = "remove"
        /\ \/ plugin[h].kind # "tree" /\ plugin' = [plugin EXCEPT ![h] = None] /\ To(o, "place")
           \/ plugin[h].kind = "tree" /\ \E x \in Lesser(plugin[h]) : plugin' = [plugin EXCEPT ![h] = x] /\ To(o, "removing")
           \/ plugin[h].kind = "tree" /\ Lesser(plugin[h]) = {} /\ UNCHANGED plugin /\ To(o, "removing")
        /\ UNCHANGED <<backups, config, saved, db, receipt, faults>>

Removed(o) ==
    LET h == op[o].home
    IN  /\ op[o].pc = "removing"
        /\ \/ plugin' = [plugin EXCEPT ![h] = None] /\ To(o, "place") /\ Works
           \/ UNCHANGED plugin /\ EndsAs(o, FALSE) /\ Works /\ ~Exists(h)
           \/ UNCHANGED plugin /\ EndsAs(o, FALSE) /\ Fails
        /\ UNCHANGED <<backups, config, saved, db, receipt>>

ActionOf(call) == CHOOSE a \in call.acts : a.home = call.home

\* What the call puts into the place of the old copy.
PlacedCurrent(call) == IF call.path = 0 THEN None ELSE backups[call.home][call.path]
Placed(call) ==
    CASE call.kind \in {"install", "rollout"} -> Tree(Source, "whole")
      [] call.kind = "undo" -> Resolved(backups[call.home][call.from])
      [] call.kind = "revert" -> IF ActionOf(call).existed THEN backups[call.home][ActionOf(call).path] ELSE None

\* Install and the rollback of a rollout rename what they staged, a rollback of
\* one home copies in place.  Nothing is put over what somebody else has put
\* there.  If the step fails, install and rollback put back what they
\* had moved away, unless part of a copy is in the way.
Place(o) ==
    LET call == op[o]
        h == call.home
        old == IF call.path = 0 THEN None ELSE backups[h][call.path]
    IN  /\ call.pc = "place"
        /\ \/ ~Exists(h) /\ plugin' = [plugin EXCEPT ![h] = Placed(call)] /\ EndsAs(o, TRUE) /\ Works
           \/ Exists(h) /\ UNCHANGED plugin /\ EndsAs(o, Placed(call) = None) /\ Works
           \/ /\ ~Exists(h) /\ EndsAs(o, FALSE) /\ Fails
              /\ \/ call.kind # "revert" /\ \E x \in {old} \cup Lesser(old) : plugin' = [plugin EXCEPT ![h] = x]
                 \/ call.kind = "undo" /\ \E x \in Lesser(Placed(call)) : plugin' = [plugin EXCEPT ![h] = x]
                 \/ call.kind = "revert" /\ UNCHANGED plugin
        /\ UNCHANGED <<backups, config, saved, db, receipt>>

WriteReceipt(o) ==
    /\ op[o].pc = "receipt"
    /\ receipt' = {a \in op[o].acts : a.applied}
    /\ To(o, "ok")
    /\ UNCHANGED <<disk, faults>>

Verify(o) ==
    LET h == op[o].home
    IN  /\ op[o].pc = "verify"
        /\ To(o, IF (IF op[o].activate THEN RuntimeVerified(h) ELSE Verified(h)) THEN "ok" ELSE "error")
        /\ UNCHANGED <<disk, receipt, faults>>

-------------------------------------------------------------------------------
\* Activation: the provider in config.yaml, over a backup of the operator's
\* text, then the schema through the installed copy.
Configure(o) ==
    LET h == op[o].home
    IN  /\ op[o].pc = "config"
        /\ IF config[h] = "ours" THEN To(o, "bootstrap") /\ UNCHANGED <<config, saved>>
           ELSE /\ saved' = [saved EXCEPT ![h] = IF config[h] = "absent" THEN @ ELSE @ \cup {config[h]}]
                /\ config' = [config EXCEPT ![h] = "torn"]
                /\ To(o, "write")
        /\ UNCHANGED <<plugin, backups, db, receipt, faults>>

WriteConfig(o) ==
    /\ op[o].pc = "write"
    /\ config' = [config EXCEPT ![op[o].home] = "ours"]
    /\ To(o, "bootstrap")
    /\ UNCHANGED <<plugin, backups, saved, db, receipt, faults>>

\* Setting the provider up creates the truth database or migrates it.
SetUp(h) == db' = [db EXCEPT ![h] = Migrated(@)]

Bootstrap(o) ==
    LET h == op[o].home
    IN  /\ op[o].pc = "bootstrap"
        /\ IF Resolved(plugin[h]).grade = "whole" /\ Named(plugin[h])
           THEN SetUp(h) /\ To(o, "verify")
           ELSE UNCHANGED db /\ To(o, "error")
        /\ UNCHANGED <<plugin, backups, config, saved, receipt, faults>>

\* The command a result gives to put the old config.yaml back.
RestoreConfig(o) ==
    \E h \in Home :
       /\ \/ \E text \in saved[h] : config' = [config EXCEPT ![h] = text]
          \/ FirstConfig[h] = "absent" /\ config' = [config EXCEPT ![h] = "absent"]
       /\ config' # config
       /\ Starts(o, Ended)
       /\ UNCHANGED <<plugin, backups, saved, db, receipt, faults>>

Crash(o) ==
    /\ ~Idle(o) /\ Fails
    /\ To(o, "idle")
    /\ UNCHANGED <<disk, receipt>>

Next == \E o \in Operator :
    \/ Install(o) \/ Undo(o) \/ Rollout(o) \/ Revert(o) \/ RestoreConfig(o)
    \/ Save(o) \/ Look(o) \/ Backup(o) \/ Remove(o) \/ Removed(o) \/ Place(o)
    \/ WriteReceipt(o) \/ Verify(o) \/ Configure(o) \/ WriteConfig(o) \/ Bootstrap(o)
    \/ Crash(o)

Spec == Init /\ [][Next]_vars

-------------------------------------------------------------------------------
\* The state has the shape the code gives it.
ITypeOK ==
    /\ \A h \in Home : /\ plugin[h] \in Content /\ \A n \in DOMAIN backups[h] : backups[h][n] \in Content \ {None}
                       /\ config[h] \in Config /\ saved[h] \subseteq Config \ {"absent"} /\ db[h] \in Schema
    /\ \A o \in Operator : op[o].path \in 0..Len(backups[op[o].home]) /\ op[o].from \in 0..Len(backups[op[o].home])
    /\ \A a \in receipt : a.path \in 0..Len(backups[a.home])

\* Whatever is installed over it, with force or without, by one or by several
\* at a time, and wherever a step fails or a process dies: what a profile had
\* in the plugin directory is there or whole in a backup, and so is the
\* text of its config.yaml (installer.py: an upgrade backs up first).
NothingIsLost ==
    \A h \in Home :
       /\ first[h] \in {None, plugin[h]} \cup {backups[h][n] : n \in DOMAIN backups[h]}
       /\ FirstConfig[h] = "user" => "user" \in {config[h]} \cup saved[h]

\* A rollback of a rollout that reports no error, not disturbed by another
\* operator, has given every profile the rollout changed what it had before
\* it, whatever failed, died or was installed in between, and whatever
\* the directory held (rollout.profiles.py: a receipt that can be used for rollback).
RollbackReturns ==
    \A o \in Operator : op[o].kind = "revert" /\ op[o].pc = "ok" /\ apart =>
       \A a \in op[o].acts : plugin[a.home] = a.before

\* An undisturbed install that reports success has left a whole copy of the
\* source, over whatever was there, and when it activates, a host that
\* is configured for it and a schema that is current (installer.py, ok of the result).
SuccessIsWhole ==
    \A o \in Operator : op[o].kind = "install" /\ op[o].pc = "ok" /\ apart =>
       /\ Resolved(plugin[op[o].home]) = Tree(Source, "whole")
       /\ op[o].activate => config[op[o].home] = "ours" /\ db[op[o].home] = "current"

\* Said of the receipt, and not so: a rollout whose install fails after it has
\* begun to remove the old copy notes the profile as not applied, and the
\* rollback passes it over.
RolloutIsReversible ==
    \A o \in Operator : op[o].kind = "rollout" /\ op[o].pc = "ok" /\ apart =>
       \A a \in op[o].acts : a.applied \/ plugin[a.home] = a.before

===============================================================================
