------------------------- MODULE PluginInstallProofs -------------------------
(* Theorems about PluginInstall for any operators, profiles, beginnings and
   bounds: nothing an operator had is lost, and an undisturbed install that
   reports success is whole, as is what an undisturbed rollback gives back. *)
EXTENDS PluginInstall, WellFoundedInduction, TLAPS

Field == {"kind", "pc", "home", "todo", "activate", "path", "from", "acts"}
CallLike(c) ==
    /\ c = [x \in Field |-> c[x]]
    /\ c.kind \in {"none", "install", "undo", "rollout", "revert"}
    /\ c.kind = "none" => c.pc = "idle"
    /\ c.kind = "install" => c.home \in Home
    /\ c.pc = "receipt" => c.kind = "rollout"

Stored(h) == {backups[h][n] : n \in DOMAIN backups[h]}

Tables ==
    /\ plugin = [h \in Home |-> plugin[h]] /\ config = [h \in Home |-> config[h]]
    /\ saved = [h \in Home |-> saved[h]] /\ db = [h \in Home |-> db[h]]
    /\ backups = [h \in Home |-> backups[h]] /\ \A h \in Home : backups[h] \in Seq(Stored(h))
Calls == op = [o \in Operator |-> op[o]] /\ \A o \in Operator : CallLike(op[o])

\* What was there at first has a backup: whoever clears the directory relies on it.
Backed(h) == first[h] = None \/ first[h] \in Stored(h)
Clears(c) == c.pc \in {"remove", "removing", "place"}

\* The operator's text is in a backup, or nobody has touched it.
Noted(h) == FirstConfig[h] = "user" => "user" \in saved[h]

Safe ==
    /\ \A h \in Home : /\ Backed(h) \/ first[h] = plugin[h]
                       /\ Noted(h) \/ (config[h] = "user" /\ saved[h] = {})
    /\ \A o \in Operator : op[o].home \in Home => /\ Clears(op[o]) => Backed(op[o].home)
                                                  /\ op[o].pc = "write" => Noted(op[o].home)

\* While no calls overlap there is one call, and of the others nothing is remembered.
Alone == apart => \A o, x \in Operator : o # x /\ op[o].kind # "none" => Idle(x)

\* How far an install has come once the copy is in its place.
Whole(c) ==
    c.kind = "install" /\ c.pc \in {"config", "write", "bootstrap", "verify", "ok"} =>
        /\ Resolved(plugin[c.home]) = Tree(Source, "whole")
        /\ c.pc \in {"config", "write", "bootstrap"} => c.activate
        /\ c.activate /\ c.pc \in {"bootstrap", "verify", "ok"} => config[c.home] = "ours"
        /\ c.activate /\ c.pc = "ok" => db[c.home] = "current"

PInv == Tables /\ Calls /\ Safe /\ Alone /\ (apart => \A o \in Operator : Whole(op[o]))

-------------------------------------------------------------------------------
\* What every step does to the tables: backups are added to, and a directory or
\* a text is touched only when it has one.
Kept ==
    /\ Tables'
    /\ \A h \in Home : /\ Stored(h) \subseteq Stored(h)' /\ saved[h] \subseteq saved'[h]
                       /\ plugin'[h] = plugin[h] \/ Backed(h)'
                       /\ (config'[h] = config[h] /\ saved'[h] = saved[h]) \/ Noted(h)'

\* o's step to a call, which may be over with it.
Took(o, call) ==
    /\ op' = [x \in Operator |-> op'[x]] /\ op'[o] \in {call, Ended}
    /\ \A x \in Operator : x # o => op'[x] \in {op[x], Ended}
    /\ apart' => apart /\ \A x \in Operator : x # o => op'[x].kind = "none"
    /\ first' = first

Fits(o, call) ==
    /\ CallLike(call)
    /\ \A h \in Home : h = call.home => /\ Clears(call) => Backed(h)'
                                        /\ call.pc = "write" => Noted(h)'
    /\ apart /\ op'[o] = call => Whole(op[o])'

LEMMA EndedIs == CallLike(Ended) /\ Ended.pc = "idle" /\ Ended.kind = "none"
  BY DEF CallLike, Ended, Field

LEMMA StepKeeps ==
  ASSUME PInv, NEW o \in Operator, NEW call, Took(o, call), Fits(o, call), Kept
  PROVE  PInv'
<1>1. \A x \in Operator : CallLike(op'[x])  BY EndedIs DEF PInv, Calls, Took, Fits
<1>2. Calls'
  <2>1. \A x \in Operator : CallLike(op[x])'  BY <1>1 DEF CallLike
  <2> QED  BY <2>1 DEF Calls, Took
<1>3. \A h \in Home : (Backed(h) => Backed(h)') /\ (Noted(h) => Noted(h)')
  BY DEF Kept, Took, Backed, Noted
<1>4. Safe'
  <2>1. ASSUME NEW h \in Home
        PROVE  (Backed(h)' \/ first'[h] = plugin'[h]) /\ (Noted(h)' \/ (config'[h] = "user" /\ saved'[h] = {}))
    BY <1>3 DEF PInv, Safe, Kept, Took
  <2>2. ASSUME NEW x \in Operator
        PROVE  (op[x].home \in Home => /\ Clears(op[x]) => Backed(op[x].home)
                                       /\ op[x].pc = "write" => Noted(op[x].home))'
    <3>0. \A h \in Home : h = op'[x].home => /\ op'[x].pc \in {"remove", "removing", "place"} => Backed(h)'
                                             /\ op'[x].pc = "write" => Noted(h)'
      <4>1. CASE op'[x] = Ended  BY <4>1, EndedIs
      <4>2. CASE op'[x] # Ended /\ x = o
        <5>1. op'[x] = call  BY <4>2 DEF Took
        <5> QED  BY <5>1 DEF Fits, Clears
      <4>3. CASE op'[x] # Ended /\ x # o
        <5>1. op'[x] = op[x]  BY <4>3 DEF Took
        <5> QED  BY <1>3, <5>1 DEF PInv, Safe, Clears
      <4> QED  BY <4>1, <4>2, <4>3
    <3>1. ASSUME NEW h \in Home, h = op'[x].home
          PROVE  /\ op'[x].pc \in {"remove", "removing", "place"} => Backed(h)'
                 /\ op'[x].pc = "write" => Noted(h)'
      BY <3>0, <3>1
    <3> QED  BY <3>1 DEF Clears, Backed, Noted, Stored
  <2> QED  BY <2>1, <2>2 DEF Safe
<1>5. Alone'
  <2> SUFFICES ASSUME apart', NEW a \in Operator, NEW x \in Operator, a # x, op'[a].kind # "none"
               PROVE  Idle(x)'
    BY DEF Alone
  <2>1. x # o  BY DEF Took
  <2> QED  BY <1>1, <2>1 DEF Took, Idle, CallLike
<1>6. ASSUME apart', NEW x \in Operator PROVE Whole(op[x])'
  <2>1. CASE op'[x].kind = "none"  BY <2>1 DEF Whole
  <2>2. CASE op'[x].kind # "none"
    <3>1. x = o /\ op'[x] = call  BY <1>6, <2>2, EndedIs DEF Took
    <3> QED  BY <1>6, <3>1 DEF Took, Fits
  <2> QED  BY <2>1, <2>2
<1> QED  BY <1>2, <1>4, <1>5, <1>6 DEF PInv, Kept

LEMMA GoesTo ==
  ASSUME PInv, NEW o \in Operator, ~Idle(o), NEW call, Goes(o, call)
  PROVE  Took(o, call) /\ (call.pc \in {"idle", "error"} => op'[o] = Ended)
<1>1. op' = [op EXCEPT ![o] = IF call.pc \in {"idle", "error"} THEN Ended ELSE call] /\ UNCHANGED <<first, apart>>
  BY DEF Goes
<1>2. op' = [x \in Operator |-> op'[x]] /\ \A x \in Operator : x # o => op'[x] = op[x]  BY <1>1 DEF PInv, Calls
<1>3. op'[o] = IF call.pc \in {"idle", "error"} THEN Ended ELSE call  BY <1>1 DEF PInv, Calls
<1>4. apart => \A x \in Operator : x # o => op[x].kind = "none"  BY DEF PInv, Alone
<1> QED  BY <1>1, <1>2, <1>3, <1>4 DEF Took

LEMMA StartsTo ==
  ASSUME PInv, NEW o \in Operator, NEW call, Starts(o, call)
  PROVE  Took(o, call)
<1>1. op' = [x \in Operator |-> IF x = o THEN IF call.pc = "error" THEN Ended ELSE call
                                ELSE IF Idle(x) THEN Ended ELSE op[x]]
  BY DEF Starts
<1>2. apart' = (apart /\ AllIdle) /\ first' = first  BY DEF Starts
<1>3. apart' => apart /\ \A x \in Operator : x # o => op'[x] = Ended  BY <1>1, <1>2 DEF AllIdle
<1> QED  BY <1>1, <1>2, <1>3, EndedIs DEF Took

LEMMA Unchanged == ASSUME PInv, UNCHANGED disk PROVE Kept
  BY DEF PInv, Tables, Kept, disk, Stored, Backed
-------------------------------------------------------------------------------
\* What becomes of a call.
LEMMA Next1Is ==
  ASSUME NEW c, CallLike(c), c.kind \in {"rollout", "revert"}
  PROVE  /\ CallLike(Next1(c)) /\ Next1(c).kind = c.kind
         /\ Next1(c).pc \in {"receipt", "ok", "save", "backup"}
<1>1. CASE c.todo = {}
  <2> DEFINE pc == IF c.kind = "rollout" THEN "receipt" ELSE "ok"
             n == [c EXCEPT !.pc = pc]
  <2>1. Next1(c) = n  BY <1>1 DEF Next1
  <2>2. pc \in {"receipt", "ok"} /\ (pc = "receipt" => c.kind = "rollout")  OBVIOUS
  <2> HIDE DEF pc
  <2>3. n.pc = pc /\ n.kind = c.kind /\ CallLike(n)  BY <2>2 DEF CallLike, Field
  <2> HIDE DEF n
  <2> QED  BY <2>1, <2>2, <2>3
<1>2. CASE c.todo # {}
  <2> DEFINE pc == IF c.kind = "rollout" THEN "save" ELSE "backup"
             n == [c EXCEPT !.pc = pc, !.home = First(c.todo), !.todo = @ \ {First(c.todo)}, !.path = 0]
  <2>1. Next1(c) = n  BY <1>2 DEF Next1
  <2>2. pc \in {"save", "backup"}  OBVIOUS
  <2> HIDE DEF pc
  <2>3. n.pc = pc /\ n.kind = c.kind /\ CallLike(n)  BY <2>2 DEF CallLike, Field
  <2> HIDE DEF n
  <2> QED  BY <2>1, <2>2, <2>3
<1> QED  BY <1>1, <1>2

Finished(c, worked, d) ==
    /\ CallLike(d) /\ d.kind = c.kind /\ ~Clears(d) /\ d.pc # "write"
    /\ c.kind = "install" =>
           /\ d.home = c.home /\ d.activate = c.activate
           /\ \/ d.pc = "error"
              \/ worked /\ d.pc = "config" /\ d.activate
              \/ worked /\ d.pc = "verify" /\ ~d.activate

LEMMA DoneIs ==
  ASSUME NEW c, CallLike(c), c.kind # "none", NEW worked
  PROVE  Finished(c, worked, Done(c, worked))
<1>1. CASE c.kind \in {"install", "undo"}
  <2> DEFINE pc == IF ~worked THEN "error" ELSE IF c.activate THEN "config" ELSE "verify"
             d == [c EXCEPT !.pc = pc]
  <2>1. Done(c, worked) = d  BY <1>1, Zenon DEF Done
  <2>2. pc = "error" \/ (worked /\ pc = "config" /\ c.activate) \/ (worked /\ pc = "verify" /\ ~c.activate)
    OBVIOUS
  <2> HIDE DEF pc
  <2>3. d.pc = pc /\ d.kind = c.kind /\ CallLike(d) /\ d.home = c.home /\ d.activate = c.activate
    BY <1>1, <2>2 DEF CallLike, Field
  <2> HIDE DEF d
  <2> QED  BY <2>1, <2>2, <2>3 DEF Finished, Clears
<1>2. CASE c.kind = "rollout"
  <2> DEFINE acts == {IF a.home = c.home THEN [a EXCEPT !.applied = worked] ELSE a : a \in c.acts}
             n == [c EXCEPT !.acts = acts]
  <2>1. Done(c, worked) = Next1(n)  BY <1>2, Zenon DEF Done
  <2> HIDE DEF acts
  <2>2. CallLike(n) /\ n.kind = c.kind  BY DEF CallLike, Field
  <2> HIDE DEF n
  <2>3. /\ CallLike(Next1(n)) /\ Next1(n).kind = c.kind
        /\ Next1(n).pc \in {"receipt", "ok", "save", "backup"}
    BY <1>2, <2>2, Next1Is
  <2> QED  BY <1>2, <2>1, <2>3 DEF Finished, Clears
<1>3. CASE c.kind = "revert"
  <2> DEFINE e == [c EXCEPT !.pc = "error"]
  <2>1. Done(c, worked) = IF worked THEN Next1(c) ELSE e  BY <1>3, Zenon DEF Done
  <2>2. CallLike(e) /\ e.kind = c.kind /\ e.pc = "error"  BY <1>3 DEF CallLike, Field
  <2> HIDE DEF e
  <2>3. /\ CallLike(Next1(c)) /\ Next1(c).kind = c.kind
        /\ Next1(c).pc \in {"receipt", "ok", "save", "backup"}
    BY <1>3, Next1Is
  <2>4. Done(c, worked) = Next1(c) \/ Done(c, worked) = e  BY <2>1
  <2> QED  BY <1>3, <2>2, <2>3, <2>4 DEF Finished, Clears
<1> QED  BY <1>1, <1>2, <1>3 DEF CallLike

LEMMA LookedIs ==
  ASSUME NEW call, NEW c, NEW force
  PROVE  \/ SameTree(c) /\ Looked(call, c, force) = Done(call, TRUE)
         \/ Looked(call, c, force) = Done(call, FALSE)
         \/ Looked(call, c, force) = [call EXCEPT !.pc = "backup"]
<1>1. CASE SameTree(c)  BY <1>1, Zenon DEF Looked
<1>2. CASE ~SameTree(c) /\ c # None /\ ~force /\ ~Named(c)  BY <1>2, Zenon DEF Looked
<1>3. CASE ~SameTree(c) /\ ~(c # None /\ ~force /\ ~Named(c))  BY <1>3, Zenon DEF Looked
<1> QED  BY <1>1, <1>2, <1>3

\* A checkout that is linked is a whole copy of its version.
LEMMA LinkIsWhole == Resolved(Link(Source)) = Tree(Source, "whole") /\ Resolved(Tree(Source, "whole")) = Tree(Source, "whole")
  BY DEF Resolved, Link, Tree

LEMMA PlacedIs == ASSUME NEW c, c.kind = "install" PROVE Placed(c) = Tree(Source, "whole") /\ Placed(c) # None
<1>1. Placed(c) = Tree(Source, "whole")  BY Zenon DEF Placed
<1>2. Tree(Source, "whole") # None  BY DEF Tree, None
<1> QED  BY <1>1, <1>2

\* Steps that end one installation or restoration.
LEMMA EndsKeeps ==
  ASSUME PInv, NEW o \in Operator, ~Idle(o), NEW worked, EndsAs(o, worked), Kept,
         apart /\ worked /\ op[o].kind = "install" => Resolved(plugin'[op[o].home]) = Tree(Source, "whole")
  PROVE  PInv'
<1> DEFINE d == Done(op[o], worked)
<1>1. CallLike(op[o]) /\ op[o].kind # "none"  BY DEF PInv, Calls, CallLike, Idle
<1>2. Finished(op[o], worked, d)  BY <1>1, DoneIs
<1>3. Goes(o, d)  BY DEF EndsAs
<1> HIDE DEF d
<1>4. Took(o, d) /\ (d.pc \in {"idle", "error"} => op'[o] = Ended)  BY <1>3, GoesTo
<1>5. ASSUME apart, op'[o] = d PROVE Whole(op[o])'
  <2>1. CASE d.kind # "install"  BY <1>5, <2>1 DEF Whole
  <2>2. CASE d.kind = "install"
    <3>1. d.pc # "error"  BY <1>4, <1>5, <2>2, EndedIs
    <3>2. /\ worked /\ d.home = op[o].home
          /\ \/ d.pc = "config" /\ d.activate
             \/ d.pc = "verify" /\ ~d.activate
      BY <1>2, <2>2, <3>1, Zenon DEF Finished
    <3>3. Resolved(plugin'[d.home]) = Tree(Source, "whole")  BY <1>2, <1>5, <2>2, <3>2 DEF Finished
    <3>4. Resolved(plugin[op[o].home])' = Resolved(plugin'[d.home])  BY <1>5 DEF Resolved, Tree
    <3> QED  BY <1>5, <3>2, <3>3, <3>4 DEF Whole, Tree
  <2> QED  BY <2>1, <2>2
<1>6. Fits(o, d)  BY <1>2, <1>5 DEF Fits, Finished
<1> QED  BY <1>4, <1>6, StepKeeps
-------------------------------------------------------------------------------
\* What a step does to the tables.
Members(s) == {s[n] : n \in DOMAIN s}

LEMMA Appended ==
  ASSUME NEW s, s \in Seq(Members(s)), NEW c, NEW t, t = Append(s, c)
  PROVE  t \in Seq(Members(t)) /\ c \in Members(t) /\ Members(s) \subseteq Members(t)
<1> USE DEF Members
<1> DEFINE S == {s[n] : n \in DOMAIN s}
           T == S \cup {c}
<1>0. s \in Seq(S) /\ DOMAIN s = 1..Len(s) /\ Len(s) \in Nat  OBVIOUS
<1>1. \A x \in S : \E n \in 1..Len(s) : s[n] = x  BY <1>0
<1>2. \A n \in 1..Len(s) : s[n] \in S  BY <1>0
<1> HIDE DEF S
<1>3. s \in Seq(T)  BY <1>0
<1>4. /\ t \in Seq(T) /\ DOMAIN t = 1..(Len(s) + 1) /\ Len(t) = Len(s) + 1 /\ t[Len(s) + 1] = c
      /\ \A n \in 1..Len(s) : t[n] = s[n]
  BY <1>3
<1>5. \A x \in S : x \in {t[n] : n \in DOMAIN t}
  <2> SUFFICES ASSUME NEW x \in S PROVE \E n \in 1..(Len(s) + 1) : x = t[n]  BY <1>4
  <2>1. PICK n \in 1..Len(s) : s[n] = x  BY <1>1
  <2>2. n \in 1..(Len(s) + 1) /\ t[n] = x  BY <1>0, <1>4, <2>1
  <2> QED  BY <2>2
<1>6. c \in {t[n] : n \in DOMAIN t}
  <2>1. Len(s) + 1 \in DOMAIN t  BY <1>0, <1>4
  <2> QED  BY <1>4, <2>1
<1>7. T \subseteq {t[n] : n \in DOMAIN t}  BY <1>5, <1>6
<1>8. t \in Seq({t[n] : n \in DOMAIN t})  BY <1>4, <1>7
<1> QED  BY <1>5, <1>6, <1>8 DEF S

LEMMA AddsBackup ==
  ASSUME PInv, NEW h, NEW c, backups' = [backups EXCEPT ![h] = Append(@, c)],
         UNCHANGED <<plugin, config, saved, db, first>>
  PROVE  Kept /\ (h \in Home => c \in Stored(h)')
<1>1. /\ backups' = [x \in Home |-> backups'[x]]
      /\ \A x \in Home : x # h => backups'[x] = backups[x]
      /\ h \in Home => backups'[h] = Append(backups[h], c)
  BY DEF PInv, Tables
<1>2. ASSUME h \in Home PROVE c \in Stored(h)' /\ Stored(h) \subseteq Stored(h)' /\ backups'[h] \in Seq(Stored(h)')
  <2>1. backups[h] \in Seq(Members(backups[h]))  BY <1>2 DEF PInv, Tables, Stored, Members
  <2>2. backups'[h] = Append(backups[h], c)  BY <1>1, <1>2
  <2>3. Stored(h) = Members(backups[h]) /\ Stored(h)' = Members(backups'[h])  BY DEF Stored, Members
  <2>4. \A s, t : s \in Seq(Members(s)) /\ t = Append(s, c) =>
                  t \in Seq(Members(t)) /\ c \in Members(t) /\ Members(s) \subseteq Members(t)
    BY Appended
  <2>5. /\ backups'[h] \in Seq(Members(backups'[h])) /\ c \in Members(backups'[h])
        /\ Members(backups[h]) \subseteq Members(backups'[h])
    BY <2>1, <2>2, <2>4, Zenon
  <2> QED  BY <2>3, <2>5
<1>3. \A x \in Home : x # h => Stored(x)' = Stored(x)  BY <1>1 DEF Stored
<1>4. \A x \in Home : Stored(x) \subseteq Stored(x)' /\ backups'[x] \in Seq(Stored(x)')
  BY <1>1, <1>2, <1>3 DEF PInv, Tables
<1>5. Tables'  BY <1>1, <1>4 DEF PInv, Tables
<1> QED  BY <1>2, <1>4, <1>5 DEF Kept

LEMMA ChangesPlugin ==
  ASSUME PInv, NEW h, NEW c, plugin' = [plugin EXCEPT ![h] = c], UNCHANGED <<backups, config, saved, db, first>>,
         h \in Home => Backed(h)
  PROVE  Kept /\ (h \in Home => plugin'[h] = c)
<1>1. plugin' = [x \in Home |-> plugin'[x]] /\ \A x \in Home : x # h => plugin'[x] = plugin[x]
  BY DEF PInv, Tables
<1>2. h \in Home => plugin'[h] = c  BY DEF PInv, Tables
<1>3. Tables'  BY <1>1 DEF PInv, Tables, Stored
<1>4. \A x \in Home : Stored(x)' = Stored(x) /\ (Backed(x) => Backed(x)')  BY DEF Stored, Backed
<1> QED  BY <1>1, <1>2, <1>3, <1>4 DEF Kept

LEMMA OpIs ==
  ASSUME PInv, NEW o \in Operator, ~Idle(o)
  PROVE  CallLike(op[o]) /\ op[o].kind # "none"
  BY DEF PInv, Calls, CallLike, Idle

LEMMA MovedIs ==
  ASSUME NEW c, CallLike(c), c.kind # "none", NEW pc, pc # "receipt", NEW d, d = [c EXCEPT !.pc = pc]
  PROVE  CallLike(d) /\ d.pc = pc /\ d.home = c.home /\ d.kind = c.kind /\ d.activate = c.activate
  BY DEF CallLike, Field

\* A step on the way to the new copy.
LEMMA MovesKeeps ==
  ASSUME PInv, NEW o \in Operator, ~Idle(o), NEW call, Goes(o, call), CallLike(call), Kept,
         Clears(call) => \A h \in Home : h = call.home => Backed(h)',
         call.pc \notin {"config", "write", "bootstrap", "verify", "ok"}
  PROVE  PInv'
<1>1. Took(o, call)  BY GoesTo
<1>2. ASSUME op'[o] = call PROVE Whole(op[o])'  BY <1>2 DEF Whole
<1>3. Fits(o, call)  BY <1>2 DEF Fits
<1> QED  BY <1>1, <1>3, StepKeeps

LEMMA SaveStep == ASSUME PInv, NEW o \in Operator, Save(o) PROVE PInv'
<1> DEFINE h == op[o].home
           c == plugin[h]
<1>0. ~Idle(o) /\ CallLike(op[o]) /\ op[o].kind # "none"
  <2>1. ~Idle(o)  BY DEF Save, Idle
  <2> QED  BY <2>1, OpIs
<1>1. CASE c = None /\ To(o, "look") /\ UNCHANGED backups
  <2> DEFINE d == [op[o] EXCEPT !.pc = "look"]
  <2>1. CallLike(d) /\ d.pc = "look" /\ Goes(o, d)  BY <1>0, <1>1, MovedIs DEF To
  <2> HIDE DEF d
  <2>2. Kept  BY <1>1, Unchanged DEF Save, disk
  <2> QED  BY <1>0, <2>1, <2>2, MovesKeeps DEF Clears
<1>2. CASE /\ backups' = [backups EXCEPT ![h] = Append(@, c)]
           /\ Goes(o, [op[o] EXCEPT !.pc = "look",
                             !.acts = {IF a.home = h THEN [a EXCEPT !.path = Len(backups'[h])] ELSE a : a \in @}])
  <2> DEFINE acts == {IF a.home = h THEN [a EXCEPT !.path = Len(backups'[h])] ELSE a : a \in op[o].acts}
             d == [op[o] EXCEPT !.pc = "look", !.acts = acts]
  <2>1. Goes(o, d)  BY <1>2
  <2> HIDE DEF acts
  <2>2. CallLike(d) /\ d.pc = "look"  BY <1>0 DEF CallLike, Field
  <2> HIDE DEF d
  <2>3. first' = first  BY <2>1 DEF Goes
  <2>4. Kept  BY <1>2, <2>3, AddsBackup DEF Save
  <2> QED  BY <1>0, <2>1, <2>2, <2>4, MovesKeeps DEF Clears
<1>3. CASE \E x \in Lesser(c) : backups' = [backups EXCEPT ![h] = Append(@, x)] /\ Fails /\ EndsAs(o, FALSE)
  <2>1. PICK x \in Lesser(c) : backups' = [backups EXCEPT ![h] = Append(@, x)] /\ EndsAs(o, FALSE)  BY <1>3
  <2>2. first' = first  BY <2>1 DEF EndsAs, Goes
  <2>3. Kept  BY <2>1, <2>2, AddsBackup DEF Save
  <2> QED  BY <1>0, <2>1, <2>3, EndsKeeps
<1> QED  BY <1>1, <1>2, <1>3 DEF Save

LEMMA BackupStep == ASSUME PInv, NEW o \in Operator, Backup(o) PROVE PInv'
<1> DEFINE h == op[o].home
           c == plugin[h]
<1>0. ~Idle(o) /\ CallLike(op[o]) /\ op[o].kind # "none"
  <2>1. ~Idle(o)  BY DEF Backup, Idle
  <2> QED  BY <2>1, OpIs
<1>1. CASE c = None /\ To(o, "remove") /\ UNCHANGED backups
  <2> DEFINE d == [op[o] EXCEPT !.pc = "remove"]
  <2>1. CallLike(d) /\ d.pc = "remove" /\ d.home = h /\ Goes(o, d)  BY <1>0, <1>1, MovedIs DEF To
  <2> HIDE DEF d
  <2>2. Kept /\ first' = first  BY <1>1, <2>1, Unchanged DEF Backup, disk, Goes
  <2>3. ASSUME NEW x \in Home, x = h PROVE Backed(x)'
    <3>1. Backed(x)  BY <1>1, <2>3 DEF PInv, Safe, Backed
    <3> QED  BY <2>2, <2>3, <3>1 DEF Kept, Backed
  <2> QED  BY <1>0, <2>1, <2>2, <2>3, MovesKeeps
<1>2. CASE /\ backups' = [backups EXCEPT ![h] = Append(@, c)]
           /\ Goes(o, [op[o] EXCEPT !.pc = "remove", !.path = Len(backups'[h])])
  <2> DEFINE n == Len(backups'[h])
             d == [op[o] EXCEPT !.pc = "remove", !.path = n]
  <2>1. Goes(o, d)  BY <1>2
  <2> HIDE DEF n
  <2>2. CallLike(d) /\ d.pc = "remove" /\ d.home = h  BY <1>0 DEF CallLike, Field
  <2> HIDE DEF d
  <2>3. first' = first  BY <2>1 DEF Goes
  <2>4. Kept /\ \A x \in Home : x = h => c \in Stored(x)'
    <3> SUFFICES ASSUME NEW x, x = h PROVE Kept /\ (x \in Home => c \in Stored(x)')  OBVIOUS
    <3> QED  BY <1>2, <2>3, AddsBackup DEF Backup
  <2>5. ASSUME NEW x \in Home, x = h PROVE Backed(x)'
    <3>1. Backed(x) \/ first[x] = c  BY <2>5 DEF PInv, Safe
    <3>2. c \in Stored(x)'  BY <2>4, <2>5
    <3> QED  BY <2>3, <2>4, <3>1, <3>2 DEF Kept, Backed
  <2> QED  BY <1>0, <2>1, <2>2, <2>4, <2>5, MovesKeeps
<1>3. CASE \E x \in Lesser(c) : backups' = [backups EXCEPT ![h] = Append(@, x)] /\ Fails /\ EndsAs(o, FALSE)
  <2>1. PICK x \in Lesser(c) : backups' = [backups EXCEPT ![h] = Append(@, x)] /\ EndsAs(o, FALSE)  BY <1>3
  <2>2. first' = first  BY <2>1 DEF EndsAs, Goes
  <2>3. Kept  BY <2>1, <2>2, AddsBackup DEF Backup
  <2> QED  BY <1>0, <2>1, <2>3, EndsKeeps
<1> QED  BY <1>1, <1>2, <1>3 DEF Backup, Worth

\* Whoever clears a directory may change it.
LEMMA ClearingIs ==
  ASSUME PInv, NEW o \in Operator, Clears(op[o]), op[o].home \in Home
  PROVE  Backed(op[o].home)
  BY DEF PInv, Safe

LEMMA RemoveStep == ASSUME PInv, NEW o \in Operator, Remove(o) \/ Removed(o) PROVE PInv'
<1> DEFINE h == op[o].home
<1>0. ~Idle(o) /\ CallLike(op[o]) /\ op[o].kind # "none" /\ Clears(op[o])
  <2>1. ~Idle(o) /\ Clears(op[o])  BY DEF Remove, Removed, Idle, Clears
  <2> QED  BY <2>1, OpIs
<1>1. ASSUME NEW pc \in {"place", "removing"}, To(o, pc), Kept, UNCHANGED <<backups, first>> PROVE PInv'
  <2> DEFINE d == [op[o] EXCEPT !.pc = pc]
  <2>1. CallLike(d) /\ d.pc = pc /\ d.home = h /\ Goes(o, d)  BY <1>0, <1>1, MovedIs DEF To
  <2> HIDE DEF d
  <2>2. ASSUME NEW x \in Home, x = h PROVE Backed(x)'
    <3>1. Backed(x)  BY <1>0, <2>2, ClearingIs
    <3> QED  BY <1>1, <3>1 DEF Backed, Stored
  <2> QED  BY <1>0, <1>1, <2>1, <2>2, MovesKeeps
<1>2. ASSUME NEW pc, To(o, pc) PROVE first' = first  BY <1>2 DEF To, Goes
<1>3. ASSUME EndsAs(o, FALSE) PROVE first' = first  BY <1>3 DEF EndsAs, Goes
<1>4. h \in Home => Backed(h)  BY <1>0, ClearingIs
<1>5. UNCHANGED <<backups, config, saved, db>>  BY DEF Remove, Removed
<1>6. ASSUME first' = first, NEW c, plugin' = [plugin EXCEPT ![h] = c] PROVE Kept
  BY <1>4, <1>5, <1>6, ChangesPlugin
<1>7. ASSUME UNCHANGED plugin PROVE Kept  BY <1>5, <1>7, Unchanged DEF disk
<1>8. CASE Remove(o)
  <2>1. \/ To(o, "place") /\ plugin' = [plugin EXCEPT ![h] = None]
        \/ To(o, "removing") /\ \E x \in Lesser(plugin[h]) : plugin' = [plugin EXCEPT ![h] = x]
        \/ To(o, "removing") /\ UNCHANGED plugin
    BY <1>8 DEF Remove
  <2>2. CASE To(o, "place") /\ plugin' = [plugin EXCEPT ![h] = None]  BY <1>1, <1>2, <1>5, <1>6, <2>2
  <2>3. CASE To(o, "removing") /\ \E x \in Lesser(plugin[h]) : plugin' = [plugin EXCEPT ![h] = x]
    BY <1>1, <1>2, <1>5, <1>6, <2>3
  <2>4. CASE To(o, "removing") /\ UNCHANGED plugin  BY <1>1, <1>2, <1>5, <1>7, <2>4
  <2> QED  BY <2>1, <2>2, <2>3, <2>4
<1>9. CASE Removed(o)
  <2>1. \/ To(o, "place") /\ plugin' = [plugin EXCEPT ![h] = None]
        \/ EndsAs(o, FALSE) /\ UNCHANGED plugin
    BY <1>9 DEF Removed
  <2>2. CASE To(o, "place") /\ plugin' = [plugin EXCEPT ![h] = None]  BY <1>1, <1>2, <1>5, <1>6, <2>2
  <2>3. CASE EndsAs(o, FALSE) /\ UNCHANGED plugin  BY <1>0, <1>7, <2>3, EndsKeeps
  <2> QED  BY <2>1, <2>2, <2>3
<1> QED  BY <1>8, <1>9

LEMMA PlaceStep == ASSUME PInv, NEW o \in Operator, Place(o) PROVE PInv'
<1> DEFINE h == op[o].home
           p == Placed(op[o])
<1>0. ~Idle(o) /\ CallLike(op[o]) /\ op[o].kind # "none" /\ Clears(op[o])
  <2>1. ~Idle(o) /\ Clears(op[o])  BY DEF Place, Idle, Clears
  <2> QED  BY <2>1, OpIs
<1>1. h \in Home => Backed(h)  BY <1>0, ClearingIs
<1>2. UNCHANGED <<backups, config, saved, db>>  BY DEF Place
<1>3. ASSUME NEW worked, EndsAs(o, worked), NEW c, plugin' = [plugin EXCEPT ![h] = c]
      PROVE  Kept /\ (h \in Home => plugin'[h] = c)
  <2>1. first' = first  BY <1>3 DEF EndsAs, Goes
  <2> QED  BY <1>1, <1>2, <1>3, <2>1, ChangesPlugin
<1>4. ASSUME UNCHANGED plugin PROVE Kept  BY <1>2, <1>4, Unchanged DEF disk
<1>5. \/ plugin' = [plugin EXCEPT ![h] = p] /\ EndsAs(o, TRUE)
      \/ UNCHANGED plugin /\ EndsAs(o, p = None)
      \/ EndsAs(o, FALSE) /\ \E x : plugin' = [plugin EXCEPT ![h] = x]
      \/ EndsAs(o, FALSE) /\ UNCHANGED plugin
  BY DEF Place
<1>6. op[o].kind = "install" => h \in Home /\ p = Tree(Source, "whole") /\ p # None
  BY <1>0, PlacedIs DEF CallLike
<1> HIDE DEF p
<1>7. CASE plugin' = [plugin EXCEPT ![h] = p] /\ EndsAs(o, TRUE)
  <2>1. Kept /\ (h \in Home => plugin'[h] = p)  BY <1>3, <1>7
  <2>2. op[o].kind = "install" => Resolved(plugin'[h]) = Tree(Source, "whole")  BY <1>6, <2>1, LinkIsWhole
  <2> QED  BY <1>0, <1>7, <2>1, <2>2, EndsKeeps
<1>8. CASE UNCHANGED plugin /\ EndsAs(o, p = None)
  <2>1. op[o].kind = "install" => ~(p = None)  BY <1>6
  <2> QED  BY <1>0, <1>4, <1>8, <2>1, EndsKeeps
<1>9. CASE EndsAs(o, FALSE) /\ \E x : plugin' = [plugin EXCEPT ![h] = x]
  <2>1. Kept  BY <1>3, <1>9
  <2> QED  BY <1>0, <1>9, <2>1, EndsKeeps
<1>10. CASE EndsAs(o, FALSE) /\ UNCHANGED plugin  BY <1>0, <1>4, <1>10, EndsKeeps
<1> QED  BY <1>5, <1>7, <1>8, <1>9, <1>10

-------------------------------------------------------------------------------
\* The steps of an activation, and the end.
LEMMA ConfigureStep == ASSUME PInv, NEW o \in Operator, Configure(o) PROVE PInv'
<1> DEFINE h == op[o].home
           b == [op[o] EXCEPT !.pc = "bootstrap"]
           w == [op[o] EXCEPT !.pc = "write"]
<1>0. ~Idle(o) /\ CallLike(op[o]) /\ op[o].kind # "none" /\ op[o].pc = "config"
  <2>1. ~Idle(o) /\ op[o].pc = "config"  BY DEF Configure, Idle
  <2> QED  BY <2>1, OpIs
<1>1. UNCHANGED <<plugin, backups, db, receipt, faults>>  BY DEF Configure
<1>2. apart => Whole(op[o])  BY DEF PInv
<1>3. CallLike(b) /\ b.pc = "bootstrap" /\ b.home = h /\ b.kind = op[o].kind /\ b.activate = op[o].activate
  BY <1>0, MovedIs
<1>4. CallLike(w) /\ w.pc = "write" /\ w.home = h /\ w.kind = op[o].kind /\ w.activate = op[o].activate
  BY <1>0, MovedIs
<1>5. CASE config[h] = "ours"
  <2>1. Goes(o, b) /\ UNCHANGED <<config, saved>>  BY <1>5 DEF Configure, To
  <2> HIDE DEF b, w
  <2>2. Took(o, b)  BY <1>0, <2>1, GoesTo
  <2>3. Kept  BY <1>1, <2>1, Unchanged DEF disk
  <2>4. ASSUME apart, op'[o] = b PROVE Whole(op[o])'
    BY <1>0, <1>1, <1>2, <1>3, <1>5, <2>1, <2>4 DEF Whole, Resolved, Tree
  <2>5. Fits(o, b)  BY <1>3, <2>4 DEF Fits, Clears
  <2> QED  BY <2>2, <2>3, <2>5, StepKeeps
<1>6. CASE config[h] # "ours"
  <2>1. /\ Goes(o, w)
        /\ saved' = [saved EXCEPT ![h] = IF config[h] = "absent" THEN @ ELSE @ \cup {config[h]}]
        /\ config' = [config EXCEPT ![h] = "torn"]
    BY <1>6 DEF Configure, To
  <2> HIDE DEF b, w
  <2>2. Took(o, w) /\ first' = first  BY <1>0, <2>1, GoesTo DEF Goes
  <2>3. ASSUME NEW x \in Home
        PROVE  /\ saved[x] \subseteq saved'[x]
               /\ x # h => config'[x] = config[x] /\ saved'[x] = saved[x]
               /\ x = h => Noted(x)'
    <3>1. x # h => config'[x] = config[x] /\ saved'[x] = saved[x]  BY <2>1 DEF PInv, Tables
    <3>2. x = h => saved'[x] = IF config[x] = "absent" THEN saved[x] ELSE saved[x] \cup {config[x]}
      BY <2>1 DEF PInv, Tables
    <3>3. Noted(x) \/ (config[x] = "user" /\ saved[x] = {})  BY DEF PInv, Safe
    <3> QED  BY <3>1, <3>2, <3>3 DEF Noted
  <2>4. Tables'
    <3>1. config' = [x \in Home |-> config'[x]] /\ saved' = [x \in Home |-> saved'[x]]  BY <2>1 DEF PInv, Tables
    <3> QED  BY <1>1, <3>1 DEF PInv, Tables, Stored
  <2>5. Kept  BY <1>1, <2>3, <2>4 DEF Kept, Stored
  <2>6. ASSUME apart, op'[o] = w PROVE Whole(op[o])'
    BY <1>0, <1>1, <1>2, <1>4, <2>6 DEF Whole, Resolved, Tree
  <2>7. Fits(o, w)  BY <1>4, <2>3, <2>6 DEF Fits, Clears
  <2> QED  BY <2>2, <2>5, <2>7, StepKeeps
<1> QED  BY <1>5, <1>6

LEMMA WriteStep == ASSUME PInv, NEW o \in Operator, WriteConfig(o) PROVE PInv'
<1> DEFINE h == op[o].home
           b == [op[o] EXCEPT !.pc = "bootstrap"]
<1>0. ~Idle(o) /\ CallLike(op[o]) /\ op[o].kind # "none" /\ op[o].pc = "write"
  <2>1. ~Idle(o) /\ op[o].pc = "write"  BY DEF WriteConfig, Idle
  <2> QED  BY <2>1, OpIs
<1>1. UNCHANGED <<plugin, backups, saved, db>> /\ config' = [config EXCEPT ![h] = "ours"] /\ Goes(o, b)
  BY DEF WriteConfig, To
<1>2. apart => Whole(op[o])  BY DEF PInv
<1>3. CallLike(b) /\ b.pc = "bootstrap" /\ b.home = h /\ b.kind = op[o].kind /\ b.activate = op[o].activate
  BY <1>0, MovedIs
<1> HIDE DEF b
<1>4. Took(o, b) /\ first' = first  BY <1>0, <1>1, GoesTo DEF Goes
<1>5. ASSUME NEW x \in Home
      PROVE  /\ x # h => config'[x] = config[x]
             /\ x = h => Noted(x)' /\ config'[x] = "ours"
  <2>1. (x # h => config'[x] = config[x]) /\ (x = h => config'[x] = "ours")  BY <1>1 DEF PInv, Tables
  <2>2. x = h => Noted(x)  BY <1>0 DEF PInv, Safe
  <2> QED  BY <1>1, <2>1, <2>2 DEF Noted
<1>6. Tables'
  <2>1. config' = [x \in Home |-> config'[x]]  BY <1>1 DEF PInv, Tables
  <2> QED  BY <1>1, <2>1 DEF PInv, Tables, Stored
<1>7. Kept  BY <1>1, <1>5, <1>6 DEF Kept, Stored
<1>8. ASSUME apart, op'[o] = b PROVE Whole(op[o])'
  <2>1. CASE op[o].kind # "install"  BY <1>3, <1>8, <2>1 DEF Whole
  <2>2. CASE op[o].kind = "install"
    <3>1. config'[h] = "ours"  BY <1>0, <1>5, <2>2 DEF CallLike
    <3> QED  BY <1>0, <1>1, <1>2, <1>3, <1>8, <2>2, <3>1 DEF Whole, Resolved, Tree
  <2> QED  BY <2>1, <2>2
<1>9. Fits(o, b)  BY <1>3, <1>8 DEF Fits, Clears
<1> QED  BY <1>4, <1>7, <1>9, StepKeeps

LEMMA BootstrapStep == ASSUME PInv, NEW o \in Operator, Bootstrap(o) PROVE PInv'
<1> DEFINE h == op[o].home
           v == [op[o] EXCEPT !.pc = "verify"]
           e == [op[o] EXCEPT !.pc = "error"]
<1>0. ~Idle(o) /\ CallLike(op[o]) /\ op[o].kind # "none" /\ op[o].pc = "bootstrap"
  <2>1. ~Idle(o) /\ op[o].pc = "bootstrap"  BY DEF Bootstrap, Idle
  <2> QED  BY <2>1, OpIs
<1>1. /\ UNCHANGED <<plugin, backups, config, saved>>
      /\ db' = [db EXCEPT ![h] = Migrated(@)] \/ db' = db
      /\ Goes(o, v) \/ Goes(o, e)
  BY DEF Bootstrap, To, SetUp
<1>2. CallLike(v) /\ v.pc = "verify" /\ v.home = h /\ v.kind = op[o].kind /\ v.activate = op[o].activate
  BY <1>0, MovedIs
<1>3. CallLike(e) /\ e.pc = "error"  BY <1>0, MovedIs
<1> HIDE DEF v, e
<1>4. Kept
  <2>1. db' = [x \in Home |-> db'[x]] /\ first' = first  BY <1>1 DEF PInv, Tables, Goes
  <2>2. Tables'  BY <1>1, <2>1 DEF PInv, Tables, Stored
  <2> QED  BY <1>1, <2>1, <2>2 DEF Kept, Stored
<1>5. CASE Goes(o, v)
  <2>1. Took(o, v)  BY <1>0, <1>5, GoesTo
  <2>2. ASSUME apart, op'[o] = v PROVE Whole(op[o])'
    <3>1. Whole(op[o])  BY <2>2 DEF PInv
    <3> QED  BY <1>0, <1>1, <1>2, <2>2, <3>1 DEF Whole, Resolved, Tree
  <2>3. Fits(o, v)  BY <1>2, <2>2 DEF Fits, Clears
  <2> QED  BY <1>4, <2>1, <2>3, StepKeeps
<1>6. CASE Goes(o, e)  BY <1>0, <1>3, <1>4, <1>6, MovesKeeps DEF Clears
<1> QED  BY <1>1, <1>5, <1>6

LEMMA VerifyStep == ASSUME PInv, NEW o \in Operator, Verify(o) PROVE PInv'
<1> DEFINE h == op[o].home
           good == IF op[o].activate THEN RuntimeVerified(h) ELSE Verified(h)
           v == [op[o] EXCEPT !.pc = "ok"]
           e == [op[o] EXCEPT !.pc = "error"]
<1>0. ~Idle(o) /\ CallLike(op[o]) /\ op[o].kind # "none" /\ op[o].pc = "verify"
  <2>1. ~Idle(o) /\ op[o].pc = "verify"  BY DEF Verify, Idle
  <2> QED  BY <2>1, OpIs
<1>1. UNCHANGED disk /\ ((good /\ Goes(o, v)) \/ Goes(o, e))
  BY DEF Verify, To
<1>2. CallLike(v) /\ v.pc = "ok" /\ v.home = h /\ v.kind = op[o].kind /\ v.activate = op[o].activate
  BY <1>0, MovedIs
<1>3. CallLike(e) /\ e.pc = "error"  BY <1>0, MovedIs
<1>4. Kept  BY <1>1, Unchanged
<1>5. good /\ op[o].activate => db[h] = "current"  BY DEF RuntimeVerified, Current
<1> HIDE DEF v, e, good
<1>6. CASE good /\ Goes(o, v)
  <2>1. Took(o, v)  BY <1>0, <1>6, GoesTo
  <2>2. ASSUME apart, op'[o] = v PROVE Whole(op[o])'
    <3>1. Whole(op[o])  BY <2>2 DEF PInv
    <3>2. plugin' = plugin /\ config' = config /\ db' = db  BY <1>1 DEF disk
    <3> QED  BY <1>0, <1>2, <1>5, <1>6, <2>2, <3>1, <3>2 DEF Whole, Resolved, Tree
  <2>3. Fits(o, v)  BY <1>2, <2>2 DEF Fits, Clears
  <2> QED  BY <1>4, <2>1, <2>3, StepKeeps
<1>7. CASE Goes(o, e)  BY <1>0, <1>3, <1>4, <1>7, MovesKeeps DEF Clears
<1> QED  BY <1>1, <1>6, <1>7

\* What install finds when it looks: it goes on, or it is done with what is there.
LEMMA LooksKeeps ==
  ASSUME PInv, NEW o \in Operator, NEW call, CallLike(call), call.kind # "none", NEW force, NEW c,
         call.kind = "install" => c = plugin[call.home],
         NEW d, d = Looked(call, c, force), Took(o, d), d.pc \in {"idle", "error"} => op'[o] = Ended,
         UNCHANGED disk
  PROVE  PInv'
<1>1. Kept  BY Unchanged
<1>2. CASE d = [call EXCEPT !.pc = "backup"]
  <2>1. CallLike(d) /\ d.pc = "backup"  BY <1>2, MovedIs
  <2>2. ASSUME op'[o] = d PROVE Whole(op[o])'  BY <2>1, <2>2 DEF Whole
  <2>3. Fits(o, d)  BY <2>1, <2>2 DEF Fits, Clears
  <2> QED  BY <1>1, <2>3, StepKeeps
<1>3. ASSUME NEW worked, Finished(call, worked, d), worked => SameTree(c) PROVE PInv'
  <2>1. ASSUME apart, op'[o] = d PROVE Whole(op[o])'
    <3>1. CASE d.kind # "install"  BY <2>1, <3>1 DEF Whole
    <3>2. CASE d.kind = "install"
      <4>1. d.pc # "error"  BY <2>1, <3>2, EndedIs
      <4>2. /\ worked /\ d.home = call.home
            /\ \/ d.pc = "config" /\ d.activate
               \/ d.pc = "verify" /\ ~d.activate
        BY <1>3, <3>2, <4>1, Zenon DEF Finished
      <4>3. call.kind = "install"  BY <1>3, <3>2 DEF Finished
      <4>4. plugin[d.home] = Link(Source) /\ plugin' = plugin  BY <1>3, <4>2, <4>3 DEF SameTree, disk
      <4>5. Resolved(plugin'[d.home]) = Tree(Source, "whole")  BY <4>4, LinkIsWhole
      <4>6. Resolved(plugin[op[o].home])' = Resolved(plugin'[d.home])  BY <2>1 DEF Resolved, Tree
      <4> QED  BY <2>1, <4>2, <4>5, <4>6 DEF Whole, Tree
    <3> QED  BY <3>1, <3>2
  <2>2. Fits(o, d)  BY <1>3, <2>1 DEF Fits, Finished
  <2> QED  BY <1>1, <2>2, StepKeeps
<1>4. \/ SameTree(c) /\ d = Done(call, TRUE)
      \/ d = Done(call, FALSE)
      \/ d = [call EXCEPT !.pc = "backup"]
  BY LookedIs
<1>5. Finished(call, TRUE, Done(call, TRUE)) /\ Finished(call, FALSE, Done(call, FALSE))  BY DoneIs
<1> QED  BY <1>2, <1>3, <1>4, <1>5

LEMMA LookStep == ASSUME PInv, NEW o \in Operator, Look(o) PROVE PInv'
<1> DEFINE d == Looked(op[o], plugin[op[o].home], TRUE)
<1>1. ~Idle(o) /\ Goes(o, d) /\ UNCHANGED disk  BY DEF Look, Idle
<1>2. CallLike(op[o]) /\ op[o].kind # "none"  BY <1>1, OpIs
<1>3. Took(o, d) /\ (d.pc \in {"idle", "error"} => op'[o] = Ended)  BY <1>1, GoesTo
<1> QED  BY <1>1, <1>2, <1>3, LooksKeeps

\* The end of a rollout, or of a process.
LEMMA StopStep == ASSUME PInv, NEW o \in Operator, WriteReceipt(o) \/ Crash(o) PROVE PInv'
<1> DEFINE r == [op[o] EXCEPT !.pc = "ok"]
           d == [op[o] EXCEPT !.pc = "idle"]
<1>0. ~Idle(o) /\ CallLike(op[o]) /\ op[o].kind # "none" /\ UNCHANGED disk
  <2>1. ~Idle(o) /\ UNCHANGED disk  BY DEF WriteReceipt, Crash, Idle
  <2> QED  BY <2>1, OpIs
<1>1. Kept  BY <1>0, Unchanged
<1>2. CallLike(r) /\ r.pc = "ok" /\ r.kind = op[o].kind  BY <1>0, MovedIs
<1>3. CallLike(d) /\ d.pc = "idle"  BY <1>0, MovedIs
<1>4. CASE WriteReceipt(o)
  <2>1. Goes(o, r) /\ op[o].pc = "receipt"  BY <1>4 DEF WriteReceipt, To
  <2> HIDE DEF r, d
  <2>2. Took(o, r)  BY <1>0, <2>1, GoesTo
  <2>3. ASSUME apart, op'[o] = r PROVE Whole(op[o])'
    <3>1. op[o].kind = "rollout"  BY <1>0, <2>1 DEF CallLike
    <3> QED  BY <1>2, <2>3, <3>1 DEF Whole
  <2>4. Fits(o, r)  BY <1>2, <2>3 DEF Fits, Clears
  <2> QED  BY <1>1, <2>2, <2>4, StepKeeps
<1>5. CASE Crash(o)
  <2>1. Goes(o, d)  BY <1>5 DEF Crash, To
  <2> HIDE DEF r, d
  <2> QED  BY <1>0, <1>1, <1>3, <2>1, MovesKeeps DEF Clears
<1> QED  BY <1>4, <1>5

-------------------------------------------------------------------------------
\* The calls an operator makes.
LEMMA InstallStep == ASSUME PInv, NEW o \in Operator, Install(o) PROVE PInv'
<1>1. PICK h \in Home, force \in BOOLEAN, activate \in BOOLEAN :
        Starts(o, Looked([Ended EXCEPT !.kind = "install", !.home = h, !.activate = activate], plugin[h], force))
  BY DEF Install
<1> DEFINE call == [Ended EXCEPT !.kind = "install", !.home = h, !.activate = activate]
           d == Looked(call, plugin[h], force)
<1>2. CallLike(call) /\ call.kind = "install" /\ call.home = h  BY DEF CallLike, Field, Ended
<1>3. Starts(o, d) /\ UNCHANGED disk  BY <1>1 DEF Install
<1> HIDE DEF call
<1>4. Took(o, d)  BY <1>3, StartsTo
<1>5. op'[o] = IF d.pc = "error" THEN Ended ELSE d  BY <1>3 DEF Starts
<1>6. d.pc # "idle"
  <2>1. \/ d = Done(call, TRUE) \/ d = Done(call, FALSE)
        \/ d = [call EXCEPT !.pc = "backup"]
    BY LookedIs
  <2>2. Finished(call, TRUE, Done(call, TRUE)) /\ Finished(call, FALSE, Done(call, FALSE))  BY <1>2, DoneIs
  <2>3. CASE d = [call EXCEPT !.pc = "backup"]  BY <1>2, <2>3, MovedIs
  <2>4. CASE d = Done(call, TRUE) \/ d = Done(call, FALSE)  BY <1>2, <2>2, <2>4 DEF Finished
  <2> QED  BY <2>1, <2>3, <2>4
<1>7. \A c : c = plugin[h] => d = Looked(call, c, force)  OBVIOUS
<1> HIDE DEF d
<1>8. d.pc \in {"idle", "error"} => op'[o] = Ended  BY <1>5, <1>6
<1> QED  BY <1>2, <1>3, <1>4, <1>7, <1>8, LooksKeeps

\* A call that is not an install, and does not begin by clearing.
LEMMA OtherStarts ==
  ASSUME PInv, NEW o \in Operator, NEW call, Starts(o, call), Kept, CallLike(call), call.kind # "install",
         ~Clears(call), call.pc # "write"
  PROVE  PInv'
<1>1. Took(o, call)  BY StartsTo
<1>2. ASSUME op'[o] = call PROVE Whole(op[o])'  BY <1>2 DEF Whole
<1>3. Fits(o, call)  BY <1>2 DEF Fits
<1> QED  BY <1>1, <1>3, StepKeeps

LEMMA OtherCalls == ASSUME PInv, NEW o \in Operator, Undo(o) \/ Rollout(o) \/ Revert(o) PROVE PInv'
<1>1. CASE Undo(o)
  <2>1. PICK h, n : Starts(o, [Ended EXCEPT !.kind = "undo", !.pc = "backup", !.home = h, !.from = n])
    BY <1>1 DEF Undo
  <2> DEFINE call == [Ended EXCEPT !.kind = "undo", !.pc = "backup", !.home = h, !.from = n]
  <2>2. CallLike(call) /\ call.kind = "undo" /\ call.pc = "backup"  BY DEF CallLike, Field, Ended
  <2>3. Starts(o, call)  BY <2>1
  <2> HIDE DEF call
  <2>4. Kept  BY <1>1, Unchanged DEF Undo
  <2> QED  BY <2>2, <2>3, <2>4, OtherStarts DEF Clears
<1>2. CASE Rollout(o)
  <2>1. PICK todo, acts : Starts(o, Next1([Ended EXCEPT !.kind = "rollout", !.todo = todo, !.acts = acts]))
    BY <1>2, Zenon DEF Rollout
  <2> DEFINE call == [Ended EXCEPT !.kind = "rollout", !.todo = todo, !.acts = acts]
             d == Next1(call)
  <2>2. CallLike(call) /\ call.kind = "rollout"  BY DEF CallLike, Field, Ended
  <2>3. Starts(o, d)  BY <2>1
  <2> HIDE DEF call
  <2>4. CallLike(d) /\ d.kind = "rollout" /\ d.pc \in {"receipt", "ok", "save", "backup"}  BY <2>2, Next1Is
  <2> HIDE DEF d
  <2>5. Kept  BY <1>2, Unchanged DEF Rollout
  <2> QED  BY <2>3, <2>4, <2>5, OtherStarts DEF Clears
<1>3. CASE Revert(o)
  <2>1. PICK todo, acts : LET call == [Ended EXCEPT !.kind = "revert", !.todo = todo, !.acts = acts]
                          IN  Starts(o, Next1(call)) \/ Starts(o, [call EXCEPT !.pc = "error"])
    BY <1>3 DEF Revert
  <2> DEFINE call == [Ended EXCEPT !.kind = "revert", !.todo = todo, !.acts = acts]
             d == Next1(call)
             e == [call EXCEPT !.pc = "error"]
  <2>2. CallLike(call) /\ call.kind = "revert"  BY DEF CallLike, Field, Ended
  <2>3. Starts(o, d) \/ Starts(o, e)  BY <2>1
  <2> HIDE DEF call
  <2>4. CallLike(d) /\ d.kind = "revert" /\ d.pc \in {"receipt", "ok", "save", "backup"}  BY <2>2, Next1Is
  <2>5. CallLike(e) /\ e.kind = "revert" /\ e.pc = "error"  BY <2>2, MovedIs
  <2> HIDE DEF d, e
  <2>6. Kept  BY <1>3, Unchanged DEF Revert
  <2> QED  BY <2>3, <2>4, <2>5, <2>6, OtherStarts DEF Clears
<1> QED  BY <1>1, <1>2, <1>3

LEMMA RestoreStep == ASSUME PInv, NEW o \in Operator, RestoreConfig(o) PROVE PInv'
<1>1. PICK h \in Home :
        /\ \/ \E text \in saved[h] : config' = [config EXCEPT ![h] = text]
           \/ FirstConfig[h] = "absent" /\ config' = [config EXCEPT ![h] = "absent"]
        /\ Starts(o, Ended)
        /\ UNCHANGED <<plugin, backups, saved, db, receipt, faults>>
  BY DEF RestoreConfig
<1>2. Noted(h)
  <2>1. CASE \E text \in saved[h] : config' = [config EXCEPT ![h] = text]  BY <2>1 DEF PInv, Safe
  <2>2. CASE FirstConfig[h] = "absent"  BY <2>2 DEF Noted
  <2> QED  BY <1>1, <2>1, <2>2
<1>3. config' = [x \in Home |-> config'[x]] /\ \A x \in Home : x # h => config'[x] = config[x]
  BY <1>1 DEF PInv, Tables
<1>4. first' = first  BY <1>1 DEF Starts
<1>5. Tables'  BY <1>1, <1>3 DEF PInv, Tables, Stored
<1>6. Noted(h)'  BY <1>1, <1>2 DEF Noted
<1>7. Kept  BY <1>1, <1>3, <1>5, <1>6 DEF Kept, Stored
<1> QED  BY <1>1, <1>7, EndedIs, OtherStarts DEF Clears

LEMMA PInvNext == PInv /\ [Next]_vars => PInv'
<1> SUFFICES ASSUME PInv, [Next]_vars PROVE PInv'  OBVIOUS
<1>1. CASE UNCHANGED vars
  <2>1. Tables' /\ Calls'  BY <1>1 DEF vars, disk, PInv, Tables, Calls, Stored, CallLike
  <2>2. Safe'  BY <1>1 DEF vars, disk, PInv, Safe, Backed, Noted, Clears, Stored
  <2>3. Alone'  BY <1>1 DEF vars, disk, PInv, Alone, Idle
  <2>4. apart' => \A o \in Operator : Whole(op[o])'
    BY <1>1 DEF vars, disk, PInv, Whole, Resolved, Tree
  <2> QED  BY <2>1, <2>2, <2>3, <2>4 DEF PInv
<1>2. CASE Next
  <2>1. PICK o \in Operator :
          \/ Install(o) \/ Undo(o) \/ Rollout(o) \/ Revert(o) \/ RestoreConfig(o)
          \/ Save(o) \/ Look(o) \/ Backup(o) \/ Remove(o) \/ Removed(o) \/ Place(o)
          \/ WriteReceipt(o) \/ Verify(o) \/ Configure(o) \/ WriteConfig(o) \/ Bootstrap(o)
          \/ Crash(o)
    BY <1>2 DEF Next
  <2>2. CASE Install(o) \/ Undo(o) \/ Rollout(o) \/ Revert(o) \/ RestoreConfig(o)
    BY <2>2, InstallStep, OtherCalls, RestoreStep
  <2>3. CASE Save(o) \/ Look(o) \/ Backup(o) \/ Remove(o) \/ Removed(o) \/ Place(o)
    BY <2>3, SaveStep, LookStep, BackupStep, RemoveStep, PlaceStep
  <2>4. CASE \/ WriteReceipt(o) \/ Verify(o) \/ Configure(o) \/ WriteConfig(o) \/ Bootstrap(o)
             \/ Crash(o)
    BY <2>4, StopStep, VerifyStep, ConfigureStep, WriteStep, BootstrapStep
  <2> QED  BY <2>1, <2>2, <2>3, <2>4
<1> QED  BY <1>1, <1>2

LEMMA InitPInv == Init => PInv
<1> SUFFICES ASSUME Init PROVE PInv  OBVIOUS
<1>1. \A o \in Operator : op[o] = Ended  BY DEF Init
<1>2. Calls
  <2>1. op = [o \in Operator |-> op[o]]  BY DEF Init
  <2> QED  BY <1>1, <2>1, EndedIs DEF Calls
<1>3. Tables
  <2>1. \A h \in Home : backups[h] = <<>>  BY DEF Init
  <2>2. /\ plugin = [h \in Home |-> plugin[h]] /\ config = [h \in Home |-> config[h]]
        /\ saved = [h \in Home |-> saved[h]] /\ db = [h \in Home |-> db[h]]
        /\ backups = [h \in Home |-> backups[h]]
    BY InstallAssumption DEF Init, InstallAssumption
  <2>3. \A S : <<>> \in Seq(S)  OBVIOUS
  <2> QED  BY <2>1, <2>2, <2>3, Zenon DEF Tables
<1>4. Safe  BY <1>1, EndedIs DEF Init, Safe, Noted, Clears
<1>5. Alone  BY <1>1, EndedIs DEF Alone
<1>6. \A o \in Operator : Whole(op[o])  BY <1>1, EndedIs DEF Whole
<1> QED  BY <1>2, <1>3, <1>4, <1>5, <1>6 DEF PInv

-------------------------------------------------------------------------------
\* What the receipt of a rollout is good for, while no calls overlap: an action
\* names a backup of what its profile had, one action for each profile.
ActField == {"home", "existed", "path", "applied", "before"}
Sound(a, copies) ==
    /\ a = [x \in ActField |-> a[x]] /\ a.home \in Home
    /\ a.existed <=> a.before # None
    /\ a.existed /\ a.path # 0 => a.path \in DOMAIN copies[a.home] /\ copies[a.home][a.path] = a.before
Sounds(acts, copies) ==
    \A a \in acts : Sound(a, copies) /\ \A b \in acts : a.home = b.home => a = b

Of(acts) == {a.home : a \in acts}

\* A rollout has not touched the profiles it still has to do, nor the one it is
\* about to save; a rollback has returned the others.
Rolling(c, dir) ==
    /\ c.pc \in {"save", "look", "backup", "remove", "removing", "place", "receipt", "ok"}
    /\ \A a \in c.acts : a.home \in c.todo \/ (c.pc = "save" /\ a.home = c.home) => dir[a.home] = a.before
Reverting(c, dir) ==
    /\ c.pc \in {"backup", "remove", "removing", "place", "ok"}
    /\ \A a \in c.acts : /\ a.existed => a.path # 0
                         /\ a.home \in c.todo \/ (c.pc # "ok" /\ a.home = c.home) \/ dir[a.home] = a.before
    /\ c.pc # "ok" => c.home \in Of(c.acts)
    /\ c.pc = "place" => dir[c.home] = None
    /\ c.pc = "ok" => c.todo = {}

Careful(c, dir, copies) ==
    /\ c.kind \in {"rollout", "revert"} =>
          /\ Sounds(c.acts, copies) /\ c.todo \subseteq Of(c.acts) /\ c.home \notin c.todo
    /\ c.kind = "rollout" => Rolling(c, dir)
    /\ c.kind = "revert" => Reverting(c, dir)

RInv == apart => /\ Sounds(receipt, backups)
                 /\ \A o \in Operator : Careful(op[o], plugin, backups)

\* Backups are not taken away or changed.
Grown(old, new) ==
    \A h \in Home : \A n \in DOMAIN old[h] : n \in DOMAIN new[h] /\ new[h][n] = old[h][n]

LEMMA SoundsGrown ==
  ASSUME NEW acts, NEW old, NEW new, Sounds(acts, old), Grown(old, new)
  PROVE  Sounds(acts, new)
  BY DEF Sounds, Sound, Grown

LEMMA FirstIs ==
  ASSUME NEW S, S \subseteq Home, S # {}
  PROVE  First(S) \in S
<1> DEFINE T == {n \in DOMAIN Profiles : Profiles[n] \in S}
<1>0. Profiles \in Seq(Home) /\ DOMAIN Profiles = 1..Len(Profiles) /\ Len(Profiles) \in Nat
  BY InstallAssumption DEF InstallAssumption
<1>1. T \in SUBSET Nat  BY <1>0
<1>2. T # {}  BY DEF Home
<1>3. PICK n \in T : ~ \E k \in T : <<k, n>> \in OpToRel(<, Nat)  BY <1>1, <1>2, NatLessThanWellFounded, WFMin
<1>4. \A k \in T : <<k, n>> \in Nat \X Nat  BY <1>1
<1>5. \A k \in T : ~(k < n)  BY <1>3, <1>4, Zenon DEF OpToRel
<1>6. ASSUME NEW m \in 1..(n - 1) PROVE Profiles[m] \notin S
  <2>1. n \in 1..Len(Profiles)  BY <1>0
  <2>2. m \in DOMAIN Profiles /\ m < n  BY <1>0, <2>1
  <2> QED  BY <1>5, <2>2
<1>7. \E i \in DOMAIN Profiles : Profiles[i] \in S /\ \A m \in 1..(i - 1) : Profiles[m] \notin S  BY <1>6
<1> QED  BY <1>7 DEF First

\* A call moves on: what it has to do and what it has noted stay.
LEMMA MovedKeeps ==
  ASSUME NEW c, CallLike(c), NEW pc, NEW d, d = [c EXCEPT !.pc = pc]
  PROVE  d.pc = pc /\ d.home = c.home /\ d.kind = c.kind /\ d.acts = c.acts /\ d.todo = c.todo /\ d.path = c.path
  BY DEF CallLike, Field

LEMMA Next1Careful ==
  ASSUME NEW c, CallLike(c), c.kind \in {"rollout", "revert"}, NEW dir, NEW copies,
         Sounds(c.acts, copies), c.todo \subseteq Of(c.acts),
         c.kind = "rollout" => \A a \in c.acts : a.home \in c.todo => dir[a.home] = a.before,
         c.kind = "revert" => \A a \in c.acts : /\ a.existed => a.path # 0
                                                /\ a.home \in c.todo \/ dir[a.home] = a.before
  PROVE  Careful(Next1(c), dir, copies)
<1> DEFINE d == Next1(c)
<1> SUFFICES Careful(d, dir, copies)  OBVIOUS
<1>1. CASE c.todo = {}
  <2> DEFINE pc == IF c.kind = "rollout" THEN "receipt" ELSE "ok"
             n == [c EXCEPT !.pc = pc]
  <2>1. d = n  BY <1>1 DEF Next1
  <2>2. (c.kind = "rollout" => pc = "receipt") /\ (c.kind = "revert" => pc = "ok")  OBVIOUS
  <2> HIDE DEF pc
  <2>3. n.pc = pc /\ n.home = c.home /\ n.kind = c.kind /\ n.acts = c.acts /\ n.todo = c.todo
    BY MovedKeeps
  <2> HIDE DEF n
  <2>4. /\ d.pc = pc /\ d.kind = c.kind /\ d.acts = c.acts /\ d.todo = {}  BY <1>1, <2>1, <2>3
  <2> HIDE DEF d
  <2> QED  BY <1>1, <2>2, <2>4 DEF Careful, Rolling, Reverting
<1>2. CASE c.todo # {}
  <2> DEFINE pc == IF c.kind = "rollout" THEN "save" ELSE "backup"
             h == First(c.todo)
             n == [c EXCEPT !.pc = pc, !.home = h, !.todo = @ \ {h}, !.path = 0]
  <2>1. d = n  BY <1>2 DEF Next1
  <2>2. (c.kind = "rollout" => pc = "save") /\ (c.kind = "revert" => pc = "backup")  OBVIOUS
  <2>3. h \in c.todo
    <3>1. Of(c.acts) \subseteq Home  BY DEF Of, Sounds, Sound
    <3> QED  BY <1>2, <3>1, FirstIs
  <2> HIDE DEF pc, h
  <2>4. n.pc = pc /\ n.home = h /\ n.kind = c.kind /\ n.acts = c.acts /\ n.todo = c.todo \ {h}
    BY DEF CallLike, Field
  <2> HIDE DEF n
  <2>5. d.pc = pc /\ d.home = h /\ d.kind = c.kind /\ d.acts = c.acts /\ d.todo = c.todo \ {h}  BY <2>1, <2>4
  <2> HIDE DEF d
  <2> QED  BY <2>2, <2>3, <2>5 DEF Careful, Rolling, Reverting
<1> QED  BY <1>1, <1>2

\* What becomes of the actions a rollout notes.
Marked(acts, h, worked) == {IF a.home = h THEN [a EXCEPT !.applied = worked] ELSE a : a \in acts}
SavedAs(acts, h, n) == {IF a.home = h THEN [a EXCEPT !.path = n] ELSE a : a \in acts}

LEMMA MarkedIs ==
  ASSUME NEW acts, NEW copies, Sounds(acts, copies), NEW h, NEW worked
  PROVE  /\ Sounds(Marked(acts, h, worked), copies) /\ Of(Marked(acts, h, worked)) = Of(acts)
         /\ \A b \in Marked(acts, h, worked) : \E a \in acts : b.home = a.home /\ b.before = a.before
<1> DEFINE new == Marked(acts, h, worked)
           As(a) == IF a.home = h THEN [a EXCEPT !.applied = worked] ELSE a
<1>1. new = {As(a) : a \in acts}  BY DEF Marked
<1>2. ASSUME NEW a \in acts
      PROVE  As(a).home = a.home /\ As(a).before = a.before /\ Sound(As(a), copies)
  BY DEF Sounds, Sound, ActField
<1> HIDE DEF As, new
<1>3. Sounds(new, copies)  BY <1>1, <1>2 DEF Sounds
<1>4. Of(new) = Of(acts)  BY <1>1, <1>2 DEF Of
<1> QED  BY <1>1, <1>2, <1>3, <1>4 DEF new

LEMMA SavedIs ==
  ASSUME NEW acts, NEW copies, Sounds(acts, copies), NEW h, NEW n,
         \A a \in acts : a.home = h => n \in DOMAIN copies[h] /\ copies[h][n] = a.before
  PROVE  /\ Sounds(SavedAs(acts, h, n), copies) /\ Of(SavedAs(acts, h, n)) = Of(acts)
         /\ \A b \in SavedAs(acts, h, n) : \E a \in acts : b.home = a.home /\ b.before = a.before
<1> DEFINE new == SavedAs(acts, h, n)
           As(a) == IF a.home = h THEN [a EXCEPT !.path = n] ELSE a
<1>1. new = {As(a) : a \in acts}  BY DEF SavedAs
<1>2. ASSUME NEW a \in acts
      PROVE  As(a).home = a.home /\ As(a).before = a.before /\ Sound(As(a), copies)
  BY DEF Sounds, Sound, ActField
<1> HIDE DEF As, new
<1>3. Sounds(new, copies)  BY <1>1, <1>2 DEF Sounds
<1>4. Of(new) = Of(acts)  BY <1>1, <1>2 DEF Of
<1> QED  BY <1>1, <1>2, <1>3, <1>4 DEF new

\* A call goes on with the profile it is at: it may have noted a backup of it.
Continues(c, d) ==
    /\ d.kind = c.kind /\ d.home = c.home /\ d.todo = c.todo
    /\ d.pc \in {"look", "backup", "remove", "removing", "place"}

Elsewhere(h, dir, new) == \A x \in Home : x # h => new[x] = dir[x]

LEMMA MoveCareful ==
  ASSUME NEW c, NEW d, NEW dir, NEW new, NEW old, NEW copies,
         Careful(c, dir, old), Grown(old, copies), Elsewhere(c.home, dir, new), Continues(c, d),
         c.kind = "rollout" => /\ Sounds(d.acts, copies) /\ Of(d.acts) = Of(c.acts)
                               /\ \A b \in d.acts : \E a \in c.acts : b.home = a.home /\ b.before = a.before,
         c.kind = "revert" => d.acts = c.acts /\ d.pc # "look" /\ c.pc # "ok",
         c.kind = "revert" /\ d.pc = "place" => new[c.home] = None
  PROVE  Careful(d, new, copies)
<1>1. CASE c.kind = "rollout"
  <2>1. ASSUME NEW b \in d.acts, b.home \in d.todo PROVE new[b.home] = b.before
    <3>1. PICK a \in c.acts : b.home = a.home /\ b.before = a.before  BY <1>1
    <3>2. a.home \in Home /\ a.home # c.home  BY <1>1, <2>1, <3>1 DEF Continues, Careful, Sounds, Sound
    <3>3. dir[a.home] = a.before  BY <1>1, <2>1, <3>1 DEF Continues, Careful, Rolling
    <3> QED  BY <3>1, <3>2, <3>3 DEF Elsewhere
  <2>2. Rolling(d, new)  BY <2>1 DEF Rolling, Continues
  <2> QED  BY <1>1, <2>2 DEF Careful, Continues
<1>2. CASE c.kind = "revert"
  <2>1. Sounds(d.acts, copies)  BY <1>2, SoundsGrown DEF Careful
  <2>2. ASSUME NEW a \in d.acts
        PROVE  a.home \in d.todo \/ a.home = d.home \/ new[a.home] = a.before
    <3>1. a \in c.acts /\ a.home \in Home  BY <1>2 DEF Careful, Sounds, Sound
    <3> QED  BY <1>2, <3>1 DEF Careful, Reverting, Continues, Elsewhere
  <2>3. Reverting(d, new)  BY <1>2, <2>2 DEF Careful, Reverting, Continues
  <2> QED  BY <1>2, <2>1, <2>3 DEF Careful, Continues
<1>3. CASE c.kind \notin {"rollout", "revert"}  BY <1>3 DEF Careful, Continues
<1> QED  BY <1>1, <1>2, <1>3

LEMMA EndCareful ==
  ASSUME NEW c, CallLike(c), c.kind # "none", NEW dir, NEW new, NEW old, NEW copies,
         Careful(c, dir, old), Grown(old, copies), Elsewhere(c.home, dir, new),
         NEW worked, NEW d, d = Done(c, worked), c.pc # "ok",
         c.kind = "revert" /\ worked => \A a \in c.acts : a.home = c.home => new[a.home] = a.before
  PROVE  d.pc = "error" \/ Careful(d, new, copies)
<1>1. CASE c.kind = "rollout"
  <2> DEFINE acts == Marked(c.acts, c.home, worked)
             n == [c EXCEPT !.acts = acts]
  <2>1. d = Next1(n)  BY <1>1, Zenon DEF Done, Marked
  <2>2. Sounds(c.acts, copies)  BY <1>1, SoundsGrown DEF Careful
  <2>3. /\ Sounds(acts, copies) /\ Of(acts) = Of(c.acts)
        /\ \A b \in acts : \E a \in c.acts : b.home = a.home /\ b.before = a.before
    BY <2>2, MarkedIs
  <2> HIDE DEF acts
  <2>4. CallLike(n) /\ n.kind = c.kind /\ n.acts = acts /\ n.todo = c.todo  BY DEF CallLike, Field
  <2> HIDE DEF n
  <2>5. ASSUME NEW b \in acts, b.home \in c.todo PROVE new[b.home] = b.before
    <3>1. PICK a \in c.acts : b.home = a.home /\ b.before = a.before  BY <2>3
    <3>2. a.home \in Home /\ a.home # c.home  BY <1>1, <2>5, <3>1 DEF Careful, Sounds, Sound
    <3>3. dir[a.home] = a.before  BY <1>1, <2>5, <3>1 DEF Careful, Rolling
    <3> QED  BY <3>1, <3>2, <3>3 DEF Elsewhere
  <2>6. c.todo \subseteq Of(c.acts)  BY <1>1 DEF Careful
  <2>7. Careful(Next1(n), new, copies)  BY <1>1, <2>3, <2>4, <2>5, <2>6, Next1Careful
  <2> QED  BY <2>1, <2>7
<1>2. CASE c.kind = "revert" /\ worked
  <2>1. d = Next1(c)  BY <1>2, Zenon DEF Done
  <2>2. Sounds(c.acts, copies) /\ c.todo \subseteq Of(c.acts)  BY <1>2, SoundsGrown DEF Careful
  <2>3. ASSUME NEW a \in c.acts
        PROVE  (a.existed => a.path # 0) /\ (a.home \in c.todo \/ new[a.home] = a.before)
    <3>1. a.home \in Home  BY <2>2 DEF Sounds, Sound
    <3> QED  BY <1>2, <3>1 DEF Careful, Reverting, Elsewhere
  <2>4. Careful(Next1(c), new, copies)  BY <1>2, <2>2, <2>3, Next1Careful
  <2> QED  BY <2>1, <2>4
<1>3. CASE c.kind = "revert" /\ ~worked
  <2>1. d = [c EXCEPT !.pc = "error"]  BY <1>3, Zenon DEF Done
  <2> QED  BY <2>1, MovedKeeps
<1>4. CASE c.kind \in {"install", "undo"}
  <2>1. d.kind = c.kind  BY DoneIs DEF Finished
  <2> QED  BY <1>4, <2>1 DEF Careful
<1> QED  BY <1>1, <1>2, <1>3, <1>4 DEF CallLike

-------------------------------------------------------------------------------
\* Steps.
LEMMA EndedCareful == \A dir, copies : Careful(Ended, dir, copies)  BY EndedIs DEF Careful

LEMMA StepCareful ==
  ASSUME PInv, RInv, NEW o \in Operator, NEW call, Took(o, call),
         apart /\ apart' => Sounds(receipt', backups'),
         apart /\ op'[o] = call => Careful(call, plugin', backups')
  PROVE  RInv'
<1> SUFFICES ASSUME apart' PROVE Sounds(receipt', backups') /\ \A x \in Operator : Careful(op'[x], plugin', backups')
  BY DEF RInv
<1>1. apart  BY DEF Took
<1>2. ASSUME NEW x \in Operator, x # o PROVE Careful(op'[x], plugin', backups')
  <2>1. op'[x].kind = "none"  BY <1>2 DEF Took
  <2> QED  BY <2>1 DEF Careful
<1>3. Careful(op'[o], plugin', backups')
  <2>1. op'[o] = call \/ op'[o] = Ended  BY DEF Took
  <2>2. CASE op'[o] = Ended  BY <2>2, EndedCareful, Zenon
  <2> QED  BY <1>1, <2>1, <2>2
<1> QED  BY <1>1, <1>2, <1>3

LEMMA ReceiptStays ==
  ASSUME RInv, receipt' = receipt, Grown(backups, backups'), apart
  PROVE  Sounds(receipt', backups')
  BY SoundsGrown DEF RInv

LEMMA Same == ASSUME UNCHANGED backups PROVE Grown(backups, backups')
  BY DEF Grown

LEMMA GrowsBy ==
  ASSUME PInv, NEW h, NEW c, backups' = [backups EXCEPT ![h] = Append(@, c)]
  PROVE  /\ Grown(backups, backups')
         /\ h \in Home => Len(backups'[h]) \in DOMAIN backups'[h] /\ backups'[h][Len(backups'[h])] = c
<1>1. ASSUME NEW s, NEW S, s \in Seq(S)
      PROVE  LET t == Append(s, c)
             IN  /\ \A n \in DOMAIN s : n \in DOMAIN t /\ t[n] = s[n]
                 /\ Len(t) \in DOMAIN t /\ t[Len(t)] = c
  <2>1. s \in Seq(S \cup {c}) /\ DOMAIN s = 1..Len(s) /\ Len(s) \in Nat  BY <1>1
  <2> QED  BY <2>1
<1>2. \A x \in Home : x # h => backups'[x] = backups[x]  BY DEF PInv, Tables
<1>3. h \in Home => backups'[h] = Append(backups[h], c) /\ backups[h] \in Seq(Stored(h))  BY DEF PInv, Tables
<1> QED  BY <1>1, <1>2, <1>3 DEF Grown

LEMMA EndsCareful ==
  ASSUME PInv, RInv, NEW o \in Operator, ~Idle(o), NEW worked, EndsAs(o, worked), receipt' = receipt,
         Grown(backups, backups'), Elsewhere(op[o].home, plugin, plugin'),
         apart /\ op[o].kind = "revert" /\ worked =>
             \A a \in op[o].acts : a.home = op[o].home => plugin'[a.home] = a.before
  PROVE  RInv'
<1> DEFINE d == Done(op[o], worked)
<1>1. CallLike(op[o]) /\ op[o].kind # "none" /\ op[o].pc # "ok"  BY OpIs DEF Idle
<1>2. Goes(o, d)  BY DEF EndsAs
<1>3. Took(o, d) /\ (d.pc \in {"idle", "error"} => op'[o] = Ended)  BY <1>2, GoesTo
<1>4. apart => d.pc = "error" \/ Careful(d, plugin', backups')  BY <1>1, EndCareful DEF RInv
<1> HIDE DEF d
<1>5. apart /\ op'[o] = d => Careful(d, plugin', backups')
  <2>1. CASE d.pc = "error"  BY <1>3, <2>1, EndedCareful
  <2> QED  BY <1>4, <2>1
<1>6. apart => Sounds(receipt', backups')  BY ReceiptStays
<1> QED  BY <1>3, <1>5, <1>6, StepCareful

LEMMA MovesCareful ==
  ASSUME PInv, RInv, NEW o \in Operator, ~Idle(o), NEW d, Goes(o, d), receipt' = receipt,
         Grown(backups, backups'), Elsewhere(op[o].home, plugin, plugin'),
         Continues(op[o], d), d.acts = op[o].acts, op[o].kind = "revert" => d.pc # "look",
         op[o].kind = "revert" /\ d.pc = "place" /\ op[o].home \in Home => plugin'[op[o].home] = None
  PROVE  RInv'
<1>1. Took(o, d) /\ op[o].pc # "ok"  BY GoesTo DEF Idle
<1>2. ASSUME apart PROVE Careful(d, plugin', backups')
  <2>1. Careful(op[o], plugin, backups)  BY <1>2 DEF RInv
  <2>2. op[o].kind = "rollout" => Sounds(d.acts, backups')  BY <2>1, SoundsGrown DEF Careful
  <2>3. op[o].kind = "revert" => op[o].home \in Home
    BY <1>1, <2>1 DEF Careful, Reverting, Sounds, Sound, Of
  <2> QED  BY <1>1, <2>1, <2>2, <2>3, MoveCareful
<1>3. apart => Sounds(receipt', backups')  BY ReceiptStays
<1> QED  BY <1>1, <1>2, <1>3, StepCareful

\* A call that is no rollout and no rollback of one.
LEMMA OthersCareful ==
  ASSUME PInv, RInv, NEW o \in Operator, NEW d, Took(o, d), UNCHANGED <<backups, receipt>>,
         apart => d.kind \notin {"rollout", "revert"}
  PROVE  RInv'
<1>1. apart => Sounds(receipt', backups')  BY Same, ReceiptStays
<1>2. apart => Careful(d, plugin', backups')  BY DEF Careful
<1> QED  BY <1>1, <1>2, StepCareful

LEMMA SaveCareful == ASSUME PInv, RInv, NEW o \in Operator, Save(o) PROVE RInv'
<1> DEFINE h == op[o].home
           c == plugin[h]
<1>0. /\ ~Idle(o) /\ CallLike(op[o]) /\ op[o].kind # "none" /\ op[o].pc = "save" /\ UNCHANGED <<plugin, receipt>>
      /\ Elsewhere(h, plugin, plugin')
  <2>1. ~Idle(o) /\ op[o].pc = "save" /\ UNCHANGED <<plugin, receipt>>  BY DEF Save, Idle
  <2> QED  BY <2>1, OpIs DEF Elsewhere
<1>1. apart => op[o].kind # "revert"  BY <1>0 DEF RInv, Careful, Reverting
<1>2. CASE c = None /\ To(o, "look") /\ UNCHANGED backups
  <2> DEFINE d == [op[o] EXCEPT !.pc = "look"]
  <2>1. Goes(o, d)  BY <1>2 DEF To
  <2>2. Continues(op[o], d) /\ d.acts = op[o].acts  BY <1>0, MovedKeeps DEF Continues
  <2> HIDE DEF d
  <2>3. Took(o, d)  BY <1>0, <2>1, GoesTo
  <2>4. Grown(backups, backups')  BY <1>2, Same
  <2>5. ASSUME apart PROVE Careful(d, plugin', backups')
    <3>1. Careful(op[o], plugin, backups)  BY <2>5 DEF RInv
    <3>2. op[o].kind = "rollout" => Sounds(d.acts, backups')  BY <2>2, <2>4, <3>1, SoundsGrown DEF Careful
    <3> QED  BY <1>0, <1>1, <2>2, <2>4, <2>5, <3>1, <3>2, MoveCareful
  <2>6. apart => Sounds(receipt', backups')  BY <1>0, <2>4, ReceiptStays
  <2> QED  BY <2>3, <2>5, <2>6, StepCareful
<1>3. CASE /\ backups' = [backups EXCEPT ![h] = Append(@, c)]
           /\ Goes(o, [op[o] EXCEPT !.pc = "look",
                             !.acts = {IF a.home = h THEN [a EXCEPT !.path = Len(backups'[h])] ELSE a : a \in @}])
  <2> DEFINE n == Len(backups'[h])
             acts == SavedAs(op[o].acts, h, n)
             d == [op[o] EXCEPT !.pc = "look", !.acts = acts]
  <2>1. Goes(o, d)  BY <1>3 DEF SavedAs
  <2>2. Grown(backups, backups') /\ (h \in Home => n \in DOMAIN backups'[h] /\ backups'[h][n] = c)
    BY <1>3, GrowsBy
  <2> HIDE DEF n, acts
  <2>3. Continues(op[o], d) /\ d.acts = acts  BY <1>0 DEF Continues, CallLike, Field
  <2> HIDE DEF d
  <2>4. Took(o, d)  BY <1>0, <2>1, GoesTo
  <2>5. ASSUME apart PROVE Careful(d, plugin', backups')
    <3>1. Careful(op[o], plugin, backups)  BY <2>5 DEF RInv
    <3>2. CASE op[o].kind = "rollout"
      <4>1. Sounds(op[o].acts, backups')  BY <2>2, <3>1, <3>2, SoundsGrown DEF Careful
      <4>2. ASSUME NEW a \in op[o].acts, a.home = h PROVE n \in DOMAIN backups'[h] /\ backups'[h][n] = a.before
        <5>1. a.home \in Home  BY <4>1 DEF Sounds, Sound
        <5>2. c = a.before  BY <1>0, <3>1, <3>2, <4>2 DEF Careful, Rolling
        <5> QED  BY <2>2, <4>2, <5>1, <5>2
      <4>3. /\ Sounds(acts, backups') /\ Of(acts) = Of(op[o].acts)
            /\ \A b \in acts : \E a \in op[o].acts : b.home = a.home /\ b.before = a.before
        BY <4>1, <4>2, SavedIs DEF acts
      <4> QED  BY <1>0, <2>2, <2>3, <3>1, <3>2, <4>3, MoveCareful
    <3>3. CASE op[o].kind # "rollout"  BY <1>1, <2>3, <2>5, <3>3 DEF Careful, Continues
    <3> QED  BY <3>2, <3>3
  <2>6. apart => Sounds(receipt', backups')  BY <1>0, <2>2, ReceiptStays
  <2> QED  BY <2>4, <2>5, <2>6, StepCareful
<1>4. CASE \E x \in Lesser(c) : backups' = [backups EXCEPT ![h] = Append(@, x)] /\ Fails /\ EndsAs(o, FALSE)
  <2>1. PICK x \in Lesser(c) : backups' = [backups EXCEPT ![h] = Append(@, x)] /\ EndsAs(o, FALSE)  BY <1>4
  <2>2. Grown(backups, backups')  BY <2>1, GrowsBy
  <2> QED  BY <1>0, <2>1, <2>2, EndsCareful
<1> QED  BY <1>2, <1>3, <1>4 DEF Save

LEMMA BackupCareful == ASSUME PInv, RInv, NEW o \in Operator, Backup(o) PROVE RInv'
<1> DEFINE h == op[o].home
           c == plugin[h]
<1>0. ~Idle(o) /\ CallLike(op[o]) /\ UNCHANGED <<plugin, receipt>> /\ Elsewhere(h, plugin, plugin')
  <2>1. ~Idle(o) /\ UNCHANGED <<plugin, receipt>>  BY DEF Backup, Idle
  <2> QED  BY <2>1, OpIs DEF Elsewhere
<1>1. CASE To(o, "remove") /\ UNCHANGED backups
  <2> DEFINE d == [op[o] EXCEPT !.pc = "remove"]
  <2>1. Goes(o, d)  BY <1>1 DEF To
  <2>2. Continues(op[o], d) /\ d.acts = op[o].acts /\ d.pc = "remove"  BY <1>0, MovedKeeps DEF Continues
  <2> HIDE DEF d
  <2>3. Grown(backups, backups')  BY <1>1, Same
  <2> QED  BY <1>0, <2>1, <2>2, <2>3, MovesCareful
<1>2. CASE /\ backups' = [backups EXCEPT ![h] = Append(@, c)]
           /\ Goes(o, [op[o] EXCEPT !.pc = "remove", !.path = Len(backups'[h])])
  <2> DEFINE n == Len(backups'[h])
             d == [op[o] EXCEPT !.pc = "remove", !.path = n]
  <2>1. Goes(o, d)  BY <1>2
  <2> HIDE DEF n
  <2>2. Continues(op[o], d) /\ d.acts = op[o].acts /\ d.pc = "remove"  BY <1>0 DEF Continues, CallLike, Field
  <2> HIDE DEF d
  <2>3. Grown(backups, backups')  BY <1>2, GrowsBy
  <2> QED  BY <1>0, <2>1, <2>2, <2>3, MovesCareful
<1>3. CASE \E x \in Lesser(c) : backups' = [backups EXCEPT ![h] = Append(@, x)] /\ Fails /\ EndsAs(o, FALSE)
  <2>1. PICK x \in Lesser(c) : backups' = [backups EXCEPT ![h] = Append(@, x)] /\ EndsAs(o, FALSE)  BY <1>3
  <2>2. Grown(backups, backups')  BY <2>1, GrowsBy
  <2> QED  BY <1>0, <2>1, <2>2, EndsCareful
<1> QED  BY <1>1, <1>2, <1>3 DEF Backup

LEMMA RemoveCareful == ASSUME PInv, RInv, NEW o \in Operator, Remove(o) \/ Removed(o) PROVE RInv'
<1> DEFINE h == op[o].home
<1>0. ~Idle(o) /\ CallLike(op[o]) /\ UNCHANGED <<backups, receipt>> /\ Grown(backups, backups')
  <2>1. ~Idle(o) /\ UNCHANGED <<backups, receipt>>  BY DEF Remove, Removed, Idle
  <2> QED  BY <2>1, OpIs, Same
<1>1. ASSUME UNCHANGED plugin PROVE Elsewhere(h, plugin, plugin')  BY <1>1 DEF Elsewhere
<1>2. ASSUME NEW c, plugin' = [plugin EXCEPT ![h] = c]
      PROVE  Elsewhere(h, plugin, plugin') /\ (h \in Home => plugin'[h] = c)
  BY <1>2 DEF PInv, Tables, Elsewhere
<1>3. ASSUME NEW pc \in {"place", "removing"}, To(o, pc), Elsewhere(h, plugin, plugin'),
             pc = "place" /\ h \in Home => plugin'[h] = None
      PROVE  RInv'
  <2> DEFINE d == [op[o] EXCEPT !.pc = pc]
  <2>1. Goes(o, d)  BY <1>3 DEF To
  <2>2. Continues(op[o], d) /\ d.acts = op[o].acts /\ d.pc = pc  BY <1>0, MovedKeeps DEF Continues
  <2> HIDE DEF d
  <2> QED  BY <1>0, <1>3, <2>1, <2>2, MovesCareful
<1>4. \/ To(o, "place") /\ plugin' = [plugin EXCEPT ![h] = None]
      \/ To(o, "removing") /\ \E x \in Lesser(plugin[h]) : plugin' = [plugin EXCEPT ![h] = x]
      \/ To(o, "removing") /\ UNCHANGED plugin
      \/ EndsAs(o, FALSE) /\ UNCHANGED plugin
  BY DEF Remove, Removed
<1>5. CASE To(o, "place") /\ plugin' = [plugin EXCEPT ![h] = None]  BY <1>2, <1>3, <1>5
<1>6. CASE To(o, "removing") /\ \E x \in Lesser(plugin[h]) : plugin' = [plugin EXCEPT ![h] = x]
  BY <1>2, <1>3, <1>6
<1>7. CASE To(o, "removing") /\ UNCHANGED plugin  BY <1>1, <1>3, <1>7
<1>8. CASE EndsAs(o, FALSE) /\ UNCHANGED plugin  BY <1>0, <1>1, <1>8, EndsCareful
<1> QED  BY <1>4, <1>5, <1>6, <1>7, <1>8

\* What a rollback puts back is what its action says was there.
LEMMA PlacesBefore ==
  ASSUME NEW c, Careful(c, plugin, backups), c.kind = "revert", c.pc = "place", NEW a \in c.acts, a.home = c.home
  PROVE  Placed(c) = a.before /\ plugin[c.home] = None /\ c.home \in Home
<1>1. \A b \in c.acts : b.home = c.home => b = a  BY DEF Careful, Sounds
<1>2. ActionOf(c) = a  BY <1>1 DEF ActionOf
<1>3. Sound(a, backups) /\ (a.existed => a.path # 0) /\ plugin[c.home] = None  BY DEF Careful, Sounds, Reverting
<1>4. Placed(c) = IF ActionOf(c).existed THEN backups[c.home][ActionOf(c).path] ELSE None  BY Zenon DEF Placed
<1> QED  BY <1>2, <1>3, <1>4 DEF Sound

LEMMA PlaceCareful == ASSUME PInv, RInv, NEW o \in Operator, Place(o) PROVE RInv'
<1> DEFINE h == op[o].home
           p == Placed(op[o])
<1>0. ~Idle(o) /\ op[o].pc = "place" /\ UNCHANGED <<backups, receipt>> /\ Grown(backups, backups')
  <2>1. ~Idle(o) /\ op[o].pc = "place" /\ UNCHANGED <<backups, receipt>>  BY DEF Place, Idle
  <2> QED  BY <2>1, Same
<1>1. ASSUME UNCHANGED plugin PROVE Elsewhere(h, plugin, plugin')  BY <1>1 DEF Elsewhere
<1>2. ASSUME NEW c, plugin' = [plugin EXCEPT ![h] = c]
      PROVE  Elsewhere(h, plugin, plugin') /\ (h \in Home => plugin'[h] = c)
  BY <1>2 DEF PInv, Tables, Elsewhere
<1>3. ASSUME apart, op[o].kind = "revert", NEW a \in op[o].acts, a.home = h
      PROVE  p = a.before /\ plugin[h] = None /\ h \in Home
  <2>1. Careful(op[o], plugin, backups)  BY <1>3 DEF RInv
  <2> QED  BY <1>0, <1>3, <2>1, PlacesBefore
<1>4. \/ plugin' = [plugin EXCEPT ![h] = p] /\ EndsAs(o, TRUE)
      \/ UNCHANGED plugin /\ Exists(h) /\ EndsAs(o, p = None)
      \/ EndsAs(o, FALSE) /\ \E x : plugin' = [plugin EXCEPT ![h] = x]
      \/ EndsAs(o, FALSE) /\ UNCHANGED plugin
  BY DEF Place
<1> HIDE DEF p
<1>5. CASE plugin' = [plugin EXCEPT ![h] = p] /\ EndsAs(o, TRUE)
  <2>1. Elsewhere(h, plugin, plugin') /\ (h \in Home => plugin'[h] = p)  BY <1>2, <1>5
  <2>2. apart /\ op[o].kind = "revert" => \A a \in op[o].acts : a.home = h => plugin'[a.home] = a.before
    BY <1>3, <2>1
  <2> QED  BY <1>0, <1>5, <2>1, <2>2, EndsCareful
<1>6. CASE UNCHANGED plugin /\ Exists(h) /\ EndsAs(o, p = None)
  <2>1. apart /\ op[o].kind = "revert" => \A a \in op[o].acts : a.home # h  BY <1>3, <1>6 DEF Exists
  <2> DEFINE worked == p = None
  <2>2. EndsAs(o, worked)  BY <1>6
  <2> HIDE DEF worked
  <2> QED  BY <1>0, <1>1, <1>6, <2>1, <2>2, EndsCareful
<1>7. CASE EndsAs(o, FALSE) /\ \E x : plugin' = [plugin EXCEPT ![h] = x]  BY <1>0, <1>2, <1>7, EndsCareful
<1>8. CASE EndsAs(o, FALSE) /\ UNCHANGED plugin  BY <1>0, <1>1, <1>8, EndsCareful
<1> QED  BY <1>4, <1>5, <1>6, <1>7, <1>8

LEMMA LookCareful == ASSUME PInv, RInv, NEW o \in Operator, Look(o) PROVE RInv'
<1> DEFINE h == op[o].home
           d == Looked(op[o], plugin[h], TRUE)
           b == [op[o] EXCEPT !.pc = "backup"]
<1>0. /\ ~Idle(o) /\ CallLike(op[o]) /\ op[o].pc = "look" /\ UNCHANGED <<plugin, backups, receipt>>
      /\ Grown(backups, backups') /\ Elsewhere(h, plugin, plugin')
  <2>1. ~Idle(o) /\ op[o].pc = "look" /\ UNCHANGED <<plugin, backups, receipt>>  BY DEF Look, Idle, disk
  <2> QED  BY <2>1, OpIs, Same DEF Elsewhere
<1>1. apart => op[o].kind # "revert"  BY <1>0 DEF RInv, Careful, Reverting
<1>2. Goes(o, d)  BY DEF Look
<1>3. d = Done(op[o], TRUE) \/ d = Done(op[o], FALSE) \/ d = b  BY LookedIs
<1> HIDE DEF d
<1>4. CASE d = Done(op[o], TRUE)
  <2>1. EndsAs(o, TRUE)  BY <1>2, <1>4 DEF EndsAs
  <2> QED  BY <1>0, <1>1, <2>1, EndsCareful
<1>5. CASE d = Done(op[o], FALSE)
  <2>1. EndsAs(o, FALSE)  BY <1>2, <1>5 DEF EndsAs
  <2> QED  BY <1>0, <1>1, <2>1, EndsCareful
<1>6. CASE d = b
  <2>1. Continues(op[o], d) /\ d.acts = op[o].acts /\ d.pc = "backup"  BY <1>0, <1>6, MovedKeeps DEF Continues
  <2> QED  BY <1>0, <1>2, <2>1, MovesCareful
<1> QED  BY <1>3, <1>4, <1>5, <1>6

LEMMA ReceiptCareful == ASSUME PInv, RInv, NEW o \in Operator, WriteReceipt(o) PROVE RInv'
<1> DEFINE d == [op[o] EXCEPT !.pc = "ok"]
<1>0. /\ ~Idle(o) /\ CallLike(op[o]) /\ op[o].pc = "receipt" /\ op[o].kind = "rollout"
      /\ UNCHANGED <<plugin, backups>> /\ receipt' = {a \in op[o].acts : a.applied}
  <2>1. ~Idle(o) /\ op[o].pc = "receipt" /\ UNCHANGED <<plugin, backups>> /\ receipt' = {a \in op[o].acts : a.applied}
    BY DEF WriteReceipt, Idle, disk
  <2> QED  BY <2>1, OpIs DEF CallLike
<1>1. Goes(o, d)  BY DEF WriteReceipt, To
<1>2. d.pc = "ok" /\ d.home = op[o].home /\ d.kind = op[o].kind /\ d.acts = op[o].acts /\ d.todo = op[o].todo
  BY <1>0, MovedKeeps
<1> HIDE DEF d
<1>3. Took(o, d)  BY <1>0, <1>1, GoesTo
<1>4. ASSUME apart PROVE Careful(d, plugin', backups') /\ Sounds(receipt', backups')
  <2>1. Careful(op[o], plugin, backups)  BY <1>4 DEF RInv
  <2>2. Sounds(op[o].acts, backups)  BY <1>0, <2>1 DEF Careful
  <2> QED  BY <1>0, <1>2, <2>1, <2>2 DEF Careful, Rolling, Sounds
<1> QED  BY <1>3, <1>4, StepCareful

LEMMA ActivationCareful ==
  ASSUME PInv, RInv, NEW o \in Operator, Verify(o) \/ Configure(o) \/ WriteConfig(o) \/ Bootstrap(o) \/ Crash(o)
  PROVE  RInv'
<1>0. ~Idle(o) /\ CallLike(op[o]) /\ UNCHANGED <<backups, receipt>>
  <2>1. ~Idle(o) /\ UNCHANGED <<backups, receipt>>
    BY DEF Verify, Configure, WriteConfig, Bootstrap, Crash, Idle, disk
  <2> QED  BY <2>1, OpIs
<1>1. CASE Verify(o) \/ Configure(o) \/ WriteConfig(o) \/ Bootstrap(o)
  <2>1. op[o].pc \in {"verify", "config", "write", "bootstrap"}
    BY <1>1 DEF Verify, Configure, WriteConfig, Bootstrap
  <2>2. apart => op[o].kind \notin {"rollout", "revert"}  BY <2>1 DEF RInv, Careful, Rolling, Reverting
  <2>3. \E pc : To(o, pc)  BY <1>1 DEF Verify, Configure, WriteConfig, Bootstrap
  <2>4. PICK pc : To(o, pc)  BY <2>3
  <2> DEFINE d == [op[o] EXCEPT !.pc = pc]
  <2>5. Goes(o, d) /\ d.kind = op[o].kind  BY <1>0, <2>4, MovedKeeps DEF To
  <2> HIDE DEF d
  <2>6. Took(o, d)  BY <1>0, <2>5, GoesTo
  <2> QED  BY <1>0, <2>2, <2>5, <2>6, OthersCareful
<1>2. CASE Crash(o)
  <2> DEFINE d == [op[o] EXCEPT !.pc = "idle"]
  <2>1. Goes(o, d) /\ d.pc = "idle"  BY <1>0, <1>2, MovedKeeps DEF Crash, To
  <2> HIDE DEF d
  <2>2. Took(o, d) /\ op'[o] = Ended  BY <1>0, <2>1, GoesTo
  <2>3. op'[o] = d => Careful(d, plugin', backups')  BY <2>2, EndedCareful
  <2>4. apart => Sounds(receipt', backups')  BY <1>0, Same, ReceiptStays
  <2> QED  BY <2>2, <2>3, <2>4, StepCareful
<1> QED  BY <1>1, <1>2

LEMMA CallsCareful ==
  ASSUME PInv, RInv, NEW o \in Operator, Install(o) \/ Undo(o) \/ RestoreConfig(o)
  PROVE  RInv'
<1>0. UNCHANGED <<backups, receipt>>  BY DEF Install, Undo, RestoreConfig, disk
<1>1. CASE Install(o)
  <2>1. PICK h \in Home, force \in BOOLEAN, activate \in BOOLEAN :
          Starts(o, Looked([Ended EXCEPT !.kind = "install", !.home = h, !.activate = activate], plugin[h], force))
    BY <1>1 DEF Install
  <2> DEFINE call == [Ended EXCEPT !.kind = "install", !.home = h, !.activate = activate]
             b == [call EXCEPT !.pc = "backup"]
             d == Looked(call, plugin[h], force)
  <2>2. CallLike(call) /\ call.kind = "install"  BY DEF CallLike, Field, Ended
  <2>3. Starts(o, d)  BY <2>1
  <2> HIDE DEF call
  <2>4. d = Done(call, TRUE) \/ d = Done(call, FALSE) \/ d = b  BY LookedIs
  <2> HIDE DEF d
  <2>5. Done(call, TRUE).kind = "install" /\ Done(call, FALSE).kind = "install"  BY <2>2, DoneIs DEF Finished
  <2>6. b.kind = "install"  BY <2>2, MovedKeeps
  <2>7. d.kind = "install" /\ Took(o, d)  BY <2>3, <2>4, <2>5, <2>6, StartsTo
  <2> QED  BY <1>0, <2>7, OthersCareful
<1>2. CASE Undo(o)
  <2>1. PICK h, n : Starts(o, [Ended EXCEPT !.kind = "undo", !.pc = "backup", !.home = h, !.from = n])
    BY <1>2 DEF Undo
  <2> DEFINE call == [Ended EXCEPT !.kind = "undo", !.pc = "backup", !.home = h, !.from = n]
  <2>2. call.kind = "undo"  BY DEF Ended
  <2>3. Starts(o, call)  BY <2>1
  <2> HIDE DEF call
  <2> QED  BY <1>0, <2>2, <2>3, StartsTo, OthersCareful
<1>3. CASE RestoreConfig(o)
  <2>1. Starts(o, Ended)  BY <1>3 DEF RestoreConfig
  <2> QED  BY <1>0, <2>1, StartsTo, EndedIs, OthersCareful
<1> QED  BY <1>1, <1>2, <1>3

LEMMA RolloutCareful == ASSUME PInv, RInv, NEW o \in Operator, Rollout(o) PROVE RInv'
<1>0. UNCHANGED <<plugin, backups, receipt>>  BY DEF Rollout, disk
<1>1. \E todo \in SUBSET Home :
        LET acts == {[home |-> h, existed |-> Exists(h), path |-> 0, applied |-> FALSE, before |-> plugin[h]] : h \in todo}
        IN  Starts(o, Next1([Ended EXCEPT !.kind = "rollout", !.todo = todo, !.acts = acts]))
  <2>1. PICK selected \in (SUBSET Home) \ {{}}, canary \in Home \cup {"nobody"}, apply \in BOOLEAN, missing \in BOOLEAN :
           LET goes == apply /\ ~missing /\ (canary \in Home => canary \in selected)
               todo == IF goes THEN {h \in selected : canary \in {h, "nobody"}} ELSE {}
               acts == {[home |-> h, existed |-> Exists(h), path |-> 0, applied |-> FALSE, before |-> plugin[h]] :
                         h \in todo}
           IN  Starts(o, Next1([Ended EXCEPT !.kind = "rollout", !.todo = todo, !.acts = acts]))
    BY DEF Rollout
  <2> DEFINE goes == apply /\ ~missing /\ (canary \in Home => canary \in selected)
             todo == IF goes THEN {h \in selected : canary \in {h, "nobody"}} ELSE {}
  <2>2. todo \in SUBSET Home  OBVIOUS
  <2> QED  BY <2>1, <2>2
<1>2. PICK todo \in SUBSET Home :
        LET acts == {[home |-> h, existed |-> Exists(h), path |-> 0, applied |-> FALSE, before |-> plugin[h]] : h \in todo}
        IN  Starts(o, Next1([Ended EXCEPT !.kind = "rollout", !.todo = todo, !.acts = acts]))
  BY <1>1
<1> DEFINE As(h) == [home |-> h, existed |-> Exists(h), path |-> 0, applied |-> FALSE, before |-> plugin[h]]
           acts == {As(h) : h \in todo}
           call == [Ended EXCEPT !.kind = "rollout", !.todo = todo, !.acts = acts]
           d == Next1(call)
<1>3. Starts(o, d)  BY <1>2
<1>4. ASSUME NEW h \in todo PROVE Sound(As(h), backups) /\ As(h).home = h /\ As(h).before = plugin[h]
  BY DEF Sound, ActField, Exists
<1> HIDE DEF As
<1>5. Sounds(acts, backups) /\ Of(acts) = todo /\ \A a \in acts : plugin[a.home] = a.before
  BY <1>4 DEF Sounds, Of
<1> HIDE DEF acts
<1>6. CallLike(call) /\ call.kind = "rollout" /\ call.acts = acts /\ call.todo = todo
  BY DEF CallLike, Field, Ended
<1> HIDE DEF call
<1>7. Careful(d, plugin, backups)  BY <1>5, <1>6, Next1Careful
<1> HIDE DEF d
<1>8. Took(o, d)  BY <1>3, StartsTo
<1>9. apart => Sounds(receipt', backups')  BY <1>0, Same, ReceiptStays
<1> QED  BY <1>0, <1>7, <1>8, <1>9, StepCareful

LEMMA RevertCareful == ASSUME PInv, RInv, NEW o \in Operator, Revert(o) PROVE RInv'
<1>0. UNCHANGED <<plugin, backups, receipt>>  BY DEF Revert, disk
<1> DEFINE call == [Ended EXCEPT !.kind = "revert", !.todo = Of(receipt), !.acts = receipt]
           e == [call EXCEPT !.pc = "error"]
           d == Next1(call)
           good == \A a \in receipt : Revertible(a)
<1>1. Starts(o, IF good THEN d ELSE e)  BY DEF Revert, Of
<1>2. CallLike(call) /\ call.kind = "revert" /\ call.acts = receipt /\ call.todo = Of(receipt)
  BY DEF CallLike, Field, Ended
<1> HIDE DEF call
<1>3. apart => Sounds(receipt', backups')  BY <1>0, Same, ReceiptStays
<1>4. CASE good
  <2>1. \A a \in receipt : a.existed => a.path # 0  BY <1>4 DEF Revertible
  <2>2. ASSUME apart PROVE Careful(d, plugin, backups)
    <3>1. \A a \in receipt : a.home \in Of(receipt)  BY DEF Of
    <3> QED  BY <1>2, <2>1, <2>2, <3>1, Next1Careful DEF RInv
  <2>3. Starts(o, d)  BY <1>1, <1>4
  <2> HIDE DEF d
  <2> QED  BY <1>0, <1>3, <2>2, <2>3, StartsTo, StepCareful
<1>5. CASE ~good
  <2>1. Starts(o, e) /\ e.pc = "error"  BY <1>1, <1>2, <1>5, MovedKeeps
  <2> HIDE DEF e
  <2>2. Took(o, e) /\ op'[o] = Ended  BY <2>1, StartsTo DEF Starts, PInv, Calls
  <2>3. op'[o] = e => Careful(e, plugin', backups')  BY <2>2, EndedCareful
  <2> QED  BY <1>3, <2>2, <2>3, StepCareful
<1> QED  BY <1>4, <1>5

LEMMA RInvNext == PInv /\ RInv /\ [Next]_vars => RInv'
<1> SUFFICES ASSUME PInv, RInv, [Next]_vars PROVE RInv'  OBVIOUS
<1>1. CASE UNCHANGED vars  BY <1>1 DEF vars, disk, RInv
<1>2. CASE Next
  <2>1. PICK o \in Operator :
          \/ Install(o) \/ Undo(o) \/ Rollout(o) \/ Revert(o) \/ RestoreConfig(o)
          \/ Save(o) \/ Look(o) \/ Backup(o) \/ Remove(o) \/ Removed(o) \/ Place(o)
          \/ WriteReceipt(o) \/ Verify(o) \/ Configure(o) \/ WriteConfig(o) \/ Bootstrap(o)
          \/ Crash(o)
    BY <1>2 DEF Next
  <2>2. CASE Install(o) \/ Undo(o) \/ Rollout(o) \/ Revert(o) \/ RestoreConfig(o)
    BY <2>2, CallsCareful, RolloutCareful, RevertCareful
  <2>3. CASE Save(o) \/ Look(o) \/ Backup(o) \/ Remove(o) \/ Removed(o) \/ Place(o)
    BY <2>3, SaveCareful, LookCareful, BackupCareful, RemoveCareful, PlaceCareful
  <2>4. CASE \/ WriteReceipt(o) \/ Verify(o) \/ Configure(o) \/ WriteConfig(o) \/ Bootstrap(o)
             \/ Crash(o)
    BY <2>4, ReceiptCareful, ActivationCareful
  <2> QED  BY <2>1, <2>2, <2>3, <2>4
<1> QED  BY <1>1, <1>2

LEMMA InitRInv == Init => RInv
<1> SUFFICES ASSUME Init PROVE RInv  OBVIOUS
<1>1. receipt = {} /\ \A o \in Operator : op[o] = Ended  BY DEF Init
<1> QED  BY <1>1, EndedCareful DEF RInv, Sounds

(* Whatever is installed over it, by one operator or by several at a time, and
   wherever a step fails or a process dies: what a profile had in the plugin
   directory is there or in a backup as it was, and so is the text of its
   config.yaml (install, rollback, _write_memory_provider_config). *)
THEOREM NothingLost == Spec => []NothingIsLost
<1>1. PInv => NothingIsLost  BY DEF PInv, Safe, Backed, Noted, Stored, NothingIsLost
<1> QED  BY <1>1, InitPInv, PInvNext, PTL DEF Spec

(* An install that overlaps no other call and reports success has left a whole
   copy of the source, and when it activates, a configured host and a current
   schema (install, _runtime_verify). *)
THEOREM SuccessWhole == Spec => []SuccessIsWhole
<1>1. PInv => SuccessIsWhole  BY DEF PInv, Whole, SuccessIsWhole
<1> QED  BY <1>1, InitPInv, PInvNext, PTL DEF Spec

(* A rollback of a rollout that overlaps no other call and reports success has
   given every profile of the receipt the plugin it had before the rollout,
   whatever failed, died or was installed in between (rollout_profiles,
   rollback_profiles, restore_plugin). *)
THEOREM RollbackGivesBack == Spec => []RollbackReturns
<1>1. RInv => RollbackReturns  BY DEF RInv, Careful, Reverting, RollbackReturns
<1>2. Init => PInv /\ RInv  BY InitPInv, InitRInv
<1>3. PInv /\ RInv /\ [Next]_vars => (PInv /\ RInv)'  BY PInvNext, RInvNext
<1> QED  BY <1>1, <1>2, <1>3, PTL DEF Spec
===============================================================================
