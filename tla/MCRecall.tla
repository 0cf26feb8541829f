------------------------------- MODULE MCRecall -------------------------------
(***************************************************************************)
(* A small instance: one person with an account on the command line and    *)
(* one of a chat platform, mapped to each other or not yet when a row was  *)
(* written, and a stranger of the same name elsewhere.                     *)
(***************************************************************************)
EXTENDS Recall
CONSTANTS m1, m2, m3, m4, c1, t1, t2

cli == [platform |-> "cli", user |-> ""]
tg  == [platform |-> "tg", user |-> "7"]
wx  == [platform |-> "wx", user |-> "7"]

Mapping == [shared |-> TRUE,
            aliases |-> {[account |-> [platform |-> "cli", user |-> "local"], canonical |-> "joy"],
                         [account |-> tg, canonical |-> "joy"]}]

By(account, chat, config) == [account |-> account, chat |-> chat, config |-> config]

Authors == m1 :> By(cli, "", NoConfig) @@ m2 :> By(tg, "", Mapping) @@ m3 :> By(wx, "", Mapping)
           @@ m4 :> By(tg, "a", Mapping)
\* All of one scope, for the question what hidden rows cost.
Together == [m \in Memory |-> By(tg, "a", Mapping)]
Durable  == [m \in Memory |-> "project"]
Targets == m1 :> "project" @@ m2 :> "pooled" @@ m3 :> "project" @@ m4 :> "general"
OneUser == {By(tg, "a", Mapping)}

First(life, text, at) == [here |-> TRUE, life |-> life, excluded |-> FALSE, text |-> text, at |-> at, hits |-> 0]
Rows == {m1 :> First("candidate", t1, 4) @@ m2 :> First("promoted", t1, 1) @@ m3 :> First("promoted", t1, 2)
         @@ m4 :> First("promoted", t2, 3)}

OneEdge == {[from |-> m2, type |-> "supersedes", to |-> m1]}
Files == c1 :> t2
Overlaps == t1 :> 700 @@ t2 :> 400
Similar  == t1 :> 800 @@ t2 :> 600
None     == [t \in Text |-> {}]
Atlas    == t1 :> {"atlas"} @@ t2 :> {"orion"}
Fair     == [id \in Memory \cup Curated |-> 500]
Fact(status, until, at) == [status |-> status, until |-> until, at |-> at]
\* One that went stale before it was checked again, one out of date, one unheard of.
Checks   == [id \in Memory \cup Curated |->
                CASE id = m2 -> {Fact("stale", Absent, 1), Fact("current", Absent, 2)}
                  [] id = m3 -> {Fact("current", 4, 2)}
                  [] id = m4 -> {Fact("seen", Absent, 2)}
                  [] OTHER -> {}]
Classes  == [id \in Memory \cup Curated |-> "default"]
Young    == [id \in Memory \cup Curated |-> 1000]
==============================================================================
