--------------------------- MODULE MCPluginInstall ---------------------------
(* Two profiles: one that begins with anything an operator may have left there,
   and one with a whole older copy. *)
EXTENDS PluginInstall, TLC

AnyOrder == Permutations(Operator)

Homes == <<"h1", "h2">>
Found == {None, Tree("v1", "whole"), Tree("v2", "thin"), Tree(Foreign, "whole"), Link("v2")}
Begins == {[h \in {"h1", "h2"} |-> IF h = "h1" THEN c ELSE Tree("v1", "whole")] : c \in Found}
Older == {[h \in {"h1", "h2"} |-> Tree("v1", "whole")]}
Configs == [h \in {"h1", "h2"} |-> IF h = "h1" THEN "user" ELSE "absent"]
Dbs == [h \in {"h1", "h2"} |-> IF h = "h1" THEN "old" ELSE "newer"]
===============================================================================
