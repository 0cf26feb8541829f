---------------------------- MODULE ScopeIdentity ----------------------------
(***************************************************************************)
(* Who may read and who may write a memory (scope.py).  A scope id is a    *)
(* sequence of labelled parts; the code joins them with their lengths, so  *)
(* two sequences give one string only when they are equal.                 *)
(*                                                                         *)
(* An account is a platform and a user id, which may be empty.  A config   *)
(* says whether identities are shared across platforms, and which accounts *)
(* belong to which canonical user.  One agent and one workspace: their two *)
(* parts are the same in every id and are left out.                        *)
(***************************************************************************)
EXTENDS Sequences, FiniteSets

Empty == ""

Account == [platform : STRING, user : STRING]
Config  == [shared : BOOLEAN, aliases : SUBSET [account : Account, canonical : STRING]]
Runtime == [account : Account, chat : STRING, config : Config]
NoConfig == [shared |-> FALSE, aliases |-> {}]

\* The account of a runtime: the command line may come without a user id.
Normalized(a, config) ==
    IF a.user = Empty /\ a.platform = "cli" /\ config.shared
    THEN [a EXCEPT !.user = "local"]
    ELSE a

User(a) == IF a.user = Empty THEN "local" ELSE a.user
Key(a) == [platform |-> a.platform, user |-> User(a)]

\* A wrong reading of the mapping: a user id means the same person everywhere.
CanonicalUserByName(a, config) ==
    LET named == {alias \in config.aliases : alias.account.user = User(Normalized(a, config))}
    IN  IF config.shared /\ named # {} THEN (CHOOSE alias \in named : TRUE).canonical ELSE Empty

\* The canonical user an account is mapped to, or none.
CanonicalUser(a, config) ==
    LET named == {alias \in config.aliases : alias.account = Key(Normalized(a, config))}
    IN  IF config.shared /\ named # {} THEN (CHOOSE alias \in named : TRUE).canonical ELSE Empty

AccountsOf(canonical, config) ==
    {alias.account : alias \in {x \in config.aliases : x.canonical = canonical}}

SharedScope(a, config) ==
    LET canonical == CanonicalUser(a, config)
    IN  IF canonical # Empty
        THEN << <<"canonical_user", canonical>> >>
        ELSE << <<"platform", a.platform>>, <<"user", User(Normalized(a, config))>> >>

\* The scratch scope of one conversation.
LocalScope(a, chat, config) ==
    SharedScope(a, config)
    \o (IF CanonicalUser(a, config) # Empty
        THEN << <<"platform", a.platform>>, <<"account", Key(Normalized(a, config))>> >>
        ELSE <<>>)
    \o (IF chat # Empty THEN << <<"chat", chat>> >> ELSE <<>>)

\* A pool shared by the agents of one user; reading it and writing it are opt-in.
PoolScope(a, pool) == << <<"pool", pool>>, <<"platform", a.platform>>, <<"user", User(a)>> >>

WritableScopes(a, chat, config) == {LocalScope(a, chat, config), SharedScope(a, config)}

\* The scopes of before the mapping stay readable, never writable.
AccessibleScopes(a, chat, config) ==
    LET canonical == CanonicalUser(a, config)
    IN  WritableScopes(a, chat, config)
        \cup IF canonical = Empty THEN {}
             ELSE {LocalScope(Normalized(a, config), chat, NoConfig)}
                  \cup {SharedScope(account, NoConfig) :
                          account \in AccountsOf(canonical, config) \cup {Key(Normalized(a, config))}}

==============================================================================
