---------------------------- MODULE RecallProofs ----------------------------
(* Theorems about Recall, for any memories, readers, rows, scores and bounds. *)
EXTENDS Recall, SequenceTheorems, FiniteSetTheorems, WellFoundedInduction, TLAPS

(* --------------------------- lists and sets ---------------------------- *)

LEMMA Least ==
  ASSUME NEW T \in SUBSET Nat, T # {}
  PROVE  \E n \in T : \A k \in T : n <= k
<1>1. PICK n \in T : \A k \in T : ~ (<<k, n>> \in OpToRel(<, Nat))  BY NatLessThanWellFounded, WFMin
<1>2. \A k \in T : <<k, n>> \in Nat \X Nat  OBVIOUS
<1>3. \A k \in T : ~(k < n)  BY <1>1, <1>2, Zenon DEF OpToRel
<1>4. \A k \in T : k \in Nat /\ n \in Nat  OBVIOUS
<1> QED  BY <1>3, <1>4, SMT

LEMMA FiniteImage ==
  ASSUME NEW S, IsFiniteSet(S), NEW f
  PROVE  IsFiniteSet({f[x] : x \in S})
<1> DEFINE T == {f[x] : x \in S}
           g == [x \in S |-> f[x]]
<1>1. g \in Surjection(S, T)  BY DEF Surjection
<1> QED  BY <1>1, FS_Surjection

LEMMA MaxIsThere ==
  ASSUME NEW S \in SUBSET Int, IsFiniteSet(S), S # {}
  PROVE  Max(S) \in S /\ \A x \in S : x <= Max(S)
<1> DEFINE P(U) == \E x \in U : \A y \in U : x >= y
           bad == {U \in SUBSET S : U # {} /\ ~P(U)}
<1>1. bad = {}
  <2> SUFFICES ASSUME bad # {} PROVE FALSE  OBVIOUS
  <2>1. bad \subseteq FiniteSubsetsOf(S)  BY FS_Subset DEF FiniteSubsetsOf
  <2>2. PICK U \in bad : \A V \in bad : ~(<<V, U>> \in StrictSubsetOrdering(S))
    BY <2>1, FS_StrictSubsetOrderingWellFounded, WFMin
  <2>3. PICK x \in U : TRUE  OBVIOUS
  <2>4. U \ {x} \notin bad  BY <2>2, <2>3 DEF StrictSubsetOrdering
  <2>5. CASE U \ {x} = {}
    <3>1. U = {x} /\ x \in Int  BY <2>3, <2>5
    <3> QED  BY <3>1
  <2>6. CASE U \ {x} # {}
    <3>1. PICK y \in U \ {x} : \A z \in U \ {x} : y >= z  BY <2>4, <2>6
    <3>2. x \in Int /\ y \in Int /\ \A z \in U : z \in Int  BY <2>3
    <3>3. CASE x >= y  BY <3>1, <3>2, <3>3
    <3>4. CASE y >= x  BY <3>1, <3>2, <3>4
    <3> QED  BY <3>2, <3>3, <3>4
  <2> QED  BY <2>5, <2>6
<1>2. P(S)  BY <1>1
<1>3. Max(S) \in S /\ \A x \in S : Max(S) >= x  BY <1>2 DEF Max
<1> QED  BY <1>3

LEMMA MinOfTwo ==
  ASSUME NEW a \in Int, NEW b \in Int
  PROVE  Min({a, b}) = IF a <= b THEN a ELSE b
BY DEF Min

\* What is taken out of a sequence is a sequence of it.
LEMMA OnlyIs ==
  ASSUME NEW T, NEW s \in Seq(T), NEW S
  PROVE  Only(s, S) \in Seq(T \cap S)
<1> DEFINE D == {n \in DOMAIN s : s[n] \in S}
           upto(n) == {x \in D : x <= n}
           c == Cardinality(D)
<1>1. D \subseteq 1..Len(s) /\ Len(s) \in Nat  OBVIOUS
<1>2. IsFiniteSet(D) /\ c \in Nat
  <2>1. IsFiniteSet(1..Len(s))  BY <1>1, FS_Interval
  <2> QED  BY <1>1, <2>1, FS_Subset, FS_CardinalityType
<1>3. \A n : IsFiniteSet(upto(n)) /\ Cardinality(upto(n)) \in Nat
  <2> SUFFICES ASSUME NEW n PROVE IsFiniteSet(upto(n)) /\ Cardinality(upto(n)) \in Nat  OBVIOUS
  <2>1. upto(n) \in SUBSET D  OBVIOUS
  <2>2. IsFiniteSet(upto(n))  BY <1>2, <2>1, FS_Subset
  <2> QED  BY <2>2, FS_CardinalityType
<1>4. ASSUME NEW k \in 1..c PROVE \E n \in D : Cardinality(upto(n)) = k
  <2> DEFINE W == {n \in 0..Len(s) : Cardinality(upto(n)) >= k}
  <2>1. Len(s) \in W
    <3>1. upto(Len(s)) = D  BY <1>1
    <3>2. Cardinality(D) >= k /\ Len(s) \in 0..Len(s)  BY <1>1, <1>2
    <3> HIDE DEF upto, D
    <3> QED  BY <3>1, <3>2
  <2>2. W \in SUBSET Nat  OBVIOUS
  <2>3. PICK n \in W : \A j \in W : n <= j
    <3> HIDE DEF W
    <3> QED  BY <2>1, <2>2, Least
  <2>4. n # 0
    <3>1. upto(0) = {}  BY <1>1
    <3> QED  BY <3>1, FS_EmptySet
  <2>5. n - 1 \in 0..Len(s) /\ ~(n <= n - 1)  BY <2>4
  <2>6. Cardinality(upto(n - 1)) < k
    <3>1. Cardinality(upto(n - 1)) \in Nat  BY <1>3
    <3> HIDE DEF upto
    <3> QED  BY <2>3, <2>5, <3>1
  <2>7. n \in D
    <3> SUFFICES ASSUME n \notin D PROVE FALSE  OBVIOUS
    <3>1. upto(n) = upto(n - 1)  BY <1>1, <2>5
    <3>2. Cardinality(upto(n - 1)) \in Nat  BY <1>3
    <3> HIDE DEF upto
    <3> QED  BY <2>3, <2>6, <3>1, <3>2
  <2>8. upto(n) = upto(n - 1) \cup {n} /\ n \notin upto(n - 1)  BY <1>1, <2>5, <2>7
  <2>9. Cardinality(upto(n)) = Cardinality(upto(n - 1)) + 1
    <3> HIDE DEF upto
    <3> QED  BY <1>3, <2>8, FS_AddElement
  <2>10. Cardinality(upto(n - 1)) \in Nat  BY <1>3
  <2> HIDE DEF upto, D
  <2> QED  BY <2>3, <2>6, <2>7, <2>9, <2>10
<1> DEFINE at(k) == CHOOSE n \in D : Cardinality(upto(n)) = k
<1>5. \A k \in 1..c : at(k) \in D  BY <1>4
<1>6. Only(s, S) = [k \in 1..c |-> s[at(k)]]  BY DEF Only
<1>7. \A n \in D : s[n] \in T \cap S  OBVIOUS
<1> HIDE DEF D, at
<1>8. [k \in 1..c |-> s[at(k)]] \in [1..c -> T \cap S]  BY <1>5, <1>7
<1> QED  BY <1>2, <1>6, <1>8

LEMMA ConcatIs ==
  ASSUME NEW S, NEW s \in Seq(S), NEW t \in Seq(S), NEW u \in Seq(S), Len(u) = Len(s) + Len(t),
         \A i \in 1..Len(s) : u[i] = s[i], \A i \in 1..Len(t) : u[Len(s) + i] = t[i]
  PROVE  s \o t = u
<1>1. s \o t \in Seq(S) /\ Len(s \o t) = Len(u)  BY ConcatProperties
<1>2. ASSUME NEW i \in 1..Len(u) PROVE (s \o t)[i] = u[i]
  <2>1. CASE i <= Len(s)  BY <2>1, ConcatProperties
  <2>2. CASE i > Len(s)
    <3>1. i - Len(s) \in 1..Len(t) /\ Len(s) + (i - Len(s)) = i  BY <2>2
    <3> QED  BY <2>2, <3>1, ConcatProperties
  <2> QED  BY <2>1, <2>2
<1> QED  BY <1>1, <1>2, SeqEqual

LEMMA JoinOneTwo ==
  ASSUME NEW w, NEW x, NEW y
  PROVE  <<w>> \o <<x, y>> = <<w, x, y>>
<1> DEFINE S == {w, x, y}
           s == <<w>>
           t == <<x, y>>
           u == <<w, x, y>>
<1>1. s \in Seq(S) /\ t \in Seq(S) /\ u \in Seq(S)  OBVIOUS
<1>2. /\ Len(s) = 1 /\ Len(t) = 2 /\ Len(u) = 3
      /\ s[1] = w /\ t[1] = x /\ t[2] = y /\ u[1] = w /\ u[2] = x /\ u[3] = y
  OBVIOUS
<1>3. (\A i \in 1..1 : i = 1) /\ (\A i \in 1..2 : i = 1 \/ i = 2)  OBVIOUS
<1> HIDE DEF s, t, u, S
<1>4. (\A i \in 1..Len(s) : u[i] = s[i]) /\ Len(u) = Len(s) + Len(t)  BY <1>2, <1>3
<1>5. \A i \in 1..Len(t) : u[Len(s) + i] = t[i]  BY <1>2, <1>3
<1>6. s \o t = u  BY <1>1, <1>4, <1>5, ConcatIs
<1> QED  BY <1>6 DEF s, t, u

LEMMA JoinTwoOne ==
  ASSUME NEW w, NEW x, NEW y
  PROVE  <<w, x>> \o <<y>> = <<w, x, y>>
<1> DEFINE S == {w, x, y}
           s == <<w, x>>
           t == <<y>>
           u == <<w, x, y>>
<1>1. s \in Seq(S) /\ t \in Seq(S) /\ u \in Seq(S)  OBVIOUS
<1>2. /\ Len(s) = 2 /\ Len(t) = 1 /\ Len(u) = 3
      /\ s[1] = w /\ s[2] = x /\ t[1] = y /\ u[1] = w /\ u[2] = x /\ u[3] = y
  OBVIOUS
<1>3. (\A i \in 1..2 : i = 1 \/ i = 2) /\ (\A i \in 1..1 : i = 1)  OBVIOUS
<1> HIDE DEF s, t, u, S
<1>4. (\A i \in 1..Len(s) : u[i] = s[i]) /\ Len(u) = Len(s) + Len(t)  BY <1>2, <1>3
<1>5. \A i \in 1..Len(t) : u[Len(s) + i] = t[i]  BY <1>2, <1>3
<1>6. s \o t = u  BY <1>1, <1>4, <1>5, ConcatIs
<1> QED  BY <1>6 DEF s, t, u

LEMMA JoinThreeOne ==
  ASSUME NEW w, NEW x, NEW y, NEW z
  PROVE  <<w, x, y>> \o <<z>> = <<w, x, y, z>>
<1> DEFINE S == {w, x, y, z}
           s == <<w, x, y>>
           t == <<z>>
           u == <<w, x, y, z>>
<1>1. s \in Seq(S) /\ t \in Seq(S) /\ u \in Seq(S)  OBVIOUS
<1>2. /\ Len(s) = 3 /\ Len(t) = 1 /\ Len(u) = 4
      /\ s[1] = w /\ s[2] = x /\ s[3] = y /\ t[1] = z /\ u[1] = w /\ u[2] = x /\ u[3] = y /\ u[4] = z
  OBVIOUS
<1>3. (\A i \in 1..3 : i = 1 \/ i = 2 \/ i = 3) /\ (\A i \in 1..1 : i = 1)  OBVIOUS
<1> HIDE DEF s, t, u, S
<1>4. (\A i \in 1..Len(s) : u[i] = s[i]) /\ Len(u) = Len(s) + Len(t)  BY <1>2, <1>3
<1>5. \A i \in 1..Len(t) : u[Len(s) + i] = t[i]  BY <1>2, <1>3
<1>6. s \o t = u  BY <1>1, <1>4, <1>5, ConcatIs
<1> QED  BY <1>6 DEF s, t, u

(* ------------------------------- scopes ------------------------------- *)

\* An account, whatever names its platform and its user.
Named(a) == a = [platform |-> a.platform, user |-> a.user]

LEMMA Keys ==
  ASSUME NEW a, Named(a), NEW c
  PROVE  /\ Named(Normalized(a, c))
         /\ Normalized(a, c).platform = a.platform /\ User(Normalized(a, c)) = User(a)
         /\ Key(Normalized(a, c)) = Key(a)
<1>1. a = [platform |-> a.platform, user |-> a.user]  BY DEF Named
<1>2. CASE Normalized(a, c) = a  BY <1>2
<1>3. CASE a.user = Empty /\ Normalized(a, c) = [a EXCEPT !.user = "local"]
  <2>1. Normalized(a, c) = [platform |-> a.platform, user |-> "local"]  BY <1>1, <1>3
  <2>2. "local" # Empty  BY DEF Empty
  <2>3. Named(Normalized(a, c)) /\ Normalized(a, c).platform = a.platform /\ Normalized(a, c).user = "local"
    BY <2>1 DEF Named
  <2>4. User(a) = "local" /\ User(Normalized(a, c)) = "local"  BY <1>3, <2>2, <2>3 DEF User
  <2> QED  BY <2>3, <2>4 DEF Key
<1> QED  BY <1>2, <1>3 DEF Normalized

LEMMA MappedTo ==
  ASSUME NEW a, Named(a), NEW c, CanonicalUser(a, c) # Empty
  PROVE  \E alias \in c.aliases : alias.account = Key(a) /\ alias.canonical = CanonicalUser(a, c)
<1> DEFINE named == {alias \in c.aliases : alias.account = Key(Normalized(a, c))}
<1>1. named # {} /\ CanonicalUser(a, c) = (CHOOSE alias \in named : TRUE).canonical  BY DEF CanonicalUser
<1>2. (CHOOSE alias \in named : TRUE) \in named  BY <1>1
<1> QED  BY <1>1, <1>2, Keys

LEMMA SharedIs ==
  ASSUME NEW a, Named(a), NEW c
  PROVE  SharedScope(a, c) = IF CanonicalUser(a, c) # Empty
                             THEN << <<"canonical_user", CanonicalUser(a, c)>> >>
                             ELSE << <<"platform", a.platform>>, <<"user", User(a)>> >>
BY Keys DEF SharedScope

LEMMA LocalIs ==
  ASSUME NEW a, Named(a), NEW c, NEW chat
  PROVE  LocalScope(a, chat, c) =
           CASE CanonicalUser(a, c) # Empty /\ chat # Empty ->
                  << <<"canonical_user", CanonicalUser(a, c)>>, <<"platform", a.platform>>, <<"account", Key(a)>>, <<"chat", chat>> >>
             [] CanonicalUser(a, c) # Empty /\ chat = Empty ->
                  << <<"canonical_user", CanonicalUser(a, c)>>, <<"platform", a.platform>>, <<"account", Key(a)>> >>
             [] CanonicalUser(a, c) = Empty /\ chat # Empty ->
                  << <<"platform", a.platform>>, <<"user", User(a)>>, <<"chat", chat>> >>
             [] OTHER -> << <<"platform", a.platform>>, <<"user", User(a)>> >>
<1>1. Key(Normalized(a, c)) = Key(a)  BY Keys
<1> DEFINE can == << <<"canonical_user", CanonicalUser(a, c)>> >>
           own == << <<"platform", a.platform>>, <<"account", Key(a)>> >>
           talk == << <<"chat", chat>> >>
           base == << <<"platform", a.platform>>, <<"user", User(a)>> >>
<1>2. CASE CanonicalUser(a, c) # Empty /\ chat # Empty
  <2>1. LocalScope(a, chat, c) = can \o own \o talk  BY <1>1, <1>2, SharedIs DEF LocalScope
  <2>2. can \o own = << <<"canonical_user", CanonicalUser(a, c)>>, <<"platform", a.platform>>, <<"account", Key(a)>> >>
    BY JoinOneTwo
  <2> HIDE DEF can, own
  <2>3. LocalScope(a, chat, c) = << <<"canonical_user", CanonicalUser(a, c)>>, <<"platform", a.platform>>,
                                    <<"account", Key(a)>>, <<"chat", chat>> >>
    BY <2>1, <2>2, JoinThreeOne
  <2> QED  BY <1>2, <2>3
<1>3. CASE CanonicalUser(a, c) # Empty /\ chat = Empty
  <2>1. LocalScope(a, chat, c) = can \o own \o <<>>  BY <1>1, <1>3, SharedIs DEF LocalScope
  <2>2. can \o own = << <<"canonical_user", CanonicalUser(a, c)>>, <<"platform", a.platform>>, <<"account", Key(a)>> >>
    BY JoinOneTwo
  <2> QED  BY <1>3, <2>1, <2>2
<1>4. CASE CanonicalUser(a, c) = Empty /\ chat # Empty
  <2>1. LocalScope(a, chat, c) = base \o <<>> \o talk  BY <1>4, SharedIs DEF LocalScope
  <2>2. base \o <<>> = base  OBVIOUS
  <2> QED  BY <1>4, <2>1, <2>2, JoinTwoOne
<1>5. CASE CanonicalUser(a, c) = Empty /\ chat = Empty  BY <1>5, SharedIs DEF LocalScope
<1> QED  BY <1>2, <1>3, <1>4, <1>5


\* An identity of before the mapping is its key.
LEMMA Unmapped ==
  ASSUME NEW a
  PROVE  CanonicalUser(a, NoConfig) = Empty
BY DEF CanonicalUser, NoConfig

\* Two persons are the same by the mapping, or by their account.
Same(a, b, c) ==
    \/ Key(a) = Key(b)
    \/ \E x, y \in c.aliases : x.account = Key(a) /\ y.account = Key(b) /\ x.canonical = y.canonical

LEMMA KeyIs ==
  ASSUME NEW a, NEW b
  PROVE  Key(a) = Key(b) <=> a.platform = b.platform /\ User(a) = User(b)
BY DEF Key

\* What a reader a under the mapping c may read, label by label.  An account e
\* without its mapping is the reader's own or one of the same canonical user.
Mine(e, a, c) ==
    \/ Key(e) = Key(a)
    \/ CanonicalUser(a, c) # Empty /\ \E x \in c.aliases : x.account = Key(e) /\ x.canonical = CanonicalUser(a, c)

Canon(a, c) == <<"canonical_user", CanonicalUser(a, c)>>
Plat(a) == <<"platform", a.platform>>
Acct(a) == <<"account", Key(a)>>
Usr(a)  == <<"user", User(a)>>
Chat(x) == <<"chat", x>>

Readable(z, a, chat, c) ==
    \/ CanonicalUser(a, c) # Empty /\ z = <<Canon(a, c)>>
    \/ CanonicalUser(a, c) # Empty /\ chat = Empty /\ z = <<Canon(a, c), Plat(a), Acct(a)>>
    \/ CanonicalUser(a, c) # Empty /\ chat # Empty /\ z = <<Canon(a, c), Plat(a), Acct(a), Chat(chat)>>
    \/ chat # Empty /\ z = <<Plat(a), Usr(a), Chat(chat)>>
    \/ \E e : Mine(e, a, c) /\ z = <<Plat(e), Usr(e)>>

LEMMA ReadableOnly ==
  ASSUME NEW a, Named(a), NEW c, \A alias \in c.aliases : alias.account = Key(alias.account),
         NEW chat, NEW z \in AccessibleScopes(a, chat, c)
  PROVE  Readable(z, a, chat, c)
<1> USE DEF Canon, Plat, Acct, Usr, Chat
<1>0. Mine(a, a, c)  BY DEF Mine
<1>1. CASE z = LocalScope(a, chat, c)
  <2>1. CASE CanonicalUser(a, c) # Empty  BY <1>1, <2>1, LocalIs DEF Readable
  <2>2. CASE CanonicalUser(a, c) = Empty /\ chat # Empty  BY <1>1, <2>2, LocalIs DEF Readable
  <2>3. CASE CanonicalUser(a, c) = Empty /\ chat = Empty
    <3>1. z = <<Plat(a), Usr(a)>>  BY <1>1, <2>3, LocalIs
    <3> QED  BY <1>0, <3>1 DEF Readable
  <2> QED  BY <2>1, <2>2, <2>3
<1>2. CASE z = SharedScope(a, c)
  <2>1. CASE CanonicalUser(a, c) # Empty  BY <1>2, <2>1, SharedIs DEF Readable
  <2>2. CASE CanonicalUser(a, c) = Empty
    <3>1. z = <<Plat(a), Usr(a)>>  BY <1>2, <2>2, SharedIs
    <3> QED  BY <1>0, <3>1 DEF Readable
  <2> QED  BY <2>1, <2>2
<1>3. CASE z = LocalScope(Normalized(a, c), chat, NoConfig)
  <2> DEFINE n == Normalized(a, c)
  <2>1. Named(n) /\ n.platform = a.platform /\ User(n) = User(a)  BY Keys
  <2>2. CanonicalUser(n, NoConfig) = Empty  BY Unmapped
  <2> HIDE DEF n
  <2>3. z = LocalScope(n, chat, NoConfig)  BY <1>3 DEF n
  <2>4. CASE chat # Empty
    <3>1. z = <<Plat(a), Usr(a), Chat(chat)>>  BY <2>1, <2>2, <2>3, <2>4, LocalIs
    <3> QED  BY <2>4, <3>1 DEF Readable
  <2>5. CASE chat = Empty
    <3>1. z = <<Plat(a), Usr(a)>>  BY <2>1, <2>2, <2>3, <2>5, LocalIs
    <3> QED  BY <1>0, <3>1 DEF Readable
  <2> QED  BY <2>4, <2>5
<1>4. ASSUME CanonicalUser(a, c) # Empty,
             NEW e \in AccountsOf(CanonicalUser(a, c), c) \cup {Key(Normalized(a, c))}, z = SharedScope(e, NoConfig)
      PROVE  Readable(z, a, chat, c)
  <2>1. Named(e) /\ Mine(e, a, c)
    <3>1. CASE e = Key(Normalized(a, c))
      <4>1. e = Key(a)  BY <3>1, Keys
      <4>2. e = [platform |-> a.platform, user |-> User(a)]  BY <4>1 DEF Key
      <4>3. e.platform = a.platform /\ e.user = User(a) /\ Named(e)  BY <4>2 DEF Named
      <4>4. User(a) # Empty  BY DEF User, Empty
      <4>5. User(e) = User(a)  BY <4>3, <4>4 DEF User
      <4> QED  BY <4>3, <4>5, KeyIs DEF Mine
    <3>2. CASE e \in AccountsOf(CanonicalUser(a, c), c)
      <4>1. PICK x \in c.aliases : x.canonical = CanonicalUser(a, c) /\ e = x.account  BY <3>2 DEF AccountsOf
      <4>2. e = Key(e)  BY <4>1
      <4>3. Named(e)
        <5>1. e = [platform |-> e.platform, user |-> User(e)]  BY <4>2 DEF Key
        <5>2. e.user = User(e)  BY <5>1
        <5> QED  BY <5>1, <5>2 DEF Named
      <4> QED  BY <1>4, <4>1, <4>2, <4>3 DEF Mine
    <3> QED  BY <3>1, <3>2
  <2>2. z = <<Plat(e), Usr(e)>>  BY <1>4, <2>1, Unmapped, SharedIs
  <2> QED  BY <2>1, <2>2 DEF Readable
<1> QED  BY <1>1, <1>2, <1>3, <1>4 DEF AccessibleScopes, WritableScopes

\* A mapping that grew since a row was written.
Grown(c, d) ==
    /\ d.aliases \subseteq c.aliases
    /\ \A alias \in c.aliases : alias.canonical # Empty /\ alias.account = Key(alias.account)

LEMMA SameByMapping ==
  ASSUME NEW a, Named(a), NEW b, Named(b), NEW c, NEW d, Grown(c, d),
         CanonicalUser(a, c) # Empty, CanonicalUser(b, d) = CanonicalUser(a, c)
  PROVE  Same(a, b, c)
<1>1. PICK x \in c.aliases : x.account = Key(a) /\ x.canonical = CanonicalUser(a, c)  BY MappedTo
<1>2. PICK y \in d.aliases : y.account = Key(b) /\ y.canonical = CanonicalUser(b, d)  BY MappedTo
<1>3. y \in c.aliases  BY <1>2 DEF Grown
<1> QED  BY <1>1, <1>2, <1>3 DEF Same

LEMMA SameByAccount ==
  ASSUME NEW a, Named(a), NEW b, NEW c, NEW e, Mine(e, a, c), Key(b) = Key(e)
  PROVE  Same(a, b, c)
<1>1. CASE Key(e) = Key(a)  BY <1>1 DEF Same
<1>2. CASE CanonicalUser(a, c) # Empty /\ \E x \in c.aliases : x.account = Key(e) /\ x.canonical = CanonicalUser(a, c)
  <2>1. PICK x \in c.aliases : x.account = Key(a) /\ x.canonical = CanonicalUser(a, c)  BY <1>2, MappedTo
  <2> QED  BY <1>2, <2>1 DEF Same
<1> QED  BY <1>1, <1>2 DEF Mine

LEMMA LabelsDiffer ==
  ASSUME NEW a, NEW b, NEW c, NEW d, NEW x
  PROVE  /\ Canon(a, c) # Plat(b) /\ Acct(a) # Usr(b) /\ Acct(a) # Chat(x) /\ Usr(a) # Chat(x)
         /\ Canon(a, c) = Canon(b, d) => CanonicalUser(a, c) = CanonicalUser(b, d)
         /\ Plat(a) = Plat(b) /\ Usr(a) = Usr(b) => Key(a) = Key(b)
         /\ Acct(a) = Acct(b) => Key(a) = Key(b)
         /\ \A y : Chat(x) = Chat(y) => x = y
BY KeyIs DEF Canon, Plat, Acct, Usr, Chat

\* A durable scope that a reader may read is of the same person.
LEMMA SharedOwn ==
  ASSUME NEW a, Named(a), NEW b, Named(b), NEW c, NEW d, Grown(c, d), NEW chat,
         Readable(SharedScope(b, d), a, chat, c)
  PROVE  Same(a, b, c)
<1> DEFINE z == SharedScope(b, d)
<1>1. CASE CanonicalUser(b, d) # Empty
  <2>1. z = <<Canon(b, d)>>  BY <1>1, SharedIs DEF Canon
  <2>2. CanonicalUser(a, c) # Empty /\ z = <<Canon(a, c)>>  BY <2>1 DEF Readable
  <2>3. CanonicalUser(b, d) = CanonicalUser(a, c)  BY <2>1, <2>2, LabelsDiffer
  <2> QED  BY <2>2, <2>3, SameByMapping
<1>2. CASE CanonicalUser(b, d) = Empty
  <2>1. z = <<Plat(b), Usr(b)>>  BY <1>2, SharedIs DEF Plat, Usr
  <2>2. PICK e : Mine(e, a, c) /\ z = <<Plat(e), Usr(e)>>  BY <2>1 DEF Readable
  <2>3. Key(b) = Key(e)  BY <2>1, <2>2, LabelsDiffer
  <2> QED  BY <2>2, <2>3, SameByAccount
<1> QED  BY <1>1, <1>2

\* A scratch scope that a reader may read is of the same person and of this
\* conversation, or of none.
LEMMA LocalOwn ==
  ASSUME NEW a, Named(a), NEW b, Named(b), NEW c, NEW d, Grown(c, d), NEW chat, NEW talk,
         Readable(LocalScope(b, talk, d), a, chat, c)
  PROVE  Same(a, b, c) /\ talk \in {chat, Empty}
<1> DEFINE z == LocalScope(b, talk, d)
<1>1. CASE CanonicalUser(b, d) # Empty /\ talk # Empty
  <2>1. z = <<Canon(b, d), Plat(b), Acct(b), Chat(talk)>>  BY <1>1, LocalIs DEF Canon, Plat, Acct, Chat
  <2>2. z = <<Canon(a, c), Plat(a), Acct(a), Chat(chat)>>  BY <2>1 DEF Readable
  <2>3. Acct(a) = Acct(b) /\ Chat(talk) = Chat(chat)  BY <2>1, <2>2
  <2>4. Key(a) = Key(b) /\ talk = chat  BY <2>3, LabelsDiffer
  <2> QED  BY <2>4 DEF Same
<1>2. CASE CanonicalUser(b, d) # Empty /\ talk = Empty
  <2>1. z = <<Canon(b, d), Plat(b), Acct(b)>>  BY <1>2, LocalIs DEF Canon, Plat, Acct
  <2>2. z = <<Canon(a, c), Plat(a), Acct(a)>> \/ z = <<Plat(a), Usr(a), Chat(chat)>>  BY <2>1 DEF Readable
  <2>3. Acct(a) = Acct(b)
    <3>1. Acct(b) # Usr(a) /\ Canon(b, d) # Plat(a)  BY LabelsDiffer
    <3> QED  BY <2>1, <2>2, <3>1
  <2>4. Key(a) = Key(b)  BY <2>3, LabelsDiffer
  <2> QED  BY <1>2, <2>4 DEF Same
<1>3. CASE CanonicalUser(b, d) = Empty /\ talk # Empty
  <2>1. z = <<Plat(b), Usr(b), Chat(talk)>>  BY <1>3, LocalIs DEF Plat, Usr, Chat
  <2>2. z = <<Canon(a, c), Plat(a), Acct(a)>> \/ z = <<Plat(a), Usr(a), Chat(chat)>>  BY <2>1 DEF Readable
  <2>3. Plat(a) = Plat(b) /\ Usr(a) = Usr(b) /\ Chat(talk) = Chat(chat)
    <3>1. Canon(a, c) # Plat(b)  BY LabelsDiffer
    <3> QED  BY <2>1, <2>2, <3>1
  <2>4. Key(a) = Key(b) /\ talk = chat  BY <2>3, LabelsDiffer
  <2> QED  BY <2>4 DEF Same
<1>4. CASE CanonicalUser(b, d) = Empty /\ talk = Empty
  <2>1. z = <<Plat(b), Usr(b)>>  BY <1>4, LocalIs DEF Plat, Usr
  <2>2. PICK e : Mine(e, a, c) /\ z = <<Plat(e), Usr(e)>>  BY <2>1 DEF Readable
  <2>3. Key(b) = Key(e)  BY <2>1, <2>2, LabelsDiffer
  <2> QED  BY <1>4, <2>2, <2>3, SameByAccount
<1> QED  BY <1>1, <1>2, <1>3, <1>4

\* No scope of a person is a pool's.
LEMMA PoolApart ==
  ASSUME NEW a, Named(a), NEW b, NEW c, NEW chat, NEW pool
  PROVE  ~Readable(PoolScope(b, pool), a, chat, c)
BY DEF Readable, PoolScope, Canon, Plat, Acct, Usr, Chat

LEMMA PersonApart ==
  ASSUME NEW b, Named(b), NEW d, NEW talk, NEW n, NEW pool
  PROVE  SharedScope(b, d) # PoolScope(n, pool) /\ LocalScope(b, talk, d) # PoolScope(n, pool)
BY SharedIs, LocalIs DEF PoolScope

\* Whoever may read a memory is the same person as its author.
LEMMA ReadersOwn ==
  ASSUME NEW r \in Readers, NEW m \in Memory, ScopeOf[m] \in AccessibleTo[r]
  PROVE  /\ Same(r.account, Author[m].account, r.config)
         /\ TargetOf[m] = "general" => Author[m].chat \in {r.chat, Empty}
<1> DEFINE a == r.account
           b == Author[m].account
           c == r.config
           d == Author[m].config
<1>1. r \in Runtime /\ Author[m] \in Runtime  BY RecallAssumption DEF RecallAssumption
<1>2. Named(a) /\ Named(b)  BY <1>1 DEF Runtime, Account, Named
<1>3. Grown(c, d)  BY RecallAssumption DEF RecallAssumption, Grown
<1>4. AccessibleTo[r] = AccessibleScopes(a, r.chat, c)
                        \cup IF Pool = Empty THEN {} ELSE {PoolScope(Normalized(a, c), Pool)}
  BY DEF AccessibleTo
<1>5. \A z \in AccessibleScopes(a, r.chat, c) : Readable(z, a, r.chat, c)  BY <1>2, <1>3, ReadableOnly DEF Grown
<1>6. ScopeOf[m] = CASE TargetOf[m] = "general" -> LocalScope(b, Author[m].chat, d)
                     [] TargetOf[m] = "pooled"  -> PoolScope(Normalized(b, d), Pool)
                     [] OTHER                   -> SharedScope(b, d)
  BY DEF ScopeOf
<1>7. TargetOf[m] \in {"general", "pooled", "project"}  BY RecallAssumption DEF RecallAssumption
<1> HIDE DEF a, b, c, d
<1>8. CASE TargetOf[m] = "general"
  <2>1. ScopeOf[m] = LocalScope(b, Author[m].chat, d)  BY <1>6, <1>8
  <2>2. Readable(ScopeOf[m], a, r.chat, c)  BY <1>2, <1>4, <1>5, <2>1, PersonApart
  <2> QED  BY <1>2, <1>3, <2>1, <2>2, LocalOwn DEF a, b, c
<1>9. CASE TargetOf[m] = "pooled"
  <2>1. ScopeOf[m] = PoolScope(Normalized(b, d), Pool)  BY <1>6, <1>9
  <2>2. ScopeOf[m] = PoolScope(Normalized(a, c), Pool)  BY <1>2, <1>4, <1>5, <2>1, PoolApart
  <2>3. Normalized(a, c).platform = Normalized(b, d).platform /\ User(Normalized(a, c)) = User(Normalized(b, d))
    BY <2>1, <2>2 DEF PoolScope
  <2>4. Key(a) = Key(b)  BY <1>2, <2>3, Keys, KeyIs
  <2> QED  BY <1>9, <2>4 DEF Same, a, b, c
<1>10. CASE TargetOf[m] = "project"
  <2>1. ScopeOf[m] = SharedScope(b, d)  BY <1>6, <1>10
  <2>2. Readable(ScopeOf[m], a, r.chat, c)  BY <1>2, <1>4, <1>5, <2>1, PersonApart
  <2> QED  BY <1>2, <1>3, <1>10, <2>1, <2>2, SharedOwn DEF a, b, c
<1> QED  BY <1>7, <1>8, <1>9, <1>10

(* ------------------------------- states -------------------------------- *)

Ids == Memory \cup Curated
Hit == [id : Memory, text : Text, at : Nat]

\* Rows and records are as old as the clock says, a record is its memory's.
RowsOK ==
    /\ row \in [Memory -> Row] /\ clock \in Nat /\ \A m \in Memory : row[m].at <= clock
    /\ DOMAIN record = Memory
    /\ \A m \in Memory : \/ record[m] = {}
                         \/ \E h \in Hit : record[m] = {h} /\ h.id = m /\ h.at <= clock

CountsOK == IsFiniteSet(log) /\ \A m \in Memory : row[m].hits = Cardinality({e \in log : e.id = m})

AgentOK ==
    /\ reader \in Readers /\ turn \in Nat
    /\ lastTurn \in [Ids -> Nat] /\ \A id \in Ids : lastTurn[id] <= turn

\* A candidate is of a curated file or a row that the reader may read.
Own(id) == id \in Memory => ScopeOf[id] \in Accessible
Item(i) ==
    /\ i = [x \in {"id", "text", "at", "target", "scope", "path", "lex", "vec", "rrf", "bm"} |-> i[x]]
    /\ i.text \in Text /\ i.at \in 0..clock
    /\ \/ i.path = "curated" /\ i.id \in Curated
       \/ i.path \in {"lexical", "vector"} /\ i.id \in Memory
    /\ Own(i.id)

FoundOK ==
    /\ IsFiniteSet(hits) /\ \A h \in hits : h \in Hit /\ h.at <= clock /\ Own(h.id)
    /\ IsFiniteSet(lex) /\ \A i \in lex : Item(i)
    /\ IsFiniteSet(vec) /\ \A i \in vec : Item(i) /\ i.path = "vector"

ShownOK ==
    /\ pc \in {"idle", "lexical", "vector", "meta", "proof", "verify", "rank", "render", "check", "inject"}
    /\ ranked \in Seq([id : Ids, text : Text]) /\ \A n \in DOMAIN ranked : Own(ranked[n].id)
    /\ block \in Seq(Ids)
    /\ listed \subseteq Ids /\ \A id \in listed : Own(id)

USE RecallAssumption DEF RecallAssumption

LEMMA RowFields ==
  ASSUME row \in [Memory -> Row], NEW m \in Memory
  PROVE  /\ row[m] \in Row /\ row[m].at \in Nat /\ row[m].hits \in Nat /\ row[m].text \in Text
         /\ row[m].life \in Life /\ row[m].here \in BOOLEAN /\ row[m].excluded \in BOOLEAN
BY DEF Row

LEMMA InitOK == Init => RowsOK /\ CountsOK /\ AgentOK /\ FoundOK /\ ShownOK
<1> SUFFICES ASSUME Init PROVE RowsOK /\ CountsOK /\ AgentOK /\ FoundOK /\ ShownOK  OBVIOUS
<1>1. row \in [Memory -> Row] /\ \A m \in Memory : row[m].hits = 0  BY DEF Init
<1>2. CountsOK
  <2>1. log = {}  BY DEF Init
  <2>2. \A m \in Memory : {e \in log : e.id = m} = {}  BY <2>1
  <2> QED  BY <1>1, <2>1, <2>2, FS_EmptySet DEF CountsOK
<1>3. clock \in Nat /\ \A m \in Memory : row[m].at <= clock
  <2> DEFINE S == {row[m].at : m \in Memory}
  <2>1. S \in SUBSET Int  BY <1>1, RowFields
  <2>2. S # {} /\ clock = Max(S)  BY DEF Init
  <2>3. IsFiniteSet(S)
    <3> DEFINE f == [m \in Memory |-> row[m].at]
    <3>1. S = {f[m] : m \in Memory}  OBVIOUS
    <3> HIDE DEF S, f
    <3> QED  BY <3>1, FiniteImage
  <2>4. clock \in S /\ \A x \in S : x <= clock
    <3> HIDE DEF S
    <3> QED  BY <2>1, <2>2, <2>3, MaxIsThere
  <2> QED  BY <1>1, <2>4, RowFields
<1>4. RowsOK
  <2>1. record = [m \in Memory |-> {[id |-> m, text |-> row[m].text, at |-> row[m].at]}]  BY DEF Init
  <2>2. \A m \in Memory : [id |-> m, text |-> row[m].text, at |-> row[m].at] \in Hit  BY <1>1, RowFields DEF Hit
  <2> QED  BY <1>1, <1>3, <2>1, <2>2 DEF RowsOK
<1>5. AgentOK  BY DEF Init, AgentOK, Ids
<1>6. FoundOK  BY FS_EmptySet DEF Init, FoundOK
<1>7. ShownOK  BY DEF Init, ShownOK
<1> QED  BY <1>2, <1>4, <1>5, <1>6, <1>7

\* What a write of another process does to a row: nothing is taken back from
\* what was excluded, and its counter stays.
Writes(m, new) ==
    /\ new \in Row /\ new.at <= clock + 1 /\ new.hits = row[m].hits
    /\ row[m].excluded => new.excluded
    /\ Change(m, new)

Relife(old, life, at) == [old EXCEPT !.life = life, !.at = at]
Retext(old, text, at) == [old EXCEPT !.text = text, !.at = at]

LEMMA Relived ==
  ASSUME NEW old \in Row, NEW life \in Life, NEW at \in Nat
  PROVE  LET new == Relife(old, life, at)
         IN  new \in Row /\ new.at = at /\ new.hits = old.hits /\ new.excluded = old.excluded
BY DEF Row, Relife

LEMMA Retold ==
  ASSUME NEW old \in Row, NEW text \in Text, NEW at \in Nat
  PROVE  LET new == Retext(old, text, at)
         IN  new \in Row /\ new.at = at /\ new.hits = old.hits /\ new.excluded = old.excluded
BY DEF Row, Retext

LEMMA WriteIs ==
  ASSUME RowsOK, Write
  PROVE  (\E m \in Memory : SyncIndex(m)) \/ (\E m \in Memory : \E new : Writes(m, new))
<1> SUFFICES ASSUME NEW m \in Memory,
                    Archive(m) \/ Promote(m) \/ Rewrite(m) \/ Delete(m) \/ Exclude(m)
             PROVE  \E new : Writes(m, new)
  BY DEF Write
<1> DEFINE old == row[m]
<1>0. old \in Row /\ old.at <= clock /\ clock \in Nat  BY RowFields DEF RowsOK
<1> HIDE DEF old
<1>1. ASSUME NEW life \in Life, Change(m, [old EXCEPT !.life = life, !.at = clock + 1])
      PROVE  \E new : Writes(m, new)
  <2> DEFINE new == Relife(old, life, clock + 1)
  <2>1. clock + 1 \in Nat  BY <1>0
  <2>2. new \in Row /\ new.at = clock + 1 /\ new.hits = old.hits /\ new.excluded = old.excluded
    BY <1>0, <2>1, Relived
  <2>3. Change(m, new)  BY <1>1 DEF Relife
  <2> HIDE DEF new
  <2>4. new.at <= clock + 1 /\ new.hits = row[m].hits /\ (row[m].excluded => new.excluded)
    <3>1. clock + 1 <= clock + 1  BY <1>0
    <3> QED  BY <3>1, <2>2 DEF old
  <2> QED  BY <2>2, <2>3, <2>4 DEF Writes
<1>2. CASE Archive(m) \/ Promote(m)
  <2>1. PICK life \in Life : Change(m, [old EXCEPT !.life = life, !.at = clock + 1])
    BY <1>2 DEF Archive, Promote, old, Life
  <2> QED  BY <1>1, <2>1
<1>3. CASE Rewrite(m)
  <2>1. PICK text \in Text : Change(m, [old EXCEPT !.text = text, !.at = clock + 1])  BY <1>3 DEF Rewrite, old
  <2> DEFINE new == Retext(old, text, clock + 1)
  <2>2. clock + 1 \in Nat  BY <1>0
  <2>3. new \in Row /\ new.at = clock + 1 /\ new.hits = old.hits /\ new.excluded = old.excluded
    BY <1>0, <2>2, Retold
  <2>4. Change(m, new)  BY <2>1 DEF Retext
  <2> HIDE DEF new
  <2>5. new.at <= clock + 1 /\ new.hits = row[m].hits /\ (row[m].excluded => new.excluded)
    <3>1. clock + 1 <= clock + 1  BY <1>0
    <3> QED  BY <3>1, <2>3 DEF old
  <2> QED  BY <2>3, <2>4, <2>5 DEF Writes
<1>4. CASE Delete(m)
  <2> DEFINE new == [old EXCEPT !.here = FALSE]
  <2>1. new \in Row /\ new.at = old.at /\ new.hits = old.hits /\ new.excluded = old.excluded
    BY <1>0 DEF Row, Life
  <2>2. old.at <= clock + 1  BY <1>0 DEF Row
  <2> QED  BY <1>4, <2>1, <2>2 DEF Delete, Writes, old
<1>5. CASE Exclude(m)
  <2> DEFINE new == [old EXCEPT !.excluded = TRUE]
  <2>1. new \in Row /\ new.at = old.at /\ new.hits = old.hits /\ new.excluded
    BY <1>0 DEF Row, Life
  <2>2. old.at <= clock + 1  BY <1>0 DEF Row
  <2> QED  BY <1>5, <2>1, <2>2 DEF Exclude, Writes, old
<1> QED  BY <1>2, <1>3, <1>4, <1>5

\* Whoever neither writes a row nor counts an event leaves rows and log alone.
LEMMA Reads ==
  ASSUME [Next]_vars, ~Write, ~WriteInjected
  PROVE  UNCHANGED <<truth, events>>
BY DEF Next, Search, Inject, vars, truth, events, Begin, SearchRows, SearchIndex, ReadTruth, ProveHits, Verify, Rank,
       Render, CheckInjected, TurnStart, SessionSwitch, Browse, Searching

\* The events of a block are finitely many.
LEMMA CountedIs ==
  ASSUME ShownOK
  PROVE  IsFiniteSet(Entries) /\ \A m \in Memory : Counted(m) \in Nat
<1> DEFINE D == 1..Len(block)
           f == [n \in D |-> [request |-> Request, id |-> block[n], rank |-> n]]
<1>1. DOMAIN block = D /\ IsFiniteSet(D)
  <2>1. DOMAIN block = D /\ Len(block) \in Nat  BY DEF ShownOK
  <2> QED  BY <2>1, FS_Interval
<1>2. Entries = {f[n] : n \in D}  BY <1>1 DEF Entries
<1>3. IsFiniteSet(Entries)
  <2> HIDE DEF f, D
  <2> QED  BY <1>1, <1>2, FiniteImage
<1>4. ASSUME NEW m \in Memory PROVE Counted(m) \in Nat
  <2>1. IsFiniteSet({e \in Entries \ log : e.id = m})  BY <1>3, FS_Subset
  <2> QED  BY <2>1, FS_CardinalityType DEF Counted
<1> QED  BY <1>3, <1>4

LEMMA RowsStep ==
  ASSUME RowsOK, ShownOK, [Next]_vars
  PROVE  RowsOK'
<1>1. CASE ~Write /\ ~WriteInjected
  BY <1>1, Reads DEF RowsOK, truth
<1>2. CASE WriteInjected
  <2>1. UNCHANGED <<clock, record>> /\ (row' = row \/ row' = [m \in Memory |-> [row[m] EXCEPT !.hits = @ + Counted(m)]])
    BY <1>2 DEF WriteInjected
  <2>2. CASE row' = row  BY <2>1, <2>2 DEF RowsOK
  <2>3. CASE row' # row
    <3>1. row' = [m \in Memory |-> [row[m] EXCEPT !.hits = @ + Counted(m)]]  BY <2>1, <2>3
    <3>2. \A m \in Memory : Counted(m) \in Nat  BY CountedIs
    <3>3. \A m \in Memory : [row[m] EXCEPT !.hits = @ + Counted(m)] \in Row
      BY <3>2 DEF RowsOK, Row
    <3>4. \A m \in Memory : row'[m].at = row[m].at  BY <3>1 DEF RowsOK, Row
    <3>5. row' \in [Memory -> Row]  BY <3>1, <3>3
    <3> QED  BY <2>1, <3>4, <3>5 DEF RowsOK
  <2> QED  BY <2>2, <2>3
<1>3. CASE \E m \in Memory : SyncIndex(m)
  <2>1. PICK m \in Memory : SyncIndex(m)  BY <1>3
  <2> DEFINE h == [id |-> m, text |-> row[m].text, at |-> row[m].at]
  <2>2. UNCHANGED <<row, clock>> /\ (record' = [record EXCEPT ![m] = {h}] \/ record' = [record EXCEPT ![m] = {}])
    BY <2>1 DEF SyncIndex
  <2>3. h \in Hit /\ h.id = m /\ h.at <= clock  BY RowFields DEF Hit, RowsOK
  <2> HIDE DEF h
  <2> QED  BY <2>2, <2>3 DEF RowsOK
<1>4. CASE \E m \in Memory : \E new : Writes(m, new)
  <2>0. PICK m \in Memory : \E new : Writes(m, new)  BY <1>4
  <2>1. PICK new : Writes(m, new)  BY <2>0
  <2>2. row' = [row EXCEPT ![m] = new] /\ clock' = clock + 1 /\ record' = record /\ new \in Row /\ new.at <= clock + 1
    BY <2>1 DEF Writes, Change
  <2>3. \A k \in Memory : row[k].at \in Nat  BY RowFields DEF RowsOK
  <2>4. \A k \in Memory : row'[k].at <= clock'  BY <2>2, <2>3 DEF RowsOK
  <2>5. \A h \in Hit : h.at <= clock => h.at <= clock'  BY <2>2 DEF Hit, RowsOK
  <2> QED  BY <2>2, <2>4, <2>5 DEF RowsOK
<1> QED  BY <1>1, <1>2, <1>3, <1>4, WriteIs

LEMMA CountsStep ==
  ASSUME RowsOK, ShownOK, CountsOK, [Next]_vars
  PROVE  CountsOK'
<1>1. CASE ~Write /\ ~WriteInjected
  BY <1>1, Reads DEF CountsOK, truth, events
<1>2. CASE WriteInjected
  <2>1. CASE UNCHANGED <<log, row>>  BY <2>1 DEF CountsOK
  <2>2. CASE ~UNCHANGED <<log, row>>
    <3>1. log' = log \cup Entries /\ row' = [m \in Memory |-> [row[m] EXCEPT !.hits = @ + Counted(m)]]
      BY <1>2, <2>2 DEF WriteInjected
    <3>2. IsFiniteSet(log) /\ IsFiniteSet(Entries)  BY CountedIs DEF CountsOK
    <3>3. ASSUME NEW m \in Memory PROVE row'[m].hits = Cardinality({e \in log' : e.id = m})
      <4> DEFINE A == {e \in log : e.id = m}
                 B == {e \in Entries \ log : e.id = m}
      <4>1. IsFiniteSet(A) /\ IsFiniteSet(B)
        <5>1. IsFiniteSet(A)  BY <3>2, FS_Subset
        <5>2. IsFiniteSet(B)  BY <3>2, FS_Subset
        <5> QED  BY <5>1, <5>2
      <4>2. {e \in log' : e.id = m} = A \cup B /\ A \cap B = {}  BY <3>1
      <4>3. row'[m].hits = row[m].hits + Counted(m)  BY <3>1 DEF RowsOK, Row
      <4>4. row[m].hits = Cardinality(A) /\ Counted(m) = Cardinality(B)  BY DEF CountsOK, Counted
      <4> HIDE DEF A, B
      <4>5. Cardinality(A \cup B) = Cardinality(A) + Cardinality(B) - Cardinality(A \cap B)  BY <4>1, FS_Union
      <4>6. Cardinality(A \cap B) = 0  BY <4>2, FS_EmptySet
      <4>7. Cardinality(A) \in Nat /\ Cardinality(B) \in Nat  BY <4>1, FS_CardinalityType
      <4>8. Cardinality(A \cup B) = Cardinality(A) + Cardinality(B)  BY <4>5, <4>6, <4>7
      <4>9. row'[m].hits = Cardinality(A \cup B)  BY <4>3, <4>4, <4>8
      <4> QED  BY <4>2, <4>9
    <3>4. IsFiniteSet(log')  BY <3>1, <3>2, FS_Union
    <3> QED  BY <3>3, <3>4 DEF CountsOK
  <2> QED  BY <2>1, <2>2
<1>3. CASE \E m \in Memory : SyncIndex(m)
  BY <1>3 DEF SyncIndex, CountsOK, events
<1>4. CASE \E m \in Memory : \E new : Writes(m, new)
  <2>0. PICK m \in Memory : \E new : Writes(m, new)  BY <1>4
  <2>1. PICK new : Writes(m, new)  BY <2>0
  <2>2. row' = [row EXCEPT ![m] = new] /\ new.hits = row[m].hits /\ log' = log
    BY <2>1 DEF Writes, Change, events
  <2>3. \A k \in Memory : row'[k].hits = row[k].hits  BY <2>2 DEF RowsOK
  <2> QED  BY <2>2, <2>3 DEF CountsOK
<1> QED  BY <1>1, <1>2, <1>3, <1>4, WriteIs

LEMMA AgentStep ==
  ASSUME AgentOK, [Next]_vars
  PROVE  AgentOK'
<1>1. CASE Render
  <2>1. UNCHANGED <<reader, turn>>  BY <1>1 DEF Render
  <2>2. PICK shown : lastTurn' = [id \in DOMAIN lastTurn |-> IF id \in shown THEN turn ELSE lastTurn[id]]
    BY <1>1 DEF Render
  <2> QED  BY <2>1, <2>2 DEF AgentOK
<1>2. CASE TurnStart
  BY <1>2 DEF TurnStart, AgentOK
<1>3. CASE SessionSwitch
  BY <1>3 DEF SessionSwitch, AgentOK
<1>4. CASE ~Render /\ ~TurnStart /\ ~SessionSwitch
  <2>1. UNCHANGED <<reader, turn, lastTurn>>
    BY <1>4 DEF Next, Search, Inject, vars, agent, Begin, SearchRows, SearchIndex, ReadTruth, ProveHits, Verify, Rank,
       CheckInjected, WriteInjected, Browse, Searching,
       Write, Archive, Promote, Rewrite, Delete, Exclude, SyncIndex, Change
  <2> QED  BY <2>1 DEF AgentOK
<1> QED  BY <1>1, <1>2, <1>3, <1>4

(* ---------------------------- candidates ------------------------------ *)

\* A candidate stays one while the clock runs.
LEMMA ItemStays ==
  ASSUME clock \in Nat, clock' \in Nat, clock <= clock', reader' = reader
  PROVE  /\ \A i : Item(i) => Item(i)'
         /\ \A id : Own(id) => Own(id)'
<1>1. \A id : Own(id) => Own(id)'  BY DEF Own, Accessible
<1>2. ASSUME NEW i, Item(i) PROVE Item(i)'
  <2>1. i.at \in 0..clock'  BY <1>2 DEF Item
  <2>2. Own(i.id)'  BY <1>1, <1>2 DEF Item
  <2> QED  BY <1>2, <2>1, <2>2 DEF Item
<1> QED  BY <1>1, <1>2

\* Scores do not make a candidate.
Rescore(i, lexical, vector, rrf, bm) == [i EXCEPT !.lex = lexical, !.vec = vector, !.rrf = rrf, !.bm = bm]

LEMMA Rescored ==
  ASSUME NEW i, Item(i), NEW lexical, NEW vector, NEW rrf, NEW bm
  PROVE  LET j == Rescore(i, lexical, vector, rrf, bm)
         IN  Item(j) /\ j.id = i.id /\ j.path = i.path /\ j.text = i.text /\ j.at = i.at /\ j.target = i.target
BY DEF Item, Rescore

LEMMA Fused ==
  ASSUME NEW i, Item(i), NEW rrf
  PROVE  LET j == [i EXCEPT !.rrf = rrf]
         IN  Item(j) /\ j.id = i.id /\ j.path = i.path /\ j.text = i.text /\ j.at = i.at /\ j.target = i.target
BY DEF Item

LEMMA LexItems ==
  ASSUME RowsOK
  PROVE  LET items == {LexItem(m, SqlRows) : m \in SqlRows.all}
         IN  IsFiniteSet(items) /\ \A i \in items : Item(i) /\ i.path = "lexical" /\ Recallable(i.id)
<1> DEFINE T == SqlRows.all
           f == [m \in T |-> LexItem(m, SqlRows)]
           items == {LexItem(m, SqlRows) : m \in SqlRows.all}
<1>1. T \subseteq Memory /\ \A m \in T : Recallable(m)  BY DEF SqlRows, Best
<1>2. IsFiniteSet(T)  BY <1>1, FS_Subset
<1>3. items = {f[m] : m \in T}  OBVIOUS
<1>4. IsFiniteSet(items)
  <2> HIDE DEF items, f, T
  <2> QED  BY <1>2, <1>3, FiniteImage
<1>5. ASSUME NEW m \in T PROVE LET i == LexItem(m, SqlRows) IN Item(i) /\ i.path = "lexical" /\ Recallable(i.id)
  <2> DEFINE i == LexItem(m, SqlRows)
  <2>1. row[m].text \in Text /\ row[m].at \in 0..clock
    <3>1. m \in Memory /\ row[m].at <= clock  BY <1>1 DEF RowsOK
    <3> QED  BY <3>1, RowFields DEF RowsOK
  <2>2. /\ i = [x \in {"id", "text", "at", "target", "scope", "path", "lex", "vec", "rrf", "bm"} |-> i[x]]
        /\ i.id = m /\ i.text = row[m].text /\ i.at = row[m].at /\ i.path = "lexical"
    BY DEF LexItem
  <2>3. m \in Memory /\ Own(m) /\ Recallable(m)  BY <1>1 DEF Own, Recallable
  <2> HIDE DEF i
  <2>4. Item(i) /\ i.path = "lexical" /\ Recallable(i.id)  BY <2>1, <2>2, <2>3 DEF Item
  <2> QED  BY <2>4 DEF i
<1> QED  BY <1>4, <1>5

LEMMA VecItems ==
  ASSUME RowsOK, FoundOK, NEW T \in SUBSET hits
  PROVE  LET items == {VecItem(h) : h \in T}
         IN  IsFiniteSet(items) /\ \A i \in items : Item(i) /\ i.path = "vector" /\ \E h \in T : i.id = h.id
<1> DEFINE f == [h \in T |-> VecItem(h)]
           items == {VecItem(h) : h \in T}
<1>1. IsFiniteSet(T)  BY FS_Subset DEF FoundOK
<1>2. items = {f[h] : h \in T}  OBVIOUS
<1>3. IsFiniteSet(items)
  <2> HIDE DEF items, f
  <2> QED  BY <1>1, <1>2, FiniteImage
<1>4. ASSUME NEW h \in T PROVE LET i == VecItem(h) IN Item(i) /\ i.path = "vector" /\ i.id = h.id
  <2> DEFINE i == VecItem(h)
  <2>1. h.id \in Memory /\ h.text \in Text /\ h.at \in 0..clock /\ Own(h.id)  BY DEF FoundOK, Hit, RowsOK
  <2>2. /\ i = [x \in {"id", "text", "at", "target", "scope", "path", "lex", "vec", "rrf", "bm"} |-> i[x]]
        /\ i.id = h.id /\ i.text = h.text /\ i.at = h.at /\ i.path = "vector"
    BY DEF VecItem
  <2> HIDE DEF i
  <2>3. Item(i) /\ i.path = "vector" /\ i.id = h.id  BY <2>1, <2>2 DEF Item
  <2> QED  BY <2>3 DEF i
<1> QED  BY <1>3, <1>4

LEMMA CuratedItems ==
  ASSUME RowsOK
  PROVE  IsFiniteSet(CuratedFound) /\ \A i \in CuratedFound : Item(i) /\ i.path = "curated"
<1> DEFINE f == [c \in Curated |-> CuratedItem(c)]
           all == {CuratedItem(c) : c \in Curated}
<1>1. all = {f[c] : c \in Curated}  OBVIOUS
<1>2. IsFiniteSet(all)
  <2> HIDE DEF all, f
  <2> QED  BY <1>1, FiniteImage
<1>3. ASSUME NEW c \in Curated PROVE Item(CuratedItem(c)) /\ CuratedItem(c).path = "curated"
  <2> DEFINE i == CuratedItem(c)
  <2>1. /\ i = [x \in {"id", "text", "at", "target", "scope", "path", "lex", "vec", "rrf", "bm"} |-> i[x]]
        /\ i.id = c /\ i.text = CuratedText[c] /\ i.at = 0 /\ i.path = "curated"
    BY DEF CuratedItem
  <2>2. CuratedText[c] \in Text /\ c \notin Memory /\ clock \in Nat  BY DEF RowsOK
  <2> HIDE DEF i
  <2>3. Item(i) /\ i.path = "curated"  BY <2>1, <2>2 DEF Item, Own
  <2> QED  BY <2>3 DEF i
<1>4. CuratedFound \in SUBSET all  BY DEF CuratedFound
<1>5. IsFiniteSet(CuratedFound)
  <2> HIDE DEF all
  <2> QED  BY <1>2, <1>4, FS_Subset
<1> QED  BY <1>3, <1>4, <1>5

LEMMA CandidateItems ==
  ASSUME RowsOK, FoundOK
  PROVE  /\ IsFiniteSet(Candidates)
         /\ \A i \in Candidates : /\ Item(i)
                                  /\ \E j \in lex \cup vec \cup CuratedFound : i.id = j.id /\ i.path = j.path
<1> DEFINE items == lex \cup vec \cup CuratedFound
           fused == RrfScores({i.id : i \in items}, Rankings)
           f == [i \in items |-> [i EXCEPT !.rrf = fused[i.id]]]
<1>1. IsFiniteSet(items) /\ \A i \in items : Item(i)
  <2>1. IsFiniteSet(lex) /\ IsFiniteSet(vec) /\ IsFiniteSet(CuratedFound)  BY CuratedItems DEF FoundOK
  <2>2. IsFiniteSet(lex \cup vec)  BY <2>1, FS_Union
  <2>3. IsFiniteSet(items)  BY <2>1, <2>2, FS_Union
  <2> QED  BY <2>3, CuratedItems DEF FoundOK
<1>2. Candidates = {[i EXCEPT !.rrf = fused[i.id]] : i \in items}  BY DEF Candidates
<1> HIDE DEF fused, items
<1>3. Candidates = {f[i] : i \in items}  BY <1>2
<1>4. IsFiniteSet(Candidates)
  <2> HIDE DEF f
  <2> QED  BY <1>1, <1>3, FiniteImage
<1>5. ASSUME NEW i \in items PROVE LET j == [i EXCEPT !.rrf = fused[i.id]] IN Item(j) /\ j.id = i.id /\ j.path = i.path
  BY <1>1, Fused
<1> DEFINE new(i) == [i EXCEPT !.rrf = fused[i.id]]
<1>6. \A i \in items : Item(new(i)) /\ new(i).id = i.id /\ new(i).path = i.path  BY <1>5
<1>7. Candidates = {new(i) : i \in items}  BY <1>2
<1> HIDE DEF new
<1>8. \A i \in Candidates : Item(i) /\ \E j \in items : i.id = j.id /\ i.path = j.path  BY <1>6, <1>7
<1> QED  BY <1>4, <1>8 DEF items

\* Of the candidates of one text the newest is there, and stands for them.
LEMMA PreferredIs ==
  ASSUME RowsOK, NEW group, group # {}, \A i \in group : Item(i)
  PROVE  Preferred(group) \in group
<1> DEFINE newest == {i \in group : \A j \in group : i.at >= j.at}
           words  == {i \in newest : i.path = "lexical"}
<1>1. newest # {}
  <2> DEFINE ages == {clock - i.at : i \in group}
  <2>1. \A i \in group : i.at \in 0..clock /\ clock \in Nat  BY DEF Item, RowsOK
  <2>2. ages \in SUBSET Nat /\ ages # {}  BY <2>1
  <2>3. PICK n \in ages : \A k \in ages : n <= k
    <3> HIDE DEF ages
    <3> QED  BY <2>2, Least
  <2>4. PICK i \in group : n = clock - i.at  BY <2>3
  <2>5. \A j \in group : clock - i.at <= clock - j.at  BY <2>3, <2>4
  <2>6. \A j \in group : i.at >= j.at  BY <2>1, <2>5
  <2> QED  BY <2>6
<1>2. \E i \in newest : words # {} => i \in words
  <2>1. words \subseteq newest  OBVIOUS
  <2> HIDE DEF newest, words
  <2> QED  BY <1>1, <2>1
<1>3. Preferred(group) = CHOOSE i \in newest : words # {} => i \in words  BY DEF Preferred
<1>4. newest \subseteq group  OBVIOUS
<1> HIDE DEF newest, words
<1> QED  BY <1>2, <1>3, <1>4

\* What is merged is a candidate again, one of those that were.
LEMMA MergedItems ==
  ASSUME RowsOK, NEW items, IsFiniteSet(items), \A i \in items : Item(i)
  PROVE  /\ IsFiniteSet(Merged(items))
         /\ \A i \in Merged(items) : Item(i) /\ \E j \in items : i.id = j.id /\ i.path = j.path
<1> DEFINE key == [i \in items |-> DedupKey(i)]
           keys == {DedupKey(i) : i \in items}
           group(k) == {i \in items : DedupKey(i) = k}
           f == [k \in keys |-> MergeGroup(group(k))]
<1>1. IsFiniteSet(keys)
  <2>1. keys = {key[i] : i \in items}  OBVIOUS
  <2> HIDE DEF key, keys
  <2> QED  BY <2>1, FiniteImage
<1>2. Merged(items) = {f[k] : k \in keys}  BY DEF Merged
<1>3. IsFiniteSet(Merged(items))
  <2> HIDE DEF f, keys
  <2> QED  BY <1>1, <1>2, FiniteImage
<1>4. ASSUME NEW k \in keys
      PROVE  Item(MergeGroup(group(k))) /\ \E j \in items : MergeGroup(group(k)).id = j.id /\ MergeGroup(group(k)).path = j.path
  <2> DEFINE g == group(k)
             p == Preferred(g)
  <2>1. g # {} /\ g \subseteq items  OBVIOUS
  <2> HIDE DEF g
  <2>2. p \in g
    <3>1. \A i \in g : Item(i)  BY <2>1
    <3> QED  BY <2>1, <3>1, PreferredIs
  <2>3. Item(p) /\ p \in items  BY <2>1, <2>2
  <2> HIDE DEF p
  <2>4. LET j == MergeGroup(g) IN Item(j) /\ j.id = p.id /\ j.path = p.path
    <3>1. PICK lexical, vector, rrf, bm : MergeGroup(g) = Rescore(p, lexical, vector, rrf, bm)
      BY DEF MergeGroup, Rescore, p
    <3> QED  BY <2>3, <3>1, Rescored
  <2> QED  BY <2>3, <2>4 DEF g
<1>5. \A i \in Merged(items) : \E k \in keys : i = MergeGroup(group(k))  BY DEF Merged
<1> HIDE DEF keys
<1> QED  BY <1>3, <1>4, <1>5

\* The policy of scratch drops candidates, and scores them.
LEMMA GeneralItems ==
  ASSUME NEW items, IsFiniteSet(items), \A i \in items : Item(i)
  PROVE  /\ IsFiniteSet(GeneralPolicy(items))
         /\ \A i \in GeneralPolicy(items) : Item(i) /\ \E j \in items : i.id = j.id /\ i.path = j.path
<1> DEFINE weigh(i) == [i EXCEPT !.lex = Times(i.lex, GeneralWeight), !.vec = Times(i.vec, GeneralWeight),
                              !.rrf = Times(i.rrf, GeneralWeight),
                              !.bm = IF i.bm = Absent THEN 0 ELSE Times(i.bm, GeneralWeight)]
           own == LocalScope(reader.account, reader.chat, reader.config)
           T == {x \in items : \/ x.target # "general"
                               \/ GeneralMode = "always"
                               \/ GeneralMode = "same-scope" /\ x.scope = own}
           f == [i \in T |-> IF i.target = "general" THEN weigh(i) ELSE i]
<1>1. GeneralPolicy(items) = {IF i.target = "general" THEN weigh(i) ELSE i : i \in T}  BY DEF GeneralPolicy
<1>2. IsFiniteSet(T)  BY FS_Subset
<1>3. \A i \in items : Item(weigh(i)) /\ weigh(i).id = i.id /\ weigh(i).path = i.path
  <2> SUFFICES ASSUME NEW i \in items PROVE Item(weigh(i)) /\ weigh(i).id = i.id /\ weigh(i).path = i.path
    OBVIOUS
  <2>1. PICK lexical, vector, rrf, bm : weigh(i) = Rescore(i, lexical, vector, rrf, bm)  BY DEF Rescore
  <2> HIDE DEF weigh
  <2> QED  BY <2>1, Rescored
<1>4. T \subseteq items  OBVIOUS
<1> HIDE DEF weigh, T
<1>5. GeneralPolicy(items) = {f[i] : i \in T}  BY <1>1
<1>6. IsFiniteSet(GeneralPolicy(items))
  <2> HIDE DEF f
  <2> QED  BY <1>2, <1>5, FiniteImage
<1> QED  BY <1>1, <1>3, <1>4, <1>6

LEMMA Onward ==
  ASSUME RowsOK, [Next]_vars
  PROVE  reader' = reader /\ clock \in Nat /\ clock' \in Nat /\ clock <= clock'
<1>1. reader' = reader
  BY DEF Next, Search, Inject, vars, agent, Begin, SearchRows, SearchIndex, ReadTruth, ProveHits, Verify, Rank,
     Render, CheckInjected, WriteInjected, TurnStart, SessionSwitch, Browse, Searching,
     Write, Archive, Promote, Rewrite, Delete, Exclude, SyncIndex, Change
<1>2. clock' = clock \/ clock' = clock + 1
  BY DEF Next, Search, Inject, vars, truth, Begin, SearchRows, SearchIndex, ReadTruth, ProveHits, Verify, Rank,
     Render, CheckInjected, WriteInjected, TurnStart, SessionSwitch, Browse, Searching,
     Write, Archive, Promote, Rewrite, Delete, Exclude, SyncIndex, Change
<1> QED  BY <1>1, <1>2 DEF RowsOK

\* What the index may give are finitely many hits on rows the reader may read.
LEMMA IndexHits ==
  ASSUME RowsOK, SearchIndex
  PROVE  IsFiniteSet(hits') /\ \A h \in hits' : h \in Hit /\ h.at <= clock /\ Own(h.id)
<1> DEFINE all == UNION {record[m] : m \in Memory}
<1>1. \A h \in all : h \in Hit /\ h.at <= clock  BY DEF RowsOK
<1>2. IsFiniteSet(all)
  <2> DEFINE f == [m \in Memory |-> record[m]]
             S == {record[m] : m \in Memory}
  <2>1. S = {f[m] : m \in Memory}  OBVIOUS
  <2>2. \A T \in S : IsFiniteSet(T)
    <3> SUFFICES ASSUME NEW m \in Memory PROVE IsFiniteSet(record[m])  OBVIOUS
    <3>1. record[m] = {} \/ \E h \in Hit : record[m] = {h}  BY DEF RowsOK
    <3>2. CASE record[m] = {}  BY <3>2, FS_EmptySet
    <3>3. ASSUME NEW h, record[m] = {h} PROVE IsFiniteSet(record[m])
      <4>1. IsFiniteSet({h})  BY FS_Singleton
      <4> QED  BY <3>3, <4>1
    <3> QED  BY <3>1, <3>2, <3>3
  <2>3. IsFiniteSet(S)
    <3> HIDE DEF f, S
    <3> QED  BY <2>1, FiniteImage
  <2> HIDE DEF S
  <2> QED  BY <2>2, <2>3, FS_UNION DEF S
<1>3. hits' \subseteq all /\ \A h \in hits' : ScopeOf[h.id] \in Accessible
  BY DEF SearchIndex
<1> HIDE DEF all
<1>4. IsFiniteSet(hits')  BY <1>2, <1>3, FS_Subset
<1> QED  BY <1>1, <1>3, <1>4 DEF Own

LEMMA FoundStep ==
  ASSUME RowsOK, FoundOK, [Next]_vars
  PROVE  FoundOK'
<1> DEFINE lexes(S) == IsFiniteSet(S) /\ \A i \in S : Item(i)
           vecs(S)  == IsFiniteSet(S) /\ \A i \in S : Item(i) /\ i.path = "vector"
           hit(S)   == IsFiniteSet(S) /\ \A h \in S : h \in Hit /\ h.at <= clock /\ Own(h.id)
<1>1. /\ \A i : Item(i) => Item(i)'
      /\ \A id : Own(id) => Own(id)'
      /\ \A at \in Nat : at <= clock => at <= clock'
  BY Onward, ItemStays
<1>2. ASSUME lexes(lex'), vecs(vec'), hit(hits') PROVE FoundOK'
  BY <1>1, <1>2 DEF FoundOK, Hit
<1>3. lexes(lex) /\ vecs(vec) /\ hit(hits) /\ lexes({}) /\ vecs({}) /\ hit({})
  BY FS_EmptySet DEF FoundOK
<1>4. CASE SearchRows
  <2> DEFINE items == {LexItem(m, SqlRows) : m \in SqlRows.all}
  <2>1. IsFiniteSet(items) /\ \A i \in items : Item(i)  BY LexItems
  <2>2. lex' \in SUBSET items /\ UNCHANGED <<hits, vec>>  BY <1>4 DEF SearchRows
  <2> HIDE DEF items
  <2>3. lexes(lex')  BY <2>1, <2>2, FS_Subset
  <2> HIDE DEF lexes, vecs, hit
  <2> QED  BY <1>2, <1>3, <2>2, <2>3
<1>5. CASE SearchIndex
  <2>1. hit(hits')  BY <1>5, IndexHits
  <2>2. UNCHANGED <<lex, vec>>  BY <1>5 DEF SearchIndex
  <2> HIDE DEF lexes, vecs, hit
  <2> QED  BY <1>2, <1>3, <2>1, <2>2
<1>6. CASE ReadTruth
  <2>1. hits' = {} /\ lex' = lex /\ (vec' = {} \/ \E T \in SUBSET hits : vec' = {VecItem(h) : h \in T})
    BY <1>6 DEF ReadTruth
  <2>2. \A T \in SUBSET hits : vecs({VecItem(h) : h \in T})  BY VecItems
  <2> HIDE DEF lexes, vecs, hit
  <2> QED  BY <1>2, <1>3, <2>1, <2>2
<1>7. CASE ProveHits
  <2>1. vec' \in SUBSET vec /\ UNCHANGED <<lex, hits>>  BY <1>7 DEF ProveHits
  <2>2. vecs(vec')  BY <1>3, <2>1, FS_Subset
  <2> HIDE DEF lexes, vecs, hit
  <2> QED  BY <1>2, <1>3, <2>1, <2>2
<1>8. CASE Verify
  <2>1. vec' = {} /\ hits' = hits  BY <1>8 DEF Verify
  <2>2. lexes(Merged(Candidates))  BY CandidateItems, MergedItems
  <2>3. \E T \in SUBSET Merged(Candidates) : lex' = T \/ lex' = GeneralPolicy(T)
    <3> DEFINE merged == Merged(Candidates)
               curated == {i \in merged : i.path = "curated"}
               kept == curated \cup {i \in merged : i.id \in Eligible({x.id : x \in merged} \cap Memory)}
    <3>1. lex' = GeneralPolicy(kept) \/ lex' = curated  BY <1>8 DEF Verify
    <3>2. kept \in SUBSET merged /\ curated \in SUBSET merged  OBVIOUS
    <3> HIDE DEF kept, curated
    <3> QED  BY <3>1, <3>2
  <2>4. \A T \in SUBSET Merged(Candidates) : lexes(T) /\ lexes(GeneralPolicy(T))
    <3> SUFFICES ASSUME NEW T \in SUBSET Merged(Candidates) PROVE lexes(T) /\ lexes(GeneralPolicy(T))
      OBVIOUS
    <3>1. lexes(T)  BY <2>2, FS_Subset
    <3>2. lexes(GeneralPolicy(T))  BY <3>1, GeneralItems
    <3> HIDE DEF lexes
    <3> QED  BY <3>1, <3>2
  <2> HIDE DEF lexes, vecs, hit
  <2> QED  BY <1>2, <1>3, <2>1, <2>3, <2>4
<1>9. CASE Begin \/ Browse \/ Rank
  <2>1. (lex' = lex \/ lex' = {}) /\ (vec' = vec \/ vec' = {}) /\ (hits' = hits \/ hits' = {})
    BY <1>9 DEF Begin, Browse, Rank, Clear
  <2> HIDE DEF lexes, vecs, hit
  <2> QED  BY <1>2, <1>3, <2>1
<1>10. CASE Inject \/ TurnStart \/ SessionSwitch \/ Write \/ UNCHANGED vars
  <2>1. UNCHANGED found
    BY <1>10 DEF Inject, vars, Render, CheckInjected, WriteInjected, TurnStart, SessionSwitch, Searching,
       Write, Archive, Promote, Rewrite, Delete, Exclude, SyncIndex, Change
  <2>2. UNCHANGED <<lex, hits, vec>>  BY <2>1 DEF found
  <2> HIDE DEF lexes, vecs, hit
  <2> QED  BY <1>2, <1>3, <2>2
<1> QED  BY <1>4, <1>5, <1>6, <1>7, <1>8, <1>9, <1>10 DEF Next, Search

(* ---------------------------- what is shown ---------------------------- *)

LEMMA BeginningOf ==
  ASSUME NEW S, NEW s \in Seq(S), NEW n \in Nat
  PROVE  LET t == SubSeq(s, 1, Min({n, Len(s)}))
         IN  t \in Seq(S) /\ Len(t) <= n /\ \A k \in DOMAIN t : k \in DOMAIN s /\ t[k] = s[k]
<1> DEFINE least == Min({n, Len(s)})
<1>1. Len(s) \in Nat /\ n \in Int /\ Len(s) \in Int  OBVIOUS
<1>2. least \in Nat /\ least <= n /\ least <= Len(s)
  <2>1. least = IF n <= Len(s) THEN n ELSE Len(s)  BY <1>1, MinOfTwo
  <2> HIDE DEF least
  <2> QED  BY <1>1, <2>1
<1> DEFINE t == SubSeq(s, 1, least)
<1> HIDE DEF least
<1>3. \A k \in 1..least : s[k] \in S  BY <1>1, <1>2
<1>4. /\ t \in Seq(S) /\ Len(t) = (IF 1 <= least THEN least - 1 + 1 ELSE 0)
      /\ \A k \in 1..(least - 1 + 1) : t[k] = s[1 + k - 1]
  BY <1>2, <1>3, SubSeqProperties
<1>5. Len(t) = least  BY <1>2, <1>4
<1>6. \A k \in 1..least : t[k] = s[k]  BY <1>2, <1>4
<1> HIDE DEF t
<1>7. t \in Seq(S) /\ Len(t) <= n /\ \A k \in DOMAIN t : k \in DOMAIN s /\ t[k] = s[k]
  BY <1>1, <1>2, <1>4, <1>5, <1>6
<1> QED  BY <1>7 DEF t, least

LEMMA ReturnedIs ==
  ASSUME ShownOK
  PROVE  Returned \in Seq([id : Ids, text : Text]) /\ Len(Returned) <= Limit
BY BeginningOf DEF Returned, ShownOK

\* An order of a finite set is a sequence of its members.
LEMMA OrderIs ==
  ASSUME NEW S, IsFiniteSet(S), NEW order \in SetToSeqs(S)
  PROVE  /\ order \in Seq(S) /\ DOMAIN order = 1..Cardinality(S) /\ Cardinality(S) \in Nat
         /\ \A s \in S : \E n \in DOMAIN order : order[n] = s
<1> DEFINE D == 1..Cardinality(S)
<1>1. Cardinality(S) \in Nat  BY FS_CardinalityType
<1>2. order \in [D -> S] /\ \A i, j \in D : i # j => order[i] # order[j]  BY DEF SetToSeqs
<1>3. order \in Seq(S) /\ DOMAIN order = D  BY <1>1, <1>2
<1>4. order \in Injection(D, S)  BY <1>2 DEF Injection, IsInjective
<1>5. Cardinality(D) = Cardinality(S) /\ IsFiniteSet(D)
  <2>1. Cardinality(D) = IF 1 <= Cardinality(S) THEN Cardinality(S) - 1 + 1 ELSE 0  BY <1>1, FS_Interval
  <2>2. IsFiniteSet(D)  BY <1>1, FS_Interval
  <2> HIDE DEF D
  <2> QED  BY <1>1, <2>1, <2>2
<1>6. order \in Surjection(D, S)
  <2> HIDE DEF D
  <2> QED  BY <1>4, <1>5, FS_Injection
<1>7. \A s \in S : \E n \in D : order[n] = s  BY <1>6 DEF Surjection
<1> QED  BY <1>1, <1>3, <1>7

\* What is scored are finitely many of the candidates.
LEMMA ScoredIs ==
  ASSUME FoundOK
  PROVE  IsFiniteSet(Scored) /\ \A x \in Scored : \E i \in lex : x.id = i.id /\ x.text = i.text
<1> DEFINE grade(i) == [item |-> i, base |-> BaseScore(i, lex, Evidence)]
           f == [i \in lex |-> grade(i)]
<1>1. Graded = {f[i] : i \in lex}  BY DEF Graded
<1>2. IsFiniteSet(lex)  BY DEF FoundOK
<1>3. IsFiniteSet(Graded)
  <2> HIDE DEF f
  <2> QED  BY <1>1, <1>2, FiniteImage
<1>4. Passed \in SUBSET Graded  BY DEF Passed
<1>5. IsFiniteSet(Passed)  BY <1>3, <1>4, FS_Subset
<1> DEFINE times == {g.item.at : g \in Passed}
           score(g) == [id |-> g.item.id, text |-> g.item.text, at |-> g.item.at, base |-> g.base,
                        score |-> g.base + RecencyBonus(g.item, g.base, times)]
           h == [g \in Passed |-> score(g)]
<1>6. Scored = {h[g] : g \in Passed}  BY DEF Scored
<1>7. IsFiniteSet(Scored)
  <2> HIDE DEF h
  <2> QED  BY <1>5, <1>6, FiniteImage
<1>8. \A g \in Passed : g.item \in lex  BY <1>4 DEF Graded
<1>9. \A g \in Passed : score(g).id = g.item.id /\ score(g).text = g.item.text  OBVIOUS
<1>10. \A x \in Scored : \E g \in Passed : x = score(g)  BY DEF Scored
<1> HIDE DEF score
<1> QED  BY <1>7, <1>8, <1>9, <1>10

LEMMA RankIs ==
  ASSUME FoundOK, Rank
  PROVE  /\ ranked' \in Seq([id : Ids, text : Text])
         /\ \A n \in DOMAIN ranked' : \E i \in lex : ranked'[n].id = i.id
         /\ block' \in Seq(Ids)
<1>1. PICK order \in SetToSeqs(Scored) :
        /\ ranked' = [n \in DOMAIN order |-> [id |-> order[n].id, text |-> order[n].text]]
        /\ block' = IF kind = "context" THEN [n \in 1..Min({Limit, Len(order)}) |-> order[n].id] ELSE <<>>
  BY DEF Rank, Orders
<1>2. order \in Seq(Scored) /\ DOMAIN order = 1..Len(order) /\ Len(order) \in Nat
  <2>1. order \in Seq(Scored)  BY <1>1, ScoredIs, OrderIs
  <2> QED  BY <2>1
<1>3. \A n \in DOMAIN order : \E i \in lex : order[n].id = i.id /\ order[n].text = i.text
  BY <1>2, ScoredIs
<1>4. \A i \in lex : i.id \in Ids /\ i.text \in Text  BY DEF FoundOK, Item, Ids
<1>5. \A n \in DOMAIN order : order[n].id \in Ids /\ order[n].text \in Text  BY <1>3, <1>4
<1>6. ranked' \in [1..Len(order) -> [id : Ids, text : Text]]
  BY <1>1, <1>2, <1>5
<1>7. ranked' \in Seq([id : Ids, text : Text])
  <2> DEFINE S == [id : Ids, text : Text]
  <2>1. PICK n \in Nat : ranked' \in [1..n -> S]  BY <1>2, <1>6
  <2> HIDE DEF S
  <2>2. ranked' \in Seq(S)  BY <2>1
  <2> QED  BY <2>2 DEF S
<1>8. \A n \in DOMAIN ranked' : \E i \in lex : ranked'[n].id = i.id
  <2>1. DOMAIN ranked' = DOMAIN order /\ \A n \in DOMAIN order : ranked'[n].id = order[n].id  BY <1>1
  <2> QED  BY <1>3, <2>1
<1>9. block' \in Seq(Ids)
  <2> DEFINE least == Min({Limit, Len(order)})
  <2>1. least \in Nat /\ least <= Len(order)
    <3>1. least = IF Limit <= Len(order) THEN Limit ELSE Len(order)
      <4>1. Limit \in Int /\ Len(order) \in Int  BY <1>2
      <4> QED  BY <4>1, MinOfTwo
    <3>2. Limit \in Nat /\ Len(order) \in Nat  BY <1>2
    <3> HIDE DEF least
    <3> QED  BY <3>1, <3>2
  <2> HIDE DEF least
  <2>2. [n \in 1..least |-> order[n].id] \in [1..least -> Ids]  BY <1>2, <1>5, <2>1
  <2>3. [n \in 1..least |-> order[n].id] \in Seq(Ids)  BY <2>1, <2>2
  <2>4. <<>> \in Seq(Ids)  OBVIOUS
  <2> QED  BY <1>1, <2>3, <2>4 DEF least
<1> QED  BY <1>7, <1>8, <1>9

LEMMA BlockStays ==
  ASSUME ShownOK, Inject
  PROVE  block' \in Seq(Ids)
<1>1. CASE Render
  <2> DEFINE ids   == [n \in DOMAIN Returned |-> Returned[n].id]
             fresh == Only(ids, {id \in Range(ids) : ~Recent(id)})
  <2>1. ids \in Seq(Ids)
    <3>1. Returned \in Seq([id : Ids, text : Text])  BY ReturnedIs
    <3>2. DOMAIN Returned = 1..Len(Returned) /\ Len(Returned) \in Nat
          /\ \A n \in DOMAIN Returned : Returned[n] \in [id : Ids, text : Text]
      <4> DEFINE S == [id : Ids, text : Text]
      <4> HIDE DEF S
      <4>1. Returned \in Seq(S)  BY <3>1 DEF S
      <4>2. DOMAIN Returned = 1..Len(Returned) /\ Len(Returned) \in Nat /\ \A n \in DOMAIN Returned : Returned[n] \in S
        BY <4>1
      <4> QED  BY <4>2 DEF S
    <3>3. ids \in [1..Len(Returned) -> Ids]  BY <3>2
    <3> QED  BY <3>2, <3>3
  <2>2. block' = SubSeq(fresh, 1, Min({MaxItems, Len(fresh)}))  BY <1>1 DEF Render
  <2> HIDE DEF ids
  <2>3. fresh \in Seq(Ids \cap {id \in Range(ids) : ~Recent(id)})  BY <2>1, OnlyIs
  <2> HIDE DEF fresh
  <2>4. fresh \in Seq(Ids)  BY <2>3
  <2> QED  BY <2>2, <2>4, BeginningOf
<1>2. CASE CheckInjected
  <2>1. \A S : Only(block, S) \in Seq(Ids)
    <3> SUFFICES ASSUME NEW S PROVE Only(block, S) \in Seq(Ids)  OBVIOUS
    <3>1. Only(block, S) \in Seq(Ids \cap S)  BY OnlyIs DEF ShownOK
    <3> QED  BY <3>1
  <2>2. \/ block' = Only(block, Curated) \o Only(block, {m \in Memory : Countable(m)})
        \/ block' = Only(block, Curated)
    BY <1>2 DEF CheckInjected
  <2>3. CASE block' = Only(block, Curated)  BY <2>1, <2>3
  <2>4. CASE block' = Only(block, Curated) \o Only(block, {m \in Memory : Countable(m)})
    <3> DEFINE s == Only(block, Curated)
               t == Only(block, {m \in Memory : Countable(m)})
    <3>1. s \in Seq(Ids) /\ t \in Seq(Ids)  BY <2>1
    <3> HIDE DEF s, t
    <3>2. s \o t \in Seq(Ids)  BY <3>1, ConcatProperties
    <3> QED  BY <2>4, <3>2 DEF s, t
  <2> QED  BY <2>2, <2>3, <2>4
<1>3. CASE WriteInjected
  <2>1. block' = <<>>  BY <1>3 DEF WriteInjected
  <2> QED  BY <2>1
<1> QED  BY <1>1, <1>2, <1>3 DEF Inject

\* A surface without a search shows rows of scopes the reader may read.
LEMMA ListedOwn ==
  ASSUME Browse
  PROVE  listed' \subseteq Ids /\ \A id \in listed' : Own(id)
<1>1. CASE \E candidates \in BOOLEAN : listed' = {m \in Memory : ProfileShows(m, candidates)}
                                                \cup (IF CuratedAllowed THEN Curated ELSE {})
  <2>1. \A id \in Curated : Own(id)  BY DEF Own
  <2> QED  BY <1>1, <2>1 DEF ProfileShows, Own, Ids
<1>2. CASE listed' = {m \in Memory : ProbeShows(m)}
  BY <1>2 DEF ProbeShows, Own, Ids
<1>3. CASE listed' = {m \in Memory : ArchiveShows(m)}
  BY <1>3 DEF ArchiveShows, Own, Ids
<1> QED  BY <1>1, <1>2, <1>3 DEF Browse

LEMMA ShownStep ==
  ASSUME RowsOK, FoundOK, ShownOK, [Next]_vars
  PROVE  ShownOK'
<1>1. \A id : Own(id) => Own(id)'  BY Onward, ItemStays
<1>2. pc' \in {"idle", "lexical", "vector", "meta", "proof", "verify", "rank", "render", "check", "inject"}
  BY DEF ShownOK, Next, Search, Inject, vars, Begin, SearchRows, SearchIndex, ReadTruth, ProveHits, Verify, Rank,
     Render, CheckInjected, WriteInjected, TurnStart, SessionSwitch, Browse, Searching,
     Write, Archive, Promote, Rewrite, Delete, Exclude, SyncIndex, Change
<1>3. CASE Rank
  <2>1. \A n \in DOMAIN ranked' : Own(ranked'[n].id)  BY <1>3, RankIs DEF FoundOK, Item
  <2>2. listed' = listed  BY <1>3 DEF Rank, Searching
  <2> QED  BY <1>1, <1>2, <1>3, <2>1, <2>2, RankIs DEF ShownOK
<1>4. CASE Inject
  <2>1. UNCHANGED <<ranked, listed>>  BY <1>4 DEF Inject, Render, CheckInjected, WriteInjected, Searching
  <2> QED  BY <1>1, <1>2, <1>4, <2>1, BlockStays DEF ShownOK
<1>5. CASE Browse
  <2>1. ranked' = <<>> /\ block' = <<>>  BY <1>5 DEF Browse, Clear
  <2>2. <<>> \in Seq([id : Ids, text : Text]) /\ <<>> \in Seq(Ids) /\ DOMAIN <<>> = {}  OBVIOUS
  <2> QED  BY <1>1, <1>2, <1>5, <2>1, <2>2, ListedOwn DEF ShownOK
<1>6. CASE Begin
  <2>1. ranked' = <<>> /\ block' = <<>> /\ listed' = {}  BY <1>6 DEF Begin, Clear
  <2>2. <<>> \in Seq([id : Ids, text : Text]) /\ <<>> \in Seq(Ids) /\ DOMAIN <<>> = {}  OBVIOUS
  <2> QED  BY <1>2, <2>1, <2>2 DEF ShownOK
<1>7. CASE ~Rank /\ ~Inject /\ ~Browse /\ ~Begin
  <2>1. UNCHANGED <<ranked, block>> /\ (listed' = listed \/ listed' = {})
    BY <1>7 DEF Next, Search, vars, outcome, SearchRows, SearchIndex, ReadTruth, ProveHits, Verify,
       TurnStart, SessionSwitch, Searching,
       Write, Archive, Promote, Rewrite, Delete, Exclude, SyncIndex, Change
  <2> QED  BY <1>1, <1>2, <2>1 DEF ShownOK
<1> QED  BY <1>3, <1>4, <1>5, <1>6, <1>7

(* ------------------------- what was recallable ------------------------- *)

\* While a search collects, what may be recalled is noted.  What the words
\* found was recallable; what the index found was so if it is not excluded
\* before the proof, and after it; what the last check left passed both.
Collecting == pc \in {"lexical", "vector", "meta", "proof", "verify"}

SeenOK ==
    /\ Collecting => ranked = <<>> /\ \A m \in Memory : Recallable(m) => m \in seen
    /\ Collecting => \A i \in lex : i.id \in Memory => i.id \in seen
    /\ pc = "proof" => \A i \in vec : ~row[i.id].excluded => i.id \in seen
    /\ pc \in {"lexical", "vector", "meta"} => vec = {}
    /\ pc = "verify" => \A i \in vec : i.id \in seen
    /\ pc = "rank" => \A i \in lex : i.id \in Memory => i.id \in seen \cap checked
    /\ \A n \in DOMAIN ranked : ranked[n].id \in Memory => ranked[n].id \in seen \cap checked

LEMMA SeenBegins == Init => SeenOK
<1> SUFFICES ASSUME Init PROVE SeenOK  OBVIOUS
<1>1. pc = "idle" /\ ranked = <<>>  BY DEF Init
<1>2. DOMAIN <<>> = {}  OBVIOUS
<1> QED  BY <1>1, <1>2 DEF SeenOK, Collecting

\* A step of the search that finds nothing new for the words.
LEMMA Unmoved ==
  ASSUME UNCHANGED <<row, reader>>
  PROVE  \A m \in Memory : Recallable(m) <=> Recallable(m)'
BY DEF Recallable, Eligible, Visible, Accessible

LEMMA SeenSearch ==
  ASSUME RowsOK, FoundOK, SeenOK, SearchRows \/ SearchIndex \/ ReadTruth \/ ProveHits
  PROVE  SeenOK'
<1>1. Collecting /\ Collecting' /\ UNCHANGED <<row, reader, ranked, seen, checked>>
  BY DEF SearchRows, SearchIndex, ReadTruth, ProveHits, Searching, Collecting, truth, outcome, history
<1>2. /\ ranked' = <<>> /\ (\A m \in Memory : Recallable(m)' => m \in seen')
      /\ \A n \in DOMAIN ranked' : ranked'[n].id \in Memory => ranked'[n].id \in seen' \cap checked'
  BY <1>1, Unmoved DEF SeenOK
<1>3. \A i \in vec : i.id \in Memory  BY DEF FoundOK, Item
<1>4. CASE SearchRows
  <2> DEFINE items == {LexItem(m, SqlRows) : m \in SqlRows.all}
  <2>1. \A i \in items : Item(i) /\ i.path = "lexical" /\ Recallable(i.id)  BY LexItems
  <2>2. lex' \subseteq items /\ vec' = vec /\ pc = "lexical" /\ pc' = "vector"  BY <1>4 DEF SearchRows, Searching
  <2>3. \A i \in items : i.id \in Memory => i.id \in seen'  BY <1>1, <2>1 DEF SeenOK
  <2>4. vec' = {}  BY <2>2 DEF SeenOK
  <2> HIDE DEF items
  <2> QED  BY <1>1, <1>2, <2>2, <2>3, <2>4 DEF SeenOK
<1>5. CASE SearchIndex
  <2>1. UNCHANGED <<lex, vec>> /\ pc = "vector" /\ pc' = "meta"  BY <1>5 DEF SearchIndex, Searching
  <2> QED  BY <1>1, <1>2, <2>1 DEF SeenOK
<1>6. CASE ReadTruth
  <2>1. lex' = lex /\ pc = "meta" /\ pc' = "proof"  BY <1>6 DEF ReadTruth, Searching
  <2> DEFINE T == {x \in hits : /\ row[x.id].here /\ Visible(x.id) /\ Similarity[x.text] >= VectorMinScore}
             items == {VecItem(h) : h \in T}
  <2>2. vec' = items \/ vec' = {}  BY <1>6 DEF ReadTruth
  <2>3. \A i \in items : \E h \in T : i.id = h.id
    <3>1. \A h : VecItem(h).id = h.id  BY DEF VecItem
    <3> HIDE DEF T
    <3> QED  BY <3>1
  <2>4. \A h \in T : h.id \in Memory /\ (~row[h.id].excluded => h.id \in seen)
    <3> SUFFICES ASSUME NEW h \in T PROVE h.id \in Memory /\ (~row[h.id].excluded => h.id \in seen)  OBVIOUS
    <3>1. h.id \in Memory /\ ScopeOf[h.id] \in Accessible  BY DEF FoundOK, Hit, Own
    <3>2. ~row[h.id].excluded => Recallable(h.id)  BY <3>1 DEF Recallable, Eligible
    <3> QED  BY <1>1, <3>1, <3>2 DEF SeenOK
  <2> HIDE DEF T, items
  <2>5. \A i \in vec' : ~row'[i.id].excluded => i.id \in seen'  BY <1>1, <2>2, <2>3, <2>4
  <2> QED  BY <1>1, <1>2, <2>1, <2>5 DEF SeenOK
<1>7. CASE ProveHits
  <2>1. lex' = lex /\ pc = "proof" /\ pc' = "verify"  BY <1>7 DEF ProveHits, Searching
  <2>2. vec' \subseteq {i \in vec : i.id \in Eligible(Memory)}  BY <1>7 DEF ProveHits
  <2>3. \A i \in vec' : i.id \in seen'  BY <1>1, <2>1, <2>2 DEF Eligible, SeenOK
  <2> QED  BY <1>1, <1>2, <2>1, <2>3 DEF SeenOK
<1> QED  BY <1>4, <1>5, <1>6, <1>7

LEMMA SeenVerify ==
  ASSUME RowsOK, FoundOK, SeenOK, Verify
  PROVE  SeenOK'
<1>1. pc = "verify" /\ pc' = "rank" /\ UNCHANGED <<ranked, seen>>  BY DEF Verify, Searching, outcome
<1> DEFINE merged == Merged(Candidates)
           curated == {i \in merged : i.path = "curated"}
           kept == curated \cup {i \in merged : i.id \in Eligible({x.id : x \in merged} \cap Memory)}
<1>2. \/ lex' = GeneralPolicy(kept) /\ checked' = {m \in Memory : row[m].here /\ ~row[m].excluded}
      \/ lex' = curated
  BY DEF Verify
<1>3. IsFiniteSet(merged) /\ \A i \in merged : Item(i) /\ (i.id \in Memory => i.id \in seen /\ i.path # "curated")
  <2>1. \A i \in Candidates : Item(i) /\ \E j \in lex \cup vec \cup CuratedFound : i.id = j.id
    BY CandidateItems
  <2>2. \A i \in merged : Item(i) /\ \E j \in Candidates : i.id = j.id  BY <2>1, CandidateItems, MergedItems
  <2>3. \A j \in lex \cup vec \cup CuratedFound : j.id \in Memory => j.id \in seen
    <3>1. \A j \in CuratedFound : j.id \notin Memory  BY CuratedItems DEF Item
    <3>2. \A j \in lex \cup vec : j.id \in Memory => j.id \in seen  BY <1>1 DEF SeenOK, Collecting
    <3> QED  BY <3>1, <3>2
  <2>4. \A i \in merged : i.id \in Memory => i.path # "curated"  BY <2>2 DEF Item
  <2>5. IsFiniteSet(merged)  BY CandidateItems, MergedItems
  <2> HIDE DEF merged
  <2> QED  BY <2>1, <2>2, <2>3, <2>4, <2>5
<1> HIDE DEF merged
<1>4. \A i \in lex' : i.id \in Memory => i.id \in seen' \cap checked'
  <2>1. CASE lex' = curated  BY <1>3, <2>1
  <2>2. CASE lex' = GeneralPolicy(kept) /\ checked' = {m \in Memory : row[m].here /\ ~row[m].excluded}
    <3>1. \A i \in kept : i.id \in Memory => i.id \in seen /\ i.id \in checked'
      BY <1>3, <2>2 DEF Eligible
    <3>2. IsFiniteSet(kept) /\ \A i \in kept : Item(i)
      <4>1. kept \in SUBSET merged  OBVIOUS
      <4> HIDE DEF kept
      <4> QED  BY <1>3, <4>1, FS_Subset
    <3> HIDE DEF kept
    <3>3. \A i \in GeneralPolicy(kept) : \E j \in kept : i.id = j.id  BY <3>2, GeneralItems
    <3> QED  BY <1>1, <2>2, <3>1, <3>3
  <2> HIDE DEF kept, curated
  <2> QED  BY <1>2, <2>1, <2>2
<1>5. ranked' = <<>> /\ DOMAIN <<>> = {}  BY <1>1 DEF SeenOK, Collecting
<1> QED  BY <1>1, <1>4, <1>5 DEF SeenOK, Collecting

LEMMA SeenWrite ==
  ASSUME RowsOK, FoundOK, SeenOK, Write
  PROVE  SeenOK'
<1>1. CASE \E m \in Memory : SyncIndex(m)
  <2>1. UNCHANGED <<row, reader, pc, lex, vec, ranked, seen, checked>>  BY <1>1 DEF SyncIndex, found, outcome, history
  <2> QED  BY <2>1, Unmoved DEF SeenOK, Collecting
<1>2. CASE \E m \in Memory : \E new : Writes(m, new)
  <2>0. PICK m \in Memory : \E new : Writes(m, new)  BY <1>2
  <2>1. PICK new : Writes(m, new)  BY <2>0
  <2>2. /\ row' = [row EXCEPT ![m] = new] /\ (row[m].excluded => new.excluded)
        /\ UNCHANGED <<pc, lex, vec, ranked, checked>>
        /\ seen' = seen \cup {x \in Memory : Recallable(x)'}
    BY <2>1 DEF Writes, Change, found, outcome
  <2>3. \A i \in vec : i.id \in Memory  BY DEF FoundOK, Item
  <2>4. \A x \in Memory : row[x].excluded => row'[x].excluded  BY <2>2 DEF RowsOK
  <2>5. seen \subseteq seen' /\ \A x \in Memory : Recallable(x)' => x \in seen'  BY <2>2
  <2>6. \A i \in vec' : ~row'[i.id].excluded => ~row[i.id].excluded  BY <2>2, <2>3, <2>4
  <2> QED  BY <2>2, <2>5, <2>6 DEF SeenOK, Collecting
<1> QED  BY <1>1, <1>2, WriteIs

LEMMA SeenStep ==
  ASSUME RowsOK, FoundOK, ShownOK, SeenOK, [Next]_vars
  PROVE  SeenOK'
<1>1. CASE Begin
  <2>1. /\ pc' = "lexical" /\ ranked' = <<>> /\ lex' = {} /\ vec' = {} /\ UNCHANGED <<row, reader>>
        /\ seen' = {m \in Memory : Recallable(m)}
    BY <1>1 DEF Begin, Clear, truth
  <2>2. \A m \in Memory : Recallable(m)' => m \in seen'  BY <2>1, Unmoved
  <2>3. DOMAIN <<>> = {}  OBVIOUS
  <2> QED  BY <2>1, <2>2, <2>3 DEF SeenOK, Collecting
<1>2. CASE Rank
  <2>1. pc = "rank" /\ pc' \in {"idle", "render", "check"} /\ UNCHANGED <<seen, checked>>
    BY <1>2 DEF Rank, Searching, history
  <2>2. \A n \in DOMAIN ranked' : ranked'[n].id \in Memory => ranked'[n].id \in seen' \cap checked'
    BY <1>2, <2>1, RankIs DEF SeenOK
  <2> QED  BY <2>1, <2>2 DEF SeenOK, Collecting
<1>3. CASE Inject \/ TurnStart \/ SessionSwitch
  <2>1. pc' \in {"idle", "check", "inject"} /\ UNCHANGED <<ranked, seen, checked>>
    BY <1>3 DEF Inject, Render, CheckInjected, WriteInjected, TurnStart, SessionSwitch, Searching, outcome, history
  <2> QED  BY <2>1 DEF SeenOK, Collecting
<1>4. CASE Browse
  <2>1. pc' = "idle" /\ ranked' = <<>>  BY <1>4 DEF Browse, Clear
  <2>2. DOMAIN <<>> = {}  OBVIOUS
  <2> QED  BY <2>1, <2>2 DEF SeenOK, Collecting
<1>5. CASE UNCHANGED vars
  <2>1. UNCHANGED <<row, reader, pc, lex, vec, ranked, seen, checked>>  BY <1>5 DEF vars, truth, found, outcome, history
  <2> QED  BY <2>1, Unmoved DEF SeenOK, Collecting
<1> QED  BY <1>1, <1>2, <1>3, <1>4, <1>5, SeenSearch, SeenVerify, SeenWrite DEF Next, Search

(* ----------------------------- what is found --------------------------- *)

\* What the query matches and the reader may recall; the durable among it.
Matches == {m \in Memory : Recallable(m) /\ Overlap[row[m].text] > 0}
Durable == {m \in Matches : TargetOf[m] # "general"}
Told(m) == row[m].text \in rejected \cup {ranked[n].text : n \in DOMAIN ranked}

\* A search during which no row changes keeps each durable text it matches:
\* first as a candidate of the words, which stay eligible, then in whatever
\* the text was merged into, and at the end among the kept or the rejected.
LiveOK ==
    ~wrote =>
      /\ pc \in {"vector", "meta", "proof", "verify"} =>
           /\ \A i \in lex : i.path = "lexical" /\ i.id \in Eligible(Memory)
           /\ Cardinality(Matches) <= SqlPool =>
                \A m \in Durable : \E i \in lex : i.target # "general" /\ i.text = row[m].text
      /\ pc = "verify" => \A i \in vec : i.id \in Eligible(Memory)
      /\ Cardinality(Matches) <= SqlPool /\ Matches \subseteq checked =>
           \A m \in Durable :
              /\ pc = "rank" => \E i \in lex : i.text = row[m].text
              /\ pc \in {"render", "check", "inject"} \/ (pc = "idle" /\ searches > 0 /\ kind # "browse") => Told(m)

LEMMA SameMatches ==
  ASSUME reader' = reader,
         \A m \in Memory : /\ row'[m].here = row[m].here /\ row'[m].excluded = row[m].excluded
                           /\ row'[m].life = row[m].life /\ row'[m].text = row[m].text
  PROVE  /\ Matches' = Matches /\ Durable' = Durable /\ Eligible(Memory)' = Eligible(Memory)
         /\ \A m \in Durable : row'[m].text = row[m].text
<1>1. \A m \in Memory : Recallable(m)' <=> Recallable(m)  BY DEF Recallable, Eligible, Visible, Accessible
<1>2. Matches' = Matches  BY <1>1 DEF Matches
<1>3. Durable' = Durable  BY <1>2 DEF Durable
<1>4. Eligible(Memory)' = Eligible(Memory)  BY DEF Eligible
<1> QED  BY <1>2, <1>3, <1>4 DEF Matches, Durable

\* Of a set that is not larger than the pool every member is among the best.
LEMMA AllAreBest ==
  ASSUME NEW S, IsFiniteSet(S), NEW n \in Nat, Cardinality(S) <= n
  PROVE  S \subseteq Best(S, n, ByTime)
<1> SUFFICES ASSUME NEW x \in S PROVE Cardinality({y \in S \ {x} : ByTime(y, x)}) < n
  BY DEF Best
<1> DEFINE T == {y \in S \ {x} : ByTime(y, x)}
<1>1. T \in SUBSET (S \ {x})  OBVIOUS
<1>2. IsFiniteSet(S \ {x}) /\ Cardinality(S \ {x}) = Cardinality(S) - 1  BY FS_RemoveElement
<1> HIDE DEF T
<1>3. IsFiniteSet(T) /\ Cardinality(T) <= Cardinality(S \ {x})  BY <1>1, <1>2, FS_Subset
<1>4. Cardinality(S) \in Nat /\ Cardinality(T) \in Nat  BY <1>3, FS_CardinalityType
<1>5. Cardinality(T) < n  BY <1>2, <1>3, <1>4
<1> QED  BY <1>5 DEF T

\* A word of the query weighs enough to be a candidate of its own: a query of
\* at most 72 words that count (lexical_score).
Weighty == \A text \in Text : Overlap[text] = 0 \/ Overlap[text] >= 10

LEMMA WordsFind ==
  ASSUME Weighty, RowsOK, SearchRows
  PROVE  /\ \A i \in lex' : i.path = "lexical" /\ i.id \in Eligible(Memory)
         /\ Cardinality(Matches) <= SqlPool =>
              \A m \in Durable : \E i \in lex' : i.target # "general" /\ i.text = row[m].text
<1> DEFINE items == {LexItem(m, SqlRows) : m \in SqlRows.all}
<1>1. lex' = {i \in items : 2 * i.lex >= MinScore}  BY DEF SearchRows
<1>2. \A i \in items : i.path = "lexical" /\ Recallable(i.id)  BY LexItems
<1>3. \A i \in items : i.path = "lexical" /\ i.id \in Eligible(Memory)  BY <1>2 DEF Recallable
<1>4. ASSUME Cardinality(Matches) <= SqlPool, NEW m \in Durable
      PROVE  \E i \in lex' : i.target # "general" /\ i.text = row[m].text
  <2>1. m \in Matches /\ m \in Memory /\ TargetOf[m] # "general"  BY DEF Durable, Matches
  <2>2. m \in SqlRows.all
    <3>1. SqlRows.all = Best(Matches, SqlPool, ByRank) \cup Best(Matches, SqlPool, ByTime)
      BY DEF SqlRows, Matches
    <3>2. IsFiniteSet(Matches)
      <4>1. Matches \in SUBSET Memory  BY DEF Matches
      <4> QED  BY <4>1, FS_Subset
    <3>3. SqlPool \in Nat  BY DEF SqlPool
    <3> QED  BY <1>4, <2>1, <3>1, <3>2, <3>3, AllAreBest
  <2> DEFINE i == LexItem(m, SqlRows)
  <2>3. i.target = TargetOf[m] /\ i.text = row[m].text /\ i.lex = LexicalScore(row[m].text, "turn", TargetOf[m])
    BY DEF LexItem
  <2>4. 2 * LexicalScore(row[m].text, "turn", TargetOf[m]) >= MinScore
    <3>1. row[m].text \in Text  BY <2>1, RowFields DEF RowsOK
    <3>2. Overlap[row[m].text] \in Nat /\ Overlap[row[m].text] >= 10
      BY <2>1, <3>1 DEF Weighty, Matches
    <3>3. LexicalScore(row[m].text, "turn", TargetOf[m]) = Clamp(Overlap[row[m].text] + 20 + 60)
      BY <2>1 DEF LexicalScore
    <3> QED  BY <3>2, <3>3 DEF Clamp, MinScore
  <2>5. i \in items  BY <2>2
  <2> HIDE DEF items, i
  <2> QED  BY <1>1, <2>1, <2>3, <2>4, <2>5
<1> HIDE DEF items
<1> QED  BY <1>1, <1>3, <1>4

\* The last check keeps the text of a durable candidate of the words, be it
\* that the text was merged with others: they are eligible too.
LEMMA VerifyKeeps ==
  ASSUME RowsOK, FoundOK, NEW j \in lex, j.path = "lexical", j.target # "general",
         \A i \in lex : i.path = "lexical" /\ i.id \in Eligible(Memory),
         \A i \in vec : i.id \in Eligible(Memory),
         NEW kept, {i \in Merged(Candidates) : i.id \in Eligible({x.id : x \in Merged(Candidates)} \cap Memory)} \subseteq kept
  PROVE  \E i \in GeneralPolicy(kept) : i.text = j.text
<1> DEFINE items == lex \cup vec \cup CuratedFound
           fused == RrfScores({i.id : i \in items}, Rankings)
           c == [j EXCEPT !.rrf = fused[j.id]]
           k == DedupKey(c)
           g == {i \in Candidates : DedupKey(i) = k}
           p == Preferred(g)
           x == MergeGroup(g)
<1>1. c \in Candidates  BY DEF Candidates
<1>2. c.text = j.text /\ c.target = j.target /\ c.path = "lexical"
  <2>1. Item(j)  BY DEF FoundOK
  <2> QED  BY <2>1, Fused
<1> HIDE DEF c
<1>3. k = <<"durable", j.text>>  BY <1>2 DEF DedupKey
<1> HIDE DEF k
<1>4. p \in Candidates /\ DedupKey(p) = k /\ Item(p)
  <2>1. g # {} /\ \A i \in g : Item(i)  BY <1>1, CandidateItems DEF k
  <2>2. g \subseteq Candidates /\ \A i \in g : DedupKey(i) = k  OBVIOUS
  <2> HIDE DEF g
  <2>3. p \in g  BY <2>1, PreferredIs
  <2> HIDE DEF p
  <2> QED  BY <2>1, <2>2, <2>3
<1> HIDE DEF p
<1>5. p.path # "curated" /\ p.target # "general" /\ p.text = j.text
  BY <1>3, <1>4 DEF DedupKey
<1>6. p.id \in Eligible(Memory)
  <2>1. PICK q \in lex \cup vec \cup CuratedFound : p.id = q.id /\ p.path = q.path  BY <1>4, CandidateItems
  <2>2. q \in lex \cup vec  BY <1>5, <2>1, CuratedItems
  <2> QED  BY <2>1, <2>2
<1>7. x.id = p.id /\ x.text = p.text /\ x.target = p.target
  <2>1. PICK lexical, vector, rrf, bm : x = Rescore(p, lexical, vector, rrf, bm)  BY DEF MergeGroup, Rescore, p
  <2> HIDE DEF x
  <2> QED  BY <1>4, <2>1, Rescored
<1>8. x \in Merged(Candidates)
  <2>1. k \in {DedupKey(i) : i \in Candidates}  BY <1>1 DEF k
  <2> QED  BY <2>1 DEF Merged
<1> HIDE DEF x
<1>9. x \in kept
  <2>1. x.id \in {y.id : y \in Merged(Candidates)} \cap Memory  BY <1>6, <1>7, <1>8 DEF Eligible
  <2>2. x.id \in Eligible({y.id : y \in Merged(Candidates)} \cap Memory)  BY <1>6, <1>7, <2>1 DEF Eligible
  <2> QED  BY <1>8, <2>2
<1>10. x \in GeneralPolicy(kept)  BY <1>5, <1>7, <1>9 DEF GeneralPolicy
<1> QED  BY <1>5, <1>7, <1>10

\* Ranking tells of every candidate: it is among the kept or the rejected.
LEMMA RankTells ==
  ASSUME FoundOK, Rank
  PROVE  \A i \in lex : i.text \in rejected' \cup {ranked'[n].text : n \in DOMAIN ranked'}
<1> SUFFICES ASSUME NEW i \in lex PROVE i.text \in rejected' \cup {ranked'[n].text : n \in DOMAIN ranked'}
  OBVIOUS
<1>1. PICK order \in SetToSeqs(Scored) :
        ranked' = [n \in DOMAIN order |-> [id |-> order[n].id, text |-> order[n].text]]
  BY DEF Rank, Orders
<1>2. PICK g \in Graded : g.item = i
  <2> DEFINE base == BaseScore(i, lex, Evidence)
  <2>1. [item |-> i, base |-> base] \in Graded  BY DEF Graded
  <2> HIDE DEF base
  <2>2. [item |-> i, base |-> base].item = i  OBVIOUS
  <2> QED  BY <2>1, <2>2
<1>3. CASE g \in Passed
  <2>1. PICK x \in Scored : x.text = i.text
    <3> DEFINE score == g.base + RecencyBonus(g.item, g.base, {y.item.at : y \in Passed})
               x == [id |-> g.item.id, text |-> g.item.text, at |-> g.item.at, base |-> g.base, score |-> score]
    <3>1. x \in Scored  BY <1>3 DEF Scored
    <3> HIDE DEF score
    <3>2. x.text = i.text  BY <1>2
    <3> HIDE DEF x
    <3> QED  BY <3>1, <3>2
  <2>2. PICK n \in DOMAIN order : order[n] = x  BY <1>1, ScoredIs, OrderIs
  <2>3. n \in DOMAIN ranked' /\ ranked'[n].text = i.text  BY <1>1, <2>1, <2>2
  <2> QED  BY <2>3
<1>4. CASE g \notin Passed
  <2>1. rejected' = {y.item.text : y \in Graded \ Passed}  BY DEF Rank
  <2> QED  BY <1>2, <1>4, <2>1
<1> QED  BY <1>3, <1>4

LEMMA LiveBegins == Init => LiveOK
BY DEF Init, LiveOK

LEMMA LiveSearch ==
  ASSUME Weighty, RowsOK, FoundOK, LiveOK, Search
  PROVE  LiveOK'
<1>1. Matches' = Matches /\ Durable' = Durable /\ Eligible(Memory)' = Eligible(Memory) /\ row' = row
  <2>1. UNCHANGED <<row, reader>>
    BY DEF Search, Begin, SearchRows, SearchIndex, ReadTruth, ProveHits, Verify, Rank, Searching, truth
  <2> QED  BY <2>1, SameMatches
<1>2. SqlPool' = SqlPool  BY DEF SqlPool
<1>3. CASE Begin
  BY <1>3 DEF Begin, LiveOK
<1>4. CASE SearchRows
  <2>1. pc' = "vector" /\ wrote' = wrote  BY <1>4 DEF SearchRows, Searching, history
  <2> QED  BY <1>1, <1>2, <1>4, <2>1, WordsFind DEF LiveOK
<1>5. CASE SearchIndex \/ ReadTruth
  <2>1. pc \in {"vector", "meta"} /\ pc' \in {"meta", "proof"} /\ UNCHANGED <<wrote, lex>>
    BY <1>5 DEF SearchIndex, ReadTruth, Searching, history
  <2> QED  BY <1>1, <1>2, <2>1 DEF LiveOK
<1>6. CASE ProveHits
  <2>1. pc = "proof" /\ pc' = "verify" /\ UNCHANGED <<wrote, lex>> /\ \A i \in vec' : i.id \in Eligible(Memory)
    BY <1>6 DEF ProveHits, Searching, history
  <2> QED  BY <1>1, <1>2, <2>1 DEF LiveOK
<1>7. CASE Verify
  <2>1. pc = "verify" /\ pc' = "rank" /\ wrote' = wrote  BY <1>7 DEF Verify, Searching
  <2>2. ASSUME ~wrote, Cardinality(Matches) <= SqlPool, Matches \subseteq checked', NEW m \in Durable
        PROVE  \E i \in lex' : i.text = row[m].text
    <3> DEFINE merged == Merged(Candidates)
               kept == {i \in merged : i.path = "curated"}
                       \cup {i \in merged : i.id \in Eligible({x.id : x \in merged} \cap Memory)}
    <3>1. checked' # {}  BY <2>2 DEF Durable
    <3>2. lex' = GeneralPolicy(kept)  BY <1>7, <3>1 DEF Verify
    <3>3. PICK j \in lex : j.target # "general" /\ j.text = row[m].text  BY <2>1, <2>2 DEF LiveOK
    <3>4. /\ \A i \in lex : i.path = "lexical" /\ i.id \in Eligible(Memory)
          /\ \A i \in vec : i.id \in Eligible(Memory)
      BY <2>1, <2>2 DEF LiveOK
    <3>5. {i \in merged : i.id \in Eligible({x.id : x \in merged} \cap Memory)} \subseteq kept  OBVIOUS
    <3> HIDE DEF kept
    <3>6. \E i \in GeneralPolicy(kept) : i.text = j.text  BY <3>3, <3>4, <3>5, VerifyKeeps
    <3> QED  BY <3>2, <3>3, <3>6
  <2> QED  BY <1>1, <1>2, <2>1, <2>2 DEF LiveOK
<1>8. CASE Rank
  <2>1. pc = "rank" /\ pc' \in {"idle", "render", "check"} /\ UNCHANGED <<wrote, checked>>
    BY <1>8 DEF Rank, Searching, history
  <2>2. ASSUME ~wrote, Cardinality(Matches) <= SqlPool, Matches \subseteq checked, NEW m \in Durable
        PROVE  row[m].text \in rejected' \cup {ranked'[n].text : n \in DOMAIN ranked'}
    <3>1. PICK i \in lex : i.text = row[m].text  BY <2>1, <2>2 DEF LiveOK
    <3> QED  BY <1>8, <3>1, RankTells
  <2>3. \A m \in Durable : row[m].text \in rejected' \cup {ranked'[n].text : n \in DOMAIN ranked'} => Told(m)'
    BY <1>1 DEF Told
  <2> QED  BY <1>1, <1>2, <2>1, <2>2, <2>3 DEF LiveOK
<1> QED  BY <1>3, <1>4, <1>5, <1>6, <1>7, <1>8 DEF Search

LEMMA LiveStep ==
  ASSUME Weighty, RowsOK, FoundOK, ShownOK, LiveOK, [Next]_vars
  PROVE  LiveOK'
<1>1. SqlPool' = SqlPool  BY DEF SqlPool
<1>2. CASE Inject \/ TurnStart \/ SessionSwitch \/ (\E m \in Memory : SyncIndex(m)) \/ UNCHANGED vars
  <2>1. UNCHANGED <<reader, kind, lex, vec, ranked, rejected, searches, checked, wrote>>
    BY <1>2 DEF Inject, Render, CheckInjected, WriteInjected, TurnStart, SessionSwitch, SyncIndex, Searching,
                vars, truth, found, outcome, history
  <2>2. \/ pc' = pc
        \/ pc \in {"render", "check", "inject"} /\ pc' \in {"check", "inject"}
        \/ pc \in {"render", "check", "inject"} /\ pc' = "idle"
    BY <1>2 DEF Inject, Render, CheckInjected, WriteInjected, TurnStart, SessionSwitch, SyncIndex, Searching, vars
  <2>3. \A m \in Memory : /\ row'[m].here = row[m].here /\ row'[m].excluded = row[m].excluded
                          /\ row'[m].life = row[m].life /\ row'[m].text = row[m].text
    <3>1. row' = row \/ row' = [m \in Memory |-> [row[m] EXCEPT !.hits = @ + Counted(m)]]
      BY <1>2 DEF Inject, Render, CheckInjected, WriteInjected, TurnStart, SessionSwitch, SyncIndex, Searching, vars, truth
    <3>2. CASE row' = row  BY <3>2
    <3>3. CASE row' = [m \in Memory |-> [row[m] EXCEPT !.hits = @ + Counted(m)]]  BY <3>3 DEF RowsOK, Row
    <3> QED  BY <3>1, <3>2, <3>3
  <2>4. Matches' = Matches /\ Durable' = Durable /\ Eligible(Memory)' = Eligible(Memory)
        /\ \A m \in Durable : row'[m].text = row[m].text
    BY <2>1, <2>3, SameMatches
  <2>5. \A m \in Durable : Told(m) => Told(m)'  BY <2>1, <2>4 DEF Told
  <2> QED  BY <1>1, <2>1, <2>2, <2>4, <2>5 DEF LiveOK
<1>3. CASE Browse
  <2>1. pc' = "idle" /\ kind' = "browse"  BY <1>3 DEF Browse
  <2> QED  BY <2>1 DEF LiveOK
<1>4. CASE \E m \in Memory : \E new : Writes(m, new)
  BY <1>4 DEF Writes, Change, LiveOK
<1> QED  BY <1>2, <1>3, <1>4, LiveSearch, WriteIs DEF Next

(* ------------------------------ theorems ------------------------------- *)

IInv == RowsOK /\ CountsOK /\ AgentOK /\ FoundOK /\ ShownOK /\ SeenOK

LEMMA IInvInductive == Spec => []IInv
<1>1. Init => IInv  BY InitOK, SeenBegins DEF IInv
<1>2. IInv /\ [Next]_vars => IInv'
  BY RowsStep, CountsStep, AgentStep, FoundStep, ShownStep, SeenStep DEF IInv
<1> QED  BY <1>1, <1>2, PTL DEF Spec

\* Every row, record, counter and list has its shape, whatever the writers
\* and the searches do: no list is longer than its limit, no row newer than
\* the clock, no counter ahead of the log (recall.py, telemetry.py).
THEOREM ShapeKept == Spec => []QTypeOK
<1>1. IInv => QTypeOK
  <2> SUFFICES ASSUME IInv PROVE QTypeOK  OBVIOUS
  <2>1. ASSUME NEW m \in Memory
        PROVE  /\ row[m].here \in BOOLEAN /\ row[m].excluded \in BOOLEAN
               /\ row[m].life \in Life /\ row[m].text \in Text
               /\ row[m].at <= clock /\ row[m].hits <= Cardinality(log)
               /\ Cardinality(record[m]) <= 1
    <3>1. row[m].hits <= Cardinality(log)
      <4> DEFINE A == {e \in log : e.id = m}
      <4>1. row[m].hits = Cardinality(A) /\ IsFiniteSet(log) /\ A \in SUBSET log  BY DEF IInv, CountsOK
      <4> HIDE DEF A
      <4> QED  BY <4>1, FS_Subset
    <3>2. Cardinality(record[m]) <= 1
      <4>1. record[m] = {} \/ \E h : record[m] = {h}  BY DEF IInv, RowsOK
      <4>2. CASE record[m] = {}  BY <4>2, FS_EmptySet
      <4>3. ASSUME NEW h, record[m] = {h} PROVE Cardinality(record[m]) <= 1
        <5>1. Cardinality({h}) = 1  BY FS_Singleton
        <5> QED  BY <4>3, <5>1
      <4> QED  BY <4>1, <4>2, <4>3
    <3> QED  BY <3>1, <3>2, RowFields DEF IInv, RowsOK
  <2>2. \A n \in DOMAIN block : block[n] \in Ids  BY DEF IInv, ShownOK
  <2>3. Range(block) \subseteq Ids  BY <2>2 DEF Range
  <2>4. Len(Returned) <= Limit  BY ReturnedIs DEF IInv
  <2>5. \A id \in DOMAIN lastTurn : lastTurn[id] <= turn  BY DEF IInv, AgentOK
  <2>6. pc \in {"idle", "lexical", "vector", "meta", "proof", "verify", "rank", "render", "check", "inject"}
    BY DEF IInv, ShownOK
  <2> QED  BY <2>1, <2>2, <2>3, <2>4, <2>5, <2>6 DEF QTypeOK, Ids
<1> QED  BY <1>1, IInvInductive, PTL

\* The counter of a row counts the injected events of the log, for any
\* interleaving of searches, failed writes, repeated requests and changes.
THEOREM HitsAreEvents == Spec => []HitsMatchLog
<1>1. IInv => HitsMatchLog  BY DEF IInv, CountsOK, HitsMatchLog
<1> QED  BY <1>1, IInvInductive, PTL

\* What a search returns was recallable at some moment of it, and passed the
\* last check: between the reads, for which no lock is held, any number of
\* archives, deletes, exclusions and rewrites may come.
THEOREM ShownWasSeen == Spec => []ShownWasRecallable
<1>1. IInv => ShownWasRecallable  BY DEF IInv, SeenOK, ShownWasRecallable
<1> QED  BY <1>1, IInvInductive, PTL

\* No runtime is shown what another person wrote, whoever the persons, their
\* accounts and the mapping are, if a mapping only grows; scratch stays in
\* its conversation (scope.py, storage_views.py).
THEOREM NobodyElses == Spec => []OnlyOwnMemories
<1>1. IInv => OnlyOwnMemories
  <2> SUFFICES ASSUME IInv, NEW m \in ({ranked[n].id : n \in DOMAIN ranked} \cup listed) \cap Memory
               PROVE  /\ SamePerson(reader.account, Author[m].account)
                      /\ TargetOf[m] = "general" => Author[m].chat \in {reader.chat, Empty}
    BY DEF OnlyOwnMemories
  <2>1. m \in Memory /\ ScopeOf[m] \in AccessibleTo[reader] /\ reader \in Readers
    BY DEF IInv, ShownOK, AgentOK, Own, Accessible
  <2>2. /\ Same(reader.account, Author[m].account, reader.config)
        /\ TargetOf[m] = "general" => Author[m].chat \in {reader.chat, Empty}
    BY <2>1, ReadersOwn
  <2>3. /\ Key(Normalized(reader.account, reader.config)) = Key(reader.account)
        /\ Key(Normalized(Author[m].account, reader.config)) = Key(Author[m].account)
    <3>1. reader \in Runtime /\ Author[m] \in Runtime  BY <2>1
    <3>2. Named(reader.account) /\ Named(Author[m].account)  BY <3>1 DEF Runtime, Account, Named
    <3> QED  BY <3>2, Keys
  <2> QED  BY <2>2, <2>3 DEF Same, SamePerson
<1> QED  BY <1>1, IInvInductive, PTL

\* A search during which no row changes finds what there is, with the index
\* or without it: hidden, excluded, foreign and merged rows take nothing from
\* a live one (storage_views.py, recall_pipeline.py), for queries of which a
\* word weighs enough to be a candidate.
THEOREM LiveIsFound ==
  ASSUME \A text \in Text : Overlap[text] = 0 \/ Overlap[text] >= 10
  PROVE  Spec => []LiveMatchIsFound
<1>0. Weighty  BY DEF Weighty
<1>1. Init => IInv /\ LiveOK  BY InitOK, SeenBegins, LiveBegins DEF IInv
<1>2. IInv /\ LiveOK /\ [Next]_vars => IInv' /\ LiveOK'
  BY <1>0, RowsStep, CountsStep, AgentStep, FoundStep, ShownStep, SeenStep, LiveStep DEF IInv
<1>3. LiveOK => LiveMatchIsFound
  <2> SUFFICES ASSUME LiveOK,
                      pc = "idle" /\ searches > 0 /\ kind # "browse" /\ ~wrote,
                      Matches \subseteq checked, Cardinality(Matches) <= SqlPool,
                      NEW m \in Matches, TargetOf[m] # "general"
               PROVE  Told(m)
    BY DEF LiveMatchIsFound, Matches, Told
  <2> QED  BY DEF LiveOK, Durable
<1> QED  BY <1>1, <1>2, <1>3, PTL DEF Spec
=============================================================================
