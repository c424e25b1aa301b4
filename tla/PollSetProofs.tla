---------------------------- MODULE PollSetProofs ----------------------------
(***************************************************************************)
(* Proofs about PollSet, for any clients and modules: what is open has one *)
(* owner, the manager polls what is open, and no pass waits for a client.  *)
(***************************************************************************)
EXTENDS PollSet, FiniteSetTheorems, SequenceTheorems, TLAPS

\* The listening socket's number is the first; a connection's and a pipe's is
\* known to its session and its module, but for the pipes that are lost.
Tables == [names   : [Fds -> Conns \union Mods \union {Listen, Free}],
           pipeFd  : [Mods -> Fds \union {None}],
           running : SUBSET Mods,
           dirty   : BOOLEAN]
Owned(t, comm) ==
    /\ t.names[ListenFd] = Listen /\ \A f \in Fds : t.names[f] = Listen => f = ListenFd
    /\ \A f \in Fds : t.names[f] \in Conns => comm[t.names[f]] = f
    /\ \A c \in Conns : comm[c] # None => t.names[comm[c]] = c
    /\ \A m \in Mods : t.pipeFd[m] # None => t.names[t.pipeFd[m]] = m
    /\ \A m \in t.running : t.pipeFd[m] # None
    /\ Cardinality(Leaked(t)) <= MaxLeaks

TypeOK ==
    /\ Table \in Tables
    /\ queued \in Seq(Conns) /\ input \subseteq Conns
    /\ talk \subseteq Mods /\ marks \subseteq Mods /\ fails \in [Mods -> Nat]
    /\ sessions \in Seq(Conns) /\ commFd \in [Conns -> Fds \union {None}]
    /\ status \in {"RUNNING", "STOPPED"}
    /\ array \in Seq(Fds) /\ marked \subseteq Fds /\ entry \in Nat \ {0}
    /\ pc \in {"setup", "loop", "serve", "blocked", "closed", "crashed"}

\* A connection is open when it has a session, and it has one at most.
SessionsOK ==
    /\ IsInjective(sessions) /\ \A c \in Conns : commFd[c] # None <=> c \in ToSet(sessions)
    /\ IsInjective(queued) /\ \A c \in ToSet(queued) : commFd[c] = None

\* The array is in the order of the code, and what is open when nothing is dirty.
Opened == {ListenFd} \union (({commFd[c] : c \in Conns} \union {pipeFd[m] : m \in Mods}) \ {None})
ArrayOK ==
    pc \in {"loop", "serve"} =>
        /\ IsInjective(array) /\ array # <<>> /\ array[1] = ListenFd
        /\ ~dirty => ToSet(array) = Opened

\* Numbers are closed only behind the first entry and given to sessions only by
\* it, to numbers that were free then: none of a later entry.
PassOK ==
    pc = "serve" =>
        /\ marked \subseteq ToSet(array)
        /\ entry = 1 =>
              /\ \A f \in ToSet(array) : names[f] # Free
              /\ ListenFd \in marked => queued # <<>>
        /\ \A i \in DOMAIN array : i >= entry /\ array[i] \in marked =>
              \A c \in Conns : commFd[c] = array[i] => c \in input

Sound == pc # "blocked" /\ Owned(Table, commFd) /\ SessionsOK /\ ArrayOK /\ PassOK
PollInv == TypeOK /\ (pc \notin {"closed", "crashed"} => Sound)

----------------------------------------------------------------------------
(***************************************************************************)
(* Folds                                                                   *)
(***************************************************************************)
\* What holds of 0 and of the next number holds of all.
LEMMA Naturally ==
    ASSUME NEW S, 0 \in S, \A n \in Nat : n \in S => n + 1 \in S
    PROVE  \A n \in Nat : n \in S
<1> SUFFICES ASSUME NEW bad \in Nat, bad \notin S PROVE FALSE
  OBVIOUS
<1> DEFINE T == {1 .. n : n \in Nat \ S}  R == StrictSubsetOrdering(Nat)
<1>1. T \subseteq FiniteSubsetsOf(Nat)
  <2> SUFFICES ASSUME NEW n \in Nat PROVE 1 .. n \in FiniteSubsetsOf(Nat)
    OBVIOUS
  <2>1. IsFiniteSet(1 .. n)  BY FS_Interval
  <2>2. QED  BY <2>1 DEF FiniteSubsetsOf
<1>2. 1 .. bad \in T  OBVIOUS
<1>3. IsWellFoundedOn(R, FiniteSubsetsOf(Nat))
  BY FS_StrictSubsetOrderingWellFounded
<1> HIDE DEF R
<1>4. PICK x \in T : \A y \in T : ~(<<y, x>> \in R)
  <2>1. T # {}  BY <1>2
  <2> HIDE DEF T
  <2>2. QED  BY <1>1, <1>3, <2>1, WFMin
<1>5. PICK n \in Nat \ S : x = 1 .. n
  OBVIOUS
<1>6. n # 0  OBVIOUS
<1>7. n - 1 \in Nat /\ (n - 1) + 1 = n  BY <1>6
<1>8. n - 1 \notin S  BY <1>7
<1>9. 1 .. (n - 1) \in T  BY <1>7, <1>8
<1>10. n \in 1 .. n /\ n \notin 1 .. (n - 1) /\ 1 .. (n - 1) \subseteq 1 .. n
  BY <1>6
<1>11. <<1 .. (n - 1), 1 .. n>> \in R
  BY <1>10 DEF R, StrictSubsetOrdering
<1>12. QED  BY <1>4, <1>5, <1>9, <1>11

LEMMA Largest ==
    ASSUME NEW n \in Nat, NEW s \in SUBSET (1 .. n), s # {}
    PROVE  Max(s) \in s /\ \A y \in s : y <= Max(s)
<1> DEFINE S == {k \in Nat : \A r \in SUBSET (1 .. k) :
                    r # {} => \E x \in r : \A y \in r : y <= x}
<1>1. 0 \in S
  <2>1. 1 .. 0 = {}  OBVIOUS
  <2>2. \A r \in SUBSET (1 .. 0) : r = {}  BY <2>1
  <2>3. QED  BY <2>2
<1>2. ASSUME NEW k \in Nat, k \in S PROVE k + 1 \in S
  <2> SUFFICES ASSUME NEW r \in SUBSET (1 .. k + 1), r # {}
               PROVE  \E x \in r : \A y \in r : y <= x
    OBVIOUS
  <2>1. CASE k + 1 \in r
    <3>1. \A y \in r : y <= k + 1  OBVIOUS
    <3>2. QED  BY <2>1, <3>1
  <2>2. CASE k + 1 \notin r
    <3>1. r \in SUBSET (1 .. k)
      <4>1. ASSUME NEW y \in r PROVE y \in 1 .. k
        <5>1. y \in 1 .. k + 1 /\ y # k + 1  BY <2>2
        <5>2. QED  BY <5>1
      <4>2. QED  BY <4>1
    <3>2. QED  BY <3>1, <1>2
  <2>3. QED  BY <2>1, <2>2
<1> HIDE DEF S
<1>3. n \in S  BY <1>1, <1>2, Naturally
<1>4. PICK x \in s : \A y \in s : y <= x  BY <1>3 DEF S
<1>5. s \subseteq Nat  OBVIOUS
<1>6. \A y \in s : x >= y  BY <1>4, <1>5
<1>7. Max(s) \in s /\ \A y \in s : Max(s) >= y  BY <1>6 DEF Max
<1>8. QED  BY <1>5, <1>7

\* What a fold over the places of a list of n computes: the fold of the places
\* before the last one, and the last one's turn.
Folds(f, n, b, g) ==
    f = [s \in SUBSET (1 .. n) |-> IF s = {} THEN b ELSE g[<<f[s \ {Max(s)}], Max(s)>>]]

LEMMA FoldExists ==
    ASSUME NEW n \in Nat, NEW T, NEW b \in T, NEW g \in [T \X (1 .. n) -> T]
    PROVE  \E f \in [SUBSET (1 .. n) -> T] : Folds(f, n, b, g)
<1> DEFINE P == SUBSET (1 .. n)
           Rest(s) == s \ {Max(s)}
           Goes(f, s) == IF s = {} THEN b ELSE g[<<f[Rest(s)], Max(s)>>]
           S == {k \in Nat : \E f \in [P -> T] : \A s \in P : s \subseteq 1 .. k => f[s] = Goes(f, s)}
<1>1. 0 \in S
  <2>1. [s \in P |-> b] \in [P -> T]  OBVIOUS
  <2>2. \A s \in P : s \subseteq 1 .. 0 => s = {}  OBVIOUS
  <2>3. QED  BY <2>1, <2>2
<1>2. \A s \in P : s # {} => Max(s) \in s /\ Max(s) \in 1 .. n /\ Rest(s) \in P
  <2> TAKE s \in P
  <2> HAVE s # {}
  <2>1. Max(s) \in s  BY Largest
  <2>2. QED  BY <2>1
<1>3. ASSUME NEW k \in Nat, k \in S PROVE k + 1 \in S
  <2>1. PICK f \in [P -> T] : \A s \in P : s \subseteq 1 .. k => f[s] = Goes(f, s)
    BY <1>3
  <2> DEFINE h == [s \in P |-> Goes(f, s)]
  <2>2. h \in [P -> T]  BY <1>2
  <2>3. ASSUME NEW s \in P, s \subseteq 1 .. k + 1 PROVE h[s] = Goes(h, s)
    <3>1. CASE s = {}  BY <3>1
    <3>2. CASE s # {}
      <4>1. Max(s) \in s /\ \A y \in s : y <= Max(s)  BY <3>2, Largest
      <4>2. Rest(s) \subseteq 1 .. k
        <5> SUFFICES ASSUME NEW y \in Rest(s) PROVE y \in 1 .. k
          OBVIOUS
        <5>1. y \in 1 .. k + 1 /\ Max(s) \in 1 .. k + 1 /\ y <= Max(s) /\ y # Max(s)
          BY <2>3, <4>1
        <5>2. QED  BY <5>1
      <4>3. Rest(s) \in P  BY <3>2, <1>2
      <4>4. h[Rest(s)] = Goes(f, Rest(s))  BY <4>3
      <4>5. f[Rest(s)] = Goes(f, Rest(s))  BY <2>1, <4>2, <4>3
      <4>6. h[s] = Goes(f, s)  OBVIOUS
      <4> HIDE DEF h, Rest
      <4>7. QED  BY <3>2, <4>4, <4>5, <4>6
    <3>3. QED  BY <3>1, <3>2
  <2> HIDE DEF h
  <2>4. \A s \in P : s \subseteq 1 .. k + 1 => h[s] = Goes(h, s)
    <3> HIDE DEF Goes, P
    <3>1. QED  BY <2>3
  <2>5. k + 1 \in Nat  OBVIOUS
  <2> HIDE DEF Goes, P
  <2>6. QED  BY <2>2, <2>4, <2>5
<1> HIDE DEF S
<1>4. n \in S  BY <1>1, <1>3, Naturally
<1>5. PICK f \in [P -> T] : \A s \in P : s \subseteq 1 .. n => f[s] = Goes(f, s)
  BY <1>4 DEF S
<1>6. f = [s \in P |-> Goes(f, s)]
  <2>1. \A s \in P : f[s] = Goes(f, s)  BY <1>5
  <2> HIDE DEF Goes
  <2>2. QED  BY <1>5, <2>1
<1>7. QED  BY <1>6 DEF Folds

\* The fold up to place k.
LEMMA FoldAt ==
    ASSUME NEW n \in Nat, NEW k \in Nat, k + 1 \in 1 .. n
    PROVE  /\ Max(1 .. k + 1) = k + 1 /\ (1 .. k + 1) \ {k + 1} = 1 .. k
           /\ 1 .. k + 1 \in SUBSET (1 .. n) /\ 1 .. k + 1 # {}
<1>1. 1 .. k + 1 \in SUBSET (1 .. n) /\ k + 1 \in 1 .. k + 1  OBVIOUS
<1>2. Max(1 .. k + 1) \in 1 .. k + 1 /\ k + 1 <= Max(1 .. k + 1)  BY <1>1, Largest
<1>3. Max(1 .. k + 1) = k + 1  BY <1>2
<1>4. (1 .. k + 1) \ {k + 1} = 1 .. k  OBVIOUS
<1>5. QED  BY <1>1, <1>3, <1>4

\* What every turn keeps, the turns of a list keep.
LEMMA TurnedIn ==
    ASSUME NEW X, NEW mods \in Seq(X), NEW T, NEW t \in T, NEW A, NEW B,
           \A u \in T : \A i \in 1 .. Len(mods) : Turn(u, mods[i], A, B) \in T
    PROVE  Turned(t, mods, A, B) \in T
<1> DEFINE n == Len(mods)
           g == [p \in T \X (1 .. n) |-> Turn(p[1], mods[p[2]], A, B)]
           Iter(f) == f = [s \in SUBSET DOMAIN mods |->
                            IF s = {} THEN t ELSE Turn(f[s \ {Max(s)}], mods[Max(s)], A, B)]
           iter == CHOOSE f : Iter(f)
<1>1. n \in Nat /\ DOMAIN mods = 1 .. n  OBVIOUS
<1>2. g \in [T \X (1 .. n) -> T]  OBVIOUS
<1>3. Turned(t, mods, A, B) = iter[DOMAIN mods]
  BY DEF Turned, FoldLeft, MapThenFoldSet
<1> HIDE DEF n
<1>4. \E f : Iter(f)
  <2>1. PICK f \in [SUBSET (1 .. n) -> T] : Folds(f, n, t, g)
    <3> HIDE DEF g
    <3>1. QED  BY <1>1, <1>2, FoldExists
  <2>2. ASSUME NEW s \in SUBSET (1 .. n), s # {}
        PROVE  g[<<f[s \ {Max(s)}], Max(s)>>] = Turn(f[s \ {Max(s)}], mods[Max(s)], A, B)
    <3>1. Max(s) \in s  BY <1>1, <2>2, Largest
    <3>2. f[s \ {Max(s)}] \in T  BY <2>1
    <3>3. QED  BY <3>1, <3>2
  <2>3. f = [s \in SUBSET (1 .. n) |-> IF s = {} THEN t ELSE g[<<f[s \ {Max(s)}], Max(s)>>]]
    BY <2>1 DEF Folds
  <2> HIDE DEF g
  <2>4. Iter(f)  BY <1>1, <2>2, <2>3
  <2>5. QED  BY <2>4
<1>5. Iter(iter)  BY <1>4
<1> DEFINE S == {k \in Nat : k <= n => iter[1 .. k] \in T}
<1> HIDE DEF iter
<1>6. 0 \in S
  <2>1. 1 .. 0 = {} /\ {} \in SUBSET DOMAIN mods  OBVIOUS
  <2>2. iter[{}] = t  BY <1>5, <2>1
  <2>3. QED  BY <2>1, <2>2
<1>7. ASSUME NEW k \in Nat, k \in S PROVE k + 1 \in S
  <2> SUFFICES ASSUME k + 1 <= n PROVE iter[1 .. k + 1] \in T
    OBVIOUS
  <2>1. k + 1 \in 1 .. n /\ iter[1 .. k] \in T  BY <1>1, <1>7
  <2>2. iter[1 .. k + 1] = Turn(iter[1 .. k], mods[k + 1], A, B)
    <3> DEFINE s == 1 .. k + 1
    <3>1. Max(s) = k + 1 /\ s \ {k + 1} = 1 .. k /\ s \in SUBSET (1 .. n) /\ s # {}
      BY <1>1, <2>1, FoldAt
    <3> HIDE DEF s
    <3>2. iter[s] = Turn(iter[s \ {Max(s)}], mods[Max(s)], A, B)
      BY <1>1, <1>5, <3>1
    <3>3. QED  BY <3>1, <3>2 DEF s
  <2>3. QED  BY <2>1, <2>2 DEF n
<1> HIDE DEF S
<1>8. n \in S  BY <1>1, <1>6, <1>7, Naturally
<1>9. QED  BY <1>1, <1>3, <1>8 DEF S

----------------------------------------------------------------------------
(***************************************************************************)
(* The table of descriptors                                                *)
(***************************************************************************)
LEMMA Smallest ==
    ASSUME NEW n \in Nat, NEW s \in SUBSET (1 .. n), s # {}
    PROVE  Min(s) \in s
<1> DEFINE r == {n + 1 - x : x \in s}
<1>1. r \in SUBSET (1 .. n) /\ r # {}
  <2>1. ASSUME NEW x \in s PROVE n + 1 - x \in 1 .. n
    <3>1. x \in Nat /\ 1 <= x /\ x <= n  OBVIOUS
    <3>2. QED  BY <3>1
  <2>2. r # {}  OBVIOUS
  <2>3. QED  BY <2>1, <2>2
<1>2. Max(r) \in r /\ \A y \in r : y <= Max(r)
  <2> HIDE DEF r
  <2>1. QED  BY <1>1, Largest
<1>3. PICK x \in s : Max(r) = n + 1 - x  BY <1>2
<1>4. ASSUME NEW y \in s PROVE x <= y
  <2>1. n + 1 - y <= n + 1 - x  BY <1>2, <1>3
  <2>2. x \in Nat /\ y \in Nat  OBVIOUS
  <2>3. QED  BY <2>1, <2>2
<1>5. \A y \in s : x =< y  BY <1>4
<1>6. QED  BY <1>5 DEF Min

LEMMA ModsFinite == IsFiniteSet(Mods)
<1>1. ModList \in Surjection(1 .. Len(ModList), Mods)
  BY ConstantsAssumption DEF Surjection, Mods, ToSet
<1>2. Len(ModList) \in Nat  BY ConstantsAssumption
<1>3. IsFiniteSet(1 .. Len(ModList))  BY <1>2, FS_Interval
<1>4. QED  BY <1>1, <1>3, FS_Surjection

LEMMA FdsFinite == IsFiniteSet(Fds) /\ Cardinality(Fds) = MaxFd /\ ListenFd \in Fds
<1>1. MaxFd \in Nat /\ MaxFd > 1
  <2>1. Cardinality(Conns) \in Nat /\ Cardinality(Mods) \in Nat
    BY ConstantsAssumption, ModsFinite, FS_CardinalityType
  <2>2. QED  BY <2>1, FdAssumption
<1>2. QED  BY <1>1, FS_Interval DEF Fds, ListenFd

LEMMA LeakedFinite ==
    ASSUME NEW t
    PROVE  IsFiniteSet(Leaked(t)) /\ Cardinality(Leaked(t)) \in Nat
<1>1. Leaked(t) \subseteq Fds  BY DEF Leaked
<1>2. IsFiniteSet(Leaked(t))  BY <1>1, FdsFinite, FS_Subset
<1>3. QED  BY <1>2, FS_CardinalityType

\* What is open and not lost is the listening socket's, a connection's or a
\* module's, so that a number is always free.
LEMMA SomeFree ==
    ASSUME NEW t \in Tables, NEW comm, Owned(t, comm)
    PROVE  \E f \in Fds : t.names[f] = Free
<1> DEFINE Named == {f \in Fds \ Leaked(t) : t.names[f] \in Conns \union Mods}
           n == [f \in Named |-> t.names[f]]
<1>1. n \in Injection(Named, Conns \union Mods)
  <2>1. n \in [Named -> Conns \union Mods]  OBVIOUS
  <2>2. ASSUME NEW f \in Named, NEW g \in Named, n[f] = n[g] PROVE f = g
    <3>1. t.names[f] = t.names[g] /\ f \in Fds /\ g \in Fds /\ f \notin Leaked(t) /\ g \notin Leaked(t)
      BY <2>2
    <3>2. CASE t.names[f] \in Conns  BY <3>1, <3>2 DEF Owned
    <3>3. CASE t.names[f] \in Mods  BY <3>1, <3>3 DEF Leaked
    <3>4. QED  BY <3>2, <3>3
  <2>3. \A f, g \in DOMAIN n : n[f] = n[g] => f = g  BY <2>2
  <2> HIDE DEF n, Named
  <2>4. QED  BY <2>1, <2>3 DEF Injection, IsInjective
<1>2. /\ IsFiniteSet(Conns \union Mods)
      /\ Cardinality(Conns \union Mods) <= Cardinality(Conns) + Cardinality(Mods)
      /\ Cardinality(Conns) \in Nat /\ Cardinality(Mods) \in Nat
      /\ Cardinality(Conns \union Mods) \in Nat
  <2>1. Conns \intersect Mods = {}  BY ConstantsAssumption
  <2>2. IsFiniteSet(Conns) /\ IsFiniteSet(Mods)  BY ConstantsAssumption, ModsFinite
  <2>3. Cardinality(Conns) \in Nat /\ Cardinality(Mods) \in Nat  BY <2>2, FS_CardinalityType
  <2>4. IsFiniteSet(Conns \union Mods)  BY <2>2, FS_Union
  <2>5. Cardinality(Conns \union Mods) = Cardinality(Conns) + Cardinality(Mods) - Cardinality(Conns \intersect Mods)
    BY <2>2, FS_Union
  <2>6. Cardinality({}) = 0  BY FS_EmptySet
  <2>7. Cardinality(Conns \intersect Mods) = 0  BY <2>1, <2>6
  <2>8. Cardinality(Conns \union Mods) = Cardinality(Conns) + Cardinality(Mods)
    BY <2>3, <2>5, <2>7
  <2>9. QED  BY <2>3, <2>4, <2>8
<1> HIDE DEF n
<1>3. IsFiniteSet(Named) /\ Cardinality(Named) <= Cardinality(Conns \union Mods)
  <2> HIDE DEF Named
  <2>1. QED  BY <1>1, <1>2, FS_Injection
<1>4. Cardinality(Named) \in Nat  BY <1>3, FS_CardinalityType
<1> SUFFICES ASSUME \A f \in Fds : t.names[f] # Free PROVE FALSE
  OBVIOUS
<1>5. Fds = (Named \union Leaked(t)) \union {ListenFd}
  <2>1. ASSUME NEW f \in Fds PROVE f \in (Named \union Leaked(t)) \union {ListenFd}
    <3>1. t.names[f] \in Conns \union Mods \union {Listen}  BY DEF Tables
    <3>2. CASE t.names[f] = Listen  BY <3>2 DEF Owned
    <3>3. CASE t.names[f] \in Conns \union Mods  BY <3>3
    <3>4. QED  BY <3>1, <3>2, <3>3
  <2>2. Leaked(t) \subseteq Fds  BY DEF Leaked
  <2>3. QED  BY <2>1, <2>2, FdsFinite
<1> HIDE DEF Named
<1>6. IsFiniteSet(Leaked(t)) /\ Cardinality(Leaked(t)) \in Nat /\ Cardinality(Leaked(t)) <= MaxLeaks
  BY LeakedFinite DEF Owned
<1>7. /\ IsFiniteSet(Named \union Leaked(t))
      /\ Cardinality(Named \union Leaked(t)) <= Cardinality(Named) + Cardinality(Leaked(t))
      /\ Cardinality(Named \union Leaked(t)) \in Nat
  <2>1. IsFiniteSet(Named \union Leaked(t))  BY <1>3, <1>6, FS_Union
  <2>2. Cardinality(Named \union Leaked(t))
          = Cardinality(Named) + Cardinality(Leaked(t)) - Cardinality(Named \intersect Leaked(t))
    BY <1>3, <1>6, FS_Union
  <2>3. Cardinality(Named \intersect Leaked(t)) \in Nat
    BY <1>3, FS_Intersection, FS_CardinalityType
  <2>4. Cardinality(Named \union Leaked(t)) \in Nat  BY <2>1, FS_CardinalityType
  <2>5. QED  BY <1>4, <1>6, <2>1, <2>2, <2>3, <2>4
<1>8. Cardinality(Fds) <= Cardinality(Named \union Leaked(t)) + 1
  BY <1>5, <1>7, FS_AddElement
<1>9. MaxFd \in Nat /\ MaxLeaks \in Nat /\ MaxFd > 1 + Cardinality(Conns) + Cardinality(Mods) + MaxLeaks
  BY FdAssumption
<1>10. Cardinality(Fds) = MaxFd  BY FdsFinite
<1>11. QED  BY <1>2, <1>3, <1>4, <1>6, <1>7, <1>8, <1>9, <1>10

LEMMA LowestFree ==
    ASSUME NEW t \in Tables, NEW comm, Owned(t, comm)
    PROVE  Lowest(t.names) \in Fds /\ t.names[Lowest(t.names)] = Free
<1> DEFINE s == {f \in Fds : t.names[f] = Free}
<1>1. s # {} /\ s \in SUBSET (1 .. MaxFd)  BY SomeFree DEF Fds
<1>2. Lowest(t.names) = Min(s)  BY DEF Lowest
<1> HIDE DEF s
<1>3. Min(s) \in s  BY <1>1, FdAssumption, Smallest
<1>4. QED  BY <1>2, <1>3 DEF s

\* An exit closes the module's pipe and no other.
LEMMA ExitKeeps ==
    ASSUME NEW t \in Tables, NEW comm, Owned(t, comm), NEW m \in Mods
    PROVE  /\ Exit(t, m) \in Tables /\ Owned(Exit(t, m), comm)
           /\ Exit(t, m).dirty \/ Exit(t, m) = t
<1>1. CASE Parked(t, m)  BY <1>1 DEF Exit
<1>2. CASE ~Parked(t, m)
  <2> DEFINE u == Exit(t, m)  f == t.pipeFd[m]
  <2>1. f \in Fds /\ t.names[f] = m  BY <1>2 DEF Parked, Tables, Owned
  <2>2. /\ u \in Tables /\ u.names = [t.names EXCEPT ![f] = Free]
        /\ u.pipeFd = [t.pipeFd EXCEPT ![m] = None]
        /\ u.running = t.running \ {m} /\ u.dirty = TRUE
    BY <1>2, <2>1 DEF Exit, Tables
  <2>3. /\ t.names \in [Fds -> Conns \union Mods \union {Listen, Free}]
        /\ t.pipeFd \in [Mods -> Fds \union {None}] /\ t.running \subseteq Mods
    BY DEF Tables
  <2> HIDE DEF u
  <2>4. Leaked(u) \subseteq Leaked(t)
    BY <2>1, <2>2, <2>3, ConstantsAssumption DEF Leaked
  <2>5. Cardinality(Leaked(u)) <= MaxLeaks
    <3>1. Cardinality(Leaked(u)) <= Cardinality(Leaked(t))  BY <2>4, LeakedFinite, FS_Subset
    <3>2. QED  BY <3>1, LeakedFinite, FdAssumption DEF Owned
  <2>6. Owned(u, comm)
    <3>1. u.names[ListenFd] = Listen /\ \A g \in Fds : u.names[g] = Listen => g = ListenFd
      BY <2>1, <2>2, <2>3, FdsFinite, ConstantsAssumption DEF Owned
    <3>2. \A g \in Fds : u.names[g] \in Conns => comm[u.names[g]] = g
      BY <2>1, <2>2, <2>3, ConstantsAssumption DEF Owned
    <3>3. \A c \in Conns : comm[c] # None => u.names[comm[c]] = c
      <4> SUFFICES ASSUME NEW c \in Conns, comm[c] # None PROVE u.names[comm[c]] = c
        OBVIOUS
      <4>1. t.names[comm[c]] = c /\ c # m  BY ConstantsAssumption DEF Owned
      <4>2. comm[c] # f  BY <2>1, <4>1
      <4>3. QED  BY <2>2, <2>3, <4>1, <4>2
    <3>4. \A k \in Mods : u.pipeFd[k] # None => u.names[u.pipeFd[k]] = k
      BY <2>1, <2>2, <2>3 DEF Owned
    <3>5. \A k \in u.running : u.pipeFd[k] # None
      BY <2>2, <2>3 DEF Owned
    <3>6. QED  BY <2>5, <3>1, <3>2, <3>3, <3>4, <3>5 DEF Owned
  <2>7. QED  BY <2>2, <2>6 DEF u
<1>3. QED  BY <1>1, <1>2

\* A start opens one number that was free, and loses the module's pipe at most.
LEMMA StartKeeps ==
    ASSUME NEW t \in Tables, NEW comm, Owned(t, comm), NEW m \in Mods
    PROVE  /\ Start(t, m) \in Tables /\ Owned(Start(t, m), comm)
           /\ Start(t, m).dirty \/ Start(t, m) = t
<1> DEFINE u == Start(t, m)  f == Lowest(t.names)  old == t.pipeFd[m]
<1>1. CASE m \in t.running \/ (~Parked(t, m) /\ Cardinality(Leaked(t)) >= MaxLeaks)
  BY <1>1 DEF Start
<1>2. CASE ~(m \in t.running \/ (~Parked(t, m) /\ Cardinality(Leaked(t)) >= MaxLeaks))
  <2>1. f \in Fds /\ t.names[f] = Free  BY LowestFree
  <2> HIDE DEF f
  <2>2. u = [t EXCEPT !.names[f] = m, !.pipeFd[m] = f, !.running = @ \union {m}, !.dirty = TRUE]
    BY <1>2 DEF Start, f
  <2>3. /\ u \in Tables /\ u.names = [t.names EXCEPT ![f] = m]
        /\ u.pipeFd = [t.pipeFd EXCEPT ![m] = f]
        /\ u.running = t.running \union {m} /\ u.dirty = TRUE
    <3>1. /\ DOMAIN t = {"names", "pipeFd", "running", "dirty"}
          /\ t.names \in [Fds -> Conns \union Mods \union {Listen, Free}]
          /\ t.pipeFd \in [Mods -> Fds \union {None}] /\ t.running \subseteq Mods
      BY DEF Tables
    <3> HIDE DEF u
    <3>2. /\ u.names = [t.names EXCEPT ![f] = m] /\ u.pipeFd = [t.pipeFd EXCEPT ![m] = f]
          /\ u.running = t.running \union {m} /\ u.dirty = TRUE
      BY <2>2, <3>1
    <3>3. u = [names |-> u.names, pipeFd |-> u.pipeFd, running |-> u.running, dirty |-> u.dirty]
      BY <2>2, <3>1
    <3>4. /\ u.names \in [Fds -> Conns \union Mods \union {Listen, Free}]
          /\ u.pipeFd \in [Mods -> Fds \union {None}] /\ u.running \subseteq Mods
      BY <2>1, <3>1, <3>2
    <3>5. QED  BY <3>2, <3>3, <3>4 DEF Tables
  <2>4. /\ t.names \in [Fds -> Conns \union Mods \union {Listen, Free}]
        /\ t.pipeFd \in [Mods -> Fds \union {None}] /\ t.running \subseteq Mods
    BY DEF Tables
  <2> HIDE DEF u
  <2>5. Cardinality(Leaked(u)) <= MaxLeaks
    <3>1. CASE old = None
      <4>1. Leaked(u) \subseteq Leaked(t)
        BY <2>1, <2>3, <2>4, <3>1, ConstantsAssumption DEF Leaked
      <4>2. Cardinality(Leaked(u)) <= Cardinality(Leaked(t))  BY <4>1, LeakedFinite, FS_Subset
      <4>3. QED  BY <4>2, LeakedFinite, FdAssumption DEF Owned
    <3>2. CASE old # None
      <4>1. Leaked(u) \subseteq Leaked(t) \union {old}
        BY <2>1, <2>3, <2>4, <3>2, ConstantsAssumption DEF Leaked
      <4>2. IsFiniteSet(Leaked(t) \union {old}) /\ Cardinality(Leaked(t) \union {old}) <= Cardinality(Leaked(t)) + 1
        <5>1. IsFiniteSet(Leaked(t)) /\ Cardinality(Leaked(t)) \in Nat  BY LeakedFinite
        <5>2. /\ IsFiniteSet(Leaked(t) \union {old})
              /\ Cardinality(Leaked(t) \union {old}) =
                   IF old \in Leaked(t) THEN Cardinality(Leaked(t)) ELSE Cardinality(Leaked(t)) + 1
          BY <5>1, FS_AddElement
        <5>3. QED  BY <5>1, <5>2
      <4>3. Cardinality(Leaked(u)) <= Cardinality(Leaked(t) \union {old})
        BY <4>1, <4>2, FS_Subset
      <4>4. ~(Cardinality(Leaked(t)) >= MaxLeaks)  BY <1>2, <3>2 DEF Parked
      <4>5. Cardinality(Leaked(t) \union {old}) \in Nat  BY <4>2, FS_CardinalityType
      <4>6. Cardinality(Leaked(t)) \in Nat /\ Cardinality(Leaked(u)) \in Nat /\ MaxLeaks \in Nat
        BY LeakedFinite, FdAssumption
      <4>7. QED  BY <4>2, <4>3, <4>4, <4>5, <4>6
    <3>3. QED  BY <3>1, <3>2
  <2>6. Owned(u, comm)
    <3>1. u.names[ListenFd] = Listen /\ \A g \in Fds : u.names[g] = Listen => g = ListenFd
      BY <2>1, <2>3, <2>4, FdsFinite, ConstantsAssumption DEF Owned
    <3>2. \A g \in Fds : u.names[g] \in Conns => comm[u.names[g]] = g
      BY <2>1, <2>3, <2>4, ConstantsAssumption DEF Owned
    <3>3. \A c \in Conns : comm[c] # None => u.names[comm[c]] = c
      <4> SUFFICES ASSUME NEW c \in Conns, comm[c] # None PROVE u.names[comm[c]] = c
        OBVIOUS
      <4>1. t.names[comm[c]] = c /\ c # Free  BY ConstantsAssumption DEF Owned
      <4>2. comm[c] # f  BY <2>1, <4>1
      <4>3. QED  BY <2>3, <2>4, <4>1, <4>2
    <3>4. \A k \in Mods : u.pipeFd[k] # None => u.names[u.pipeFd[k]] = k
      <4> SUFFICES ASSUME NEW k \in Mods, u.pipeFd[k] # None PROVE u.names[u.pipeFd[k]] = k
        OBVIOUS
      <4>1. CASE k = m  BY <4>1, <2>1, <2>3, <2>4
      <4>2. CASE k # m
        <5>1. u.pipeFd[k] = t.pipeFd[k] /\ t.names[t.pipeFd[k]] = k /\ k # Free
          BY <4>2, <2>3, <2>4, ConstantsAssumption DEF Owned
        <5>2. t.pipeFd[k] # f  BY <2>1, <5>1
        <5>3. QED  BY <2>3, <2>4, <5>1, <5>2
      <4>3. QED  BY <4>1, <4>2
    <3>5. \A k \in u.running : u.pipeFd[k] # None
      BY <2>1, <2>3, <2>4, ConstantsAssumption DEF Owned
    <3>6. QED  BY <2>5, <3>1, <3>2, <3>3, <3>4, <3>5 DEF Owned
  <2>7. QED  BY <2>3, <2>6 DEF u
<1>3. QED  BY <1>1, <1>2

LEMMA TurnKeeps ==
    ASSUME NEW t \in Tables, NEW comm, Owned(t, comm), NEW m \in Mods, NEW A, NEW B
    PROVE  /\ Turn(t, m, A, B) \in Tables /\ Owned(Turn(t, m, A, B), comm)
           /\ Turn(t, m, A, B).dirty \/ Turn(t, m, A, B) = t
<1> DEFINE u == IF m \in A THEN Exit(t, m) ELSE t
           v == IF m \in B THEN Start(u, m) ELSE u
<1>1. u \in Tables /\ Owned(u, comm) /\ (u.dirty \/ u = t)  BY ExitKeeps
<1> HIDE DEF u
<1>2. v \in Tables /\ Owned(v, comm) /\ (v.dirty \/ v = u)  BY <1>1, StartKeeps
<1>3. Turn(t, m, A, B) = v  BY DEF Turn, u
<1> HIDE DEF v
<1>4. QED  BY <1>1, <1>2, <1>3

\* Whatever modules are exited and started, no descriptor is confused, and the
\* manager is dirty when a pipe was opened or closed.
LEMMA TurnedKeeps ==
    ASSUME NEW t \in Tables, NEW comm, Owned(t, comm), NEW mods \in Seq(Mods), NEW A, NEW B
    PROVE  LET u == Turned(t, mods, A, B)
           IN  u \in Tables /\ Owned(u, comm) /\ (u.dirty \/ u = t)
<1> DEFINE T == {u \in Tables : Owned(u, comm) /\ (u.dirty \/ u = t)}
<1>1. t \in T  OBVIOUS
<1>2. ASSUME NEW u \in T, NEW i \in 1 .. Len(mods) PROVE Turn(u, mods[i], A, B) \in T
  <2>1. mods[i] \in Mods /\ u \in Tables /\ Owned(u, comm) /\ (u.dirty \/ u = t)  OBVIOUS
  <2>2. LET v == Turn(u, mods[i], A, B)
        IN  v \in Tables /\ Owned(v, comm) /\ (v.dirty \/ v = u)
    BY <2>1, TurnKeeps
  <2>3. QED  BY <2>1, <2>2
<1> HIDE DEF T
<1>3. \A u \in T : \A i \in 1 .. Len(mods) : Turn(u, mods[i], A, B) \in T  BY <1>2
<1>4. Turned(t, mods, A, B) \in T  BY <1>1, <1>3, TurnedIn
<1>5. QED  BY <1>4 DEF T
----------------------------------------------------------------------------
(***************************************************************************)
(* The array                                                               *)
(***************************************************************************)
Collected(fds, to, k) ==
    /\ fds \in Seq(Fds) /\ IsInjective(fds)
    /\ \A f : f \in ToSet(fds) <=> f # None /\ \E i \in 1 .. k : to[ModList[i]] = f

LEMMA CollectOne ==
    ASSUME NEW fds, NEW to \in [Mods -> Fds \union {None}],
           \A m, l \in Mods : to[m] = to[l] /\ to[m] # None => m = l,
           NEW k \in Nat, k + 1 \in 1 .. Len(ModList), Collected(fds, to, k)
    PROVE  Collected(IF to[ModList[k + 1]] = None THEN fds ELSE Append(fds, to[ModList[k + 1]]),
                     to, k + 1)
<1> DEFINE f == to[ModList[k + 1]]
<1>1. ModList[k + 1] \in Mods /\ f \in Fds \union {None}
  BY ConstantsAssumption
<1>2. \A i \in 1 .. k : i \in 1 .. Len(ModList) /\ ModList[i] \in Mods /\ i # k + 1
  <2>1. Len(ModList) \in Nat  BY ConstantsAssumption
  <2>2. QED  BY <2>1, ConstantsAssumption
<1>3. 1 .. k + 1 = (1 .. k) \union {k + 1}  OBVIOUS
<1>4. CASE f = None
  BY <1>3, <1>4 DEF Collected
<1>5. CASE f # None
  <2> DEFINE g == Append(fds, f)
  <2>1. fds \in Seq(Fds) /\ f \in Fds /\ Len(fds) \in Nat  BY <1>1, <1>5 DEF Collected
  <2>2. /\ g \in Seq(Fds) /\ DOMAIN g = DOMAIN fds \union {Len(fds) + 1}
        /\ g[Len(fds) + 1] = f /\ \A i \in DOMAIN fds : g[i] = fds[i]
    BY <2>1
  <2>3. f \notin ToSet(fds)
    <3> SUFFICES ASSUME NEW i \in 1 .. k, to[ModList[i]] = f PROVE FALSE
      BY DEF Collected
    <3>1. ModList[i] = ModList[k + 1]  BY <1>1, <1>2, <1>5
    <3>2. i \in DOMAIN ModList /\ k + 1 \in DOMAIN ModList /\ i # k + 1
      BY <1>2, ConstantsAssumption
    <3>3. QED  BY <3>1, <3>2, ConstantsAssumption DEF IsInjective
  <2> HIDE DEF g, f
  <2>4. ToSet(g) = ToSet(fds) \union {f}  BY <2>2 DEF ToSet
  <2>5. IsInjective(g)
    <3>1. \A i \in DOMAIN fds : fds[i] # f  BY <2>3 DEF ToSet
    <3>2. IsInjective(fds)  BY DEF Collected
    <3>3. QED  BY <2>2, <3>1, <3>2 DEF IsInjective
  <2>6. Collected(g, to, k + 1)
    <3>1. \A h : h \in ToSet(fds) <=> h # None /\ \E i \in 1 .. k : to[ModList[i]] = h
      BY DEF Collected
    <3>2. \A h : h \in ToSet(g) <=> h # None /\ \E i \in 1 .. k + 1 : to[ModList[i]] = h
      BY <1>3, <1>5, <2>4, <3>1 DEF f
    <3>3. QED  BY <2>2, <2>5, <3>2 DEF Collected
  <2>7. QED  BY <1>5, <2>6 DEF g, f
<1>6. QED  BY <1>4, <1>5

\* The pipes that are open, each once.
LEMMA PipesAre ==
    ASSUME pipeFd \in [Mods -> Fds \union {None}],
           \A m, l \in Mods : pipeFd[m] = pipeFd[l] /\ pipeFd[m] # None => m = l
    PROVE  /\ Pipes \in Seq(Fds) /\ IsInjective(Pipes)
           /\ ToSet(Pipes) = {pipeFd[m] : m \in Mods} \ {None}
<1> DEFINE n == Len(ModList)
           T == Seq(Fds)
           Op(fds, m) == IF pipeFd[m] = None THEN fds ELSE Append(fds, pipeFd[m])
           g == [p \in T \X (1 .. n) |-> Op(p[1], ModList[p[2]])]
           Iter(f) == f = [s \in SUBSET DOMAIN ModList |->
                            IF s = {} THEN <<>> ELSE Op(f[s \ {Max(s)}], ModList[Max(s)])]
           iter == CHOOSE f : Iter(f)
<1>1. n \in Nat /\ DOMAIN ModList = 1 .. n /\ \A i \in 1 .. n : ModList[i] \in Mods
  BY ConstantsAssumption
<1>2. g \in [T \X (1 .. n) -> T]  BY <1>1
<1>3. Pipes = iter[DOMAIN ModList]
  BY DEF Pipes, FoldLeft, MapThenFoldSet
<1> HIDE DEF n
<1>4. \E f : Iter(f)
  <2>1. PICK f \in [SUBSET (1 .. n) -> T] : Folds(f, n, <<>>, g)
    <3>1. <<>> \in T  OBVIOUS
    <3> HIDE DEF g, T
    <3>2. QED  BY <1>1, <1>2, <3>1, FoldExists
  <2>2. ASSUME NEW s \in SUBSET (1 .. n), s # {}
        PROVE  g[<<f[s \ {Max(s)}], Max(s)>>] = Op(f[s \ {Max(s)}], ModList[Max(s)])
    <3>1. Max(s) \in s  BY <1>1, <2>2, Largest
    <3>2. f[s \ {Max(s)}] \in T  BY <2>1
    <3> HIDE DEF T, Op
    <3>3. QED  BY <3>1, <3>2
  <2>3. f = [s \in SUBSET (1 .. n) |-> IF s = {} THEN <<>> ELSE g[<<f[s \ {Max(s)}], Max(s)>>]]
    BY <2>1 DEF Folds
  <2> HIDE DEF g, T, Op
  <2>4. Iter(f)  BY <1>1, <2>2, <2>3
  <2>5. QED  BY <2>4
<1>5. Iter(iter)  BY <1>4
<1> DEFINE S == {k \in Nat : k <= n => Collected(iter[1 .. k], pipeFd, k)}
<1> HIDE DEF iter
<1>6. 0 \in S
  <2>1. 1 .. 0 = {} /\ {} \in SUBSET DOMAIN ModList  OBVIOUS
  <2>2. iter[{}] = <<>>  BY <1>5, <2>1
  <2>3. Collected(<<>>, pipeFd, 0)  BY <2>1 DEF Collected, IsInjective, ToSet
  <2>4. QED  BY <2>1, <2>2, <2>3
<1>7. ASSUME NEW k \in Nat, k \in S PROVE k + 1 \in S
  <2> SUFFICES ASSUME k + 1 <= n PROVE Collected(iter[1 .. k + 1], pipeFd, k + 1)
    OBVIOUS
  <2>1. k + 1 \in 1 .. n /\ Collected(iter[1 .. k], pipeFd, k)  BY <1>1, <1>7
  <2>2. iter[1 .. k + 1] = Op(iter[1 .. k], ModList[k + 1])
    <3> DEFINE s == 1 .. k + 1
    <3>1. Max(s) = k + 1 /\ s \ {k + 1} = 1 .. k /\ s \in SUBSET (1 .. n) /\ s # {}
      BY <1>1, <2>1, FoldAt
    <3> HIDE DEF s, Op
    <3>2. iter[s] = Op(iter[s \ {Max(s)}], ModList[Max(s)])
      BY <1>1, <1>5, <3>1
    <3>3. QED  BY <3>1, <3>2 DEF s
  <2>3. Collected(Op(iter[1 .. k], ModList[k + 1]), pipeFd, k + 1)
    BY <2>1, CollectOne DEF n
  <2>4. QED  BY <2>2, <2>3
<1> HIDE DEF S
<1>8. n \in S  BY <1>1, <1>6, <1>7, Naturally
<1>9. Collected(Pipes, pipeFd, n)  BY <1>1, <1>3, <1>8 DEF S
<1>10. \A m : m \in Mods <=> \E i \in 1 .. n : ModList[i] = m
  BY <1>1 DEF Mods, ToSet
<1>11. ToSet(Pipes) = {pipeFd[m] : m \in Mods} \ {None}
  BY <1>9, <1>10 DEF Collected
<1>12. QED  BY <1>9, <1>11 DEF Collected

LEMMA Concat ==
    ASSUME NEW S, NEW s \in Seq(S), NEW t \in Seq(S), IsInjective(s), IsInjective(t),
           ToSet(s) \intersect ToSet(t) = {}
    PROVE  s \o t \in Seq(S) /\ IsInjective(s \o t) /\ ToSet(s \o t) = ToSet(s) \union ToSet(t)
<1> DEFINE u == s \o t
<1>1. /\ u \in Seq(S) /\ Len(u) = Len(s) + Len(t) /\ Len(s) \in Nat /\ Len(t) \in Nat
      /\ DOMAIN u = 1 .. Len(s) + Len(t) /\ DOMAIN s = 1 .. Len(s) /\ DOMAIN t = 1 .. Len(t)
      /\ \A i \in 1 .. Len(s) : u[i] = s[i]
  OBVIOUS
<1>2. \A i \in 1 .. Len(t) : u[Len(s) + i] = t[i] /\ Len(s) + i \in DOMAIN u
  OBVIOUS
<1>3. \A i \in DOMAIN u : \/ i \in 1 .. Len(s) /\ u[i] = s[i]
                          \/ i - Len(s) \in 1 .. Len(t) /\ u[i] = t[i - Len(s)]
  OBVIOUS
<1> HIDE DEF u
<1>4. ToSet(u) = ToSet(s) \union ToSet(t)
  <2>1. ToSet(u) \subseteq ToSet(s) \union ToSet(t)  BY <1>1, <1>3 DEF ToSet
  <2>2. ToSet(s) \subseteq ToSet(u)
    <3>1. \A i \in 1 .. Len(s) : i \in DOMAIN u  BY <1>1
    <3>2. QED  BY <1>1, <3>1 DEF ToSet
  <2>3. ToSet(t) \subseteq ToSet(u)  BY <1>1, <1>2 DEF ToSet
  <2>4. QED  BY <2>1, <2>2, <2>3
<1>5. IsInjective(u)
  <2> SUFFICES ASSUME NEW i \in DOMAIN u, NEW j \in DOMAIN u, u[i] = u[j] PROVE i = j
    BY DEF IsInjective
  <2>1. \A a \in DOMAIN s : \A b \in DOMAIN t : s[a] # t[b]  BY DEF ToSet
  <2>2. CASE i \in 1 .. Len(s) /\ u[i] = s[i]
    <3>1. CASE j \in 1 .. Len(s) /\ u[j] = s[j]  BY <1>1, <2>2, <3>1 DEF IsInjective
    <3>2. CASE j - Len(s) \in 1 .. Len(t) /\ u[j] = t[j - Len(s)]  BY <1>1, <2>1, <2>2, <3>2
    <3>3. QED  BY <1>3, <3>1, <3>2
  <2>3. CASE i - Len(s) \in 1 .. Len(t) /\ u[i] = t[i - Len(s)]
    <3>1. CASE j \in 1 .. Len(s) /\ u[j] = s[j]  BY <1>1, <2>1, <2>3, <3>1
    <3>2. CASE j - Len(s) \in 1 .. Len(t) /\ u[j] = t[j - Len(s)]
      <4>1. i - Len(s) = j - Len(s)  BY <1>1, <2>3, <3>2 DEF IsInjective
      <4>2. i \in Nat /\ j \in Nat  BY <1>1
      <4>3. QED  BY <1>1, <4>1, <4>2
    <3>3. QED  BY <1>3, <3>1, <3>2
  <2>4. QED  BY <1>3, <2>2, <2>3
<1>6. QED  BY <1>1, <1>4, <1>5 DEF u

LEMMA Removed ==
    ASSUME NEW S, NEW s \in Seq(S), IsInjective(s), NEW i \in DOMAIN s
    PROVE  /\ RemoveAt(s, i) \in Seq(S) /\ IsInjective(RemoveAt(s, i))
           /\ ToSet(RemoveAt(s, i)) = ToSet(s) \ {s[i]}
<1> DEFINE a == SubSeq(s, 1, i - 1)  b == SubSeq(s, i + 1, Len(s))
<1>1. Len(s) \in Nat /\ i \in Nat /\ 1 <= i /\ i <= Len(s) /\ DOMAIN s = 1 .. Len(s)
  OBVIOUS
<1>2. /\ a \in Seq(S) /\ DOMAIN a = 1 .. i - 1
      /\ \A k \in 1 .. i - 1 : a[k] = s[k] /\ k \in DOMAIN s /\ k < i
  BY <1>1
<1>3. /\ b \in Seq(S) /\ DOMAIN b = 1 .. Len(s) - i
      /\ \A k \in 1 .. Len(s) - i : b[k] = s[k + i] /\ k + i \in DOMAIN s /\ k + i > i
  BY <1>1
<1>4. RemoveAt(s, i) = a \o b  BY DEF RemoveAt
<1> HIDE DEF a, b
<1>5. IsInjective(a)
  <2> SUFFICES ASSUME NEW k \in 1 .. i - 1, NEW l \in 1 .. i - 1, a[k] = a[l] PROVE k = l
    BY <1>2 DEF IsInjective
  <2>1. QED  BY <1>2 DEF IsInjective
<1>6. IsInjective(b)
  <2> SUFFICES ASSUME NEW k \in 1 .. Len(s) - i, NEW l \in 1 .. Len(s) - i, b[k] = b[l] PROVE k = l
    BY <1>3 DEF IsInjective
  <2>1. k + i = l + i  BY <1>3 DEF IsInjective
  <2>2. QED  BY <1>1, <2>1
<1>7. ToSet(a) \intersect ToSet(b) = {}
  <2> SUFFICES ASSUME NEW k \in 1 .. i - 1, NEW l \in 1 .. Len(s) - i, a[k] = b[l] PROVE FALSE
    BY <1>2, <1>3 DEF ToSet
  <2>1. k = l + i  BY <1>2, <1>3 DEF IsInjective
  <2>2. QED  BY <1>1, <1>2, <1>3, <2>1
<1>8. ToSet(a) \union ToSet(b) = ToSet(s) \ {s[i]}
  <2>1. ASSUME NEW x \in ToSet(s) \ {s[i]} PROVE x \in ToSet(a) \union ToSet(b)
    <3>1. PICK k \in DOMAIN s : x = s[k]  BY DEF ToSet
    <3>2. k # i /\ k \in Nat /\ k <= Len(s) /\ 1 <= k  BY <1>1, <3>1
    <3>3. CASE k < i
      <4>1. k \in 1 .. i - 1  BY <1>1, <3>2, <3>3
      <4>2. QED  BY <1>2, <3>1, <4>1 DEF ToSet
    <3>4. CASE k > i
      <4>1. k - i \in 1 .. Len(s) - i /\ (k - i) + i = k  BY <1>1, <3>2, <3>4
      <4>2. QED  BY <1>3, <3>1, <4>1 DEF ToSet
    <3>5. QED  BY <1>1, <3>2, <3>3, <3>4
  <2>2. ToSet(a) \subseteq ToSet(s) \ {s[i]}
    <3> SUFFICES ASSUME NEW k \in 1 .. i - 1 PROVE a[k] \in ToSet(s) /\ a[k] # s[i]
      BY <1>2 DEF ToSet
    <3>1. k # i  BY <1>1, <1>2
    <3>2. QED  BY <1>2, <3>1 DEF ToSet, IsInjective
  <2>3. ToSet(b) \subseteq ToSet(s) \ {s[i]}
    <3> SUFFICES ASSUME NEW k \in 1 .. Len(s) - i PROVE b[k] \in ToSet(s) /\ b[k] # s[i]
      BY <1>3 DEF ToSet
    <3>1. k + i # i  BY <1>1, <1>3
    <3>2. QED  BY <1>3, <3>1 DEF ToSet, IsInjective
  <2>4. QED  BY <2>1, <2>2, <2>3
<1>9. QED  BY <1>2, <1>3, <1>4, <1>5, <1>6, <1>7, <1>8, Concat
----------------------------------------------------------------------------
(***************************************************************************)
(* Steps that open and close nothing                                       *)
(***************************************************************************)
LEMMA TableIs ==
    ASSUME NEW t \in Tables
    PROVE  t = [names |-> t.names, pipeFd |-> t.pipeFd, running |-> t.running, dirty |-> t.dirty]
  BY DEF Tables

\* Whether the manager is dirty, and which modules have died, says nothing of
\* what is open.
LEMMA OwnedStays ==
    ASSUME NEW t, NEW u, NEW comm, Owned(t, comm), u.names = t.names, u.pipeFd = t.pipeFd,
           u.running \subseteq t.running
    PROVE  Owned(u, comm)
<1>1. Leaked(u) = Leaked(t)  BY DEF Leaked
<1>2. QED  BY <1>1 DEF Owned

LEMMA TableStays ==
    ASSUME TypeOK, Owned(Table, commFd), UNCHANGED <<names, pipeFd, commFd>>,
           running' \subseteq running, dirty' \in BOOLEAN
    PROVE  Table' \in Tables /\ Owned(Table', commFd')
<1>1. /\ Table'.names = Table.names /\ Table'.pipeFd = Table.pipeFd
      /\ Table'.running \subseteq Table.running
  BY DEF Table
<1>2. Owned(Table', commFd)  BY <1>1, OwnedStays
<1>3. Table' \in Tables  BY DEF Table, Tables, TypeOK
<1>4. QED  BY <1>2, <1>3

\* The connections and the modules know their numbers.
LEMMA Numbers ==
    ASSUME TypeOK, Owned(Table, commFd)
    PROVE  /\ names \in [Fds -> Conns \union Mods \union {Listen, Free}]
           /\ pipeFd \in [Mods -> Fds \union {None}] /\ running \subseteq Mods /\ dirty \in BOOLEAN
           /\ names[ListenFd] = Listen /\ ListenFd \in Fds
           /\ \A f \in Fds : names[f] = Listen => f = ListenFd
           /\ \A f \in Fds : names[f] \in Conns => commFd[names[f]] = f
           /\ \A c \in Conns : commFd[c] # None => commFd[c] \in Fds /\ names[commFd[c]] = c
           /\ \A m \in Mods : pipeFd[m] # None => pipeFd[m] \in Fds /\ names[pipeFd[m]] = m
           /\ \A m \in running : pipeFd[m] # None
<1>1. ListenFd \in Fds  BY FdsFinite
<1>2. /\ names \in [Fds -> Conns \union Mods \union {Listen, Free}]
      /\ pipeFd \in [Mods -> Fds \union {None}] /\ running \subseteq Mods /\ dirty \in BOOLEAN
      /\ commFd \in [Conns -> Fds \union {None}]
  BY DEF TypeOK, Tables, Table
<1>3. Table.names = names /\ Table.pipeFd = pipeFd /\ Table.running = running
  BY DEF Table
<1>4. QED  BY <1>1, <1>2, <1>3 DEF Owned

\* What the array holds when it was made.
LEMMA ArrayIs ==
    ASSUME TypeOK, Owned(Table, commFd), SessionsOK
    PROVE  LET a == <<ListenFd>> \o Comms \o Pipes
           IN  a \in Seq(Fds) /\ IsInjective(a) /\ a # <<>> /\ a[1] = ListenFd /\ ToSet(a) = Opened
<1>1. /\ names \in [Fds -> Conns \union Mods \union {Listen, Free}]
      /\ pipeFd \in [Mods -> Fds \union {None}]
      /\ names[ListenFd] = Listen /\ ListenFd \in Fds
      /\ \A c \in Conns : commFd[c] # None => commFd[c] \in Fds /\ names[commFd[c]] = c
      /\ \A m \in Mods : pipeFd[m] # None => pipeFd[m] \in Fds /\ names[pipeFd[m]] = m
  BY Numbers
<1>2. sessions \in Seq(Conns) /\ commFd \in [Conns -> Fds \union {None}]  BY DEF TypeOK
<1>3. /\ Comms \in Seq(Fds) /\ IsInjective(Comms)
      /\ ToSet(Comms) = {commFd[c] : c \in Conns} \ {None}
  <2>1. DOMAIN sessions = 1 .. Len(sessions) /\ Len(sessions) \in Nat  BY <1>2
  <2>2. \A i \in 1 .. Len(sessions) :
           sessions[i] \in Conns /\ commFd[sessions[i]] \in Fds /\ names[commFd[sessions[i]]] = sessions[i]
    BY <1>1, <1>2, <2>1 DEF SessionsOK, ToSet
  <2>3. /\ Comms \in Seq(Fds) /\ DOMAIN Comms = 1 .. Len(sessions)
        /\ \A i \in 1 .. Len(sessions) : Comms[i] = commFd[sessions[i]]
    BY <2>1, <2>2 DEF Comms
  <2>4. IsInjective(Comms)
    <3> SUFFICES ASSUME NEW i \in 1 .. Len(sessions), NEW j \in 1 .. Len(sessions), Comms[i] = Comms[j]
                 PROVE  i = j
      BY <2>3 DEF IsInjective
    <3>1. sessions[i] = sessions[j]  BY <2>2, <2>3
    <3>2. QED  BY <2>1, <3>1 DEF SessionsOK, IsInjective
  <2>5. ToSet(Comms) \subseteq {commFd[c] : c \in Conns} \ {None}
    BY <2>2, <2>3, ConstantsAssumption DEF ToSet
  <2>6. ASSUME NEW c \in Conns, commFd[c] # None PROVE commFd[c] \in ToSet(Comms)
    <3>1. PICK i \in 1 .. Len(sessions) : sessions[i] = c  BY <2>1, <2>6 DEF SessionsOK, ToSet
    <3>2. QED  BY <2>3, <3>1 DEF ToSet
  <2>7. QED  BY <2>3, <2>4, <2>5, <2>6
<1>4. /\ Pipes \in Seq(Fds) /\ IsInjective(Pipes)
      /\ ToSet(Pipes) = {pipeFd[m] : m \in Mods} \ {None}
  <2>1. \A m, l \in Mods : pipeFd[m] = pipeFd[l] /\ pipeFd[m] # None => m = l  BY <1>1
  <2>2. QED  BY <1>1, <2>1, PipesAre
<1>5. /\ <<ListenFd>> \in Seq(Fds) /\ IsInjective(<<ListenFd>>) /\ ToSet(<<ListenFd>>) = {ListenFd}
      /\ <<ListenFd>>[1] = ListenFd
  BY <1>1 DEF IsInjective, ToSet
<1>6. ToSet(<<ListenFd>>) \intersect ToSet(Comms) = {}
  BY <1>1, <1>3, <1>5, ConstantsAssumption
<1> DEFINE b == <<ListenFd>> \o Comms
<1>7. b \in Seq(Fds) /\ IsInjective(b) /\ ToSet(b) = {ListenFd} \union ToSet(Comms)
  <2> DEFINE l == <<ListenFd>>
  <2>1. l \in Seq(Fds) /\ IsInjective(l) /\ ToSet(l) = {ListenFd} /\ ToSet(l) \intersect ToSet(Comms) = {}
    BY <1>5, <1>6
  <2> HIDE DEF l
  <2>2. l \o Comms \in Seq(Fds) /\ IsInjective(l \o Comms) /\ ToSet(l \o Comms) = ToSet(l) \union ToSet(Comms)
    BY <1>3, <2>1, Concat
  <2>3. QED  BY <2>1, <2>2 DEF l
<1>8. b # <<>> /\ b[1] = ListenFd  BY <1>3
<1> HIDE DEF b
<1>9. ToSet(b) \intersect ToSet(Pipes) = {}
  BY <1>1, <1>3, <1>4, <1>7, ConstantsAssumption
<1> DEFINE a == b \o Pipes
<1>10. a \in Seq(Fds) /\ IsInjective(a) /\ ToSet(a) = ToSet(b) \union ToSet(Pipes)
  BY <1>4, <1>7, <1>9, Concat
<1>11. a # <<>> /\ a[1] = ListenFd
  BY <1>4, <1>7, <1>8
<1> HIDE DEF a
<1>12. ToSet(a) = Opened
  BY <1>3, <1>4, <1>7, <1>10 DEF Opened
<1>13. QED  BY <1>10, <1>11, <1>12 DEF a, b

LEMMA SetupStep == PollInv /\ Setup => PollInv'
<1> SUFFICES ASSUME PollInv, Setup PROVE PollInv'
  OBVIOUS
<1>1. TypeOK /\ Sound  BY DEF PollInv, Setup
<1>2. Table' \in Tables /\ Owned(Table', commFd')
  BY <1>1, TableStays DEF Sound, Setup, list, modules, TypeOK, Table, Tables
<1> DEFINE a == <<ListenFd>> \o Comms \o Pipes
<1>3. /\ a \in Seq(Fds) /\ IsInjective(a) /\ a # <<>> /\ a[1] = ListenFd /\ ToSet(a) = Opened
  BY <1>1, ArrayIs DEF Sound
<1>4. array' = a /\ pc' = "loop"  BY DEF Setup
<1> HIDE DEF a
<1>5. TypeOK'  BY <1>1, <1>2, <1>3, <1>4 DEF TypeOK, Setup, clients, modules, list
<1>6. SessionsOK'  BY <1>1 DEF Sound, SessionsOK, Setup, clients, list
<1>7. ArrayOK'
  <2>1. Opened' = Opened  BY DEF Opened, Setup, list, modules
  <2>2. QED  BY <1>3, <1>4, <2>1 DEF ArrayOK
<1>8. PassOK'  BY <1>4 DEF PassOK
<1>9. QED  BY <1>2, <1>4, <1>5, <1>6, <1>7, <1>8 DEF PollInv, Sound

LEMMA PollStep == PollInv /\ Poll => PollInv'
<1> SUFFICES ASSUME PollInv, Poll PROVE PollInv'
  OBVIOUS
<1>1. TypeOK /\ Sound  BY DEF PollInv, Poll
<1>2. Table' \in Tables /\ Owned(Table', commFd')
  BY <1>1, TableStays DEF Sound, Poll, list, modules, TypeOK, Table, Tables
<1>3. TypeOK'
  <2>1. ToSet(array) \subseteq Fds  BY <1>1 DEF TypeOK, ToSet
  <2>2. QED  BY <1>1, <1>2, <2>1 DEF TypeOK, Poll, clients, modules, list
<1>4. SessionsOK'  BY <1>1 DEF Sound, SessionsOK, Poll, clients, list
<1>5. ArrayOK'
  <2>1. Opened' = Opened  BY DEF Opened, Poll, list, modules
  <2>2. QED  BY <1>1, <2>1 DEF Sound, ArrayOK, Poll
<1>6. PassOK'
  <2>1. /\ names[ListenFd] = Listen
        /\ \A c \in Conns : commFd[c] # None => commFd[c] \in Fds /\ names[commFd[c]] = c
        /\ \A m \in Mods : pipeFd[m] # None => pipeFd[m] \in Fds /\ names[pipeFd[m]] = m
    BY <1>1, Numbers DEF Sound
  <2>2. ToSet(array) = Opened  BY <1>1 DEF Sound, ArrayOK, Poll
  <2>3. \A f \in ToSet(array) : names[f] # Free
    BY <2>1, <2>2, ConstantsAssumption DEF Opened
  <2>4. ListenFd \in marked' => queued # <<>>
    BY <1>1, <2>1, ConstantsAssumption DEF Poll, Readable, TypeOK
  <2>5. ASSUME NEW i \in DOMAIN array, array[i] \in marked', NEW c \in Conns, commFd[c] = array[i]
        PROVE  c \in input
    <3>1. array[i] \in Fds /\ Readable(array[i])  BY <1>1, <2>5 DEF Poll, TypeOK
    <3>2. names[array[i]] = c  BY <2>1, <2>5, <3>1, ConstantsAssumption
    <3>3. c # Listen /\ c \notin talk  BY <1>1, ConstantsAssumption DEF TypeOK
    <3>4. QED  BY <3>1, <3>2, <3>3 DEF Readable
  <2>6. marked' \subseteq ToSet(array)  BY DEF Poll
  <2>7. UNCHANGED <<array, names, queued, commFd, input>>  BY DEF Poll, clients, list
  <2>8. QED  BY <2>3, <2>4, <2>5, <2>6, <2>7 DEF PassOK
<1>7. pc' = "serve"  BY DEF Poll
<1>8. QED  BY <1>2, <1>3, <1>4, <1>5, <1>6, <1>7 DEF PollInv, Sound

\* Clients connect and write, modules write and die, a signal comes.
LEMMA OthersStep ==
    ASSUME PollInv,
           \/ \E c \in Conns : Dial(c) \/ Speak(c)
           \/ \E m \in Mods : Talk(m) \/ Die(m)
           \/ Term
           \/ UNCHANGED vars
    PROVE  PollInv'
<1>1. TypeOK  BY DEF PollInv
<1>2. UNCHANGED <<names, pipeFd, sessions, commFd, array, marked, entry, pc>>
  BY DEF Dial, Speak, Talk, Die, Term, vars, clients, modules, list, polling
<1>3. running' \subseteq running /\ dirty' \in BOOLEAN /\ (~dirty' => ~dirty)
  <2>1. dirty \in BOOLEAN  BY <1>1 DEF TypeOK, Table, Tables
  <2>2. \/ dirty' = dirty /\ running' = running
        \/ dirty' = TRUE /\ \E m \in Mods : running' = running \ {m}
    BY DEF Dial, Speak, Talk, Die, Term, vars, clients, modules, list, polling
  <2>3. QED  BY <2>1, <2>2
<1>4. input \subseteq input' /\ (queued # <<>> => queued' # <<>>)
  BY <1>1 DEF Dial, Speak, Talk, Die, Term, vars, clients, modules, list, polling, TypeOK
<1>5. Table' \in Tables
  <2>1. Table \in Tables  BY <1>1 DEF TypeOK
  <2>2. QED  BY <1>2, <1>3, <2>1 DEF Table, Tables
<1>6. TypeOK'
  <2>1. queued' \in Seq(Conns) /\ input' \subseteq Conns /\ talk' \subseteq Mods
    <3>1. queued \in Seq(Conns) /\ input \subseteq Conns /\ talk \subseteq Mods /\ running \subseteq Mods
      BY <1>1 DEF TypeOK, Table, Tables
    <3>2. queued' = queued \/ \E c \in Conns : queued' = Append(queued, c)
      BY DEF Dial, Speak, Talk, Die, Term, vars, clients, modules, list, polling
    <3>3. input' = input \/ \E c \in Conns : input' = input \union {c}
      BY DEF Dial, Speak, Talk, Die, Term, vars, clients, modules, list, polling
    <3>4. talk' = talk \/ \E m \in Mods : talk' = talk \union {m}
      BY DEF Dial, Speak, Talk, Die, Term, vars, clients, modules, list, polling
    <3>5. QED  BY <3>1, <3>2, <3>3, <3>4
  <2>2. marks' \subseteq Mods /\ fails' \in [Mods -> Nat] /\ status' \in {"RUNNING", "STOPPED"}
    BY <1>1 DEF Dial, Speak, Talk, Die, Term, vars, clients, modules, list, polling, TypeOK
  <2>3. QED  BY <1>1, <1>2, <1>5, <2>1, <2>2 DEF TypeOK
<1>7. SUFFICES ASSUME Sound PROVE Sound'
  BY <1>2, <1>6 DEF PollInv
<1>8. Owned(Table', commFd')  BY <1>1, <1>2, <1>3, <1>7, TableStays DEF Sound
<1>9. SessionsOK'
  <2>1. IsInjective(queued') /\ \A c \in ToSet(queued') : commFd[c] = None
    <3>1. IsInjective(queued) /\ \A c \in ToSet(queued) : commFd[c] = None
      BY <1>7 DEF Sound, SessionsOK
    <3>2. CASE UNCHANGED queued  BY <3>1, <3>2
    <3>3. ASSUME NEW c \in Conns, Dial(c)
          PROVE  IsInjective(queued') /\ \A d \in ToSet(queued') : commFd[d] = None
      <4>1. queued' = Append(queued, c) /\ c \notin ToSet(queued) /\ commFd[c] = None
        BY <3>3 DEF Dial
      <4>2. queued \in Seq(Conns)  BY <1>1 DEF TypeOK
      <4>3. /\ DOMAIN queued' = DOMAIN queued \union {Len(queued) + 1}
            /\ queued'[Len(queued) + 1] = c /\ \A i \in DOMAIN queued : queued'[i] = queued[i]
        BY <4>1, <4>2
      <4>4. \A i \in DOMAIN queued : queued[i] # c  BY <4>1 DEF ToSet
      <4>5. IsInjective(queued')  BY <3>1, <4>3, <4>4 DEF IsInjective
      <4>6. ToSet(queued') = ToSet(queued) \union {c}  BY <4>3 DEF ToSet
      <4>7. QED  BY <3>1, <4>1, <4>5, <4>6
    <3>4. QED
      BY <3>2, <3>3 DEF Speak, Talk, Die, Term, vars, clients, modules, list, polling
  <2>2. QED  BY <1>2, <1>7, <2>1 DEF Sound, SessionsOK
<1>10. ArrayOK'
  <2>1. Opened' = Opened  BY <1>2 DEF Opened
  <2>2. QED  BY <1>2, <1>3, <1>7, <2>1 DEF Sound, ArrayOK
<1>11. PassOK'  BY <1>2, <1>4, <1>7 DEF Sound, PassOK
<1>12. QED  BY <1>2, <1>7, <1>8, <1>9, <1>10, <1>11 DEF Sound
----------------------------------------------------------------------------
(***************************************************************************)
(* A pass                                                                  *)
(***************************************************************************)
\* Steps of a pass that open and close nothing.
LEMMA ServeQuiet ==
    ASSUME TypeOK, Sound, pc = "serve",
           UNCHANGED <<names, pipeFd, running, sessions, commFd, queued, dirty, array>>
    PROVE  /\ Table' \in Tables /\ Owned(Table', commFd') /\ SessionsOK' /\ ArrayOK'
<1>1. running' \subseteq running /\ dirty' \in BOOLEAN  BY DEF TypeOK, Table, Tables
<1>2. Table' \in Tables /\ Owned(Table', commFd')  BY <1>1, TableStays DEF Sound
<1>3. SessionsOK'  BY DEF Sound, SessionsOK
<1>4. Opened' = Opened  BY DEF Opened
<1>5. ArrayOK'  BY <1>4 DEF Sound, ArrayOK
<1>6. QED  BY <1>2, <1>3, <1>5

\* A step to the next entry may read from the entry's own session, and give
\* others numbers that are not in the array.
LEMMA Onward ==
    ASSUME TypeOK, ArrayOK, PassOK, pc = "serve", entry <= Len(array), Served,
           \A c \in Conns :
              \/ commFd'[c] = None \/ commFd'[c] \notin ToSet(array)
              \/ commFd'[c] = commFd[c] /\ (c \in input => c \in input' \/ commFd[c] = Fd)
    PROVE  PassOK'
<1>1. /\ array \in Seq(Fds) /\ entry \in Nat /\ entry # 0 /\ DOMAIN array = 1 .. Len(array)
      /\ Len(array) \in Nat
  BY DEF TypeOK
<1>2. entry' = entry + 1 /\ array' = array /\ marked' = marked /\ pc' = "serve"  BY DEF Served
<1>3. entry' # 1  BY <1>1, <1>2
<1>4. ASSUME NEW i \in DOMAIN array, i >= entry', array[i] \in marked,
             NEW c \in Conns, commFd'[c] = array[i]
      PROVE  c \in input'
  <2>1. i > entry /\ i >= entry /\ entry \in DOMAIN array /\ i # entry  BY <1>1, <1>2, <1>4
  <2>2. array[i] # None /\ array[i] \in ToSet(array)  BY <1>1, ConstantsAssumption DEF ToSet
  <2>3. array[i] # Fd  BY <2>1 DEF ArrayOK, IsInjective, Fd
  <2>4. commFd[c] = array[i] /\ (c \in input => c \in input')  BY <1>4, <2>2, <2>3
  <2>5. c \in input  BY <1>4, <2>1, <2>4 DEF PassOK
  <2>6. QED  BY <2>4, <2>5
<1>5. marked \subseteq ToSet(array)  BY DEF PassOK
<1>6. QED  BY <1>2, <1>3, <1>4, <1>5 DEF PassOK

LEMMA PassDoneStep == PollInv /\ PassDone => PollInv'
<1> SUFFICES ASSUME PollInv, PassDone PROVE PollInv'
  OBVIOUS
<1>1. TypeOK /\ Sound /\ pc = "serve"  BY DEF PollInv, PassDone
<1>2. /\ Table' \in Tables /\ Owned(Table', commFd') /\ SessionsOK' /\ ArrayOK'
  BY <1>1, ServeQuiet DEF PassDone, clients, modules, list
<1>3. TypeOK'  BY <1>1, <1>2 DEF TypeOK, PassDone, clients, modules, list
<1>4. pc' = "loop"  BY DEF PassDone
<1>5. PassOK'  BY <1>4 DEF PassOK
<1>6. QED  BY <1>2, <1>3, <1>4, <1>5 DEF PollInv, Sound

LEMMA SkipStep == PollInv /\ Skip => PollInv'
<1> SUFFICES ASSUME PollInv, Skip PROVE PollInv'
  OBVIOUS
<1>1. TypeOK /\ Sound /\ pc = "serve" /\ pc' = pc  BY DEF PollInv, Skip, Served
<1>2. /\ Table' \in Tables /\ Owned(Table', commFd') /\ SessionsOK' /\ ArrayOK'
  BY <1>1, ServeQuiet DEF Skip, Served, clients, modules, list
<1>3. TypeOK'  BY <1>1, <1>2 DEF TypeOK, Skip, Served, clients, modules, list
<1>4. PassOK'
  BY <1>1, Onward DEF Sound, Skip, clients, list
<1>5. QED  BY <1>1, <1>2, <1>3, <1>4 DEF PollInv, Sound

LEMMA ServeModuleStep == PollInv /\ ServeModule => PollInv'
<1> SUFFICES ASSUME PollInv, ServeModule PROVE PollInv'
  OBVIOUS
<1>1. /\ TypeOK /\ Sound /\ pc = "serve" /\ pc' = pc /\ entry <= Len(array)
  BY DEF PollInv, ServeModule, Serving, Served
<1>2. /\ Table' \in Tables /\ Owned(Table', commFd') /\ SessionsOK' /\ ArrayOK'
  BY <1>1, ServeQuiet DEF ServeModule, Served, clients, list
<1>3. talk' \subseteq Mods  BY <1>1 DEF TypeOK, ServeModule
<1>4. TypeOK'  BY <1>1, <1>2, <1>3 DEF TypeOK, ServeModule, Served, clients, list
<1>5. PassOK'
  BY <1>1, Onward DEF Sound, ServeModule, clients, list
<1>6. QED  BY <1>1, <1>2, <1>4, <1>5 DEF PollInv, Sound

\* The session that is served has something to read.
LEMMA ServedHasInput ==
    ASSUME PollInv, NEW c \in Conns, ServesSession(c)
    PROVE  /\ TypeOK /\ Sound /\ pc = "serve" /\ entry <= Len(array)
           /\ c \in ToSet(sessions) /\ commFd[c] = Fd /\ Fd \in Fds /\ c \in input
<1>1. /\ TypeOK /\ Sound /\ pc = "serve" /\ entry <= Len(array) /\ Fd \in marked
      /\ c \in ToSet(sessions) /\ commFd[c] = Fd
  BY DEF PollInv, ServesSession, Serving, Session
<1>2. entry \in DOMAIN array /\ entry >= entry /\ Fd \in Fds  BY <1>1 DEF TypeOK, Fd
<1>3. c \in input  BY <1>1, <1>2 DEF Sound, PassOK, Fd
<1>4. QED  BY <1>1, <1>2, <1>3

\* What the entry's session reads, no later entry's needed.
LEMMA Reading ==
    ASSUME PollInv, NEW c \in Conns, ServesSession(c), input' = input \ {c}, Served,
           commFd' = commFd
    PROVE  PassOK' /\ pc' = "serve"
<1>1. /\ TypeOK /\ Sound /\ pc = "serve" /\ entry <= Len(array) /\ commFd[c] = Fd
  BY ServedHasInput
<1>2. \A d \in Conns : commFd'[d] = commFd[d] /\ (d \in input => d \in input' \/ commFd[d] = Fd)
  BY <1>1
<1>3. QED  BY <1>1, <1>2, Onward DEF Sound, Served

LEMMA SessionReadsStep == ASSUME PollInv, NEW c \in Conns, SessionReads(c) PROVE PollInv'
<1>1. /\ TypeOK /\ Sound /\ pc = "serve" /\ c \in input /\ ServesSession(c)
  BY ServedHasInput DEF SessionReads
<1>2. /\ Table' \in Tables /\ Owned(Table', commFd') /\ SessionsOK' /\ ArrayOK'
  BY <1>1, ServeQuiet DEF SessionReads, modules, list
<1>3. Served /\ input' = input \ {c}  BY <1>1 DEF SessionReads, Served
<1>4. PassOK' /\ pc' = "serve"  BY <1>1, <1>3, Reading DEF SessionReads, list
<1>5. TypeOK'  BY <1>1, <1>2, <1>3, <1>4 DEF TypeOK, SessionReads, modules, list
<1>6. QED  BY <1>2, <1>4, <1>5 DEF PollInv, Sound

LEMMA SessionStopsStep == ASSUME PollInv, NEW c \in Conns, SessionStops(c) PROVE PollInv'
<1>1. /\ TypeOK /\ Sound /\ pc = "serve" /\ ServesSession(c)
  BY ServedHasInput DEF SessionStops, Consumes
<1>2. Served /\ input' = input \ {c}  BY DEF SessionStops, Consumes
<1>3. /\ Table' \in Tables /\ Owned(Table', commFd') /\ SessionsOK' /\ ArrayOK'
  BY <1>1, <1>2, ServeQuiet DEF SessionStops, Served, modules, list
<1>4. PassOK' /\ pc' = "serve"  BY <1>1, <1>2, Reading DEF SessionStops, list
<1>5. TypeOK'  BY <1>1, <1>2, <1>3, <1>4 DEF TypeOK, SessionStops, Served, modules, list
<1>6. QED  BY <1>3, <1>4, <1>5 DEF PollInv, Sound

\* The command's modules are exited and started one after the other.
LEMMA SessionCommandStep == ASSUME PollInv, NEW c \in Conns, SessionCommand(c) PROVE PollInv'
<1>1. /\ TypeOK /\ Sound /\ pc = "serve" /\ ServesSession(c)
  BY ServedHasInput DEF SessionCommand, Consumes
<1>2. Served /\ input' = input \ {c}  BY DEF SessionCommand, Consumes
<1>3. UNCHANGED <<queued, marks, fails, sessions, commFd, status>>  BY DEF SessionCommand, list
<1>4. PassOK' /\ pc' = "serve"  BY <1>1, <1>2, <1>3, Reading
<1>5. PICK words \in SeqOf(Mods, 2) : \E exits, starts \in {{}, Mods} :
         LET t == Turned(Table, words, exits, starts) IN SetTable(t) /\ dirty' = t.dirty
  BY DEF SessionCommand
<1>6. PICK exits, starts \in {{}, Mods} :
         LET t == Turned(Table, words, exits, starts) IN SetTable(t) /\ dirty' = t.dirty
  BY <1>5
<1> DEFINE t == Turned(Table, words, exits, starts)
<1>7. words \in Seq(Mods)
  <2>1. PICK k \in 0 .. 2 : words \in [1 .. k -> Mods]  BY DEF SeqOf
  <2>2. k \in Nat  OBVIOUS
  <2>3. QED  BY <2>1, <2>2, SeqDef
<1>8. SetTable(t) /\ dirty' = t.dirty  BY <1>6
<1>9. t \in Tables /\ Owned(t, commFd) /\ (t.dirty \/ t = Table)
  BY <1>1, <1>7, TurnedKeeps DEF Sound, TypeOK
<1> HIDE DEF t
<1>10. Table' = t  BY <1>8, <1>9, TableIs DEF Table, SetTable
<1>11. Table' \in Tables /\ Owned(Table', commFd')  BY <1>3, <1>9, <1>10
<1>12. SessionsOK'  BY <1>1, <1>3 DEF Sound, SessionsOK
<1>13. ArrayOK'
  <2>1. ArrayOK /\ array' = array  BY <1>1, <1>2 DEF Sound, Served
  <2>2. ASSUME ~dirty' PROVE ~dirty /\ Opened' = Opened
    <3>1. t = Table  BY <1>8, <1>9, <2>2
    <3>2. dirty' = dirty /\ pipeFd' = pipeFd  BY <1>8, <3>1 DEF SetTable, Table
    <3>3. QED  BY <1>3, <2>2, <3>2 DEF Opened
  <2>3. QED  BY <1>1, <2>1, <2>2 DEF ArrayOK
<1>14. talk' \subseteq Mods  BY <1>1, <1>8 DEF SetTable, TypeOK
<1>15. TypeOK'
  BY <1>1, <1>2, <1>3, <1>4, <1>11, <1>14 DEF TypeOK, Served
<1>16. QED  BY <1>4, <1>11, <1>12, <1>13, <1>15 DEF PollInv, Sound
----------------------------------------------------------------------------
(***************************************************************************)
(* Steps that open or close something                                      *)
(***************************************************************************)
LEMMA Oldest ==
    ASSUME NEW S, NEW q \in Seq(S), q # <<>>, IsInjective(q)
    PROVE  /\ Head(q) \in S /\ Head(q) \in ToSet(q) /\ Tail(q) \in Seq(S) /\ IsInjective(Tail(q))
           /\ ToSet(Tail(q)) = ToSet(q) \ {Head(q)}
<1>1. 1 \in DOMAIN q /\ RemoveAt(q, 1) = Tail(q) /\ Head(q) = q[1]
  <2>1. 1 \in DOMAIN q /\ Head(q) = q[1] /\ Len(q) \in Nat  OBVIOUS
  <2>2. SubSeq(q, 1, 1 - 1) = <<>>  OBVIOUS
  <2>3. SubSeq(q, 1 + 1, Len(q)) = Tail(q)  OBVIOUS
  <2>4. Tail(q) \in Seq(S)  OBVIOUS
  <2>5. <<>> \o Tail(q) = Tail(q)  BY <2>4
  <2>6. QED  BY <2>1, <2>2, <2>3, <2>5 DEF RemoveAt
<1>2. /\ Tail(q) \in Seq(S) /\ IsInjective(Tail(q)) /\ ToSet(Tail(q)) = ToSet(q) \ {Head(q)}
  <2>1. /\ RemoveAt(q, 1) \in Seq(S) /\ IsInjective(RemoveAt(q, 1))
        /\ ToSet(RemoveAt(q, 1)) = ToSet(q) \ {q[1]}
    <3>1. 1 \in DOMAIN q  BY <1>1
    <3>2. QED  BY <3>1, Removed
  <2>2. QED  BY ONLY <1>1, <2>1
<1>3. q[1] \in S /\ q[1] \in ToSet(q)  BY <1>1 DEF ToSet
<1>4. QED  BY <1>1, <1>2, <1>3

LEMMA ServeListenStep == PollInv /\ ServeListen => PollInv'
<1> SUFFICES ASSUME PollInv, ServeListen PROVE PollInv'
  OBVIOUS
<1> DEFINE f == Lowest(names)  c == Head(queued)
<1>1. /\ TypeOK /\ Sound /\ pc = "serve" /\ entry <= Len(array) /\ Fd \in marked /\ Fd = ListenFd
  BY DEF PollInv, ServeListen, Serving
<1>2. /\ names' = [names EXCEPT ![f] = c] /\ commFd' = [commFd EXCEPT ![c] = f]
      /\ sessions' = <<c>> \o sessions /\ queued' = Tail(queued) /\ dirty' = TRUE
      /\ Served /\ UNCHANGED <<input, pipeFd, running, marks, fails, talk, status>>
  BY DEF ServeListen, Accept, modules
<1>3. entry = 1
  <2>1. entry \in DOMAIN array /\ 1 \in DOMAIN array  BY <1>1 DEF TypeOK, Sound, ArrayOK
  <2>2. QED  BY <1>1, <2>1 DEF Sound, ArrayOK, IsInjective, Fd
<1>4. queued # <<>> /\ \A g \in ToSet(array) : names[g] # Free
  BY <1>1, <1>3 DEF Sound, PassOK
<1>5. f \in Fds /\ names[f] = Free
  <2>1. Table \in Tables /\ Owned(Table, commFd)  BY <1>1 DEF TypeOK, Sound
  <2>2. Lowest(Table.names) \in Fds /\ Table.names[Lowest(Table.names)] = Free
    BY <2>1, LowestFree
  <2>3. QED  BY <2>2 DEF Table
<1>6. /\ c \in Conns /\ c \in ToSet(queued) /\ queued' \in Seq(Conns) /\ IsInjective(queued')
      /\ ToSet(queued') = ToSet(queued) \ {c}
  <2>1. queued \in Seq(Conns) /\ IsInjective(queued)  BY <1>1 DEF TypeOK, Sound, SessionsOK
  <2>2. QED  BY <1>2, <1>4, <2>1, Oldest
<1> HIDE DEF f, c
<1>7. commFd[c] = None /\ c \notin ToSet(sessions)  BY <1>1, <1>6 DEF Sound, SessionsOK
<1>8. /\ commFd \in [Conns -> Fds \union {None}] /\ sessions \in Seq(Conns)
      /\ commFd' \in [Conns -> Fds \union {None}]
  BY <1>1, <1>2, <1>5, <1>6 DEF TypeOK
<1>9. /\ sessions' \in Seq(Conns) /\ IsInjective(sessions') /\ ToSet(sessions') = ToSet(sessions) \union {c}
  <2> DEFINE l == <<c>>
  <2>1. l \in Seq(Conns) /\ IsInjective(l) /\ ToSet(l) = {c}  BY <1>6 DEF IsInjective, ToSet
  <2>2. IsInjective(sessions) /\ sessions' = l \o sessions  BY <1>1, <1>2 DEF Sound, SessionsOK
  <2>3. ToSet(l) \intersect ToSet(sessions) = {}  BY <1>7, <2>1
  <2> HIDE DEF l
  <2>4. QED  BY <1>8, <2>1, <2>2, <2>3, Concat
<1>10. SessionsOK'
  <2>1. \A d \in Conns : commFd'[d] # None <=> d \in ToSet(sessions')
    <3> SUFFICES ASSUME NEW d \in Conns PROVE commFd'[d] # None <=> d \in ToSet(sessions')
      OBVIOUS
    <3>1. CASE d = c  BY <1>2, <1>5, <1>8, <1>9, <3>1, ConstantsAssumption
    <3>2. CASE d # c  BY <1>1, <1>2, <1>8, <1>9, <3>2 DEF Sound, SessionsOK
    <3>3. QED  BY <3>1, <3>2
  <2>2. \A d \in ToSet(queued') : commFd'[d] = None
    BY <1>1, <1>2, <1>6, <1>8 DEF Sound, SessionsOK
  <2>3. QED  BY <1>6, <1>9, <2>1, <2>2 DEF SessionsOK
<1>11. /\ names \in [Fds -> Conns \union Mods \union {Listen, Free}]
       /\ pipeFd \in [Mods -> Fds \union {None}] /\ running \subseteq Mods
       /\ names[ListenFd] = Listen /\ ListenFd \in Fds
       /\ \A g \in Fds : names[g] = Listen => g = ListenFd
       /\ \A g \in Fds : names[g] \in Conns => commFd[names[g]] = g
       /\ \A d \in Conns : commFd[d] # None => commFd[d] \in Fds /\ names[commFd[d]] = d
       /\ \A m \in Mods : pipeFd[m] # None => pipeFd[m] \in Fds /\ names[pipeFd[m]] = m
       /\ \A m \in running : pipeFd[m] # None
  BY <1>1, Numbers DEF Sound
<1>12. Table' \in Tables
  <2>1. names' \in [Fds -> Conns \union Mods \union {Listen, Free}]  BY <1>2, <1>5, <1>6, <1>11
  <2>2. QED  BY <1>2, <1>11, <2>1 DEF Table, Tables
<1>13. Owned(Table', commFd')
  <2>1. /\ Table'.names = names' /\ Table'.pipeFd = pipeFd /\ Table'.running = running
        /\ Table.names = names /\ Table.pipeFd = pipeFd
    BY <1>2 DEF Table
  <2>2. Leaked(Table') \subseteq Leaked(Table)
    BY <1>2, <1>5, <1>6, <1>11, <2>1, ConstantsAssumption DEF Leaked
  <2>3. Cardinality(Leaked(Table')) <= MaxLeaks
    <3>1. Cardinality(Leaked(Table')) <= Cardinality(Leaked(Table))  BY <2>2, LeakedFinite, FS_Subset
    <3>2. Cardinality(Leaked(Table)) <= MaxLeaks  BY <1>1 DEF Sound, Owned
    <3>3. Cardinality(Leaked(Table)) \in Nat /\ Cardinality(Leaked(Table')) \in Nat /\ MaxLeaks \in Nat
      BY LeakedFinite, FdAssumption
    <3>4. QED  BY <3>1, <3>2, <3>3
  <2>4. names'[ListenFd] = Listen /\ \A g \in Fds : names'[g] = Listen => g = ListenFd
    BY <1>2, <1>5, <1>6, <1>11, ConstantsAssumption
  <2>5. \A g \in Fds : names'[g] \in Conns => commFd'[names'[g]] = g
    <3> SUFFICES ASSUME NEW g \in Fds, names'[g] \in Conns PROVE commFd'[names'[g]] = g
      OBVIOUS
    <3>1. CASE g = f  BY <1>2, <1>5, <1>6, <1>8, <1>11, <3>1
    <3>2. CASE g # f
      <4>1. names'[g] = names[g] /\ commFd[names[g]] = g  BY <1>2, <1>11, <3>2
      <4>2. names[g] # c  BY <1>7, <4>1, ConstantsAssumption
      <4>3. QED  BY <1>2, <1>8, <4>1, <4>2
    <3>3. QED  BY <3>1, <3>2
  <2>6. \A d \in Conns : commFd'[d] # None => names'[commFd'[d]] = d
    <3> SUFFICES ASSUME NEW d \in Conns, commFd'[d] # None PROVE names'[commFd'[d]] = d
      OBVIOUS
    <3>1. CASE d = c  BY <1>2, <1>5, <1>6, <1>8, <1>11, <3>1
    <3>2. CASE d # c
      <4>1. commFd'[d] = commFd[d] /\ names[commFd[d]] = d /\ d # Free /\ commFd[d] \in Fds
        BY <1>2, <1>8, <1>11, <3>2, ConstantsAssumption
      <4>2. commFd[d] # f  BY <1>5, <4>1
      <4>3. QED  BY <1>2, <1>11, <4>1, <4>2
    <3>3. QED  BY <3>1, <3>2
  <2>7. \A m \in Mods : pipeFd[m] # None => names'[pipeFd[m]] = m
    BY <1>2, <1>5, <1>11, ConstantsAssumption
  <2>8. \A m \in running : pipeFd[m] # None  BY <1>11
  <2>9. QED  BY <2>1, <2>3, <2>4, <2>5, <2>6, <2>7, <2>8 DEF Owned
<1>14. PassOK' /\ pc' = "serve"
  <2>1. f \notin ToSet(array)  BY <1>4, <1>5
  <2>2. \A d \in Conns : \/ commFd'[d] \notin ToSet(array)
                         \/ commFd'[d] = commFd[d] /\ (d \in input => d \in input')
    BY <1>2, <1>8, <2>1
  <2>3. QED  BY <1>1, <1>2, <2>2, Onward DEF Sound, Served
<1>15. ArrayOK'  BY <1>1, <1>2, <1>14 DEF Sound, ArrayOK, Served
<1>16. TypeOK'
  BY <1>1, <1>2, <1>6, <1>8, <1>9, <1>12, <1>14 DEF TypeOK, Served
<1>17. QED  BY <1>10, <1>13, <1>14, <1>15, <1>16, <1>12 DEF PollInv, Sound

LEMMA SessionEndsStep == ASSUME PollInv, NEW c \in Conns, SessionEnds(c) PROVE PollInv'
<1>1. /\ TypeOK /\ Sound /\ pc = "serve" /\ entry <= Len(array) /\ ServesSession(c)
      /\ c \in ToSet(sessions) /\ commFd[c] = Fd /\ Fd \in Fds
  BY ServedHasInput DEF SessionEnds, Consumes
<1> DEFINE f == Fd
<1>2. /\ names' = [names EXCEPT ![f] = Free] /\ commFd' = [commFd EXCEPT ![c] = None]
      /\ dirty' = TRUE /\ Served /\ input' = input \ {c}
      /\ UNCHANGED <<queued, pipeFd, running, marks, fails, talk, status>>
  BY <1>1 DEF SessionEnds, Consumes, CloseSession, modules
<1>3. commFd[c] = f /\ f \in Fds  BY <1>1
<1>4. commFd \in [Conns -> Fds \union {None}] /\ sessions \in Seq(Conns) /\ input \subseteq Conns
  BY <1>1 DEF TypeOK
<1>5. /\ sessions' \in Seq(Conns) /\ IsInjective(sessions') /\ ToSet(sessions') = ToSet(sessions) \ {c}
  <2>1. PICK i \in DOMAIN sessions : sessions[i] = c /\ sessions' = RemoveAt(sessions, i)
    BY DEF SessionEnds, CloseSession
  <2>2. IsInjective(sessions)  BY <1>1 DEF Sound, SessionsOK
  <2>3. QED  BY <1>4, <2>1, <2>2, Removed
<1> HIDE DEF f
<1>6. SessionsOK'
  <2>1. \A d \in Conns : commFd'[d] # None <=> d \in ToSet(sessions')
    BY <1>1, <1>2, <1>4, <1>5 DEF Sound, SessionsOK
  <2>2. \A d \in ToSet(queued) : commFd'[d] = None
    <3>1. \A d \in ToSet(queued) : d \in Conns /\ commFd[d] = None
      BY <1>1 DEF TypeOK, Sound, SessionsOK, ToSet
    <3>2. QED  BY <1>2, <1>4, <3>1
  <2>3. QED  BY <1>1, <1>2, <1>5, <2>1, <2>2 DEF Sound, SessionsOK
<1>7. /\ names \in [Fds -> Conns \union Mods \union {Listen, Free}]
      /\ pipeFd \in [Mods -> Fds \union {None}] /\ running \subseteq Mods
      /\ names[ListenFd] = Listen /\ ListenFd \in Fds
      /\ \A g \in Fds : names[g] = Listen => g = ListenFd
      /\ \A g \in Fds : names[g] \in Conns => commFd[names[g]] = g
      /\ \A d \in Conns : commFd[d] # None => commFd[d] \in Fds /\ names[commFd[d]] = d
      /\ \A m \in Mods : pipeFd[m] # None => pipeFd[m] \in Fds /\ names[pipeFd[m]] = m
      /\ \A m \in running : pipeFd[m] # None
  BY <1>1, Numbers DEF Sound
<1>8. names[f] = c /\ f # None  BY <1>3, <1>7, ConstantsAssumption
<1>9. Table' \in Tables
  <2>1. names' \in [Fds -> Conns \union Mods \union {Listen, Free}]  BY <1>2, <1>3, <1>7
  <2>2. QED  BY <1>2, <1>7, <2>1 DEF Table, Tables
<1>10. Owned(Table', commFd')
  <2>1. /\ Table'.names = names' /\ Table'.pipeFd = pipeFd /\ Table'.running = running
        /\ Table.names = names /\ Table.pipeFd = pipeFd
    BY <1>2 DEF Table
  <2>2. Leaked(Table') \subseteq Leaked(Table)
    BY <1>2, <1>3, <1>7, <2>1, ConstantsAssumption DEF Leaked
  <2>3. Cardinality(Leaked(Table')) <= MaxLeaks
    <3>1. Cardinality(Leaked(Table')) <= Cardinality(Leaked(Table))  BY <2>2, LeakedFinite, FS_Subset
    <3>2. Cardinality(Leaked(Table)) <= MaxLeaks  BY <1>1 DEF Sound, Owned
    <3>3. Cardinality(Leaked(Table)) \in Nat /\ Cardinality(Leaked(Table')) \in Nat /\ MaxLeaks \in Nat
      BY LeakedFinite, FdAssumption
    <3>4. QED  BY <3>1, <3>2, <3>3
  <2>4. names'[ListenFd] = Listen /\ \A g \in Fds : names'[g] = Listen => g = ListenFd
    BY <1>2, <1>3, <1>7, <1>8, ConstantsAssumption
  <2>5. \A g \in Fds : names'[g] \in Conns => commFd'[names'[g]] = g
    <3> SUFFICES ASSUME NEW g \in Fds, names'[g] \in Conns PROVE commFd'[names'[g]] = g
      OBVIOUS
    <3>1. g # f /\ names'[g] = names[g]  BY <1>2, <1>7, ConstantsAssumption
    <3>2. commFd[names[g]] = g /\ names[g] # c  BY <1>3, <1>7, <3>1
    <3>3. QED  BY <1>2, <1>4, <3>1, <3>2
  <2>6. \A d \in Conns : commFd'[d] # None => names'[commFd'[d]] = d
    <3> SUFFICES ASSUME NEW d \in Conns, commFd'[d] # None PROVE names'[commFd'[d]] = d
      OBVIOUS
    <3>1. d # c /\ commFd'[d] = commFd[d]  BY <1>2, <1>4
    <3>2. commFd[d] \in Fds /\ names[commFd[d]] = d  BY <1>7, <3>1
    <3>3. commFd[d] # f  BY <1>8, <3>1, <3>2
    <3>4. QED  BY <1>2, <1>7, <3>1, <3>2, <3>3
  <2>7. \A m \in Mods : pipeFd[m] # None => names'[pipeFd[m]] = m
    BY <1>2, <1>7, <1>8, ConstantsAssumption
  <2>8. \A m \in running : pipeFd[m] # None  BY <1>7
  <2>9. QED  BY <2>1, <2>3, <2>4, <2>5, <2>6, <2>7, <2>8 DEF Owned
<1>11. PassOK' /\ pc' = "serve"
  <2>1. \A d \in Conns : \/ commFd'[d] = None
                         \/ commFd'[d] = commFd[d] /\ (d \in input => d \in input' \/ commFd[d] = Fd)
    BY <1>2, <1>4
  <2>2. QED  BY <1>1, <1>2, <2>1, Onward DEF Sound, Served
<1>12. ArrayOK'  BY <1>1, <1>2, <1>11 DEF Sound, ArrayOK, Served
<1>13. TypeOK'
  <2>1. commFd' \in [Conns -> Fds \union {None}] /\ input' \subseteq Conns  BY <1>2, <1>4
  <2>2. QED  BY <1>1, <1>2, <1>5, <1>9, <1>11, <2>1 DEF TypeOK, Served
<1>14. QED  BY <1>6, <1>10, <1>11, <1>12, <1>13 DEF PollInv, Sound

LEMMA CleanupStep == PollInv /\ Cleanup => PollInv'
<1> SUFFICES ASSUME PollInv, Cleanup PROVE PollInv'
  OBVIOUS
<1>1. TypeOK /\ Sound  BY DEF PollInv, Cleanup
<1>2. PICK off \in SUBSET marks :
         /\ SetTable(Turned(Table, ModList, marks, marks \ off))
         /\ fails' = [m \in Mods |-> IF m \in off THEN MaxFail
                                     ELSE IF m \in marks THEN fails[m] + 1 ELSE fails[m]]
  BY DEF Cleanup
<1> DEFINE t == Turned(Table, ModList, marks, marks \ off)
<1>3. t \in Tables /\ Owned(t, commFd)
  BY <1>1, ConstantsAssumption, TurnedKeeps DEF Sound, TypeOK
<1>4. SetTable(t)  BY <1>2
<1> HIDE DEF t
<1>5. /\ marks' = {} /\ dirty' = FALSE /\ pc' = "setup"
      /\ UNCHANGED <<queued, input, sessions, commFd, status, array, marked, entry>>
  BY DEF Cleanup, clients, list, polling
<1>6. /\ Table'.names = t.names /\ Table'.pipeFd = t.pipeFd /\ Table'.running = t.running
  BY <1>4 DEF SetTable, Table
<1>7. Table' \in Tables
  <2>1. /\ t.names \in [Fds -> Conns \union Mods \union {Listen, Free}]
        /\ t.pipeFd \in [Mods -> Fds \union {None}] /\ t.running \subseteq Mods
    BY <1>3 DEF Tables
  <2>2. QED  BY <1>4, <1>5, <2>1 DEF SetTable, Table, Tables
<1>8. Owned(Table', commFd')
  <2>1. Owned(Table', commFd)  BY <1>3, <1>6, OwnedStays
  <2>2. QED  BY <1>5, <2>1
<1>9. SessionsOK'  BY <1>1, <1>5 DEF Sound, SessionsOK
<1>10. ArrayOK' /\ PassOK'  BY <1>5 DEF ArrayOK, PassOK
<1>11. fails' \in [Mods -> Nat]  BY <1>1, <1>2, ConstantsAssumption DEF TypeOK
<1>12. talk' \subseteq Mods  BY <1>1, <1>4 DEF SetTable, TypeOK
<1>13. TypeOK'  BY <1>1, <1>5, <1>7, <1>11, <1>12 DEF TypeOK
<1>14. QED  BY <1>5, <1>8, <1>9, <1>10, <1>13 DEF PollInv, Sound

LEMMA CloseHandlerStep == PollInv /\ CloseHandler => PollInv'
<1> SUFFICES ASSUME PollInv, CloseHandler PROVE PollInv'
  OBVIOUS
<1>1. TypeOK  BY DEF PollInv
<1>2. pc' \in {"closed", "crashed"}  BY DEF CloseHandler
<1>3. UNCHANGED <<queued, input, pipeFd, running, marks, fails, talk, dirty, status, array, marked, entry>>
  BY DEF CloseHandler, clients, modules, polling
<1>4. /\ sessions' \in Seq(Conns) /\ commFd' \in [Conns -> Fds \union {None}]
      /\ names' \in [Fds -> Conns \union Mods \union {Listen, Free}]
  <2>1. /\ sessions \in Seq(Conns) /\ commFd \in [Conns -> Fds \union {None}]
        /\ names \in [Fds -> Conns \union Mods \union {Listen, Free}]
    BY <1>1 DEF TypeOK, Table, Tables
  <2>2. CASE UNCHANGED <<names, list>>  BY <2>1, <2>2 DEF list
  <2>3. CASE /\ sessions # <<>>
             /\ sessions' = <<Head(sessions)>>
             /\ commFd' = [c \in Conns |-> IF c \in ToSet(Tail(sessions)) THEN None ELSE commFd[c]]
             /\ \E any \in SUBSET Fds :
                   names' = [f \in Fds |-> IF f \in any \/ names[f] \in ToSet(Tail(sessions))
                                           THEN Free ELSE names[f]]
    BY <2>1, <2>3
  <2>4. QED  BY <2>2, <2>3 DEF CloseHandler
<1>5. Table' \in Tables  BY <1>1, <1>3, <1>4 DEF TypeOK, Table, Tables
<1>6. TypeOK'  BY <1>1, <1>2, <1>3, <1>4, <1>5 DEF TypeOK
<1>7. QED  BY <1>2, <1>6 DEF PollInv

LEMMA PollInit == Init => PollInv
<1> SUFFICES ASSUME Init PROVE PollInv
  OBVIOUS
<1>1. PICK early \in SUBSET Mods :
         LET Blank == [names   |-> [f \in Fds |-> IF f = ListenFd THEN Listen ELSE Free],
                       pipeFd  |-> [m \in Mods |-> None],
                       running |-> {},
                       dirty   |-> FALSE]
             t == Turned(Blank, ModList, {}, early)
         IN  names = t.names /\ pipeFd = t.pipeFd /\ running = t.running /\ dirty = t.dirty
  BY DEF Init
<1> DEFINE Blank == [names   |-> [f \in Fds |-> IF f = ListenFd THEN Listen ELSE Free],
                     pipeFd  |-> [m \in Mods |-> None],
                     running |-> {},
                     dirty   |-> FALSE]
           t == Turned(Blank, ModList, {}, early)
<1>2. /\ queued = <<>> /\ input = {} /\ talk = {} /\ marks = {} /\ fails = [m \in Mods |-> 0]
      /\ sessions = <<>> /\ commFd = [c \in Conns |-> None] /\ status = "RUNNING"
      /\ array = <<>> /\ marked = {} /\ entry = 1 /\ pc = "setup"
  BY DEF Init
<1>3. names = t.names /\ pipeFd = t.pipeFd /\ running = t.running /\ dirty = t.dirty
  BY <1>1
<1> HIDE DEF t
<1>4. Blank \in Tables  BY FdsFinite DEF Tables
<1>5. Owned(Blank, commFd)
  <2>1. Leaked(Blank) = {}  BY ConstantsAssumption DEF Leaked
  <2>2. Cardinality(Leaked(Blank)) <= MaxLeaks  BY <2>1, FS_EmptySet, FdAssumption
  <2>3. QED  BY <1>2, <2>2, FdsFinite, ConstantsAssumption DEF Owned
<1> HIDE DEF Blank
<1>6. t \in Tables /\ Owned(t, commFd)
  BY <1>4, <1>5, ConstantsAssumption, TurnedKeeps DEF t
<1>7. Table = t  BY <1>3, <1>6, TableIs DEF Table
<1>8. TypeOK  BY <1>2, <1>6, <1>7, ConstantsAssumption DEF TypeOK
<1>9. SessionsOK  BY <1>2 DEF SessionsOK, IsInjective, ToSet
<1>10. ArrayOK /\ PassOK  BY <1>2 DEF ArrayOK, PassOK
<1>11. QED  BY <1>2, <1>6, <1>7, <1>8, <1>9, <1>10 DEF PollInv, Sound

LEMMA PollNext == PollInv /\ [Next]_vars => PollInv'
<1> SUFFICES ASSUME PollInv, [Next]_vars PROVE PollInv'
  OBVIOUS
<1>1. CASE \/ \E c \in Conns : Dial(c) \/ Speak(c)
           \/ \E m \in Mods : Talk(m) \/ Die(m)
           \/ Term
           \/ UNCHANGED vars
  BY <1>1, OthersStep
<1>2. CASE Setup \/ Cleanup \/ Poll \/ CloseHandler
  BY <1>2, SetupStep, CleanupStep, PollStep, CloseHandlerStep
<1>3. CASE PassDone \/ Skip \/ ServeListen \/ ServeModule
  BY <1>3, PassDoneStep, SkipStep, ServeListenStep, ServeModuleStep
<1>4. ASSUME NEW c \in Conns, SessionReads(c) \/ SessionEnds(c) \/ SessionStops(c) \/ SessionCommand(c)
      PROVE  PollInv'
  BY <1>4, SessionReadsStep, SessionEndsStep, SessionStopsStep, SessionCommandStep
<1>5. QED  BY <1>1, <1>2, <1>3, <1>4 DEF Next, Manages, Serves

THEOREM PollSafety == Spec => []PollInv
<1>1. QED  BY PollInit, PollNext, PTL DEF Spec

----------------------------------------------------------------------------
(***************************************************************************)
(* What the runs check                                                     *)
(***************************************************************************)
\* The manager's thread never waits for a client in the read of a session that
\* has nothing to say.
THEOREM ThreadNeverWaits == Spec => []NeverBlocks
<1>1. PollInv => NeverBlocks  BY DEF PollInv, Sound, NeverBlocks
<1>2. QED  BY <1>1, PollSafety, PTL

\* Each descriptor that is open, but for the pipes of dead modules that were
\* enabled, is the listening socket's, one session's or one module's.
THEOREM DescriptorsAreOwned == Spec => []EveryFdIsOwned
<1>1. ASSUME PollInv, pc \notin {"closed", "crashed"}
      PROVE  /\ \A c \in ToSet(sessions) : names[commFd[c]] = c
             /\ \A m \in Mods : pipeFd[m] # None => names[pipeFd[m]] = m
             /\ \A f \in Fds \ Leaked(Table) :
                   names[f] \in Conns \union Mods =>
                       \/ \E c \in ToSet(sessions) : commFd[c] = f
                       \/ \E m \in Mods : pipeFd[m] = f
             /\ Cardinality(Leaked(Table)) <= MaxLeaks
  <2>1. TypeOK /\ Sound  BY <1>1 DEF PollInv
  <2>2. /\ \A f \in Fds : names[f] \in Conns => commFd[names[f]] = f
        /\ \A c \in Conns : commFd[c] # None => commFd[c] \in Fds /\ names[commFd[c]] = c
        /\ \A m \in Mods : pipeFd[m] # None => names[pipeFd[m]] = m
    BY <2>1, Numbers DEF Sound
  <2>3. \A c \in ToSet(sessions) : c \in Conns  BY <2>1 DEF TypeOK, ToSet
  <2>4. \A c \in Conns : commFd[c] # None <=> c \in ToSet(sessions)  BY <2>1 DEF Sound, SessionsOK
  <2>5. ASSUME NEW f \in Fds \ Leaked(Table), names[f] \in Conns \union Mods
        PROVE  \/ \E c \in ToSet(sessions) : commFd[c] = f
               \/ \E m \in Mods : pipeFd[m] = f
    <3>1. CASE names[f] \in Conns  BY <2>2, <2>4, <2>5, <3>1, ConstantsAssumption
    <3>2. CASE names[f] \in Mods  BY <2>5, <3>2 DEF Leaked, Table
    <3>3. QED  BY <2>5, <3>1, <3>2
  <2>6. Cardinality(Leaked(Table)) <= MaxLeaks  BY <2>1 DEF Sound, Owned
  <2>7. QED  BY <2>2, <2>3, <2>4, <2>5, <2>6
<1>2. PollInv => EveryFdIsOwned  BY <1>1 DEF EveryFdIsOwned
<1>3. QED  BY <1>2, PollSafety, PTL

\* When the manager polls, it polls what is open and not lost, each once.
THEOREM OpenIsPolled == Spec => []PollsWhatIsOpen
<1>1. ASSUME PollInv, pc = "loop", ~dirty
      PROVE  IsInjective(array) /\ ToSet(array) = {f \in Fds : names[f] # Free} \ Leaked(Table)
  <2>1. TypeOK /\ Sound  BY <1>1 DEF PollInv
  <2>2. IsInjective(array) /\ ToSet(array) = Opened  BY <1>1, <2>1 DEF Sound, ArrayOK
  <2>3. /\ names \in [Fds -> Conns \union Mods \union {Listen, Free}]
        /\ names[ListenFd] = Listen /\ ListenFd \in Fds
        /\ \A f \in Fds : names[f] = Listen => f = ListenFd
        /\ \A f \in Fds : names[f] \in Conns => commFd[names[f]] = f
        /\ \A c \in Conns : commFd[c] # None => commFd[c] \in Fds /\ names[commFd[c]] = c
        /\ \A m \in Mods : pipeFd[m] # None => pipeFd[m] \in Fds /\ names[pipeFd[m]] = m
    BY <2>1, Numbers DEF Sound
  <2>4. Leaked(Table) = {f \in Fds : names[f] \in Mods /\ pipeFd[names[f]] # f}
    BY DEF Leaked, Table
  <2>5. ASSUME NEW f \in Opened PROVE f \in Fds /\ names[f] # Free /\ f \notin Leaked(Table)
    <3>1. CASE f = ListenFd  BY <2>3, <2>4, <3>1, ConstantsAssumption
    <3>2. ASSUME NEW c \in Conns, commFd[c] # None, f = commFd[c]
          PROVE  f \in Fds /\ names[f] # Free /\ f \notin Leaked(Table)
      BY <2>3, <2>4, <3>2, ConstantsAssumption
    <3>3. ASSUME NEW m \in Mods, pipeFd[m] # None, f = pipeFd[m]
          PROVE  f \in Fds /\ names[f] # Free /\ f \notin Leaked(Table)
      BY <2>3, <2>4, <3>3, ConstantsAssumption
    <3>4. QED  BY <3>1, <3>2, <3>3 DEF Opened
  <2>6. ASSUME NEW f \in Fds, names[f] # Free, f \notin Leaked(Table) PROVE f \in Opened
    <3>1. f # None  BY ConstantsAssumption
    <3>2. CASE names[f] = Listen  BY <2>3, <3>2 DEF Opened
    <3>3. CASE names[f] \in Conns  BY <2>3, <3>1, <3>3 DEF Opened
    <3>4. CASE names[f] \in Mods  BY <2>4, <2>6, <3>1, <3>4 DEF Opened
    <3>5. QED  BY <2>3, <2>6, <3>2, <3>3, <3>4
  <2>7. QED  BY <2>2, <2>5, <2>6
<1>2. PollInv => PollsWhatIsOpen  BY <1>1 DEF PollsWhatIsOpen
<1>3. QED  BY <1>2, PollSafety, PTL
=============================================================================
