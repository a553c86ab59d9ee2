--------------------------- MODULE PrCacheProofs ---------------------------
(***************************************************************************)
(* Proofs about the process cache for any number of slots, pids and        *)
(* executables and any stack of tasks.                                     *)
(*                                                                         *)
(* A procedure of prcache.c is an operator from a cache to a cache, so     *)
(* that each has a lemma of its own: what is Good stays so, the processes  *)
(* of the tasks on the stack stay theirs (Owns), and those that are locked *)
(* and alive stay connected (Held).                                        *)
(***************************************************************************)
EXTENDS PrCache, FiniteSetTheorems, SequenceTheorems, TLAPS

-----------------------------------------------------------------------------
(***************************************************************************)
(* Sets of natural numbers.                                                *)
(***************************************************************************)
LEMMA Least ==
  ASSUME NEW T \in SUBSET Nat, T # {}
  PROVE  Min(T) \in T /\ \A y \in T : Min(T) =< y
<1>1. PICK n \in T : TRUE
  OBVIOUS
<1> DEFINE N == 0 .. n
           R == StrictSubsetOrdering(N)
           Below(x) == T \cap (0 .. x)
           U == {Below(x) : x \in T \cap N}
<1>2. n \in Nat /\ n \in T \cap N /\ \A x \in T \cap N : x \in Nat /\ x =< n
  BY <1>1
<1>3. FiniteSubsetsOf(N) = SUBSET N
  <2>1. IsFiniteSet(N)
    BY <1>2, FS_Interval
  <2> HIDE DEF N
  <2> QED BY <2>1, FS_FiniteSubsetsOfFinite
<1>4. IsWellFoundedOn(R, SUBSET N)
  BY <1>3, FS_StrictSubsetOrderingWellFounded
<1>5. U \subseteq SUBSET N /\ U # {}
  <2>1. ASSUME NEW x \in T \cap N PROVE Below(x) \subseteq N
    BY <1>2
  <2> HIDE DEF Below, N
  <2> QED BY <1>2, <2>1
<1>6. PICK u \in U : \A v \in U : ~(<<v, u>> \in R)
  <2> HIDE DEF R, U
  <2> QED BY <1>4, <1>5, WFMin
<1>7. PICK x \in T \cap N : u = Below(x)
  OBVIOUS
<1>8. ASSUME NEW y \in T PROVE x =< y
  <2>1. SUFFICES ASSUME y < x PROVE FALSE
    BY <1>2
  <2>2. y \in T \cap N /\ x \in Below(x) /\ x \notin Below(y)
    BY <1>2, <2>1
  <2>3. Below(y) \subseteq Below(x) /\ Below(y) # Below(x) /\ Below(x) \subseteq N
    BY <1>2, <2>1, <2>2
  <2>4. <<Below(y), Below(x)>> \in R
    <3> HIDE DEF Below, N
    <3> QED BY <2>3 DEF StrictSubsetOrdering
  <2> QED BY <1>6, <1>7, <2>2, <2>4
<1> QED BY <1>8 DEF Min

LEMMA Greatest ==
  ASSUME NEW n \in Nat, NEW T \in SUBSET (1 .. n), T # {}
  PROVE  Max(T) \in T /\ \A y \in T : y =< Max(T)
<1> DEFINE U == {n - x : x \in T}
<1>1. U \in SUBSET Nat /\ U # {}
  OBVIOUS
<1>2. PICK u \in U : \A v \in U : u =< v
  <2> HIDE DEF U
  <2> QED BY <1>1, Least
<1>3. PICK x \in T : u = n - x
  OBVIOUS
<1>4. ASSUME NEW y \in T PROVE y =< x
  <2>1. n - y \in U /\ x \in Int /\ y \in Int
    OBVIOUS
  <2>2. n - x =< n - y
    BY <1>2, <1>3, <2>1
  <2> QED BY <2>1, <2>2
<1>5. \E m \in T : \A y \in T : m >= y
  BY <1>4
<1>6. Max(T) \in T /\ \A y \in T : Max(T) >= y
  BY <1>5 DEF Max
<1> QED BY <1>6

(***************************************************************************)
(* Rank counts a set of positions through.                                 *)
(***************************************************************************)
LEMMA Ranks ==
  ASSUME NEW n \in Nat, NEW D \in SUBSET (1 .. n)
  PROVE  /\ Cardinality(D) \in Nat
         /\ \A k \in D : Rank(D, k) \in 1 .. Cardinality(D)
         /\ \A k, l \in D : k < l => Rank(D, k) < Rank(D, l)
         /\ \A k, l \in D : Rank(D, k) = Rank(D, l) => k = l
         /\ \A m \in 1 .. Cardinality(D) : \E k \in D : Rank(D, k) = m
<1> DEFINE upto(k) == {j \in D : j =< k}
<1>0. \A k \in D : k \in Int
  OBVIOUS
<1>1. IsFiniteSet(D) /\ Cardinality(D) \in Nat
  <2>1. IsFiniteSet(1 .. n)
    BY FS_Interval
  <2> QED BY <2>1, FS_Subset, FS_CardinalityType
<1>2. ASSUME NEW k \in D
      PROVE  IsFiniteSet(upto(k)) /\ Cardinality(upto(k)) \in 1 .. Cardinality(D)
  <2>1. IsFiniteSet(upto(k)) /\ Cardinality(upto(k)) =< Cardinality(D)
        /\ Cardinality(upto(k)) \in Nat
    BY <1>1, FS_Subset, FS_CardinalityType
  <2>2. upto(k) # {}
    OBVIOUS
  <2>3. Cardinality(upto(k)) # 0
    BY <2>1, <2>2, FS_EmptySet
  <2> QED BY <1>1, <2>1, <2>3
<1>3. ASSUME NEW k \in D, NEW l \in D, k < l
      PROVE  Cardinality(upto(k)) < Cardinality(upto(l))
  <2>1. upto(k) \subseteq upto(l) \ {l} /\ l \in upto(l)
    <3>1. ASSUME NEW j \in D, j =< k PROVE j =< l /\ j # l
      BY <1>0, <1>3, <3>1
    <3>2. l =< l
      BY <1>0
    <3> QED BY <3>1, <3>2
  <2>2. IsFiniteSet(upto(l) \ {l})
        /\ Cardinality(upto(l) \ {l}) = Cardinality(upto(l)) - 1
    BY <1>2, <2>1, FS_RemoveElement
  <2>3. Cardinality(upto(k)) =< Cardinality(upto(l) \ {l})
    BY <2>1, <2>2, FS_Subset
  <2> QED BY <1>2, <2>2, <2>3
<1>4. \A k \in D : Rank(D, k) = Cardinality(upto(k))
  BY DEF Rank
<1>5. ASSUME NEW k \in D, NEW l \in D, Rank(D, k) = Rank(D, l) PROVE k = l
  <2>1. Rank(D, k) \in Nat /\ Rank(D, l) \in Nat /\ k \in Int /\ l \in Int
    <3>1. Cardinality(upto(k)) \in Nat /\ Cardinality(upto(l)) \in Nat
      BY <1>1, <1>2
    <3> QED BY <1>0, <1>4, <3>1
  <2> HIDE DEF upto
  <2> QED BY <1>3, <1>4, <1>5, <2>1
<1>6. ASSUME NEW m \in 1 .. Cardinality(D) PROVE \E k \in D : Rank(D, k) = m
  <2> DEFINE f == [k \in D |-> Rank(D, k)]
             N == 1 .. Cardinality(D)
  <2>1. f \in Injection(D, N)
    BY <1>2, <1>4, <1>5 DEF Injection, IsInjective
  <2>2. IsFiniteSet(N) /\ Cardinality(N) = Cardinality(D)
    BY <1>1, FS_Interval
  <2>3. f \in Surjection(D, N)
    <3> HIDE DEF f, N
    <3> QED BY <2>1, <2>2, FS_Injection
  <2> QED BY <2>3 DEF Surjection
<1> HIDE DEF upto
<1> QED BY <1>1, <1>2, <1>3, <1>4, <1>5, <1>6
-----------------------------------------------------------------------------
(***************************************************************************)
(* The list.                                                               *)
(***************************************************************************)
Lists == {list \in Seq(Slots) : IsInjective(list)}

LEMMA OnlyList ==
  ASSUME NEW list \in Lists, NEW S
  PROVE  Only(list, S) \in Lists /\ Range(Only(list, S)) = Range(list) \cap S
<1> DEFINE D == At(list, S)
           N == Cardinality(D)
           nth(m) == CHOOSE k \in D : Rank(D, k) = m
           only == [m \in 1 .. N |-> list[nth(m)]]
<1>1. list \in Seq(Slots) /\ IsInjective(list)
  BY DEF Lists
<1>2. Len(list) \in Nat /\ DOMAIN list = 1 .. Len(list) /\ D \in SUBSET (1 .. Len(list))
  BY <1>1 DEF At
<1>3. /\ N \in Nat
      /\ \A k \in D : Rank(D, k) \in 1 .. N
      /\ \A k, l \in D : Rank(D, k) = Rank(D, l) => k = l
      /\ \A m \in 1 .. N : \E k \in D : Rank(D, k) = m
  <2> HIDE DEF D
  <2> QED BY <1>2, Ranks
<1>4. \A m \in 1 .. N : nth(m) \in D /\ Rank(D, nth(m)) = m
  <2> HIDE DEF D, N
  <2> QED BY <1>3
<1>5. Only(list, S) = only
  BY DEF Only
<1>6. \A k \in D : list[k] \in Slots /\ list[k] \in S /\ list[k] \in Range(list)
  BY <1>1, <1>2 DEF At, Range
<1>7. \A x \in Range(list) \cap S : \E k \in D : list[k] = x
  BY DEF At, Range
<1>8. \A k, l \in D : list[k] = list[l] => k = l
  BY <1>1 DEF At, IsInjective
<1> HIDE DEF D, N, nth
<1>9. only \in Seq(Slots) /\ DOMAIN only = 1 .. N
  BY <1>3, <1>4, <1>6
<1>10. IsInjective(only)
  <2> SUFFICES ASSUME NEW m \in 1 .. N, NEW q \in 1 .. N, list[nth(m)] = list[nth(q)] PROVE m = q
    BY <1>9 DEF IsInjective
  <2> QED BY <1>4, <1>8
<1>11. Range(only) = Range(list) \cap S
  <2>1. ASSUME NEW x \in Range(list) \cap S PROVE x \in Range(only)
    <3>1. PICK k \in D : list[k] = x
      BY <1>7
    <3>2. Rank(D, k) \in 1 .. N /\ nth(Rank(D, k)) = k
      BY <1>3, <1>4
    <3> QED BY <1>9, <3>1, <3>2 DEF Range
  <2>2. ASSUME NEW x \in Range(only) PROVE x \in Range(list) \cap S
    BY <1>4, <1>6, <1>9, <2>2 DEF Range
  <2> QED BY <2>1, <2>2
<1> QED BY <1>5, <1>9, <1>10, <1>11 DEF Lists

LEMMA Joined ==
  ASSUME NEW s \in Lists, NEW t \in Lists, Range(s) \cap Range(t) = {}
  PROVE  s \o t \in Lists /\ Range(s \o t) = Range(s) \cup Range(t)
<1> DEFINE m == Len(s)
           n == Len(t)
           c == s \o t
<1>1. s \in Seq(Slots) /\ t \in Seq(Slots) /\ IsInjective(s) /\ IsInjective(t)
  BY DEF Lists
<1>2. m \in Nat /\ n \in Nat /\ DOMAIN s = 1 .. m /\ DOMAIN t = 1 .. n
  BY <1>1
<1>3. /\ c \in Seq(Slots) /\ Len(c) = m + n /\ DOMAIN c = 1 .. m + n
      /\ \A i \in 1 .. m + n : c[i] = IF i =< m THEN s[i] ELSE t[i - m]
  <2>1. c \in Seq(Slots)
    BY <1>1
  <2>2. Len(c) = m + n /\ \A i \in 1 .. m + n : c[i] = IF i =< m THEN s[i] ELSE t[i - m]
    BY <1>1, ConcatProperties
  <2>3. DOMAIN c = 1 .. Len(c)
    BY <2>1
  <2> HIDE DEF c, m, n
  <2> QED BY <2>1, <2>2, <2>3
<1> HIDE DEF m, n, c
<1>4. \A i \in 1 .. m + n : \/ i \in 1 .. m /\ c[i] = s[i]
                            \/ i - m \in 1 .. n /\ c[i] = t[i - m] /\ i > m
  BY <1>2, <1>3
<1>5. \A i \in 1 .. m : i \in 1 .. m + n /\ c[i] = s[i]
  BY <1>2, <1>3
<1>6. \A i \in 1 .. n : m + i \in 1 .. m + n /\ c[m + i] = t[i]
  <2> TAKE i \in 1 .. n
  <2>1. i \in Int /\ m + i \in 1 .. m + n /\ (m + i) - m = i /\ ~(m + i =< m)
    BY <1>2
  <2> QED BY <1>3, <2>1
<1>7. Range(c) = Range(s) \cup Range(t)
  <2>1. Range(s) = {s[i] : i \in 1 .. m} /\ Range(t) = {t[i] : i \in 1 .. n}
        /\ Range(c) = {c[i] : i \in 1 .. m + n}
    BY <1>2, <1>3 DEF Range
  <2>2. Range(c) \subseteq Range(s) \cup Range(t)
    BY <1>4, <2>1
  <2>3. Range(s) \subseteq Range(c) /\ Range(t) \subseteq Range(c)
    BY <1>5, <1>6, <2>1
  <2> QED BY <2>2, <2>3
<1>8. IsInjective(c)
  <2> SUFFICES ASSUME NEW i \in 1 .. m + n, NEW j \in 1 .. m + n, c[i] = c[j] PROVE i = j
    BY <1>3 DEF IsInjective
  <2>1. \A k \in 1 .. m, l \in 1 .. n : s[k] # t[l]
    BY <1>2 DEF Range
  <2>2. \A k, l \in 1 .. m : s[k] = s[l] => k = l
    BY <1>1, <1>2 DEF IsInjective
  <2>3. \A k, l \in 1 .. n : t[k] = t[l] => k = l
    BY <1>1, <1>2 DEF IsInjective
  <2>4. CASE i \in 1 .. m /\ j \in 1 .. m
    BY <1>5, <2>2, <2>4
  <2>5. CASE i - m \in 1 .. n /\ j - m \in 1 .. n /\ c[i] = t[i - m] /\ c[j] = t[j - m]
    <3>1. i - m = j - m
      BY <2>3, <2>5
    <3> QED BY <1>2, <3>1
  <2> QED BY <1>4, <2>1, <2>4, <2>5
<1> QED BY <1>3, <1>7, <1>8 DEF Lists, c

LEMMA ToHeadList ==
  ASSUME NEW list \in Lists, NEW i \in Range(list)
  PROVE  ToHead(list, i) \in Lists /\ Range(ToHead(list, i)) = Range(list)
<1>1. i \in Slots /\ Range(list) \subseteq Slots
  BY DEF Lists, Range
<1>2. <<i>> \in Lists /\ Range(<<i>>) = {i}
  BY <1>1 DEF Lists, IsInjective, Range
<1> DEFINE rest == Only(list, Slots \ {i})
<1>3. rest \in Lists /\ Range(rest) = Range(list) \ {i}
  BY <1>1, OnlyList
<1> HIDE DEF rest
<1>4. <<i>> \o rest \in Lists /\ Range(<<i>> \o rest) = Range(list)
  BY <1>2, <1>3, Joined
<1> QED BY <1>4 DEF ToHead, rest

LEMMA ToTailList ==
  ASSUME NEW list \in Lists, NEW S \in SUBSET Range(list)
  PROVE  ToTail(list, S) \in Lists /\ Range(ToTail(list, S)) = Range(list)
<1>1. Range(list) \subseteq Slots
  BY DEF Lists, Range
<1>2. Array \in Lists /\ Range(Array) = Slots
  BY BoundAssumption DEF Lists, IsInjective, Range, Array, Slots
<1> DEFINE s == Only(list, Slots \ S)
           t == Only(Array, S)
<1>3. s \in Lists /\ Range(s) = Range(list) \ S
  BY <1>1, OnlyList
<1>4. t \in Lists /\ Range(t) = S
  BY <1>1, <1>2, OnlyList
<1> HIDE DEF s, t
<1>5. s \o t \in Lists /\ Range(s \o t) = Range(list)
  BY <1>3, <1>4, Joined
<1> QED BY <1>5 DEF ToTail, s, t

(***************************************************************************)
(* A search finds a member of the list, or there is none.                  *)
(***************************************************************************)
LEMMA Found ==
  ASSUME NEW list \in Lists, NEW S
  PROVE  /\ FromHead(list, S) = None => Range(list) \cap S = {}
         /\ FromHead(list, S) # None => FromHead(list, S) \in Range(list) \cap S
         /\ FromTail(list, S) = None => Range(list) \cap S = {}
         /\ FromTail(list, S) # None => FromTail(list, S) \in Range(list) \cap S
<1> DEFINE D == At(list, S)
<1>1. /\ Len(list) \in Nat /\ DOMAIN list = 1 .. Len(list) /\ D \in SUBSET (1 .. Len(list))
      /\ D \in SUBSET Nat
      /\ \A k \in DOMAIN list : list[k] \in Slots
  BY DEF Lists, At
<1>2. \A k \in D : list[k] \in Range(list) \cap S /\ list[k] # None
  BY <1>1 DEF At, Range, Slots, None
<1>3. CASE D = {}
  BY <1>3 DEF FromHead, FromTail, At, Range
<1>4. CASE D # {}
  <2>1. Min(D) \in D /\ Max(D) \in D
    <3> HIDE DEF D
    <3> QED BY <1>1, <1>4, Least, Greatest
  <2>2. FromHead(list, S) = list[Min(D)] /\ FromTail(list, S) = list[Max(D)]
    BY <1>4 DEF FromHead, FromTail
  <2> QED BY <1>2, <2>1, <2>2
<1> QED BY <1>3, <1>4
-----------------------------------------------------------------------------
(***************************************************************************)
(* A cache the CL can have: each process that is connected is in one slot, *)
(* under the name of its executable, and that slot is in the list.  A slot *)
(* without a process is neither active nor locked.                         *)
(***************************************************************************)
Names    == Exe \cup {""}
SlotType == [pid : Pids \cup {None}, name : Names, active : BOOLEAN,
             locked : BOOLEAN, pno : Nat]
ChildType == [state : {"none", "up", "gone", "dead"}, exe : Names,
              relinked : BOOLEAN]
Caches == [list : Lists, size : 2 .. MaxSub, pno : Nat \ {0},
           slot : [Slots -> SlotType], child : [Pids -> ChildType]]

Listed(c) == c.list = <<>> \/ Range(c.list) = 1 .. c.size

Registered(c) ==
    /\ \A i \in Slots : Live(c, i) =>
          /\ c.child[c.slot[i].pid].state # "none"
          /\ c.child[c.slot[i].pid].exe = c.slot[i].name
          /\ i \in Range(c.list)
    /\ \A i, j \in Slots : Live(c, i) /\ c.slot[i].pid = c.slot[j].pid => i = j
    /\ \A i \in Slots : ~Live(c, i) => ~Busy(c.slot[i])
    /\ \A p \in Pids : c.child[p].state # "none" => \E i \in Slots : c.slot[i].pid = p

Good(c) == c \in Caches /\ Listed(c) /\ Registered(c)

(***************************************************************************)
(* The tasks of the processes T own the active slots.                      *)
(***************************************************************************)
Alive(c, p) == c.child[p].state \in {"up", "gone"}

Owns(c, T) ==
    /\ \A p \in T : Alive(c, p) /\ \E i \in Slots : c.slot[i].pid = p /\ c.slot[i].active
    /\ \A i \in Slots : c.slot[i].active /\ Alive(c, c.slot[i].pid) => c.slot[i].pid \in T

(***************************************************************************)
(* The processes that are locked and up.                                   *)
(***************************************************************************)
Held(c) == {p \in Pids : /\ c.child[p].state = "up"
                         /\ \E i \in Slots : c.slot[i].pid = p /\ c.slot[i].locked}

Keeps(c, d) == Good(d) /\ \A T \in SUBSET Pids : Owns(c, T) => Owns(d, T)

(***************************************************************************)
(* Types of the parts.                                                     *)
(***************************************************************************)
LEMMA Parts ==
  ASSUME NEW c \in Caches
  PROVE  /\ c.list \in Lists /\ c.size \in 2 .. MaxSub /\ c.pno \in Nat \ {0}
         /\ \A i \in Slots : c.slot[i] \in SlotType
         /\ \A i \in Slots : c.slot[i].pid \in Pids \cup {None}
         /\ \A p \in Pids : c.child[p] \in ChildType
         /\ Range(c.list) \subseteq Slots
         /\ c.list = <<>> <=> Range(c.list) = {}
<1>1. c.list \in Lists /\ c.size \in 2 .. MaxSub /\ c.pno \in Nat \ {0}
  BY DEF Caches
<1>2. c.slot \in [Slots -> SlotType] /\ c.child \in [Pids -> ChildType]
  BY DEF Caches
<1>3. \A i \in Slots : c.slot[i] \in SlotType
  BY <1>2
<1>4. \A i \in Slots : c.slot[i].pid \in Pids \cup {None}
  BY <1>3 DEF SlotType
<1>5. c.list \in Seq(Slots)
  BY <1>1 DEF Lists
<1>6. Range(c.list) \subseteq Slots
  BY <1>5 DEF Range
<1>7. c.list = <<>> <=> Range(c.list) = {}
  <2> DEFINE list == c.list
  <2>1. list \in Seq(Slots) /\ Range(list) = {list[k] : k \in DOMAIN list}
    BY <1>5 DEF Range
  <2> HIDE DEF list
  <2>2. DOMAIN list = 1 .. Len(list) /\ Len(list) \in Nat
    BY <2>1
  <2>3. list = <<>> <=> Len(list) = 0
    BY <2>1, EmptySeq
  <2>4. Range(list) = {} <=> Len(list) = 0
    <3>1. CASE Len(list) = 0
      BY <2>1, <2>2, <3>1
    <3>2. CASE Len(list) # 0
      <4>1. 1 \in DOMAIN list
        BY <2>2, <3>2
      <4> QED BY <2>1, <3>2, <4>1
    <3> QED BY <3>1, <3>2
  <2> QED BY <2>3, <2>4 DEF list
<1> QED BY <1>1, <1>2, <1>3, <1>4, <1>6, <1>7

LEMMA GoodParts ==
  ASSUME NEW c, Good(c)
  PROVE  /\ c \in Caches
         /\ \A i \in Slots : Live(c, i) => c.slot[i].pid \in Pids /\ i \in Range(c.list)
         /\ \A i \in Slots : Live(c, i) => c.child[c.slot[i].pid].state # "none"
         /\ \A i \in Slots : Busy(c.slot[i]) => Live(c, i)
         /\ \A i, j \in Slots : Live(c, i) /\ c.slot[i].pid = c.slot[j].pid => i = j
         /\ \A p \in Pids : c.child[p].state # "none" =>
               \E i \in Slots : c.slot[i].pid = p /\ Live(c, i)
<1>1. c \in Caches /\ Registered(c)
  BY DEF Good
<1>2. \A i \in Slots : Live(c, i) => c.slot[i].pid \in Pids
  BY <1>1, Parts DEF Live
<1>3. \A p \in Pids, i \in Slots : c.slot[i].pid = p => Live(c, i)
  BY DEF Pids, None, Live
<1> QED BY <1>1, <1>2, <1>3 DEF Registered

(***************************************************************************)
(* The order of the list, flags and states may change.                     *)
(***************************************************************************)
Similar(c, d) ==
    /\ d \in Caches /\ d.size = c.size /\ Range(d.list) = Range(c.list)
    /\ \A i \in Slots : /\ d.slot[i].pid = c.slot[i].pid
                        /\ d.slot[i].name = c.slot[i].name
                        /\ ~Live(c, i) => ~Busy(d.slot[i])
    /\ \A p \in Pids : /\ d.child[p].state = "none" <=> c.child[p].state = "none"
                       /\ d.child[p].exe = c.child[p].exe

LEMMA SimilarGood == ASSUME NEW c, NEW d, Good(c), Similar(c, d) PROVE Good(d)
<1>0. c \in Caches /\ d \in Caches
  BY DEF Good, Similar
<1>1. Listed(d)
  <2>1. c.list = <<>> <=> d.list = <<>>
    BY <1>0, Parts DEF Similar
  <2> QED BY <2>1 DEF Similar, Listed, Good
<1>2. \A i \in Slots : Live(d, i) <=> Live(c, i)
  BY DEF Similar, Live
<1>3. \A i \in Slots : Live(c, i) => c.slot[i].pid \in Pids
  BY GoodParts
<1>4. Registered(d)
  BY <1>2, <1>3 DEF Good, Registered, Similar
<1> QED BY <1>0, <1>1, <1>4 DEF Good

(***************************************************************************)
(* The processes of some slots are closed.                                 *)
(***************************************************************************)
Emptied(c, d, S) ==
    /\ d \in Caches /\ d.size = c.size /\ Range(d.list) = Range(c.list)
    /\ \A i \in S : ~Live(d, i) /\ ~Busy(d.slot[i])
    /\ \A i \in Slots \ S : d.slot[i] = c.slot[i]
    /\ \A p \in Pids :
          d.child[p] = IF \E i \in S : c.slot[i].pid = p THEN Closed ELSE c.child[p]

LEMMA EmptiedChild ==
  ASSUME NEW c, NEW d, NEW S, Emptied(c, d, S), NEW p \in Pids
  PROVE  \/ (\E i \in S : c.slot[i].pid = p) /\ d.child[p] = Closed
         \/ ~(\E i \in S : c.slot[i].pid = p) /\ d.child[p] = c.child[p]
BY DEF Emptied

LEMMA EmptiedGood ==
  ASSUME NEW c, NEW d, NEW S \in SUBSET Slots, Good(c), Emptied(c, d, S),
         \A i \in S : Live(c, i)
  PROVE  Good(d)
<1>0. c \in Caches /\ d \in Caches
  BY DEF Good, Emptied
<1>1. Listed(d)
  <2>1. c.list = <<>> <=> d.list = <<>>
    BY <1>0, Parts DEF Emptied
  <2> QED BY <2>1 DEF Emptied, Listed, Good
<1>2. \A i \in Slots : Live(d, i) => i \notin S /\ Live(c, i) /\ d.slot[i] = c.slot[i]
  BY DEF Emptied, Live
<1>3. \A i \in Slots : Live(d, i) => d.child[c.slot[i].pid] = c.child[c.slot[i].pid]
  <2> SUFFICES ASSUME NEW i \in Slots, Live(d, i)
               PROVE  d.child[c.slot[i].pid] = c.child[c.slot[i].pid]
    OBVIOUS
  <2>1. \A j \in S : c.slot[j].pid # c.slot[i].pid
    BY <1>2, GoodParts
  <2> QED BY <1>2, <2>1, GoodParts DEF Emptied
<1>4. \A p \in Pids : d.child[p].state # "none" => \E i \in Slots : d.slot[i].pid = p
  <2> SUFFICES ASSUME NEW p \in Pids, d.child[p].state # "none"
               PROVE  \E i \in Slots : d.slot[i].pid = p
    OBVIOUS
  <2>0. Closed.state = "none"
    BY DEF Closed
  <2>1. ~(\E i \in S : c.slot[i].pid = p) /\ d.child[p] = c.child[p]
    BY <2>0, EmptiedChild
  <2>2. PICK i \in Slots : c.slot[i].pid = p
    BY <2>1, GoodParts
  <2> QED BY <2>1, <2>2 DEF Emptied
<1>5. \A i \in Slots : ~Live(d, i) => ~Busy(d.slot[i])
  <2>1. ASSUME NEW i \in Slots \ S, ~Live(d, i) PROVE ~Busy(d.slot[i])
    BY <2>1, GoodParts DEF Emptied, Live
  <2> QED BY <2>1 DEF Emptied
<1>6. Registered(d)
  <2>1. \A i, j \in Slots : Live(d, i) /\ d.slot[i].pid = d.slot[j].pid => i = j
    BY <1>2, GoodParts DEF Live
  <2> QED BY <1>2, <1>3, <1>4, <1>5, <2>1 DEF Registered, Good, Emptied
<1> QED BY <1>0, <1>1, <1>6 DEF Good

LEMMA EmptiedOwns ==
  ASSUME NEW c, NEW d, NEW S \in SUBSET Slots, Good(c), Emptied(c, d, S),
         \A i \in S : Live(c, i) /\ ~(c.slot[i].active /\ Alive(c, c.slot[i].pid))
  PROVE  \A T \in SUBSET Pids : Owns(c, T) => Owns(d, T)
<1> SUFFICES ASSUME NEW T \in SUBSET Pids, Owns(c, T) PROVE Owns(d, T)
  OBVIOUS
<1>1. ASSUME NEW p \in T
      PROVE  Alive(d, p) /\ \E i \in Slots : d.slot[i].pid = p /\ d.slot[i].active
  <2>1. PICK i \in Slots : c.slot[i].pid = p /\ c.slot[i].active /\ Alive(c, p)
    BY DEF Owns
  <2>2. i \notin S /\ Live(c, i)
    BY <2>1 DEF Live, Pids, None
  <2>3. \A j \in S : c.slot[j].pid # p
    BY <2>1, <2>2, GoodParts
  <2> QED BY <2>1, <2>2, <2>3 DEF Emptied, Alive
<1>2. ASSUME NEW i \in Slots, d.slot[i].active, Alive(d, d.slot[i].pid)
      PROVE  d.slot[i].pid \in T
  <2>1. i \notin S
    BY <1>2 DEF Emptied, Busy
  <2>2. d.slot[i] = c.slot[i] /\ c.slot[i].pid \in Pids
    BY <1>2, <2>1, GoodParts DEF Emptied, Busy
  <2>3. Alive(c, c.slot[i].pid)
    <3>1. Closed.state \notin {"up", "gone"}
      BY DEF Closed
    <3>2. d.child[d.slot[i].pid] = c.child[c.slot[i].pid]
      BY <1>2, <2>2, <3>1, EmptiedChild DEF Alive
    <3> QED BY <1>2, <3>2 DEF Alive
  <2> QED BY <1>2, <2>2, <2>3 DEF Owns
<1> QED BY <1>1, <1>2 DEF Owns

LEMMA EmptiedHeld ==
  ASSUME NEW c, NEW d, NEW S \in SUBSET Slots, Good(c), Emptied(c, d, S),
         \A i \in S : Live(c, i) /\ ~(c.slot[i].locked /\ c.child[c.slot[i].pid].state = "up")
  PROVE  Held(c) \subseteq Held(d)
<1> SUFFICES ASSUME NEW p \in Held(c) PROVE p \in Held(d)
  OBVIOUS
<1>1. PICK i \in Slots : c.slot[i].pid = p /\ c.slot[i].locked /\ p \in Pids
                         /\ c.child[p].state = "up"
  BY DEF Held
<1>2. i \notin S /\ Live(c, i)
  BY <1>1 DEF Live, Pids, None
<1>3. \A j \in S : c.slot[j].pid # p
  BY <1>1, <1>2, GoodParts
<1> QED BY <1>1, <1>2, <1>3 DEF Emptied, Held
-----------------------------------------------------------------------------
(***************************************************************************)
(* The procedures that disconnect.                                         *)
(***************************************************************************)
Closing(c, S) == {i \in S : Live(c, i) /\ ~Busy(c.slot[i])}

LEMMA Vacancy ==
  ASSUME NEW c \in Caches, NEW i \in Slots
  PROVE  Vacant(c, i) \in SlotType /\ Vacant(c, i).pid = None /\ ~Busy(Vacant(c, i))
<1>1. c.slot[i].name \in Names
  BY Parts DEF SlotType
<1> QED BY <1>1 DEF Vacant, Empty, SlotType, Busy

LEMMA PDisconnectEmpties ==
  ASSUME NEW c, Good(c), NEW S \in SUBSET Slots
  PROVE  Emptied(c, PDisconnect(c, S), Closing(c, S)) /\ PDisconnect(c, S).pno = c.pno
<1> DEFINE closed == Closing(c, S)
           pids == {c.slot[i].pid : i \in closed}
           list == ToTail(c.list, closed)
           slot == [i \in Slots |-> IF i \in closed THEN Vacant(c, i) ELSE c.slot[i]]
           child == [p \in Pids |-> IF p \in pids THEN Closed ELSE c.child[p]]
           d == [c EXCEPT !.list = list, !.slot = slot, !.child = child]
<1>1. c \in Caches /\ closed \in SUBSET Slots /\ closed \in SUBSET Range(c.list)
  BY GoodParts DEF Closing
<1>2. list \in Lists /\ Range(list) = Range(c.list)
  BY <1>1, Parts, ToTailList
<1>3. slot \in [Slots -> SlotType]
  BY <1>1, Parts, Vacancy
<1>4. child \in [Pids -> ChildType]
  <2>1. Closed \in ChildType
    BY DEF Closed, ChildType, Names
  <2> HIDE DEF pids
  <2> QED BY <1>1, <2>1, Parts
<1>5. PDisconnect(c, S) = d
  BY DEF PDisconnect, Closing
<1>6. \A i \in closed : slot[i].pid = None /\ ~Busy(slot[i])
  BY <1>1, Vacancy
<1>7. \A i \in Slots \ closed : slot[i] = c.slot[i]
  OBVIOUS
<1>8. \A p \in Pids : child[p] = IF \E i \in closed : c.slot[i].pid = p THEN Closed ELSE c.child[p]
  OBVIOUS
<1> HIDE DEF list, slot, child
<1>9. d \in Caches /\ d.size = c.size /\ d.list = list /\ d.slot = slot /\ d.child = child
      /\ d.pno = c.pno
  BY <1>1, <1>2, <1>3, <1>4 DEF Caches
<1> HIDE DEF d, closed
<1>10. Emptied(c, d, closed)
  BY <1>2, <1>6, <1>7, <1>8, <1>9 DEF Emptied, Live
<1> QED BY <1>5, <1>9, <1>10 DEF closed

LEMMA PDisconnectKeeps ==
  ASSUME NEW c, Good(c), NEW S \in SUBSET Slots
  PROVE  LET d == PDisconnect(c, S)
         IN  Keeps(c, d) /\ Held(c) \subseteq Held(d) /\ d.pno = c.pno
<1>1. Closing(c, S) \in SUBSET Slots /\ Emptied(c, PDisconnect(c, S), Closing(c, S))
      /\ PDisconnect(c, S).pno = c.pno
  BY PDisconnectEmpties DEF Closing
<1>2. \A i \in Closing(c, S) : Live(c, i) /\ ~c.slot[i].active /\ ~c.slot[i].locked
  BY DEF Closing, Busy
<1> QED BY <1>1, <1>2, EmptiedGood, EmptiedOwns, EmptiedHeld DEF Keeps

(***************************************************************************)
(* The flags of some slots are reset: of dead processes, of idle ones, or  *)
(* of those of some tasks.                                                 *)
(***************************************************************************)
Flagged(c, d) ==
    /\ d.size = c.size /\ d.list = c.list /\ d.child = c.child /\ d.pno \in Nat \ {0}
    /\ \A i \in Slots : /\ d.slot[i].pid = c.slot[i].pid
                        /\ d.slot[i].name = c.slot[i].name
                        /\ d.slot[i].active => c.slot[i].active
                        /\ d.slot[i].locked => c.slot[i].locked

LEMMA FlaggedGood ==
  ASSUME NEW c, NEW d \in Caches, Good(c), Flagged(c, d) PROVE Good(d)
<1>1. Similar(c, d)
  BY GoodParts DEF Similar, Flagged, Busy
<1> QED BY <1>1, SimilarGood

LEMMA FlaggedOwns ==
  ASSUME NEW c, NEW d \in Caches, Good(c), Flagged(c, d), NEW P,
         \A i \in Slots : c.slot[i].active /\ Alive(c, c.slot[i].pid) =>
            (d.slot[i].active <=> c.slot[i].pid \notin P)
  PROVE  \A T \in SUBSET Pids : Owns(c, T) => Owns(d, T \ P)
<1> SUFFICES ASSUME NEW T \in SUBSET Pids, Owns(c, T) PROVE Owns(d, T \ P)
  OBVIOUS
<1>1. ASSUME NEW p \in T \ P
      PROVE  Alive(d, p) /\ \E i \in Slots : d.slot[i].pid = p /\ d.slot[i].active
  <2>1. PICK i \in Slots : c.slot[i].pid = p /\ c.slot[i].active /\ Alive(c, p)
    BY DEF Owns
  <2> QED BY <2>1 DEF Flagged, Alive
<1>2. ASSUME NEW i \in Slots, d.slot[i].active, Alive(d, d.slot[i].pid)
      PROVE  d.slot[i].pid \in T \ P
  <2>1. d.slot[i].pid = c.slot[i].pid /\ c.slot[i].active /\ Alive(c, c.slot[i].pid)
    BY <1>2 DEF Flagged, Alive
  <2> QED BY <1>2, <2>1 DEF Owns
<1> QED BY <1>1, <1>2 DEF Owns

LEMMA FlaggedHeld ==
  ASSUME NEW c, NEW d \in Caches, Good(c), Flagged(c, d),
         \A i \in Slots : c.slot[i].locked /\ c.child[c.slot[i].pid].state = "up" =>
            d.slot[i].locked
  PROVE  Held(c) \subseteq Held(d)
<1> SUFFICES ASSUME NEW p \in Held(c) PROVE p \in Held(d)
  OBVIOUS
<1>1. PICK i \in Slots : c.slot[i].pid = p /\ c.slot[i].locked /\ p \in Pids
                         /\ c.child[p].state = "up"
  BY DEF Held
<1> QED BY <1>1 DEF Flagged, Held

LEMMA KeepsTwice ==
  ASSUME NEW a, NEW b, NEW c, Keeps(a, b), Keeps(b, c) PROVE Keeps(a, c)
BY DEF Keeps
LEMMA Flags ==
  ASSUME NEW c \in Caches, NEW i \in Slots, NEW break \in BOOLEAN
  PROVE  LET s == c.slot[i]
             f == Freed(c, i)
             u == Unlocked(c, i, break)
             e == Idle(c, i)
         IN  /\ f \in SlotType /\ f.pid = s.pid /\ f.name = s.name /\ ~f.active /\ ~f.locked
             /\ u \in SlotType /\ u.pid = s.pid /\ u.name = s.name /\ u.active = s.active
             /\ u.locked <=> s.locked /\ ~(break /\ ~s.active)
             /\ e \in SlotType /\ e.pid = s.pid /\ e.name = s.name /\ ~e.active
             /\ e.locked = s.locked
<1> DEFINE s == c.slot[i]
<1>1. s \in SlotType
  BY Parts
<1> HIDE DEF s
<1>2. [s EXCEPT !.active = FALSE, !.locked = FALSE] \in SlotType
      /\ [s EXCEPT !.active = FALSE] \in SlotType
  BY <1>1 DEF SlotType
<1> DEFINE l == s.locked /\ ~(break /\ ~s.active)
<1>3. l \in BOOLEAN
  OBVIOUS
<1> HIDE DEF l
<1>4. /\ [s EXCEPT !.locked = l] \in SlotType
      /\ [s EXCEPT !.locked = l].locked = l
      /\ [s EXCEPT !.locked = l].pid = s.pid
      /\ [s EXCEPT !.locked = l].name = s.name
      /\ [s EXCEPT !.locked = l].active = s.active
  BY <1>1, <1>3 DEF SlotType
<1>5. Unlocked(c, i, break) = [s EXCEPT !.locked = l]
  BY DEF Unlocked, s, l
<1>6. Freed(c, i) = [s EXCEPT !.active = FALSE, !.locked = FALSE]
      /\ Idle(c, i) = [s EXCEPT !.active = FALSE]
  BY DEF Freed, Idle, s
<1>7. /\ [s EXCEPT !.active = FALSE, !.locked = FALSE].pid = s.pid
      /\ [s EXCEPT !.active = FALSE, !.locked = FALSE].name = s.name
      /\ [s EXCEPT !.active = FALSE, !.locked = FALSE].active = FALSE
      /\ [s EXCEPT !.active = FALSE, !.locked = FALSE].locked = FALSE
  BY <1>1 DEF SlotType
<1>8. /\ [s EXCEPT !.active = FALSE].pid = s.pid
      /\ [s EXCEPT !.active = FALSE].name = s.name
      /\ [s EXCEPT !.active = FALSE].active = FALSE
      /\ [s EXCEPT !.active = FALSE].locked = s.locked
  BY <1>1 DEF SlotType
<1>9. l <=> s.locked /\ ~(break /\ ~s.active)
  BY DEF l
<1>10. c.slot[i] = s
  BY DEF s
<1> QED BY <1>2, <1>4, <1>5, <1>6, <1>7, <1>8, <1>9, <1>10

(***************************************************************************)
(* What is left is as it was.                                              *)
(***************************************************************************)
Trimmed(c, d) ==
    /\ d.size = c.size /\ Range(d.list) = Range(c.list)
    /\ \A i \in Slots : Live(d, i) => d.slot[i] = c.slot[i]
    /\ \A p \in Pids : d.child[p] = c.child[p] \/ d.child[p] = Closed

LEMMA EmptiedTrims ==
  ASSUME NEW c, NEW d, NEW S \in SUBSET Slots, Emptied(c, d, S)
  PROVE  Trimmed(c, d)
<1>1. \A i \in Slots : Live(d, i) => d.slot[i] = c.slot[i]
  BY DEF Emptied
<1>2. \A p \in Pids : d.child[p] = c.child[p] \/ d.child[p] = Closed
  BY EmptiedChild
<1> QED BY <1>1, <1>2 DEF Trimmed, Emptied

LEMMA PDisconnectTrims ==
  ASSUME NEW c, Good(c), NEW S \in SUBSET Slots
  PROVE  Trimmed(c, PDisconnect(c, S))
<1>1. Closing(c, S) \in SUBSET Slots
  BY DEF Closing
<1> QED BY <1>1, PDisconnectEmpties, EmptiedTrims

(***************************************************************************)
(* PR_CHECKUP frees and empties the slots of the processes that are dead.  *)
(***************************************************************************)
DeadIn(c) == {i \in Slots : c.slot[i].pid \in {p \in Pids : c.child[p].state = "dead"}}

LEMMA CheckUpIs ==
  ASSUME NEW c, Good(c)
  PROVE  \/ CheckUp(c) = c /\ \A p \in Pids : c.child[p].state # "dead"
         \/ \E b \in Caches :
               /\ CheckUp(c) = PDisconnect(b, DeadIn(c)) /\ Good(b)
               /\ Flagged(c, b) /\ b.pno = c.pno
               /\ \A i \in DeadIn(c) : ~Busy(b.slot[i])
               /\ \A i \in Slots \ DeadIn(c) : b.slot[i] = c.slot[i]
<1> DEFINE dead == {p \in Pids : c.child[p].state = "dead"}
           held == DeadIn(c)
           slot == [i \in Slots |-> IF i \in held THEN Freed(c, i) ELSE c.slot[i]]
           b == [c EXCEPT !.slot = slot]
<1>1. CASE dead = {}
  <2>1. CheckUp(c) = c
    BY <1>1 DEF CheckUp
  <2> QED BY <1>1, <2>1
<1>2. CASE dead # {}
  <2>1. CheckUp(c) = PDisconnect(b, held)
    BY <1>2 DEF CheckUp, DeadIn
  <2>2. c \in Caches /\ held \in SUBSET Slots
    BY DEF Good, DeadIn
  <2> HIDE DEF held
  <2>3. slot \in [Slots -> SlotType]
    <3>1. FALSE \in BOOLEAN
      OBVIOUS
    <3>2. \A i \in Slots : Freed(c, i) \in SlotType /\ c.slot[i] \in SlotType
      BY <2>2, <3>1, Flags, Parts
    <3> QED BY <3>2
  <2>4. \A i \in held : slot[i].pid = c.slot[i].pid /\ slot[i].name = c.slot[i].name
                        /\ ~slot[i].active /\ ~slot[i].locked
    <3>1. FALSE \in BOOLEAN
      OBVIOUS
    <3> QED BY <2>2, <3>1, Flags
  <2>5. \A i \in Slots \ held : slot[i] = c.slot[i]
    OBVIOUS
  <2> HIDE DEF slot
  <2>6. /\ b \in Caches /\ b.slot = slot /\ b.list = c.list /\ b.size = c.size
        /\ b.child = c.child /\ b.pno = c.pno
    BY <2>2, <2>3 DEF Caches
  <2> HIDE DEF b
  <2>7. Flagged(c, b)
    <3>1. c.pno \in Nat \ {0}
      BY <2>2, Parts
    <3> QED BY <2>4, <2>5, <2>6, <3>1 DEF Flagged
  <2>8. Good(b)
    BY <2>6, <2>7, FlaggedGood
  <2>9. \A i \in held : ~Busy(b.slot[i])
    BY <2>4, <2>6 DEF Busy
  <2> QED BY <2>1, <2>5, <2>6, <2>7, <2>8, <2>9 DEF held
<1> QED BY <1>1, <1>2

LEMMA CheckUpKeeps ==
  ASSUME NEW c, Good(c)
  PROVE  LET d == CheckUp(c)
         IN  /\ Keeps(c, d) /\ Held(c) \subseteq Held(d) /\ Trimmed(c, d)
             /\ d.pno = c.pno
             /\ \A p \in Pids : d.child[p].state # "dead"
<1> DEFINE held == DeadIn(c)
           d == CheckUp(c)
<1>1. CASE d = c /\ \A p \in Pids : c.child[p].state # "dead"
  <2>1. Trimmed(c, c) /\ Keeps(c, c)
    BY DEF Trimmed, Keeps
  <2> HIDE DEF d
  <2> QED BY <1>1, <2>1 DEF d
<1>2. ASSUME NEW b \in Caches, d = PDisconnect(b, held), Good(b), Flagged(c, b), b.pno = c.pno,
             \A i \in held : ~Busy(b.slot[i]),
             \A i \in Slots \ held : b.slot[i] = c.slot[i]
      PROVE  /\ Keeps(c, d) /\ Held(c) \subseteq Held(d) /\ Trimmed(c, d) /\ d.pno = c.pno
             /\ \A p \in Pids : d.child[p].state # "dead"
  <2>1. /\ held \in SUBSET Slots
        /\ \A i \in held : c.child[c.slot[i].pid].state = "dead" /\ c.slot[i].pid \in Pids
        /\ \A p \in Pids, i \in Slots : c.slot[i].pid = p /\ c.child[p].state = "dead" => i \in held
    BY DEF DeadIn
  <2> HIDE DEF held, d
  <2>2. Keeps(c, b)
    <3>1. \A i \in Slots : c.slot[i].active /\ Alive(c, c.slot[i].pid) =>
            (b.slot[i].active <=> c.slot[i].pid \notin {})
      BY <1>2, <2>1 DEF Alive
    <3>2. \A T \in SUBSET Pids : Owns(c, T) => Owns(b, T \ {})
      BY <1>2, <3>1, FlaggedOwns
    <3>3. \A T \in SUBSET Pids : T \ {} = T
      OBVIOUS
    <3> QED BY <1>2, <3>2, <3>3 DEF Keeps
  <2>3. Held(c) \subseteq Held(b)
    <3>1. \A i \in Slots : c.slot[i].locked /\ c.child[c.slot[i].pid].state = "up" =>
            b.slot[i].locked
      BY <1>2, <2>1
    <3> QED BY <1>2, <3>1, FlaggedHeld
  <2>4. Emptied(b, d, Closing(b, held)) /\ d.pno = b.pno
        /\ Keeps(b, d) /\ Held(b) \subseteq Held(d)
    BY <1>2, <2>1, PDisconnectEmpties, PDisconnectKeeps
  <2>5. Closing(b, held) = held
    <3>1. \A i \in held : Live(b, i)
      BY <1>2, <2>1 DEF Flagged, Live, Pids, None
    <3> QED BY <1>2, <3>1 DEF Closing
  <2>6. \A p \in Pids : d.child[p].state # "dead"
    <3> SUFFICES ASSUME NEW p \in Pids, d.child[p].state = "dead" PROVE FALSE
      OBVIOUS
    <3>1. Closed.state # "dead"
      BY DEF Closed
    <3>2. ~(\E i \in held : b.slot[i].pid = p) /\ c.child[p].state = "dead"
      BY <1>2, <2>4, <2>5, <3>1, EmptiedChild DEF Flagged
    <3>3. PICK i \in Slots : c.slot[i].pid = p
      BY <3>2, GoodParts
    <3>4. i \in held /\ b.slot[i].pid = p
      BY <1>2, <2>1, <3>2, <3>3 DEF Flagged
    <3> QED BY <3>2, <3>4
  <2>7. Trimmed(c, d)
    <3>1. \A i \in Slots : Live(d, i) => i \notin held
      BY <2>4, <2>5 DEF Emptied
    <3>2. \A i \in Slots : Live(d, i) => d.slot[i] = c.slot[i]
      BY <1>2, <2>4, <2>5, <3>1 DEF Emptied
    <3>3. Trimmed(b, d)
      BY <2>1, <2>4, <2>5, EmptiedTrims
    <3> QED BY <1>2, <3>2, <3>3 DEF Trimmed, Flagged
  <2> QED BY <1>2, <2>2, <2>3, <2>4, <2>6, <2>7, KeepsTwice
<1> HIDE DEF d
<1> QED BY <1>1, <1>2, CheckUpIs DEF d

LEMMA TrimmedTwice ==
  ASSUME NEW a, NEW b, NEW c, Trimmed(a, b), Trimmed(b, c) PROVE Trimmed(a, c)
BY DEF Trimmed, Live

LEMMA PruneCacheKeeps ==
  ASSUME NEW c, Good(c), NEW pno
  PROVE  Keeps(c, PruneCache(c, pno)) /\ Held(c) \subseteq Held(PruneCache(c, pno))
<1> DEFINE b == CheckUp(c)
           S == {i \in Slots : Younger(b.slot[i], pno)}
<1>1. Keeps(c, b) /\ Held(c) \subseteq Held(b) /\ Good(b) /\ S \in SUBSET Slots
  BY CheckUpKeeps DEF Keeps
<1>2. PruneCache(c, pno) = PDisconnect(b, S)
  BY DEF PruneCache
<1> HIDE DEF b, S
<1>3. Keeps(b, PDisconnect(b, S)) /\ Held(b) \subseteq Held(PDisconnect(b, S))
  BY <1>1, PDisconnectKeeps
<1> QED BY <1>1, <1>2, <1>3, KeepsTwice

LEMMA DumpCacheKeeps ==
  ASSUME NEW c, Good(c), NEW pid, NEW break \in BOOLEAN
  PROVE  LET d == DumpCache(c, pid, break)
         IN  /\ Keeps(c, d)
             /\ ~break => Held(c) \subseteq Held(d)
             /\ break /\ pid = None /\ (\A i \in Slots : ~c.slot[i].active)
                => \A i \in Slots : ~Live(d, i)
<1> DEFINE b == CheckUp(c)
           named == {i \in Slots : Live(b, i) /\ pid \in {None, b.slot[i].pid}}
           slot == [i \in Slots |-> IF i \in named THEN Unlocked(b, i, break) ELSE b.slot[i]]
           pno == IF break THEN 1 ELSE b.pno
           u == [b EXCEPT !.slot = slot, !.pno = pno]
           d == PDisconnect(u, named)
<1>1. Keeps(c, b) /\ Held(c) \subseteq Held(b) /\ Trimmed(c, b) /\ Good(b) /\ b \in Caches
  BY CheckUpKeeps DEF Keeps, Good
<1>2. DumpCache(c, pid, break) = d
  BY DEF DumpCache
<1>3. named \in SUBSET Slots /\ (\A i \in named : Live(b, i))
      /\ (pid = None => \A i \in Slots : Live(b, i) => i \in named)
  OBVIOUS
<1> HIDE DEF b, named
<1>4. \A i \in Slots : Unlocked(b, i, break) \in SlotType /\ b.slot[i] \in SlotType
  BY <1>1, Flags, Parts
<1>5. slot \in [Slots -> SlotType] /\ pno \in Nat \ {0}
  <2>1. b.pno \in Nat \ {0}
    BY <1>1, Parts
  <2> QED BY <1>4, <2>1
<1>6. \A i \in named : /\ slot[i].pid = b.slot[i].pid /\ slot[i].name = b.slot[i].name
                       /\ slot[i].active = b.slot[i].active
                       /\ slot[i].locked <=> b.slot[i].locked /\ ~(break /\ ~b.slot[i].active)
  BY <1>1, <1>3, Flags
<1>7. \A i \in Slots \ named : slot[i] = b.slot[i]
  OBVIOUS
<1> HIDE DEF slot, pno
<1>8. /\ u \in Caches /\ u.slot = slot /\ u.list = b.list /\ u.size = b.size
      /\ u.child = b.child /\ u.pno = pno
  <2>1. b \in Caches
    BY <1>1
  <2> QED BY <2>1, <1>5 DEF Caches
<1> HIDE DEF u
<1>9. Flagged(b, u)
  BY <1>5, <1>6, <1>7, <1>8 DEF Flagged
<1>10. Good(u)
  BY <1>1, <1>8, <1>9, FlaggedGood
<1>11. Keeps(b, u)
  <2>1. \A i \in Slots : b.slot[i].active /\ Alive(b, b.slot[i].pid) =>
          (u.slot[i].active <=> b.slot[i].pid \notin {})
    BY <1>6, <1>7, <1>8
  <2>2. \A T \in SUBSET Pids : Owns(b, T) => Owns(u, T \ {})
    BY <1>1, <1>8, <1>9, <2>1, FlaggedOwns
  <2>3. \A T \in SUBSET Pids : T \ {} = T
    OBVIOUS
  <2> QED BY <1>10, <2>2, <2>3 DEF Keeps
<1>12. ~break => Held(b) \subseteq Held(u)
  <2>1. ~break => \A i \in Slots : b.slot[i].locked => u.slot[i].locked
    BY <1>6, <1>7, <1>8
  <2> QED BY <1>1, <1>8, <1>9, <2>1, FlaggedHeld
<1>13. Keeps(u, d) /\ Held(u) \subseteq Held(d) /\ Emptied(u, d, Closing(u, named))
  BY <1>3, <1>10, PDisconnectKeeps, PDisconnectEmpties
<1>14. ASSUME break, pid = None, \A i \in Slots : ~c.slot[i].active, NEW i \in Slots, Live(d, i)
       PROVE  FALSE
  <2>1. i \notin Closing(u, named) /\ u.slot[i] = d.slot[i] /\ Live(u, i)
    BY <1>13, <1>14 DEF Emptied, Live
  <2>2. Live(b, i)
    BY <1>9, <2>1 DEF Flagged, Live
  <2>3. i \in named /\ ~b.slot[i].active
    BY <1>1, <1>3, <1>14, <2>2 DEF Trimmed
  <2>4. ~Busy(u.slot[i])
    BY <1>6, <1>8, <1>14, <2>3 DEF Busy
  <2> QED BY <2>1, <2>3, <2>4 DEF Closing
<1> HIDE DEF d
<1> QED BY <1>1, <1>2, <1>11, <1>12, <1>13, <1>14, KeepsTwice

(***************************************************************************)
(* PR_DISCONNECT makes the slots of some processes idle.                   *)
(***************************************************************************)
LEMMA SlotOfPid ==
  ASSUME NEW c, Good(c), NEW p \in Pids \cup {None}
  PROVE  /\ SlotOf(c, p) # None => SlotOf(c, p) \in Slots /\ c.slot[SlotOf(c, p)].pid = p
         /\ \A i \in Slots : c.slot[i].pid = p /\ Live(c, i) => SlotOf(c, p) = i
<1> DEFINE S == {i \in Slots : c.slot[i].pid = p}
<1>1. c \in Caches /\ c.list \in Lists
  BY Parts DEF Good
<1>2. /\ SlotOf(c, p) = None => Range(c.list) \cap S = {}
      /\ SlotOf(c, p) # None => SlotOf(c, p) \in Range(c.list) \cap S
  BY <1>1, Found DEF SlotOf
<1>3. \A i \in S : Live(c, i) => i \in Range(c.list)
  BY GoodParts
<1>4. \A i, j \in S : Live(c, i) => i = j
  BY GoodParts
<1>5. Range(c.list) \subseteq Slots
  BY <1>1, Parts
<1> HIDE DEF S
<1>6. \A i \in S : Live(c, i) => SlotOf(c, p) = i
  BY <1>2, <1>3, <1>4
<1> QED BY <1>2, <1>5, <1>6 DEF S

LEMMA DisconnectKeeps ==
  ASSUME NEW c, Good(c), NEW P \in SUBSET (Pids \cup {None})
  PROVE  LET d == Disconnect(c, P)
         IN  /\ Good(d) /\ Held(c) \subseteq Held(d)
             /\ \A T \in SUBSET Pids : Owns(c, T) => Owns(d, T \ P)
<1>1. CASE P = {}
  <2>1. Disconnect(c, P) = c
    BY <1>1 DEF Disconnect
  <2>2. \A T \in SUBSET Pids : T \ P = T
    BY <1>1
  <2> QED BY <2>1, <2>2
<1>2. CASE P # {}
  <2> DEFINE b == CheckUp(c)
             done == {SlotOf(b, p) : p \in P}
             slot == [i \in Slots |-> IF i \in done THEN Idle(b, i) ELSE b.slot[i]]
             d == [b EXCEPT !.slot = slot]
  <2>1. Keeps(c, b) /\ Held(c) \subseteq Held(b) /\ Good(b) /\ b \in Caches
    BY CheckUpKeeps DEF Keeps, Good
  <2>2. Disconnect(c, P) = d
    BY <1>2 DEF Disconnect
  <2>3. \A i \in Slots : Live(b, i) => (i \in done <=> b.slot[i].pid \in P)
    <3>1. ASSUME NEW i \in Slots, Live(b, i), b.slot[i].pid \in P PROVE i \in done
      BY <2>1, <3>1, SlotOfPid
    <3>2. ASSUME NEW i \in Slots, NEW p \in P, SlotOf(b, p) = i PROVE b.slot[i].pid \in P
      <4>1. i # None
        BY DEF Slots, None
      <4> QED BY <2>1, <3>2, <4>1, SlotOfPid
    <3> QED BY <3>1, <3>2
  <2> HIDE DEF b, done
  <2>4. \A i \in Slots : Idle(b, i) \in SlotType /\ b.slot[i] \in SlotType
    BY <2>1, Flags, Parts
  <2>5. slot \in [Slots -> SlotType]
    BY <2>4
  <2>6. \A i \in Slots : /\ slot[i].pid = b.slot[i].pid /\ slot[i].name = b.slot[i].name
                         /\ slot[i].locked = b.slot[i].locked
                         /\ slot[i].active <=> b.slot[i].active /\ i \notin done
    BY <2>1, Flags
  <2> HIDE DEF slot
  <2>7. /\ d \in Caches /\ d.slot = slot /\ d.list = b.list /\ d.size = b.size
        /\ d.child = b.child /\ d.pno = b.pno /\ b.pno \in Nat \ {0}
    <3>1. b \in Caches
      BY <2>1
    <3> QED BY <2>5, <3>1 DEF Caches
  <2> HIDE DEF d
  <2>8. Flagged(b, d)
    BY <2>6, <2>7 DEF Flagged
  <2>9. Good(d)
    BY <2>1, <2>7, <2>8, FlaggedGood
  <2>10. \A T \in SUBSET Pids : Owns(b, T) => Owns(d, T \ P)
    <3>1. \A i \in Slots : b.slot[i].active /\ Alive(b, b.slot[i].pid) =>
            (d.slot[i].active <=> b.slot[i].pid \notin P)
      <4>1. \A i \in Slots : b.slot[i].active => Live(b, i)
        BY <2>1, GoodParts DEF Busy
      <4> QED BY <2>3, <2>6, <2>7, <4>1
    <3> QED BY <2>1, <2>7, <2>8, <3>1, FlaggedOwns
  <2>11. Held(b) \subseteq Held(d)
    <3>1. \A i \in Slots : b.slot[i].locked => d.slot[i].locked
      BY <2>6, <2>7
    <3> QED BY <2>1, <2>7, <2>8, <3>1, FlaggedHeld
  <2> QED BY <2>1, <2>2, <2>9, <2>10, <2>11 DEF Keeps
<1> QED BY <1>1, <1>2

LEMMA LockKeeps ==
  ASSUME NEW c, Good(c), NEW p \in Pids \cup {None}
  PROVE  LET d == Lock(c, p) IN Keeps(c, d) /\ Held(c) \subseteq Held(d)
<1> DEFINE i == SlotOf(c, p)
<1>1. CASE p = None \/ i = None
  <2>1. Lock(c, p) = c
    BY <1>1 DEF Lock
  <2> QED BY <2>1 DEF Keeps
<1>2. CASE p # None /\ i # None
  <2>1. p \in Pids /\ i \in Slots /\ c.slot[i].pid = p /\ c \in Caches
    BY <1>2, SlotOfPid DEF Good
  <2>2. Lock(c, p) = [c EXCEPT !.slot[i].locked = TRUE]
    BY <1>2 DEF Lock
  <2> HIDE DEF i
  <2> DEFINE slot == [c.slot EXCEPT ![i].locked = TRUE]
             d == [c EXCEPT !.slot = slot]
  <2>3. Lock(c, p) = d
    BY <2>1, <2>2 DEF Caches
  <2>4. /\ slot \in [Slots -> SlotType]
        /\ \A j \in Slots : /\ slot[j].pid = c.slot[j].pid /\ slot[j].name = c.slot[j].name
                            /\ slot[j].active = c.slot[j].active
                            /\ c.slot[j].locked => slot[j].locked
        /\ \A j \in Slots \ {i} : slot[j] = c.slot[j]
    BY <2>1 DEF Caches, SlotType
  <2> HIDE DEF slot
  <2>5. /\ d \in Caches /\ d.slot = slot /\ d.list = c.list /\ d.size = c.size
        /\ d.child = c.child /\ c.pno \in Nat \ {0}
    BY <2>1, <2>4 DEF Caches
  <2> HIDE DEF d
  <2>6. Live(c, i)
    BY <2>1, <1>2 DEF Live
  <2>7. Good(d)
    <3>1. Similar(c, d)
      <4>1. \A j \in Slots : ~Live(c, j) => ~Busy(d.slot[j])
        BY <2>4, <2>5, <2>6, GoodParts
      <4> QED BY <2>4, <2>5, <4>1 DEF Similar
    <3> QED BY <3>1, SimilarGood
  <2>8. \A T \in SUBSET Pids : Owns(c, T) => Owns(d, T)
    BY <2>4, <2>5 DEF Owns, Alive
  <2>9. Held(c) \subseteq Held(d)
    BY <2>4, <2>5 DEF Held
  <2> QED BY <2>3, <2>7, <2>8, <2>9 DEF Keeps
<1> QED BY <1>1, <1>2
LEMMA InitCacheKeeps ==
  ASSUME NEW c \in Caches, Registered(c), \A i \in Slots : ~Live(c, i)
  PROVE  LET d == InitCache(c)
         IN  /\ Keeps(c, d) /\ Held(c) = {} /\ d.list # <<>>
             /\ \A i \in Slots : ~Live(d, i)
             /\ \A i \in Slots : ~d.slot[i].active
             /\ \A p \in Pids : d.child[p] = c.child[p] /\ d.child[p].state = "none"
             /\ d.size = c.size /\ Range(d.list) = 1 .. d.size
<1> DEFINE first == 1
           list == [k \in 1 .. c.size |-> c.size + 1 - k]
           slot == [i \in Slots |-> Vacant(c, i)]
           d == [c EXCEPT !.list = list, !.slot = slot, !.pno = first]
<1>1. InitCache(c) = d
  BY DEF InitCache
<1>2. c.size \in 2 .. MaxSub /\ c.size \in Nat /\ MaxSub \in Nat /\ 1 .. c.size \subseteq Slots
  <2>1. c.size \in 2 .. MaxSub
    BY Parts
  <2> QED BY <2>1, BoundAssumption DEF Slots
<1>3. list \in Lists /\ Range(list) = 1 .. c.size /\ list # <<>>
  <2> DEFINE n == c.size
  <2>1. n \in Nat /\ n >= 2 /\ 1 .. n \subseteq Slots
    BY <1>2
  <2> HIDE DEF n
  <2> DEFINE s == [k \in 1 .. n |-> n + 1 - k]
  <2>2. \A k \in 1 .. n : n + 1 - k \in 1 .. n
    BY <2>1
  <2>3. s \in Seq(Slots) /\ DOMAIN s = 1 .. n
    BY <2>1, <2>2
  <2>4. IsInjective(s)
    BY <2>1, <2>3 DEF IsInjective
  <2>5. \A x \in 1 .. n : n + 1 - x \in 1 .. n /\ s[n + 1 - x] = x
    BY <2>1
  <2>6. Range(s) = 1 .. n
    <3>1. Range(s) \subseteq 1 .. n
      BY <2>2, <2>3 DEF Range
    <3>2. 1 .. n \subseteq Range(s)
      <4> HIDE DEF s
      <4> QED BY <2>3, <2>5 DEF Range
    <3> QED BY <3>1, <3>2
  <2>7. 1 \in DOMAIN s
    BY <2>1, <2>3
  <2>8. s # <<>>
    BY <2>7
  <2>9. s = list
    BY DEF n
  <2> HIDE DEF s
  <2>10. s \in Lists
    BY <2>3, <2>4 DEF Lists
  <2> QED BY <2>6, <2>8, <2>9, <2>10 DEF n
<1>4. slot \in [Slots -> SlotType] /\ \A i \in Slots : slot[i].pid = None /\ ~Busy(slot[i])
  BY Vacancy
<1>n. first \in Nat \ {0}
  OBVIOUS
<1> HIDE DEF list, slot, first
<1>5. /\ d \in Caches /\ d.list = list /\ d.slot = slot /\ d.size = c.size /\ d.child = c.child
      /\ d.pno = first
  BY <1>n, <1>3, <1>4 DEF Caches
<1> HIDE DEF d
<1>6. \A p \in Pids, i \in Slots : c.slot[i].pid # p
  BY DEF Live, Pids, None
<1>7. \A p \in Pids : d.child[p] = c.child[p] /\ d.child[p].state = "none"
  BY <1>5, <1>6 DEF Registered
<1>8. Good(d)
  <2>1. Listed(d)
    BY <1>3, <1>5 DEF Listed
  <2>2. \A i \in Slots : ~Live(d, i) /\ ~Busy(d.slot[i])
    BY <1>4, <1>5 DEF Live
  <2>3. Registered(d)
    BY <1>7, <2>2 DEF Registered
  <2> QED BY <1>5, <2>1, <2>3 DEF Good
<1>9. \A T \in SUBSET Pids : Owns(c, T) => Owns(d, T)
  <2> SUFFICES ASSUME NEW T \in SUBSET Pids, Owns(c, T) PROVE Owns(d, T)
    OBVIOUS
  <2>1. T = {}
    BY <1>6 DEF Owns
  <2>2. \A i \in Slots : ~d.slot[i].active
    BY <1>4, <1>5 DEF Busy
  <2> QED BY <2>1, <2>2 DEF Owns
<1>10. Held(c) = {}
  BY <1>6 DEF Held
<1>11. \A i \in Slots : ~Live(d, i) /\ ~d.slot[i].active
  BY <1>4, <1>5 DEF Live, Busy
<1> QED BY <1>1, <1>3, <1>5, <1>7, <1>8, <1>9, <1>10, <1>11 DEF Keeps
-----------------------------------------------------------------------------
(***************************************************************************)
(* The procedures that connect.  A connection is to a process of the       *)
(* executable that no other task has, and to one that has been linked      *)
(* again only if the process was locked.  One that fails keeps the rest.   *)
(***************************************************************************)
Gains(c, e, d, p) ==
    /\ Good(d) /\ Held(c) \subseteq Held(d)
    /\ p \in Pids /\ Alive(d, p) /\ d.child[p].exe = e
    /\ d.child[p].relinked => \E i \in Slots : c.slot[i].pid = p /\ c.slot[i].locked
    /\ \A T \in SUBSET Pids : Owns(c, T) => p \notin T /\ Owns(d, T \cup {p})

Connects(c, e, r) ==
    \/ r.pid = None /\ Keeps(c, r.cache) /\ Held(c) \subseteq Held(r.cache)
    \/ r.pid # None /\ Gains(c, e, r.cache, r.pid)

LEMMA Relisted ==
  ASSUME NEW c, Good(c), NEW list \in Lists, Range(list) = Range(c.list)
  PROVE  LET d == [c EXCEPT !.list = list]
         IN  /\ Keeps(c, d) /\ Held(c) \subseteq Held(d)
             /\ d.slot = c.slot /\ d.child = c.child /\ d.list = list /\ d.pno = c.pno
<1> DEFINE d == [c EXCEPT !.list = list]
<1>1. c \in Caches
  BY DEF Good
<1>2. d \in Caches /\ d.slot = c.slot /\ d.child = c.child /\ d.list = list /\ d.size = c.size
      /\ d.pno = c.pno
  BY <1>1 DEF Caches
<1> HIDE DEF d
<1>3. Similar(c, d)
  BY <1>2, GoodParts DEF Similar
<1>4. Good(d)
  BY <1>3, SimilarGood
<1>5. \A T \in SUBSET Pids : Owns(c, T) => Owns(d, T)
  BY <1>2 DEF Owns, Alive
<1>6. Held(c) \subseteq Held(d)
  BY <1>2 DEF Held
<1> QED BY <1>2, <1>4, <1>5, <1>6 DEF Keeps, d

LEMMA ReuseGains ==
  ASSUME NEW c, Good(c), NEW i \in Slots, Live(c, i), ~c.slot[i].active,
         c.child[c.slot[i].pid].state # "dead",
         c.child[c.slot[i].pid].relinked => c.slot[i].locked
  PROVE  Gains(c, c.slot[i].name, Reuse(c, i).cache, Reuse(c, i).pid)
<1> DEFINE p == c.slot[i].pid
           list == ToHead(c.list, i)
           b == [c EXCEPT !.list = list]
           slot == [b.slot EXCEPT ![i].active = TRUE]
           d == [b EXCEPT !.slot = slot]
<1>1. c \in Caches /\ p \in Pids /\ i \in Range(c.list) /\ c.child[p].state # "none"
  BY GoodParts
<1>2. list \in Lists /\ Range(list) = Range(c.list)
  BY <1>1, Parts, ToHeadList
<1> HIDE DEF list
<1>3. Good(b) /\ Keeps(c, b) /\ Held(c) \subseteq Held(b) /\ b.slot = c.slot /\ b.child = c.child
      /\ b.list = list
  BY <1>2, Relisted DEF Keeps
<1>4. Reuse(c, i).cache = d /\ Reuse(c, i).pid = p
  BY <1>1 DEF Reuse, Caches, list
<1> HIDE DEF b
<1>5. b \in Caches
  BY <1>3 DEF Good
<1>6. /\ slot \in [Slots -> SlotType]
      /\ \A j \in Slots : /\ slot[j].pid = b.slot[j].pid /\ slot[j].name = b.slot[j].name
                          /\ slot[j].locked = b.slot[j].locked
      /\ \A j \in Slots \ {i} : slot[j] = b.slot[j]
      /\ slot[i].active
  BY <1>5 DEF Caches, SlotType
<1> HIDE DEF slot
<1>7. /\ d \in Caches /\ d.slot = slot /\ d.list = b.list /\ d.size = b.size
      /\ d.child = b.child
  BY <1>5, <1>6 DEF Caches
<1> HIDE DEF d
<1>8. Good(d)
  <2>1. \A j \in Slots : ~Live(b, j) => j # i /\ ~Busy(b.slot[j])
    BY <1>3, GoodParts DEF Live
  <2>2. Similar(b, d)
    BY <1>6, <1>7, <2>1 DEF Similar
  <2> QED BY <1>3, <2>2, SimilarGood
<1>9. Held(b) \subseteq Held(d)
  BY <1>6, <1>7 DEF Held
<1>10. Alive(d, p) /\ d.child[p].exe = c.slot[i].name
       /\ d.child[p] = c.child[p]
  <2>1. c.child[p] \in ChildType /\ c.child[p].exe = c.slot[i].name
    BY <1>1, Parts DEF Good, Registered
  <2>2. c.child[p].state \in {"up", "gone"}
    BY <1>1, <2>1 DEF ChildType
  <2> QED BY <1>3, <1>7, <2>1, <2>2 DEF Alive
<1>11. ASSUME NEW T \in SUBSET Pids, Owns(c, T) PROVE p \notin T /\ Owns(d, T \cup {p})
  <2>1. ASSUME p \in T PROVE FALSE
    <3>1. PICK j \in Slots : c.slot[j].pid = p /\ c.slot[j].active
      BY <1>11, <2>1 DEF Owns
    <3>2. j = i
      BY <3>1, GoodParts
    <3> QED BY <3>1, <3>2
  <2>2. ASSUME NEW q \in T \cup {p}
        PROVE  Alive(d, q) /\ \E j \in Slots : d.slot[j].pid = q /\ d.slot[j].active
    <3>1. CASE q = p
      BY <1>3, <1>6, <1>7, <1>10, <3>1
    <3>2. CASE q \in T
      <4>1. PICK j \in Slots : c.slot[j].pid = q /\ c.slot[j].active /\ Alive(c, q)
        BY <1>11, <3>2 DEF Owns
      <4>2. j # i
        BY <4>1
      <4> QED BY <1>3, <1>6, <1>7, <4>1, <4>2 DEF Alive
    <3> QED BY <3>1, <3>2
  <2>3. ASSUME NEW j \in Slots, d.slot[j].active, Alive(d, d.slot[j].pid)
        PROVE  d.slot[j].pid \in T \cup {p}
    <3>1. CASE j = i
      BY <1>3, <1>6, <1>7, <3>1
    <3>2. CASE j # i
      <4>1. c.slot[j].active /\ Alive(c, c.slot[j].pid) /\ d.slot[j].pid = c.slot[j].pid
        BY <1>3, <1>6, <1>7, <2>3, <3>2 DEF Alive
      <4> QED BY <1>11, <4>1 DEF Owns
    <3> QED BY <3>1, <3>2
  <2> QED BY <2>1, <2>2, <2>3 DEF Owns
<1>12. d.child[p].relinked => \E j \in Slots : c.slot[j].pid = p /\ c.slot[j].locked
  BY <1>10
<1> HIDE DEF p
<1> QED BY <1>1, <1>3, <1>4, <1>8, <1>9, <1>10, <1>11, <1>12 DEF Gains
LEMMA SpawnGains ==
  ASSUME NEW c, Good(c), NEW e \in Names, NEW i \in Range(c.list), ~Live(c, i), Spare(c) # {}
  PROVE  LET r == Spawn(c, i, e)
         IN  Gains(c, e, r.cache, r.pid) /\ ~r.cache.child[r.pid].relinked
<1> DEFINE p == IF i \in Spare(c) THEN i ELSE Min(Spare(c))
           new == [pid |-> p, name |-> e, active |-> TRUE, locked |-> FALSE, pno |-> c.pno]
           up == [state |-> "up", exe |-> e, relinked |-> FALSE]
           slot == [c.slot EXCEPT ![i] = new]
           child == [c.child EXCEPT ![p] = up]
           d == [c EXCEPT !.slot = slot, !.child = child, !.pno = c.pno + 1]
<1>1. c \in Caches /\ i \in Slots /\ c.pno \in Nat \ {0}
  BY GoodParts, Parts
<1>2. p \in Pids /\ c.child[p].state = "none"
  <2>1. Spare(c) \in SUBSET Nat
    BY BoundAssumption DEF Spare, Pids
  <2>2. p \in Spare(c)
    BY <2>1, Least
  <2> HIDE DEF p
  <2>3. p \in Pids /\ c.child[p] = Closed
    BY <2>2 DEF Spare
  <2>4. Closed.state = "none"
    BY DEF Closed
  <2> QED BY <2>3, <2>4
<1>3. Spawn(c, i, e).cache = d /\ Spawn(c, i, e).pid = p
  BY <1>1 DEF Spawn, Caches
<1>4. p # None /\ \A j \in Slots : c.slot[j].pid # p
  BY <1>2, GoodParts DEF Live, Pids, None
<1> HIDE DEF p
<1>5. new \in SlotType /\ up \in ChildType
  BY <1>1, <1>2 DEF SlotType, ChildType
<1>6. new.pid = p /\ new.name = e /\ new.active /\ ~new.locked
      /\ up.state = "up" /\ up.exe = e /\ ~up.relinked
  OBVIOUS
<1> HIDE DEF new, up
<1>7. /\ slot \in [Slots -> SlotType] /\ slot[i] = new
      /\ \A j \in Slots \ {i} : slot[j] = c.slot[j]
  BY <1>1, <1>5 DEF Caches
<1>8. /\ child \in [Pids -> ChildType] /\ child[p] = up
      /\ \A q \in Pids \ {p} : child[q] = c.child[q]
  BY <1>1, <1>2, <1>5 DEF Caches
<1> HIDE DEF slot, child
<1>9. c.pno + 1 \in Nat \ {0}
  BY <1>1
<1>10. /\ d \in Caches /\ d.slot = slot /\ d.child = child /\ d.list = c.list /\ d.size = c.size
  BY <1>1, <1>7, <1>8, <1>9 DEF Caches
<1> HIDE DEF d
<1>11. Registered(d)
  <2>1. \A j \in Slots \ {i} : Live(d, j) => Live(c, j) /\ d.child[d.slot[j].pid] = c.child[c.slot[j].pid]
                                             /\ d.slot[j] = c.slot[j]
    BY <1>4, <1>7, <1>8, <1>10, GoodParts DEF Live
  <2>2. ASSUME NEW j \in Slots, Live(d, j)
        PROVE  /\ d.child[d.slot[j].pid].state # "none"
               /\ d.child[d.slot[j].pid].exe = d.slot[j].name
               /\ j \in Range(d.list)
    <3>1. CASE j = i
      BY <1>6, <1>7, <1>8, <1>10, <3>1
    <3>2. CASE j # i
      BY <1>10, <2>1, <2>2, <3>2 DEF Good, Registered
    <3> QED BY <3>1, <3>2
  <2>3. ASSUME NEW j \in Slots, NEW k \in Slots, Live(d, j), d.slot[j].pid = d.slot[k].pid
        PROVE  j = k
    <3>1. CASE j = i /\ k # i
      BY <1>4, <1>6, <1>7, <1>10, <2>3, <3>1
    <3>2. CASE j # i /\ k = i
      BY <1>4, <1>6, <1>7, <1>10, <2>3, <3>2
    <3>3. CASE j # i /\ k # i
      BY <2>1, <2>3, <3>3, <1>7, <1>10, GoodParts
    <3> QED BY <3>1, <3>2, <3>3
  <2>4. ASSUME NEW j \in Slots, ~Live(d, j) PROVE ~Busy(d.slot[j])
    <3>1. j # i
      BY <1>4, <1>6, <1>7, <1>10, <2>4 DEF Live
    <3>2. d.slot[j] = c.slot[j] /\ ~Live(c, j)
      BY <1>7, <1>10, <2>4, <3>1 DEF Live
    <3> QED BY <3>2, GoodParts
  <2>5. ASSUME NEW q \in Pids, d.child[q].state # "none" PROVE \E j \in Slots : d.slot[j].pid = q
    <3>1. CASE q = p
      BY <1>1, <1>6, <1>7, <1>10, <3>1
    <3>2. CASE q # p
      <4>1. c.child[q].state # "none"
        BY <1>8, <1>10, <2>5, <3>2
      <4>2. PICK j \in Slots : c.slot[j].pid = q /\ Live(c, j)
        BY <4>1, GoodParts
      <4>3. j # i
        BY <4>2
      <4> QED BY <1>7, <1>10, <4>2, <4>3
    <3> QED BY <3>1, <3>2
  <2> QED BY <2>2, <2>3, <2>4, <2>5 DEF Registered
<1>12. Good(d)
  BY <1>10, <1>11 DEF Good, Listed
<1>13. Held(c) \subseteq Held(d)
  <2> SUFFICES ASSUME NEW q \in Held(c) PROVE q \in Held(d)
    OBVIOUS
  <2>1. PICK j \in Slots : c.slot[j].pid = q /\ c.slot[j].locked /\ q \in Pids
                           /\ c.child[q].state = "up"
    BY DEF Held
  <2>2. j # i /\ q # p
    BY <1>2, <2>1, GoodParts DEF Busy
  <2> QED BY <1>7, <1>8, <1>10, <2>1, <2>2 DEF Held
<1>14. Alive(d, p) /\ d.child[p].exe = e /\ ~d.child[p].relinked
  BY <1>6, <1>8, <1>10 DEF Alive
<1>15. ASSUME NEW T \in SUBSET Pids, Owns(c, T) PROVE p \notin T /\ Owns(d, T \cup {p})
  <2>1. p \notin T
    BY <1>4, <1>15 DEF Owns
  <2>2. ASSUME NEW q \in T \cup {p}
        PROVE  Alive(d, q) /\ \E j \in Slots : d.slot[j].pid = q /\ d.slot[j].active
    <3>1. CASE q = p
      BY <1>1, <1>6, <1>7, <1>10, <1>14, <3>1
    <3>2. CASE q \in T
      <4>1. PICK j \in Slots : c.slot[j].pid = q /\ c.slot[j].active /\ Alive(c, q)
        BY <1>15, <3>2 DEF Owns
      <4>2. j # i /\ q # p
        BY <2>1, <3>2, <4>1, GoodParts DEF Busy
      <4> QED BY <1>7, <1>8, <1>10, <4>1, <4>2, <3>2 DEF Alive
    <3> QED BY <3>1, <3>2
  <2>3. ASSUME NEW j \in Slots, d.slot[j].active, Alive(d, d.slot[j].pid)
        PROVE  d.slot[j].pid \in T \cup {p}
    <3>1. CASE j = i
      BY <1>6, <1>7, <1>10, <3>1
    <3>2. CASE j # i
      <4>1. c.slot[j].active /\ d.slot[j].pid = c.slot[j].pid /\ Live(c, j)
        BY <1>7, <1>10, <2>3, <3>2, GoodParts DEF Busy
      <4>2. c.slot[j].pid \in Pids /\ c.slot[j].pid # p
        BY <1>4, <4>1, GoodParts
      <4>3. Alive(c, c.slot[j].pid)
        BY <1>8, <1>10, <2>3, <4>1, <4>2 DEF Alive
      <4> QED BY <1>15, <4>1, <4>3 DEF Owns
    <3> QED BY <3>1, <3>2
  <2> QED BY <2>1, <2>2, <2>3 DEF Owns
<1> QED BY <1>2, <1>3, <1>12, <1>13, <1>14, <1>15 DEF Gains

LEMMA KeepsGains ==
  ASSUME NEW a, NEW b, NEW d, NEW e, NEW p, Keeps(a, b), Held(a) \subseteq Held(b),
         Gains(b, e, d, p), ~d.child[p].relinked
  PROVE  Gains(a, e, d, p)
BY DEF Keeps, Gains

LEMMA NewProcessConnects ==
  ASSUME NEW c, Good(c), NEW e \in Names, NEW spawn
  PROVE  /\ Connects(c, e, NewProcess(c, e, spawn))
         /\ LET r == NewProcess(c, e, spawn) IN r.pid # None => ~r.cache.child[r.pid].relinked
<1> DEFINE i == FromTail(c.list, {j \in Slots : ~Busy(c.slot[j])})
           b == PDisconnect(c, {i})
           list == ToHead(b.list, i)
           d == [b EXCEPT !.list = list]
           r == NewProcess(c, e, spawn)
<1>1. c \in Caches /\ c.list \in Lists
  BY Parts DEF Good
<1>2. CASE i = None
  <2>1. r = Failed(c)
    BY <1>2 DEF NewProcess
  <2>2. r.pid = None /\ r.cache = c
    BY <2>1 DEF Failed
  <2> QED BY <2>2 DEF Connects, Keeps
<1>3. CASE i # None
  <2>1. i \in Range(c.list) /\ i \in Slots /\ ~Busy(c.slot[i])
    BY <1>1, <1>3, Found
  <2>2. (spawn = "ok" /\ Spare(d) # {} /\ r = Spawn(d, i, e)) \/ r = Failed(d)
    <3>1. r = IF i = None THEN Failed(c)
              ELSE IF spawn = "ok" /\ Spare(d) # {} THEN Spawn(d, i, e)
              ELSE Failed(d)
      BY DEF NewProcess
    <3> HIDE DEF r, d, i
    <3> QED BY <1>3, <3>1
  <2> HIDE DEF i, r
  <2>3. Keeps(c, b) /\ Held(c) \subseteq Held(b) /\ Emptied(c, b, Closing(c, {i}))
        /\ Closing(c, {i}) \in SUBSET Slots /\ Good(b)
    BY <2>1, PDisconnectKeeps, PDisconnectEmpties DEF Closing, Keeps
  <2>4. ~Live(b, i) /\ Range(b.list) = Range(c.list)
    <3>1. CASE Live(c, i)
      BY <2>1, <2>3, <3>1 DEF Closing, Emptied
    <3>2. CASE ~Live(c, i)
      BY <2>1, <2>3, <3>2 DEF Closing, Emptied, Live
    <3> QED BY <3>1, <3>2, <2>3 DEF Emptied
  <2> HIDE DEF b
  <2>5. b.list \in Lists /\ i \in Range(b.list)
    BY <2>1, <2>3, <2>4, Parts DEF Good
  <2>6. list \in Lists /\ Range(list) = Range(b.list)
    BY <2>5, ToHeadList
  <2> HIDE DEF list
  <2>7. Keeps(b, d) /\ Held(b) \subseteq Held(d) /\ d.slot = b.slot /\ d.list = list
    BY <2>3, <2>6, Relisted
  <2> HIDE DEF d
  <2>8. Keeps(c, d) /\ Held(c) \subseteq Held(d) /\ Good(d) /\ ~Live(d, i) /\ i \in Range(d.list)
    BY <2>3, <2>4, <2>5, <2>6, <2>7, KeepsTwice DEF Keeps, Live
  <2>9. CASE r = Failed(d)
    <3>1. r.pid = None /\ r.cache = d
      BY <2>9 DEF Failed
    <3> QED BY <2>8, <3>1 DEF Connects, r
  <2>10. CASE Spare(d) # {} /\ r = Spawn(d, i, e)
    <3>1. Gains(d, e, r.cache, r.pid) /\ ~r.cache.child[r.pid].relinked
      BY <2>8, <2>10, SpawnGains
    <3>2. r.pid # None
      BY <3>1 DEF Gains, Pids, None
    <3> QED BY <2>8, <3>1, <3>2, KeepsGains DEF Connects, r
  <2> QED BY <2>2, <2>9, <2>10
<1> QED BY <1>2, <1>3
LEMMA ConnectsLater ==
  ASSUME NEW c, NEW b, NEW e, NEW r, Keeps(c, b), Held(c) \subseteq Held(b), Connects(b, e, r),
         r.pid # None => ~r.cache.child[r.pid].relinked
  PROVE  Connects(c, e, r)
<1>1. CASE r.pid = None
  BY <1>1, KeepsTwice DEF Connects
<1>2. CASE r.pid # None
  BY <1>2, KeepsGains DEF Connects
<1> QED BY <1>1, <1>2

(***************************************************************************)
(* The cache PR_PCONNECT searches: initialized, or without dead processes. *)
(***************************************************************************)
Ready(c) == IF c.list = <<>> THEN InitCache(c) ELSE CheckUp(c)

LEMMA ReadyKeeps ==
  ASSUME NEW c, Good(c)
  PROVE  LET b == Ready(c)
         IN  /\ Keeps(c, b) /\ Held(c) \subseteq Held(b)
             /\ \A i \in Slots : Live(b, i) => b.slot[i] = c.slot[i]
             /\ \A p \in Pids : b.child[p].state # "dead"
<1>1. CASE c.list = <<>>
  <2>1. c \in Caches /\ Registered(c) /\ Range(c.list) = {}
    BY <1>1, Parts DEF Good
  <2>2. \A i \in Slots : ~Live(c, i)
    BY <2>1 DEF Registered
  <2>3. Ready(c) = InitCache(c)
    BY <1>1 DEF Ready
  <2> QED BY <2>1, <2>2, <2>3, InitCacheKeeps
<1>2. CASE c.list # <<>>
  <2>1. Ready(c) = CheckUp(c)
    BY <1>2 DEF Ready
  <2> QED BY <2>1, CheckUpKeeps DEF Trimmed
<1> QED BY <1>1, <1>2

LEMMA PConnectConnects ==
  ASSUME NEW c, Good(c), NEW e \in Names, NEW spawn
  PROVE  Connects(c, e, PConnect(c, e, spawn))
<1> DEFINE b == Ready(c)
           i == FindProc(b, e)
           d == PDisconnect(b, {i})
           r == PConnect(c, e, spawn)
<1>1. r = IF i = None THEN NewProcess(b, e, spawn)
          ELSE IF Outdated(b, i, spawn) THEN NewProcess(d, e, spawn)
          ELSE Reuse(b, i)
  BY DEF PConnect, Ready
<1>2. Keeps(c, b) /\ Held(c) \subseteq Held(b) /\ Good(b) /\ b \in Caches
      /\ (\A j \in Slots : Live(b, j) => b.slot[j] = c.slot[j])
      /\ (\A p \in Pids : b.child[p].state # "dead")
  BY ReadyKeeps DEF Keeps, Good
<1> HIDE DEF b, r
<1>3. i # None => i \in Slots /\ Live(b, i) /\ ~b.slot[i].active /\ b.slot[i].name = e
  BY <1>2, Found, Parts DEF FindProc
<1> HIDE DEF i
<1>4. CASE i = None
  <2>1. r = NewProcess(b, e, spawn)
    BY <1>1, <1>4
  <2> QED BY <1>2, <2>1, NewProcessConnects, ConnectsLater DEF r
<1>5. CASE i # None /\ Outdated(b, i, spawn)
  <2>1. r = NewProcess(d, e, spawn)
    BY <1>1, <1>5
  <2>2. Keeps(b, d) /\ Held(b) \subseteq Held(d) /\ Good(d)
    BY <1>2, <1>3, <1>5, PDisconnectKeeps DEF Keeps
  <2> HIDE DEF d
  <2>3. Keeps(c, d) /\ Held(c) \subseteq Held(d)
    BY <1>2, <2>2, KeepsTwice
  <2> QED BY <2>1, <2>2, <2>3, NewProcessConnects, ConnectsLater DEF r
<1>6. CASE i # None /\ ~Outdated(b, i, spawn)
  <2>1. r = Reuse(b, i)
    BY <1>1, <1>6
  <2>2. b.slot[i].pid \in Pids /\ b.child[b.slot[i].pid].state # "dead"
    BY <1>2, <1>3, <1>6, GoodParts
  <2>3. b.child[b.slot[i].pid].relinked => b.slot[i].locked
    BY <1>3, <1>6 DEF Outdated, Busy
  <2>4. Gains(b, e, r.cache, r.pid)
    BY <1>2, <1>3, <1>6, <2>1, <2>2, <2>3, ReuseGains
  <2>5. r.pid = b.slot[i].pid
    BY <2>1 DEF Reuse
  <2>6. r.cache.child[r.pid].relinked => \E j \in Slots : c.slot[j].pid = r.pid /\ c.slot[j].locked
    <3> SUFFICES ASSUME r.cache.child[r.pid].relinked
                 PROVE  \E j \in Slots : c.slot[j].pid = r.pid /\ c.slot[j].locked
      OBVIOUS
    <3>1. PICK j \in Slots : b.slot[j].pid = r.pid /\ b.slot[j].locked
      BY <2>4 DEF Gains
    <3>2. Live(b, j)
      BY <2>2, <2>5, <3>1 DEF Live, Pids, None
    <3> QED BY <1>2, <3>1, <3>2
  <2>7. Gains(c, e, r.cache, r.pid)
    BY <1>2, <2>4, <2>6 DEF Keeps, Gains
  <2>8. r.pid # None
    BY <2>7 DEF Gains, Pids, None
  <2> QED BY <2>7, <2>8 DEF Connects, r
<1> QED BY <1>4, <1>5, <1>6

(***************************************************************************)
(* A process that is known to be dead is no task's.                        *)
(***************************************************************************)
Dies(c, p) == [c EXCEPT !.child[p].state = "dead"]

LEMMA DiesKeeps ==
  ASSUME NEW c, Good(c), NEW p \in Pids, c.child[p].state = "gone"
  PROVE  LET d == Dies(c, p)
         IN  /\ Good(d) /\ Held(c) \subseteq Held(d)
             /\ \A T \in SUBSET Pids : Owns(c, T) => Owns(d, T \ {p})
             /\ d.slot = c.slot
<1> DEFINE child == [c.child EXCEPT ![p].state = "dead"]
           d == [c EXCEPT !.child = child]
<1>1. c \in Caches
  BY DEF Good
<1>2. Dies(c, p) = d
  BY <1>1 DEF Dies, Caches
<1>3. /\ child \in [Pids -> ChildType] /\ child[p].state = "dead"
      /\ child[p].exe = c.child[p].exe
      /\ \A q \in Pids \ {p} : child[q] = c.child[q]
  BY <1>1 DEF Caches, ChildType
<1> HIDE DEF child
<1>4. /\ d \in Caches /\ d.child = child /\ d.slot = c.slot /\ d.list = c.list /\ d.size = c.size
  BY <1>1, <1>3 DEF Caches
<1> HIDE DEF d
<1>5. Good(d)
  <2>1. \A q \in Pids : /\ d.child[q].state = "none" <=> c.child[q].state = "none"
                        /\ d.child[q].exe = c.child[q].exe
    BY <1>3, <1>4
  <2>2. Similar(c, d)
    BY <1>4, <2>1, GoodParts DEF Similar
  <2> QED BY <2>2, SimilarGood
<1>6. Held(c) \subseteq Held(d)
  BY <1>3, <1>4 DEF Held
<1>7. ASSUME NEW T \in SUBSET Pids, Owns(c, T) PROVE Owns(d, T \ {p})
  <2>1. ASSUME NEW q \in T \ {p}
        PROVE  Alive(d, q) /\ \E j \in Slots : d.slot[j].pid = q /\ d.slot[j].active
    BY <1>3, <1>4, <1>7 DEF Owns, Alive
  <2>2. ASSUME NEW j \in Slots, d.slot[j].active, Alive(d, d.slot[j].pid)
        PROVE  d.slot[j].pid \in T \ {p}
    <3>1. c.slot[j].active /\ d.slot[j].pid = c.slot[j].pid /\ c.slot[j].pid \in Pids
      BY <1>4, <2>2, GoodParts DEF Busy
    <3>2. c.slot[j].pid # p /\ Alive(c, c.slot[j].pid)
      BY <1>3, <1>4, <2>2, <3>1 DEF Alive
    <3> QED BY <1>7, <3>1, <3>2 DEF Owns
  <2> QED BY <2>1, <2>2 DEF Owns
<1> QED BY <1>2, <1>4, <1>5, <1>6, <1>7

LEMMA ConnectConnects ==
  ASSUME NEW c, Good(c), NEW e \in Names, NEW spawn
  PROVE  Connects(c, e, Connect(c, e, spawn))
<1> DEFINE q == PConnect(c, e, spawn)
           d == Dies(q.cache, q.pid)
           r == Connect(c, e, spawn)
<1>1. Connects(c, e, q)
  BY PConnectConnects
<1>2. r = IF q.pid # None /\ q.cache.child[q.pid].state = "gone" THEN Failed(d) ELSE q
  BY DEF Connect, Dies
<1> HIDE DEF q, r
<1>3. CASE q.pid # None /\ q.cache.child[q.pid].state = "gone"
  <2>1. Gains(c, e, q.cache, q.pid)
    BY <1>1, <1>3 DEF Connects
  <2>2. r.pid = None /\ r.cache = d
    BY <1>2, <1>3 DEF Failed
  <2>3. /\ Good(d) /\ Held(c) \subseteq Held(d)
        /\ \A T \in SUBSET Pids : Owns(q.cache, T) => Owns(d, T \ {q.pid})
    BY <1>3, <2>1, DiesKeeps DEF Gains
  <2> HIDE DEF d
  <2>4. ASSUME NEW T \in SUBSET Pids, Owns(c, T) PROVE Owns(d, T)
    <3>1. q.pid \notin T /\ Owns(q.cache, T \cup {q.pid}) /\ T \cup {q.pid} \in SUBSET Pids
      BY <2>1, <2>4 DEF Gains
    <3>2. (T \cup {q.pid}) \ {q.pid} = T
      BY <3>1
    <3> QED BY <2>3, <3>1, <3>2
  <2> QED BY <2>2, <2>3, <2>4 DEF Connects, Keeps, r
<1>4. CASE ~(q.pid # None /\ q.cache.child[q.pid].state = "gone")
  BY <1>1, <1>2, <1>4 DEF r
<1> QED BY <1>3, <1>4
-----------------------------------------------------------------------------
(***************************************************************************)
(* PR_SETCACHE: any number of processes is connected again, one at a time. *)
(***************************************************************************)
LEMMA CachedKeeps ==
  ASSUME NEW c, Good(c), NEW e \in Names
  PROVE  Keeps(c, Cached(c, e))
<1> DEFINE r == Connect(c, e, "ok")
           p == r.pid
           b == Disconnect(r.cache, {p})
           d == Lock(b, p)
<1>1. Connects(c, e, r)
  BY ConnectConnects
<1>2. Cached(c, e) = d
  BY DEF Cached, Parked
<1> HIDE DEF r
<1>3. Good(r.cache) /\ p \in Pids \cup {None}
  BY <1>1 DEF Connects, Keeps, Gains
<1>4. /\ Good(b)
      /\ \A T \in SUBSET Pids : Owns(r.cache, T) => Owns(b, T \ {p})
  BY <1>3, DisconnectKeeps
<1> HIDE DEF b
<1>5. Keeps(b, d)
  BY <1>3, <1>4, LockKeeps
<1>6. ASSUME NEW T \in SUBSET Pids, Owns(c, T) PROVE Owns(b, T)
  <2>1. CASE p = None
    <3>1. T \ {p} = T
      BY <2>1 DEF Pids, None
    <3>2. Owns(r.cache, T)
      BY <1>1, <1>6, <2>1 DEF Connects, Keeps
    <3> QED BY <1>4, <3>1, <3>2
  <2>2. CASE p # None
    <3>1. p \in Pids /\ p \notin T /\ Owns(r.cache, T \cup {p})
      BY <1>1, <1>6, <2>2 DEF Connects, Gains
    <3>2. (T \cup {p}) \ {p} = T /\ T \cup {p} \in SUBSET Pids
      BY <3>1
    <3> QED BY <1>4, <3>1, <3>2
  <2> QED BY <2>1, <2>2
<1> QED BY <1>2, <1>5, <1>6 DEF Keeps

Iterates(f, c, names, n) ==
    f = [k \in 0 .. n |-> IF k = 0 THEN c ELSE Cached(f[k - 1], names[k])]

LEMMA IteratesExist ==
  ASSUME NEW c, NEW names, NEW n \in Nat PROVE \E f : Iterates(f, c, names, n)
<1> DEFINE T == {m \in Nat : ~(\E f : Iterates(f, c, names, m))}
<1>1. SUFFICES ASSUME T # {} PROVE FALSE
  OBVIOUS
<1> DEFINE m == Min(T)
<1>2. m \in T /\ \A y \in T : m =< y
  <2>1. T \in SUBSET Nat
    OBVIOUS
  <2> HIDE DEF T
  <2> QED BY <1>1, <2>1, Least
<1>3. m \in Nat /\ ~(\E f : Iterates(f, c, names, m))
  BY <1>2
<1> HIDE DEF m
<1>4. m # 0
  <2> DEFINE f == [k \in 0 .. 0 |-> c]
  <2>1. \A k \in 0 .. 0 : k = 0
    OBVIOUS
  <2>2. f = [k \in 0 .. 0 |-> IF k = 0 THEN c ELSE Cached(f[k - 1], names[k])]
    BY <2>1
  <2>3. Iterates(f, c, names, 0)
    BY <2>2 DEF Iterates
  <2> QED BY <1>3, <2>3
<1>5. m - 1 \in Nat /\ m - 1 \notin T
  BY <1>2, <1>3, <1>4
<1>6. PICK f : Iterates(f, c, names, m - 1)
  BY <1>5
<1> DEFINE g == [k \in 0 .. m |-> IF k = m THEN Cached(f[m - 1], names[m]) ELSE f[k]]
<1>7. \A k \in 0 .. m - 1 : f[k] = IF k = 0 THEN c ELSE Cached(f[k - 1], names[k])
  <2> DEFINE rhs == [k \in 0 .. m - 1 |-> IF k = 0 THEN c ELSE Cached(f[k - 1], names[k])]
  <2>1. f = rhs
    BY <1>6 DEF Iterates
  <2>2. \A k \in 0 .. m - 1 : rhs[k] = IF k = 0 THEN c ELSE Cached(f[k - 1], names[k])
    OBVIOUS
  <2> HIDE DEF rhs
  <2> QED BY <2>1, <2>2
<1>8. ASSUME NEW k \in 0 .. m
      PROVE  g[k] = IF k = 0 THEN c ELSE Cached(g[k - 1], names[k])
  <2>1. CASE k = m
    <3>1. k # 0 /\ k - 1 \in 0 .. m /\ k - 1 # m
      BY <1>3, <1>4, <2>1
    <3>2. g[k] = Cached(f[m - 1], names[m]) /\ g[k - 1] = f[m - 1]
      BY <2>1, <3>1
    <3> QED BY <2>1, <3>1, <3>2
  <2>2. CASE k # m
    <3>1. k \in 0 .. m - 1 /\ (k # 0 => k - 1 \in 0 .. m /\ k - 1 # m)
      BY <1>3, <2>2
    <3>2. g[k] = f[k] /\ (k # 0 => g[k - 1] = f[k - 1])
      BY <2>2, <3>1
    <3> HIDE DEF g
    <3> QED BY <1>7, <3>1, <3>2
  <2> QED BY <2>1, <2>2
<1>9. DOMAIN g = 0 .. m /\ g = [k \in 0 .. m |-> g[k]]
  OBVIOUS
<1> HIDE DEF g
<1>10. Iterates(g, c, names, m)
  <2>1. [k \in 0 .. m |-> g[k]]
        = [k \in 0 .. m |-> IF k = 0 THEN c ELSE Cached(g[k - 1], names[k])]
    BY <1>8
  <2> QED BY <1>9, <2>1 DEF Iterates
<1> QED BY <1>3, <1>10

LEMMA RecachedKeeps ==
  ASSUME NEW c, Good(c), NEW names, NEW n \in Nat, \A k \in 1 .. n : names[k] \in Names
  PROVE  Keeps(c, Recached(c, names, n))
<1> DEFINE f == CHOOSE g : Iterates(g, c, names, n)
           rhs == [k \in 0 .. n |-> IF k = 0 THEN c ELSE Cached(f[k - 1], names[k])]
           T == {k \in 0 .. n : ~Keeps(c, f[k])}
<1>1. Recached(c, names, n) = f[n]
  BY DEF Recached, Iterates
<1>2. Iterates(f, c, names, n)
  BY IteratesExist
<1> HIDE DEF f
<1>3. \A k \in 0 .. n : f[k] = IF k = 0 THEN c ELSE Cached(f[k - 1], names[k])
  <2>1. f = rhs
    BY <1>2 DEF Iterates
  <2>2. \A k \in 0 .. n : rhs[k] = IF k = 0 THEN c ELSE Cached(f[k - 1], names[k])
    OBVIOUS
  <2> HIDE DEF rhs
  <2> QED BY <2>1, <2>2
<1>4. ASSUME T # {} PROVE FALSE
  <2> DEFINE m == Min(T)
  <2>1. m \in T /\ \A y \in T : m =< y
    <3>1. T \in SUBSET Nat
      OBVIOUS
    <3> HIDE DEF T
    <3> QED BY <1>4, <3>1, Least
  <2> HIDE DEF m
  <2>2. m \in 0 .. n /\ ~Keeps(c, f[m])
    BY <2>1
  <2>3. m # 0
    <3>1. Keeps(c, c)
      BY DEF Keeps
    <3> QED BY <1>3, <2>2, <3>1
  <2>4. m - 1 \in 0 .. n /\ m - 1 \notin T
    BY <2>1, <2>2, <2>3
  <2>5. Keeps(c, f[m - 1]) /\ Good(f[m - 1])
    BY <2>4 DEF Keeps
  <2>6. f[m] = Cached(f[m - 1], names[m]) /\ names[m] \in Names
    BY <1>3, <2>2, <2>3
  <2> QED BY <2>2, <2>5, <2>6, CachedKeeps, KeepsTwice
<1>5. n \in 0 .. n
  OBVIOUS
<1> QED BY <1>1, <1>4, <1>5
-----------------------------------------------------------------------------
(***************************************************************************)
(* The stack of tasks.  No two tasks run in one process.                   *)
(***************************************************************************)
Frames == [kind : {"cl", "script", "proc"}, exe : Names, pid : Pids \cup {None}, pno : Nat]

Stack(s) ==
    /\ s \in Seq(Frames) /\ Len(s) \in 1 .. MaxDepth /\ s[1].kind = "cl"
    /\ \A k \in 1 .. Len(s) : s[k].kind = "proc" <=> s[k].pid # None
    /\ \A j, k \in 1 .. Len(s) : s[j].pid # None /\ s[j].pid = s[k].pid => j = k

Running(s) == PidsAbove(s, 0)

LEMMA StackParts ==
  ASSUME NEW s, Stack(s), NEW n \in Nat
  PROVE  /\ Len(s) \in Nat /\ Len(s) >= 1 /\ DOMAIN s = 1 .. Len(s)
         /\ \A k \in 1 .. Len(s) : s[k] \in Frames
         /\ PidsAbove(s, n) \in SUBSET Pids
         /\ \A p \in Pids : p \in PidsAbove(s, n) <=> \E k \in 1 .. Len(s) : k > n /\ s[k].pid = p
<1>1. Len(s) \in Nat /\ Len(s) >= 1 /\ DOMAIN s = 1 .. Len(s) /\ s \in Seq(Frames)
  BY BoundAssumption DEF Stack
<1>2. \A k \in 1 .. Len(s) : s[k] \in Frames
  BY <1>1
<1>3. \A k \in 1 .. Len(s) : s[k].pid \in Pids \cup {None}
  BY <1>2 DEF Frames
<1>4. \A k \in n + 1 .. Len(s) : k \in 1 .. Len(s) /\ k > n
  BY <1>1
<1>5. \A k \in 1 .. Len(s) : k > n => k \in n + 1 .. Len(s)
  BY <1>1
<1>6. \A k \in 1 .. Len(s) : s[k].kind = "proc" <=> s[k].pid # None
  BY DEF Stack
<1>7. PidsAbove(s, n) \in SUBSET Pids
  BY <1>3, <1>4, <1>6 DEF PidsAbove
<1>8. ASSUME NEW p \in Pids
      PROVE  p \in PidsAbove(s, n) <=> \E k \in 1 .. Len(s) : k > n /\ s[k].pid = p
  <2>1. p # None
    BY DEF Pids, None
  <2> QED BY <1>4, <1>5, <1>6, <2>1 DEF PidsAbove
<1> QED BY <1>1, <1>2, <1>7, <1>8

LEMMA StackMarked ==
  ASSUME NEW s, Stack(s), NEW k \in 1 .. Len(s), NEW pno \in Nat
  PROVE  LET t == [s EXCEPT ![k].pno = pno]
         IN  /\ Stack(t) /\ Len(t) = Len(s) /\ Running(t) = Running(s)
             /\ \A j \in 1 .. Len(s) : t[j].kind = s[j].kind /\ t[j].pid = s[j].pid
<1> DEFINE t == [s EXCEPT ![k].pno = pno]
<1>1. /\ Len(s) \in Nat /\ Len(s) >= 1 /\ DOMAIN s = 1 .. Len(s) /\ s \in Seq(Frames)
      /\ Len(s) \in 1 .. MaxDepth
      /\ \A j \in 1 .. Len(s) : s[j] \in Frames
  BY StackParts DEF Stack
<1>2. t \in Seq(Frames) /\ Len(t) = Len(s) /\ DOMAIN t = 1 .. Len(s)
  <2>1. [s[k] EXCEPT !.pno = pno] \in Frames
    BY <1>1 DEF Frames
  <2> QED BY <1>1, <2>1
<1>3. \A j \in 1 .. Len(s) : t[j].kind = s[j].kind /\ t[j].pid = s[j].pid
  BY <1>1 DEF Frames
<1> HIDE DEF t
<1>4. Stack(t)
  BY <1>1, <1>2, <1>3 DEF Stack
<1>5. Running(t) = Running(s)
  <2>1. \A p \in Pids : p \in Running(t) <=> p \in Running(s)
    BY <1>2, <1>3, <1>4, StackParts DEF Running
  <2>2. Running(t) \in SUBSET Pids /\ Running(s) \in SUBSET Pids
    BY <1>4, StackParts DEF Running
  <2> QED BY <2>1, <2>2
<1> QED BY <1>2, <1>3, <1>4, <1>5 DEF t

LEMMA StackLeft ==
  ASSUME NEW s, Stack(s), NEW n \in 1 .. Len(s)
  PROVE  LET t == SubSeq(s, 1, n)
         IN  /\ Stack(t) /\ Len(t) = n
             /\ Running(t) = Running(s) \ PidsAbove(s, n)
             /\ \A k \in 1 .. n : t[k] = s[k]
<1> DEFINE t == SubSeq(s, 1, n)
<1>1. /\ Len(s) \in Nat /\ Len(s) >= 1 /\ s \in Seq(Frames)
      /\ \A j \in 1 .. Len(s) : s[j] \in Frames
      /\ n \in Nat /\ n >= 1 /\ n =< Len(s)
  BY StackParts DEF Stack
<1>2. t \in Seq(Frames) /\ Len(t) = n /\ \A k \in 1 .. n : t[k] = s[k]
  BY <1>1
<1> HIDE DEF t
<1>3. \A k \in 1 .. n : k \in 1 .. Len(s)
  BY <1>1
<1>4. Stack(t)
  <2>1. n \in 1 .. MaxDepth
    BY <1>1, BoundAssumption DEF Stack
  <2>2. t[1].kind = "cl"
    BY <1>1, <1>2 DEF Stack
  <2> QED BY <1>2, <1>3, <2>1, <2>2 DEF Stack
<1>5. Running(t) = Running(s) \ PidsAbove(s, n)
  <2>1. Running(t) \in SUBSET Pids /\ Running(s) \in SUBSET Pids
    BY <1>4, StackParts DEF Running
  <2>2. ASSUME NEW p \in Pids, p \in Running(t) PROVE p \in Running(s) \ PidsAbove(s, n)
    <3>1. PICK k \in 1 .. n : t[k].pid = p
      BY <1>2, <1>4, <2>2, StackParts DEF Running
    <3>2. k \in 1 .. Len(s) /\ k > 0 /\ s[k].pid = p /\ p # None
      BY <1>2, <1>3, <3>1 DEF Pids, None
    <3>3. \A j \in 1 .. Len(s) : s[j].pid = p => j = k
      BY <3>2 DEF Stack
    <3>4. ~(k > n)
      BY <1>1, <3>1
    <3> QED BY <1>1, <3>2, <3>3, <3>4, StackParts DEF Running
  <2>3. ASSUME NEW p \in Pids, p \in Running(s), p \notin PidsAbove(s, n) PROVE p \in Running(t)
    <3>1. PICK k \in 1 .. Len(s) : s[k].pid = p
      BY <2>3, StackParts DEF Running
    <3>2. ~(k > n)
      BY <1>1, <2>3, <3>1, StackParts
    <3>3. k \in 1 .. n /\ k > 0
      BY <1>1, <3>2
    <3>4. t[k].pid = p
      BY <1>2, <3>1, <3>3
    <3> QED BY <1>2, <1>4, <3>3, <3>4, StackParts DEF Running
  <2> QED BY <2>1, <2>2, <2>3
<1> QED BY <1>2, <1>4, <1>5 DEF t

LEMMA StackPushed ==
  ASSUME NEW s, Stack(s), Len(s) < MaxDepth, NEW f \in Frames,
         f.kind = "proc" <=> f.pid # None, f.pid \notin Running(s)
  PROVE  LET t == Append(s, f)
         IN  /\ Stack(t) /\ Len(t) = Len(s) + 1 /\ t[Len(t)] = f
             /\ Running(t) = IF f.pid = None THEN Running(s) ELSE Running(s) \cup {f.pid}
<1> DEFINE n == Len(s)
           t == Append(s, f)
<1>1. /\ n \in Nat /\ n >= 1 /\ s \in Seq(Frames)
      /\ \A j \in 1 .. n : s[j] \in Frames
  BY StackParts DEF Stack
<1>2. t \in Seq(Frames) /\ Len(t) = n + 1 /\ t[n + 1] = f /\ \A k \in 1 .. n : t[k] = s[k]
  BY <1>1
<1> HIDE DEF t
<1>3. \A k \in 1 .. n + 1 : k \in 1 .. n \/ k = n + 1
  BY <1>1
<1>4. \A k \in 1 .. n : s[k].pid # None => s[k].pid # f.pid
  <2> SUFFICES ASSUME NEW k \in 1 .. n, s[k].pid # None PROVE s[k].pid # f.pid
    OBVIOUS
  <2>1. s[k].pid \in Pids
    BY <1>1 DEF Frames
  <2>2. k > 0
    OBVIOUS
  <2> QED BY <2>1, <2>2, StackParts DEF Running
<1>5. Stack(t)
  <2>1. n + 1 \in 1 .. MaxDepth
    BY <1>1, BoundAssumption
  <2>2. t[1].kind = "cl"
    BY <1>1, <1>2 DEF Stack
  <2>3. \A k \in 1 .. n + 1 : t[k].kind = "proc" <=> t[k].pid # None
    BY <1>2, <1>3 DEF Stack
  <2>4. ASSUME NEW j \in 1 .. n + 1, NEW k \in 1 .. n + 1, t[j].pid # None, t[j].pid = t[k].pid
        PROVE  j = k
    BY <1>2, <1>3, <1>4, <2>4 DEF Stack
  <2> HIDE DEF n
  <2> QED BY <1>2, <2>1, <2>2, <2>3, <2>4 DEF Stack
<1>6. Running(s) \in SUBSET Pids /\ Running(t) \in SUBSET Pids /\ f.pid \in Pids \cup {None}
  BY <1>5, StackParts DEF Running, Frames
<1>7. \A p \in Pids : p \in Running(t) <=> \E k \in 1 .. n + 1 : t[k].pid = p
  BY <1>2, <1>5, StackParts DEF Running
<1>8. \A p \in Pids : p \in Running(s) <=> \E k \in 1 .. n : s[k].pid = p
  BY StackParts DEF Running
<1>9. \A k \in 1 .. n : k \in 1 .. n + 1
  BY <1>1
<1>10. n + 1 \in 1 .. n + 1
  BY <1>1
<1>11. \A p \in Pids : p \in Running(t) <=> p \in Running(s) \/ p = f.pid
  BY <1>2, <1>3, <1>7, <1>8, <1>9, <1>10
<1>12. None \notin Pids
  BY DEF Pids, None
<1>13. Running(t) = IF f.pid = None THEN Running(s) ELSE Running(s) \cup {f.pid}
  BY <1>6, <1>11, <1>12
<1> QED BY <1>2, <1>5, <1>13 DEF t
-----------------------------------------------------------------------------
(***************************************************************************)
(* The inductive invariant: the processes of the tasks on the stack have   *)
(* the active slots of a good cache.                                       *)
(***************************************************************************)
IInv ==
    /\ Good(cache) /\ Stack(task) /\ Owns(cache, Running(task))
    /\ last \in Slots \cup {None}

(***************************************************************************)
(* The tasks above one of the stack end, by ONEOF or TASKUNWIND.           *)
(***************************************************************************)
Left(c, s, n) == Restored(Disconnect(c, PidsAbove(s, n)), SubSeq(s, 1, n))

LEMMA LeftKeeps ==
  ASSUME NEW c, Good(c), NEW s, Stack(s), NEW n \in 1 .. Len(s),
         NEW U \in SUBSET Pids, Owns(c, U),
         U \ PidsAbove(s, n) = Running(s) \ PidsAbove(s, n)
  PROVE  LET d == Left(c, s, n)
             t == SubSeq(s, 1, n)
         IN  /\ Good(d) /\ Held(c) \subseteq Held(d)
             /\ Stack(t) /\ Len(t) = n /\ Owns(d, Running(t))
<1> DEFINE P == PidsAbove(s, n)
           t == SubSeq(s, 1, n)
           b == Disconnect(c, P)
           d == Left(c, s, n)
<1>1. n \in Nat /\ Stack(t) /\ Len(t) = n /\ Running(t) = Running(s) \ P
  BY StackLeft
<1>2. P \in SUBSET Pids
  BY <1>1, StackParts
<1>3. d = Restored(b, t)
  BY DEF Left
<1> HIDE DEF t, d, P
<1>4. Good(b) /\ Held(c) \subseteq Held(b) /\ Owns(b, U \ P)
  BY <1>2, DisconnectKeeps
<1>5. Owns(b, Running(t)) /\ Running(t) \in SUBSET Pids
  BY <1>1, <1>2, <1>4, StackParts DEF P, Running
<1> HIDE DEF b
<1>6. d = b \/ \E pno : d = PruneCache(b, pno)
  BY <1>3 DEF Restored
<1>7. Good(d) /\ Held(b) \subseteq Held(d) /\ Owns(d, Running(t))
  <2>1. CASE d = b
    BY <1>4, <1>5, <2>1
  <2>2. ASSUME NEW pno, d = PruneCache(b, pno)
        PROVE  Good(d) /\ Held(b) \subseteq Held(d) /\ Owns(d, Running(t))
    BY <1>4, <1>5, <2>2, PruneCacheKeeps DEF Keeps
  <2> QED BY <1>6, <2>1, <2>2
<1> QED BY <1>1, <1>4, <1>7 DEF t, d

LEMMA InteractiveIs ==
  ASSUME NEW s, Stack(s)
  PROVE  Interactive(s) \in 1 .. Len(s) /\ s[Interactive(s)].kind = "cl"
<1> DEFINE T == {k \in DOMAIN s : s[k].kind = "cl"}
<1>1. Len(s) \in Nat /\ T \in SUBSET (1 .. Len(s)) /\ 1 \in T
  BY StackParts, 0 \in Nat DEF Stack
<1>2. Max(T) \in T
  <2> HIDE DEF T
  <2> QED BY <1>1, Greatest
<1> QED BY <1>1, <1>2 DEF Interactive

(***************************************************************************)
(* What a step is shown to do: it keeps the invariant and the locks, and   *)
(* starts no task.                                                         *)
(***************************************************************************)
Settles == Good(cache') /\ Stack(task') /\ Owns(cache', Running(task'))
Ends    == Len(task') =< Len(task)

LEMMA FinishedSettles ==
  ASSUME NEW c, Good(c), NEW s, Stack(s), NEW n \in 1 .. Len(s),
         NEW U \in SUBSET Pids, Owns(c, U),
         U \ PidsAbove(s, n) = Running(s) \ PidsAbove(s, n),
         Finished(c, s, n)
  PROVE  Settles /\ Held(c) \subseteq Held(cache') /\ Len(task') =< Len(s)
<1>1. cache' = Left(c, s, n) /\ task' = SubSeq(s, 1, n)
  BY DEF Finished, Left
<1>2. /\ Good(Left(c, s, n)) /\ Held(c) \subseteq Held(Left(c, s, n))
      /\ Stack(SubSeq(s, 1, n)) /\ Len(SubSeq(s, 1, n)) = n
      /\ Owns(Left(c, s, n), Running(SubSeq(s, 1, n)))
  BY LeftKeeps
<1>3. n =< Len(s)
  BY StackParts, 0 \in Nat
<1> QED BY <1>1, <1>2, <1>3 DEF Settles

LEMMA UnwindSettles ==
  ASSUME NEW c, Good(c), NEW s, Stack(s), Owns(c, Running(s)), Unwind(c, s)
  PROVE  Settles /\ Held(c) \subseteq Held(cache') /\ Len(task') =< Len(s)
<1>1. Finished(c, s, Interactive(s)) /\ Interactive(s) \in 1 .. Len(s)
  BY InteractiveIs DEF Unwind
<1>2. Running(s) \in SUBSET Pids
  BY StackParts, 0 \in Nat DEF Running
<1> QED BY <1>1, <1>2, FinishedSettles

LEMMA CalledStack ==
  ASSUME Stack(task)
  PROVE  Stack(Called) /\ Len(Called) = Len(task) /\ Running(Called) = Running(task)
<1>1. Len(task) \in 1 .. Len(task) /\ None \in Nat
  BY StackParts, 0 \in Nat DEF None
<1> QED BY <1>1, StackMarked DEF Called

LEMMA BuiltinSettles ==
  ASSUME IInv, NEW c, Keeps(cache, c), Builtin(c)
  PROVE  Settles /\ cache' = c /\ Ends
<1>1. Stack(task) /\ Running(task) \in SUBSET Pids
  BY StackParts, 0 \in Nat DEF IInv, Running
<1>2. cache' = c /\ task' = Called
  BY DEF Builtin
<1>3. Len(task) \in Nat
  BY <1>1, StackParts, 0 \in Nat
<1> QED BY <1>1, <1>2, <1>3, CalledStack DEF Settles, IInv, Keeps, Ends
(***************************************************************************)
(* Each operation of the CL.                                               *)
(***************************************************************************)
LEMMA Owners ==
  ASSUME IInv
  PROVE  /\ cache \in Caches /\ Good(cache) /\ Stack(task) /\ Owns(cache, Running(task))
         /\ Running(task) \in SUBSET Pids /\ Len(task) \in Nat /\ Len(task) \in 1 .. Len(task)
         /\ Keeps(cache, cache)
<1>1. Stack(task) /\ Good(cache) /\ 0 \in Nat
  BY DEF IInv
<1>2. Running(task) \in SUBSET Pids /\ Len(task) \in Nat /\ Len(task) >= 1
  BY <1>1, StackParts DEF Running
<1> QED BY <1>1, <1>2 DEF IInv, Good, Keeps

LEMMA UnwindCalled ==
  ASSUME IInv, NEW c, Keeps(cache, c), Unwind(c, Called)
  PROVE  Settles /\ Held(c) \subseteq Held(cache') /\ Ends
<1>1. Good(c) /\ Owns(c, Running(Called)) /\ Stack(Called) /\ Len(Called) = Len(task)
  BY Owners, CalledStack DEF Keeps
<1> QED BY <1>1, UnwindSettles DEF Ends

LEMMA RunSteps ==
  ASSUME IInv, NEW e \in Exe, Run(e)
  PROVE  /\ Settles /\ last' \in Slots \cup {None} /\ Held(cache) \subseteq Held(cache')
         /\ \/ Ends
            \/ LET p == task'[Len(task')].pid
               IN  /\ cache'.child[p].exe = e /\ task'[Len(task')].exe = e
                   /\ cache'.child[p].relinked =>
                         \E i \in Slots : cache.slot[i].pid = p /\ cache.slot[i].locked
<1>1. PICK spawn : LET r == Connect(cache, e, spawn)
                   IN  /\ Len(task) < MaxDepth
                       /\ last' = IF r.pid = None THEN None ELSE SlotOf(r.cache, r.pid)
                       /\ IF r.pid = None
                          THEN Unwind(r.cache, Called)
                          ELSE cache' = r.cache /\ task' = Append(Called, Frame("proc", e, r.pid))
  BY DEF Run
<1> DEFINE r == Connect(cache, e, spawn)
<1>2. Connects(cache, e, r) /\ e \in Names
  BY Owners, ConnectConnects DEF Names
<1> HIDE DEF r
<1>3. CASE r.pid = None
  <2>1. Unwind(r.cache, Called) /\ last' = None
    BY <1>1, <1>3 DEF r
  <2>2. Keeps(cache, r.cache) /\ Held(cache) \subseteq Held(r.cache)
    BY <1>2, <1>3 DEF Connects
  <2> QED BY <2>1, <2>2, UnwindCalled
<1>4. CASE r.pid # None
  <2> DEFINE f == Frame("proc", e, r.pid)
  <2>1. cache' = r.cache /\ task' = Append(Called, f) /\ last' = SlotOf(r.cache, r.pid)
        /\ Len(task) < MaxDepth
    BY <1>1, <1>4 DEF r
  <2>2. Gains(cache, e, r.cache, r.pid)
    BY <1>2, <1>4 DEF Connects
  <2>3. r.pid \in Pids /\ r.pid \notin Running(task) /\ Good(r.cache)
        /\ Owns(r.cache, Running(task) \cup {r.pid})
    BY <2>2, Owners DEF Gains
  <2>4. f \in Frames /\ f.kind = "proc" /\ f.pid = r.pid /\ f.exe = e
    <3>1. None \in Nat /\ r.pid \in Pids \cup {None}
      BY <2>3 DEF None
    <3> QED BY <1>2, <3>1 DEF Frame, Frames
  <2> HIDE DEF f
  <2>5. Stack(Called) /\ Running(Called) = Running(task) /\ Len(Called) = Len(task)
    BY Owners, CalledStack
  <2>6. Stack(task') /\ Running(task') = Running(task) \cup {r.pid} /\ task'[Len(task')] = f
    BY <1>4, <2>1, <2>3, <2>4, <2>5, StackPushed
  <2>7. last' \in Slots \cup {None}
    BY <2>1, <2>3, SlotOfPid
  <2> QED BY <2>1, <2>2, <2>3, <2>4, <2>6, <2>7 DEF Settles, Gains
<1> QED BY <1>3, <1>4

LEMMA PushSteps ==
  ASSUME IInv, Script \/ Cl
  PROVE  /\ Settles /\ last' = last /\ cache' = cache
         /\ task'[Len(task')].exe = ""
<1>1. PICK kind \in {"script", "cl"} :
         /\ Len(task) < MaxDepth /\ task' = Append(Called, Frame(kind, "", None))
         /\ UNCHANGED <<cache, last>>
  BY DEF Script, Cl
<1> DEFINE f == Frame(kind, "", None)
<1>2. f \in Frames /\ f.pid = None /\ f.exe = ""
  <2>1. "" \in Names /\ None \in Nat
    BY DEF Names, None
  <2> QED BY <2>1 DEF Frame, Frames
<1>3. f.kind # "proc"
  BY DEF Frame
<1> HIDE DEF f
<1>4. Stack(Called) /\ Running(Called) = Running(task) /\ Len(Called) = Len(task)
      /\ None \notin Running(task)
  <2>1. None \notin Pids
    BY DEF Pids, None
  <2> QED BY <2>1, Owners, CalledStack
<1>5. task' = Append(Called, f) /\ Len(Called) < MaxDepth
  BY <1>1, <1>4 DEF f
<1>6. Stack(task') /\ Running(task') = Running(task) /\ task'[Len(task')] = f
  BY <1>2, <1>3, <1>4, <1>5, StackPushed
<1> QED BY <1>1, <1>2, <1>6, Owners DEF Settles

LEMMA PackageSteps ==
  ASSUME IInv, Package
  PROVE  Settles /\ last' = None /\ Held(cache) \subseteq Held(cache') /\ Ends
<1>1. PICK k \in 2 .. Len(task) : /\ task' = [Called EXCEPT ![k - 1].pno = cache.pno]
                                  /\ cache' = [cache EXCEPT !.pno = @ + 1]
                                  /\ last' = None
  BY DEF Package
<1>2. Stack(Called) /\ Running(Called) = Running(task) /\ Len(Called) = Len(task)
      /\ cache \in Caches /\ Good(cache) /\ Owns(cache, Running(task))
      /\ Len(task) \in Nat
  BY Owners, CalledStack, Parts
<1>0. cache.pno \in Nat
  BY <1>2, Parts
<1> DEFINE j == k - 1
           mark == cache.pno
           t == [Called EXCEPT ![j].pno = mark]
<1>3. j \in 1 .. Len(Called) /\ task' = t
  BY <1>1, <1>2
<1>4. Stack(task') /\ Running(task') = Running(task) /\ Len(task') = Len(task)
  <2>1. mark \in Nat
    BY <1>0
  <2> HIDE DEF j, mark
  <2>2. Stack(t) /\ Len(t) = Len(Called) /\ Running(t) = Running(Called)
    BY <1>2, <1>3, <2>1, StackMarked
  <2> QED BY <1>2, <1>3, <2>2
<1> DEFINE pno == cache.pno + 1
           d == [cache EXCEPT !.pno = pno]
<1>5. pno \in Nat \ {0}
  BY <1>0
<1>6. cache' = d
  BY <1>1
<1> HIDE DEF pno
<1>7. d \in Caches /\ d.list = cache.list /\ d.slot = cache.slot /\ d.child = cache.child
      /\ d.size = cache.size
  BY <1>2, <1>5 DEF Caches
<1> HIDE DEF d
<1>8. Good(d)
  BY <1>2, <1>7 DEF Good, Listed, Registered, Live
<1>9. Owns(d, Running(task)) /\ Held(cache) \subseteq Held(d)
  BY <1>2, <1>7 DEF Owns, Alive, Held
<1> QED BY <1>1, <1>2, <1>4, <1>6, <1>8, <1>9 DEF Settles, Ends

LEMMA FinishSteps ==
  ASSUME IInv, Finish
  PROVE  Settles /\ last' = last /\ Held(cache) \subseteq Held(cache') /\ Ends
<1>1. Finished(cache, task, Len(task) - 1) /\ last' = last /\ Len(task) > 1
  BY DEF Finish
<1>2. Len(task) - 1 \in 1 .. Len(task)
  BY <1>1, Owners
<1> QED BY <1>1, <1>2, Owners, FinishedSettles DEF Ends

LEMMA ErrorSteps ==
  ASSUME IInv, Error
  PROVE  Settles /\ last' = None /\ Held(cache) \subseteq Held(cache') /\ Ends
BY Owners, UnwindSettles DEF Error, Ends

LEMMA FlushSteps ==
  ASSUME IInv, Flush
  PROVE  Settles /\ last' = None /\ Held(cache) \subseteq Held(cache') /\ Ends
<1>1. FALSE \in BOOLEAN /\ Builtin(DumpCache(cache, None, FALSE)) /\ last' = None
  BY DEF Flush, Builtin
<1>2. Keeps(cache, DumpCache(cache, None, FALSE))
      /\ Held(cache) \subseteq Held(DumpCache(cache, None, FALSE))
  BY Owners, DumpCacheKeeps
<1> QED BY <1>1, <1>2, BuiltinSettles

LEMMA FlushAllSteps ==
  ASSUME IInv, FlushAll
  PROVE  Settles /\ last' = None /\ Ends
<1>1. TRUE \in BOOLEAN /\ Builtin(DumpCache(cache, None, TRUE)) /\ last' = None
  BY DEF FlushAll, Builtin
<1>2. Keeps(cache, DumpCache(cache, None, TRUE))
  BY Owners, DumpCacheKeeps
<1> QED BY <1>1, <1>2, BuiltinSettles

LEMMA FlushTaskSteps ==
  ASSUME IInv, NEW e \in Exe, FlushTask(e)
  PROVE  Settles /\ last' = None /\ Ends
<1> DEFINE b == CheckUp(cache)
           pid == PnameToPid(b, e)
           c == IF pid = None THEN b ELSE DumpCache(b, pid, TRUE)
<1>1. TRUE \in BOOLEAN /\ Builtin(c) /\ last' = None
  BY DEF FlushTask, Builtin
<1>2. Keeps(cache, b) /\ Good(b)
  BY Owners, CheckUpKeeps DEF Keeps
<1> HIDE DEF b, pid
<1>3. Keeps(b, DumpCache(b, pid, TRUE))
  BY <1>2, DumpCacheKeeps
<1>4. Keeps(cache, c)
  BY <1>2, <1>3, KeepsTwice
<1> QED BY <1>1, <1>4, BuiltinSettles

LEMMA LockTaskSteps ==
  ASSUME IInv, NEW e \in Exe, LockTask(e)
  PROVE  Settles /\ last' = None /\ Held(cache) \subseteq Held(cache') /\ Ends
<1> DEFINE b == CheckUp(cache)
           pid == PnameToPid(b, e)
<1>1. PICK spawn \in {"ok", "fail"} :
         LET r == Connect(b, e, spawn)
         IN  IF pid # None THEN Builtin(Lock(b, pid))
             ELSE IF r.pid # None THEN Builtin(Lock(Disconnect(r.cache, {r.pid}), r.pid))
             ELSE Unwind(r.cache, Called) /\ last' = None
  <2> HIDE DEF b, pid
  <2> QED BY DEF LockTask, Parked, b, pid
<1> DEFINE s == Connect(b, e, spawn)
           p == s.pid
           d == Disconnect(s.cache, {p})
<1>2. Keeps(cache, b) /\ Held(cache) \subseteq Held(b) /\ Good(b) /\ b \in Caches
  BY Owners, CheckUpKeeps DEF Keeps, Good
<1>3. Connects(b, e, s) /\ e \in Names
  BY <1>2, ConnectConnects DEF Names
<1>4. pid \in Pids \cup {None}
  <2> DEFINE i == FromHead(b.list, {j \in Slots : b.slot[j].name = e})
  <2>1. i # None => i \in Slots
    BY <1>2, Found, Parts
  <2>2. pid = IF i = None THEN None ELSE b.slot[i].pid
    BY DEF PnameToPid
  <2> HIDE DEF i, b, pid
  <2> QED BY <1>2, <2>1, <2>2, Parts
<1> HIDE DEF b, pid, s
<1>5. CASE pid # None
  <2>1. Builtin(Lock(b, pid)) /\ last' = None
    BY <1>1, <1>5 DEF Builtin, s
  <2>2. Keeps(b, Lock(b, pid)) /\ Held(b) \subseteq Held(Lock(b, pid))
    BY <1>2, <1>4, LockKeeps
  <2> QED BY <1>2, <2>1, <2>2, KeepsTwice, BuiltinSettles
<1>6. CASE pid = None /\ p # None
  <2>1. Builtin(Lock(d, p)) /\ last' = None
    BY <1>1, <1>6 DEF Builtin, s
  <2>2. Gains(b, e, s.cache, p)
    BY <1>3, <1>6 DEF Connects
  <2>3. /\ p \in Pids /\ Good(s.cache) /\ Good(d) /\ Held(b) \subseteq Held(d)
        /\ \A T \in SUBSET Pids : Owns(s.cache, T) => Owns(d, T \ {p})
    BY <2>2, DisconnectKeeps DEF Gains
  <2>4. Keeps(b, d)
    <3> SUFFICES ASSUME NEW T \in SUBSET Pids, Owns(b, T) PROVE Owns(d, T)
      BY <2>3 DEF Keeps
    <3>1. p \notin T /\ Owns(s.cache, T \cup {p}) /\ T \cup {p} \in SUBSET Pids
      BY <2>2, <2>3 DEF Gains
    <3>2. (T \cup {p}) \ {p} = T
      BY <3>1
    <3> QED BY <2>3, <3>1, <3>2
  <2> HIDE DEF d
  <2>5. Keeps(d, Lock(d, p)) /\ Held(d) \subseteq Held(Lock(d, p))
    BY <2>3, LockKeeps
  <2>6. Keeps(cache, Lock(d, p)) /\ Held(cache) \subseteq Held(Lock(d, p))
    BY <1>2, <2>3, <2>4, <2>5, KeepsTwice
  <2> QED BY <2>1, <2>6, BuiltinSettles
<1>7. CASE pid = None /\ p = None
  <2>1. Unwind(s.cache, Called) /\ last' = None
    BY <1>1, <1>7 DEF s
  <2>2. Keeps(b, s.cache) /\ Held(b) \subseteq Held(s.cache)
    BY <1>3, <1>7 DEF Connects
  <2>3. Keeps(cache, s.cache)
    BY <1>2, <2>2, KeepsTwice
  <2> QED BY <1>2, <2>1, <2>2, <2>3, UnwindCalled
<1> QED BY <1>5, <1>6, <1>7
LEMMA LockedNamesAre ==
  ASSUME NEW c, Good(c)
  PROVE  Len(LockedNames(c)) \in Nat /\ \A k \in 1 .. Len(LockedNames(c)) : LockedNames(c)[k] \in Names
<1> DEFINE S == {i \in Slots : Live(c, i) /\ c.slot[i].locked}
           locked == Only(c.list, S)
           names == [k \in DOMAIN locked |-> c.slot[locked[k]].name]
<1>1. c \in Caches /\ c.list \in Lists
  BY Parts DEF Good
<1>2. locked \in Seq(Slots)
  BY <1>1, OnlyList DEF Lists
<1>3. LockedNames(c) = names
  BY DEF LockedNames
<1> HIDE DEF locked
<1>4. \A k \in DOMAIN locked : c.slot[locked[k]].name \in Names
  BY <1>1, <1>2, Parts DEF SlotType
<1>5. DOMAIN locked = 1 .. Len(locked) /\ Len(locked) \in Nat
  BY <1>2
<1>6. names \in Seq(Names)
  BY <1>4, <1>5
<1> HIDE DEF names
<1> QED BY <1>3, <1>6

LEMMA ClearedCache ==
  ASSUME NEW c, Good(c), NEW n \in Nat, \A i \in Slots : ~c.slot[i].active
  PROVE  LET new == InitCache([(IF c.list = <<>> THEN c ELSE DumpCache(c, None, TRUE))
                                  EXCEPT !.size = Clamped(n)])
         IN  Good(new) /\ Owns(new, {}) /\ new.size \in Nat /\ new.size >= 2
<1> DEFINE b == IF c.list = <<>> THEN c ELSE DumpCache(c, None, TRUE)
           m == Clamped(n)
           d == [b EXCEPT !.size = m]
           new == InitCache(d)
<1>1. Good(b) /\ \A i \in Slots : ~Live(b, i)
  <2>1. CASE c.list = <<>>
    <3>1. Range(c.list) = {}
      BY <2>1, Parts DEF Good
    <3> QED BY <2>1, <3>1, GoodParts
  <2>2. CASE c.list # <<>>
    <3>1. TRUE \in BOOLEAN
      OBVIOUS
    <3> QED BY <2>2, <3>1, DumpCacheKeeps DEF Keeps
  <2> QED BY <2>1, <2>2
<1> HIDE DEF b
<1>2. m \in 2 .. MaxSub
  BY BoundAssumption DEF Clamped
<1> HIDE DEF m
<1>3. d \in Caches /\ d.list = b.list /\ d.slot = b.slot /\ d.child = b.child
  BY <1>1, <1>2 DEF Good, Caches
<1> HIDE DEF d
<1>4. Registered(d) /\ \A i \in Slots : ~Live(d, i)
  BY <1>1, <1>3 DEF Good, Registered, Live
<1>5. Good(new) /\ \A i \in Slots : ~new.slot[i].active
  BY <1>3, <1>4, InitCacheKeeps DEF Keeps
<1> HIDE DEF new
<1>6. Owns(new, {})
  BY <1>5 DEF Owns
<1>7. new.size \in Nat /\ new.size >= 2
  <2>1. new.size \in 2 .. MaxSub
    BY <1>5, Parts DEF Good
  <2> QED BY <2>1
<1> QED BY <1>5, <1>6, <1>7 DEF new, d, m, b

LEMMA SetCacheSteps ==
  ASSUME IInv, ResizeBusy = FALSE, NEW n \in Sizes, SetCache(n)
  PROVE  Settles /\ last' = None /\ Ends
<1> DEFINE names == LockedNames(cache)
           new == InitCache([(IF cache.list = <<>> THEN cache
                              ELSE DumpCache(cache, None, TRUE))
                                 EXCEPT !.size = Clamped(n)])
           again == IF Len(names) < new.size THEN Len(names) ELSE new.size - 1
<1>1. /\ \A i \in Slots : ~cache.slot[i].active
      /\ last' = None
      /\ \/ cache' = Recached(new, names, again) /\ task' = task
         \/ \E k \in 1 .. again :
               LET r == Connect(Recached(new, names, k - 1), names[k], "fail")
               IN  r.pid = None /\ Unwind(r.cache, task)
  BY DEF SetCache, GivenUp
<1>2. Good(new) /\ Owns(new, {}) /\ new.size \in Nat /\ new.size >= 2
  <2>1. n \in Nat
    BY BoundAssumption
  <2> QED BY <1>1, <2>1, Owners, ClearedCache
<1>3. Len(names) \in Nat /\ \A k \in 1 .. Len(names) : names[k] \in Names
  BY Owners, LockedNamesAre
<1> HIDE DEF names, new
<1>4. again \in Nat /\ again =< Len(names)
  BY <1>2, <1>3
<1> HIDE DEF again
<1>5. \A k \in 1 .. again : k \in 1 .. Len(names)
  BY <1>3, <1>4
<1>6. Running(task) = {}
  BY <1>1, Owners DEF Owns
<1>7. ASSUME NEW k \in Nat, k =< again
      PROVE  Good(Recached(new, names, k)) /\ Owns(Recached(new, names, k), {})
  <2>1. \A j \in 1 .. k : names[j] \in Names
    BY <1>3, <1>4, <1>7
  <2> QED BY <1>2, <1>7, <2>1, RecachedKeeps DEF Keeps
<1>8. CASE cache' = Recached(new, names, again) /\ task' = task
  <2> DEFINE d == Recached(new, names, again)
  <2>1. Good(d) /\ Owns(d, {})
    <3>1. again =< again
      BY <1>4
    <3> QED BY <1>4, <1>7, <3>1
  <2> HIDE DEF d
  <2>2. cache' = d /\ task' = task
    BY <1>8 DEF d
  <2>3. Stack(task) /\ Len(task) =< Len(task)
    BY Owners
  <2>4. Good(cache') /\ Owns(cache', {})
    BY <2>1, <2>2
  <2>5. Stack(task') /\ Running(task') = {} /\ Len(task') =< Len(task)
    BY <1>6, <2>2, <2>3
  <2> QED BY <1>1, <2>4, <2>5 DEF Settles, Ends
<1>9. ASSUME NEW k \in 1 .. again,
             LET r == Connect(Recached(new, names, k - 1), names[k], "fail")
             IN  r.pid = None /\ Unwind(r.cache, task)
      PROVE  Settles /\ Ends
  <2> DEFINE c == Recached(new, names, k - 1)
             r == Connect(c, names[k], "fail")
  <2>1. Good(c) /\ Owns(c, {}) /\ names[k] \in Names
    <3>1. k - 1 \in Nat /\ k - 1 =< again
      BY <1>4
    <3> QED BY <1>3, <1>5, <1>7, <3>1
  <2>2. r.pid = None /\ Unwind(r.cache, task)
    BY <1>9
  <2> HIDE DEF c
  <2>3. Connects(c, names[k], r)
    BY <2>1, ConnectConnects
  <2> HIDE DEF r
  <2>4. Good(r.cache) /\ Owns(r.cache, Running(task))
    BY <1>6, <2>1, <2>2, <2>3 DEF Connects, Keeps
  <2> QED BY <2>2, <2>4, Owners, UnwindSettles DEF Ends
<1> QED BY <1>1, <1>8, <1>9

LEMMA BroadcastSteps ==
  ASSUME IInv, Broadcast
  PROVE  Settles /\ last' = None /\ Held(cache) \subseteq Held(cache') /\ Ends
<1> DEFINE b == CheckUp(cache)
           S == {i \in Slots : /\ Live(b, i) /\ ~b.slot[i].active
                               /\ b.child[b.slot[i].pid].state = "gone"}
           i == FromHead(b.list, S)
           p == b.slot[i].pid
           d == Dies(b, p)
<1>1. Keeps(cache, b) /\ Held(cache) \subseteq Held(b) /\ Good(b) /\ b \in Caches
  BY Owners, CheckUpKeeps DEF Keeps, Good
<1>2. IF i = None THEN Builtin(b) ELSE Unwind(d, Called) /\ last' = None
  BY DEF Broadcast, Dies
<1> HIDE DEF b
<1>3. i # None => i \in S
  BY <1>1, Found, Parts
<1> HIDE DEF i
<1>4. CASE i = None
  <2>1. Builtin(b) /\ last' = None
    BY <1>2, <1>4 DEF Builtin
  <2> QED BY <1>1, <2>1, BuiltinSettles
<1>5. CASE i # None
  <2>1. i \in Slots /\ Live(b, i) /\ ~b.slot[i].active /\ b.child[p].state = "gone"
    BY <1>3, <1>5
  <2>2. p \in Pids
    BY <1>1, <2>1, GoodParts
  <2>3. /\ Good(d) /\ Held(b) \subseteq Held(d)
        /\ \A T \in SUBSET Pids : Owns(b, T) => Owns(d, T \ {p})
    BY <1>1, <2>1, <2>2, DiesKeeps
  <2>4. Keeps(b, d)
    <3> SUFFICES ASSUME NEW T \in SUBSET Pids, Owns(b, T) PROVE Owns(d, T)
      BY <2>3 DEF Keeps
    <3>1. p \notin T
      <4> SUFFICES ASSUME p \in T PROVE FALSE
        OBVIOUS
      <4>1. PICK j \in Slots : b.slot[j].pid = p /\ b.slot[j].active
        BY DEF Owns
      <4>2. i = j
        BY <1>1, <2>1, <4>1, GoodParts
      <4> QED BY <2>1, <4>1, <4>2
    <3>2. T \ {p} = T
      BY <3>1
    <3> QED BY <2>3, <3>2
  <2> HIDE DEF d
  <2>5. Keeps(cache, d) /\ Held(cache) \subseteq Held(d)
    BY <1>1, <2>3, <2>4, KeepsTwice
  <2> QED BY <1>2, <1>5, <2>5, UnwindCalled
<1> QED BY <1>4, <1>5

LEMMA AnswerSteps ==
  ASSUME IInv, Answer
  PROVE  Settles /\ last' = None /\ Held(cache) \subseteq Held(cache') /\ Ends
<1> DEFINE n == Len(task)
           p == task[n].pid
           d == Dies(cache, p)
           m == Interactive(task)
           U == Running(task) \ {p}
<1>1. task[n].kind = "proc" /\ cache.child[p].state = "gone" /\ Unwind(d, task) /\ last' = None
  BY DEF Answer, Top, Dies
<1>2. n \in 1 .. n /\ n \in Nat /\ Stack(task) /\ Good(cache)
  BY Owners
<1>3. p \in Pids
  <2>1. p # None /\ task[n] \in Frames
    BY <1>1, <1>2, StackParts DEF Stack
  <2> QED BY <2>1 DEF Frames
<1>4. Finished(d, task, m) /\ m \in 1 .. n /\ task[m].kind = "cl"
  BY <1>1, <1>2, InteractiveIs DEF Unwind
<1>5. Good(d) /\ Held(cache) \subseteq Held(d) /\ Owns(d, U)
  BY <1>1, <1>2, <1>3, Owners, DiesKeeps
<1>6. p \in PidsAbove(task, m)
  <2>1. m # n
    BY <1>1, <1>4
  <2>2. n > m /\ m \in Nat
    BY <1>2, <1>4, <2>1
  <2> HIDE DEF n, m
  <2> QED BY <1>2, <1>3, <2>2, StackParts DEF n
<1>7. U \in SUBSET Pids /\ U \ PidsAbove(task, m) = Running(task) \ PidsAbove(task, m)
  BY <1>6, Owners
<1> HIDE DEF U, d, m
<1> QED BY <1>1, <1>2, <1>4, <1>5, <1>7, FinishedSettles DEF Ends

(***************************************************************************)
(* A process dies, an executable is linked again: the states change, but a *)
(* task keeps its process until the CL knows.                              *)
(***************************************************************************)
LEMMA OutsideSettles ==
  ASSUME IInv, NEW child \in [Pids -> ChildType],
         cache' = [cache EXCEPT !.child = child], task' = task,
         \A p \in Pids : /\ child[p].exe = cache.child[p].exe
                         /\ \/ child[p].state = cache.child[p].state
                            \/ child[p].state = "gone" /\ cache.child[p].state = "up"
  PROVE  Settles /\ Ends /\ cache'.child = child
<1>1. cache \in Caches /\ Good(cache) /\ Stack(task) /\ Owns(cache, Running(task))
      /\ Len(task) \in Nat
  BY Owners
<1>2. /\ cache' \in Caches /\ cache'.child = child /\ cache'.list = cache.list
      /\ cache'.slot = cache.slot /\ cache'.size = cache.size
  BY <1>1 DEF Caches
<1>3. Similar(cache, cache')
  <2>1. \A p \in Pids : child[p].state = "none" <=> cache.child[p].state = "none"
    OBVIOUS
  <2> QED BY <1>1, <1>2, <2>1, GoodParts DEF Similar
<1>4. Good(cache')
  BY <1>1, <1>3, SimilarGood
<1>5. \A p \in Pids : Alive(cache', p) <=> Alive(cache, p)
  BY <1>2 DEF Alive
<1>6. Owns(cache', Running(task))
  <2>1. \A i \in Slots : cache.slot[i].active => cache.slot[i].pid \in Pids
    BY <1>1, GoodParts DEF Busy
  <2>2. Running(task) \in SUBSET Pids
    BY Owners
  <2> QED BY <1>1, <1>2, <1>5, <2>1, <2>2 DEF Owns
<1> QED BY <1>1, <1>2, <1>4, <1>6 DEF Settles, Ends

LEMMA CrashSteps ==
  ASSUME IInv, NEW pid \in Pids, Crash(pid)
  PROVE  Settles /\ last' = None /\ Ends /\ \A p \in Pids : cache.child[p].state # "none" => cache'.child[p].state # "none"
<1> DEFINE child == [cache.child EXCEPT ![pid].state = "gone"]
<1>1. cache.child[pid].state = "up" /\ task' = task /\ last' = None
      /\ cache' = [cache EXCEPT !.child[pid].state = "gone"] /\ cache \in Caches
  BY Owners DEF Crash
<1>2. cache' = [cache EXCEPT !.child = child]
  BY <1>1
<1>3. child \in [Pids -> ChildType]
      /\ \A p \in Pids : /\ child[p].exe = cache.child[p].exe
                         /\ \/ child[p].state = cache.child[p].state
                            \/ child[p].state = "gone" /\ cache.child[p].state = "up"
  BY <1>1 DEF Caches, ChildType
<1> HIDE DEF child
<1>4. Settles /\ Ends /\ cache'.child = child
  BY <1>1, <1>2, <1>3, OutsideSettles
<1> QED BY <1>1, <1>3, <1>4

LEMMA RelinkSteps ==
  ASSUME IInv, NEW e \in Exe, Relink(e)
  PROVE  Settles /\ last' = None /\ Ends /\ \A p \in Pids : cache.child[p].state # "none" => cache'.child[p].state # "none"
<1> DEFINE again(p) == [cache.child[p] EXCEPT !.relinked = @ \/ cache.child[p].exe = e]
           child == [p \in Pids |-> again(p)]
<1>1. task' = task /\ last' = None /\ cache' = [cache EXCEPT !.child = child] /\ cache \in Caches
  BY Owners DEF Relink
<1>2. ASSUME NEW p \in Pids
      PROVE  again(p) \in ChildType /\ again(p).exe = cache.child[p].exe
             /\ again(p).state = cache.child[p].state
  <2> DEFINE c == cache.child[p]
             v == c.relinked \/ c.exe = e
  <2>1. c \in ChildType /\ v \in BOOLEAN
    BY <1>1, Parts
  <2>2. again(p) = [c EXCEPT !.relinked = v]
    OBVIOUS
  <2> HIDE DEF c, v
  <2>3. [c EXCEPT !.relinked = v] \in ChildType /\ [c EXCEPT !.relinked = v].exe = c.exe
        /\ [c EXCEPT !.relinked = v].state = c.state
    BY <2>1 DEF ChildType
  <2> HIDE DEF again
  <2> QED BY <2>2, <2>3 DEF c
<1> HIDE DEF again
<1>3. child \in [Pids -> ChildType]
      /\ \A p \in Pids : /\ child[p].exe = cache.child[p].exe
                         /\ child[p].state = cache.child[p].state
  BY <1>2
<1> HIDE DEF child
<1>4. Settles /\ Ends /\ cache'.child = child
  BY <1>1, <1>3, OutsideSettles
<1> QED BY <1>1, <1>3, <1>4
-----------------------------------------------------------------------------
(***************************************************************************)
(* The inductive invariant, as long as the size of the cache is changed    *)
(* with no task running in a process: PR_SETCACHE forgets the slots.       *)
(***************************************************************************)
LEMMA InitGood == ASSUME Init PROVE IInv
<1>1. /\ cache.list = <<>> /\ cache.size = 2 /\ cache.pno = 1
      /\ \A i \in Slots : cache.slot[i] = Empty
      /\ \A p \in Pids : cache.child[p] = Closed
      /\ task = <<Frame("cl", "", None)>> /\ last = None
  BY DEF Init
<1>2. Empty \in SlotType /\ Closed \in ChildType
  BY DEF Empty, Closed, SlotType, ChildType, Names, Pids, None
<1>3. Empty.pid = None /\ ~Empty.active /\ ~Empty.locked /\ Closed.state = "none"
  BY DEF Empty, Closed
<1>4. cache \in Caches
  <2> DEFINE list == <<>>
             slot == [i \in Slots |-> Empty]
             child == [p \in Pids |-> Closed]
             c == [list |-> list, size |-> 2, pno |-> 1, slot |-> slot, child |-> child]
  <2>1. list \in Lists
    BY DEF Lists, IsInjective
  <2>2. slot \in [Slots -> SlotType] /\ child \in [Pids -> ChildType]
    BY <1>2
  <2>3. cache = c
    BY DEF Init
  <2> HIDE DEF list, slot, child
  <2>4. c \in Caches
    BY <2>1, <2>2, BoundAssumption DEF Caches
  <2> QED BY <2>3, <2>4
<1>5. Good(cache)
  BY <1>1, <1>3, <1>4 DEF Good, Listed, Registered, Live, Busy
<1>6. Stack(task)
  <2> DEFINE f == Frame("cl", "", None)
  <2>1. f \in Frames /\ f.kind = "cl" /\ f.pid = None
    BY DEF Frame, Frames, Names, None
  <2>2. f.kind # "proc"
    BY DEF Frame
  <2> HIDE DEF f
  <2>3. task = <<f>>
    BY <1>1 DEF f
  <2>4. task \in Seq(Frames) /\ Len(task) = 1 /\ task[1] = f
    BY <2>1, <2>3
  <2>5. 1 \in 1 .. MaxDepth
    BY BoundAssumption
  <2>6. \A k \in 1 .. Len(task) : task[k] = f
    BY <2>4
  <2>7. \A j, k \in 1 .. Len(task) : j = k
    BY <2>4
  <2> QED BY <2>1, <2>2, <2>4, <2>5, <2>6, <2>7 DEF Stack
<1>7. Running(task) = {}
  <2>1. 0 \in Nat /\ \A k \in 1 .. Len(task) : task[k].pid = None
    <3> DEFINE f == Frame("cl", "", None)
    <3>1. f.pid = None
      BY DEF Frame
    <3> HIDE DEF f
    <3>2. task = <<f>>
      BY <1>1 DEF f
    <3> QED BY <3>1, <3>2
  <2>2. \A p \in Pids : p \notin Running(task)
    BY <1>6, <2>1, StackParts DEF Running, Pids, None
  <2> QED BY <1>6, <2>1, <2>2, StackParts DEF Running
<1>8. Owns(cache, Running(task))
  BY <1>1, <1>3, <1>7 DEF Owns
<1> QED BY <1>1, <1>5, <1>6, <1>8 DEF IInv

LEMMA NextKeeps ==
  ASSUME IInv, ResizeBusy = FALSE, [Next]_vars
  PROVE  Settles /\ last' \in Slots \cup {None}
<1>1. ASSUME NEW e \in Exe, Run(e) PROVE Settles /\ last' \in Slots \cup {None}
  BY <1>1, RunSteps
<1>2. ASSUME NEW e \in Exe, FlushTask(e) PROVE Settles /\ last' \in Slots \cup {None}
  BY <1>2, FlushTaskSteps
<1>3. ASSUME NEW e \in Exe, LockTask(e) PROVE Settles /\ last' \in Slots \cup {None}
  BY <1>3, LockTaskSteps
<1>4. ASSUME NEW e \in Exe, Relink(e) PROVE Settles /\ last' \in Slots \cup {None}
  BY <1>4, RelinkSteps
<1>5. CASE Script \/ Cl
  BY <1>5, PushSteps DEF IInv
<1>6. CASE Package
  BY <1>6, PackageSteps
<1>7. CASE Finish
  BY <1>7, FinishSteps DEF IInv
<1>8. CASE Error
  BY <1>8, ErrorSteps
<1>9. CASE Flush
  BY <1>9, FlushSteps
<1>10. CASE FlushAll
  BY <1>10, FlushAllSteps
<1>11. CASE Broadcast
  BY <1>11, BroadcastSteps
<1>12. CASE Answer
  BY <1>12, AnswerSteps
<1>13. ASSUME NEW n \in Sizes, SetCache(n) PROVE Settles /\ last' \in Slots \cup {None}
  BY <1>13, SetCacheSteps
<1>14. ASSUME NEW pid \in Pids, Crash(pid) PROVE Settles /\ last' \in Slots \cup {None}
  BY <1>14, CrashSteps
<1>15. CASE UNCHANGED vars
  BY <1>15 DEF IInv, Settles, vars
<1> QED BY <1>1, <1>2, <1>3, <1>4, <1>5, <1>6, <1>7, <1>8, <1>9, <1>10, <1>11, <1>12, <1>13,
           <1>14, <1>15 DEF Next

LEMMA Inductive == ASSUME ResizeBusy = FALSE PROVE Spec => []IInv
<1>1. Init => IInv
  BY InitGood
<1>2. IInv /\ [Next]_vars => IInv'
  BY NextKeeps DEF IInv, Settles
<1> QED BY <1>1, <1>2, PTL DEF Spec
-----------------------------------------------------------------------------
LEMMA ListLength ==
  ASSUME NEW list \in Lists, NEW n \in Nat, Range(list) = 1 .. n
  PROVE  Len(list) = n
<1> DEFINE m == Len(list)
<1>1. m \in Nat /\ list \in [1 .. m -> Slots] /\ DOMAIN list = 1 .. m
      /\ \A j, k \in 1 .. m : list[j] = list[k] => j = k
  BY DEF Lists, IsInjective
<1>2. \A j \in 1 .. m : list[j] \in 1 .. n
  BY <1>1 DEF Range
<1>3. \A x \in 1 .. n : \E j \in 1 .. m : list[j] = x
  BY <1>1 DEF Range
<1>4. list \in [1 .. m -> 1 .. n]
  BY <1>1, <1>2
<1> HIDE DEF m
<1>5. list \in Bijection(1 .. m, 1 .. n)
  BY <1>1, <1>3, <1>4 DEF Bijection, Injection, Surjection, IsInjective
<1>6. IsFiniteSet(1 .. m) /\ Cardinality(1 .. m) = m /\ Cardinality(1 .. n) = n
  BY <1>1, FS_Interval
<1> QED BY <1>5, <1>6, FS_Bijection DEF ExistsBijection, m

(***************************************************************************)
(* Every component of the state has its type: the list has no slot twice,  *)
(* and all of them or none (pr_initcache).                                 *)
(***************************************************************************)
THEOREM TypeCorrect == ASSUME ResizeBusy = FALSE PROVE Spec => []TypeOK
<1>1. IInv => TypeOK
  <2> SUFFICES ASSUME IInv PROVE TypeOK
    OBVIOUS
  <2>1. cache \in Caches /\ Good(cache) /\ Stack(task) /\ last \in Slots \cup {None}
    BY Owners DEF IInv
  <2>2. cache.list \in Lists /\ cache.list \in Seq(Slots) /\ IsInjective(cache.list)
        /\ cache.size \in 2 .. MaxSub /\ cache.size \in Nat /\ cache.pno \in Nat \ {0}
    <3>1. cache.list \in Lists /\ cache.size \in 2 .. MaxSub /\ cache.pno \in Nat \ {0}
      BY <2>1, Parts
    <3> QED BY <3>1 DEF Lists
  <2>3. Len(cache.list) \in {0, cache.size}
    <3>1. CASE cache.list = <<>>
      BY <3>1
    <3>2. CASE Range(cache.list) = 1 .. cache.size
      BY <2>2, <3>2, ListLength
    <3> QED BY <2>1, <3>1, <3>2 DEF Good, Listed
  <2>4. \A i \in Slots : cache.slot[i] \in SlotType
    BY <2>1, Parts
  <2>5. \A i \in Slots : /\ cache.slot[i].pid \in Pids \cup {None}
                         /\ cache.slot[i].name \in Exe \cup {""}
                         /\ {cache.slot[i].active, cache.slot[i].locked} \subseteq BOOLEAN
                         /\ cache.slot[i].pno \in Nat
    BY <2>4 DEF SlotType, Names
  <2>6. \A p \in Pids : cache.child[p].state \in {"none", "up", "gone", "dead"}
    <3>1. \A p \in Pids : cache.child[p] \in ChildType
      BY <2>1, Parts
    <3> QED BY <3>1 DEF ChildType
  <2>7. Len(task) \in 1 .. MaxDepth /\ task[1].kind = "cl" /\ DOMAIN task = 1 .. Len(task)
    <3>1. 0 \in Nat
      OBVIOUS
    <3> QED BY <2>1, <3>1, StackParts DEF Stack
  <2>8. \A k \in 1 .. Len(task) : /\ task[k].kind \in {"cl", "script", "proc"}
                                  /\ (task[k].kind = "proc") <=> (task[k].pid # None)
    <3>1. 0 \in Nat
      OBVIOUS
    <3>2. \A k \in 1 .. Len(task) : task[k] \in Frames
      BY <2>1, <3>1, StackParts
    <3>3. \A k \in 1 .. Len(task) : task[k].kind \in {"cl", "script", "proc"}
      BY <3>2 DEF Frames
    <3> QED BY <2>1, <3>3 DEF Stack
  <2>9. \A k \in DOMAIN task : /\ task[k].kind \in {"cl", "script", "proc"}
                               /\ (task[k].kind = "proc") <=> (task[k].pid # None)
    BY <2>7, <2>8
  <2> QED BY <2>1, <2>2, <2>3, <2>5, <2>6, <2>7, <2>9 DEF TypeOK
<1> QED BY <1>1, Inductive, PTL

(***************************************************************************)
(* The CL never loses a process it connected, through evictions, crashes,  *)
(* prunings and changes of the size (pr_pconnect to pr_setcache).          *)
(***************************************************************************)
THEOREM ProcessesAreKept == ASSUME ResizeBusy = FALSE PROVE Spec => []NoOrphans
<1>1. IInv => NoOrphans
  <2> SUFFICES ASSUME IInv, NEW p \in Pids, cache.child[p].state # "none"
               PROVE  Cardinality(InSlots(p)) = 1 /\ InSlots(p) \subseteq Range(cache.list)
    BY DEF NoOrphans, Connected
  <2>1. Good(cache)
    BY DEF IInv
  <2>2. PICK i \in Slots : cache.slot[i].pid = p /\ Live(cache, i) /\ i \in Range(cache.list)
    BY <2>1, GoodParts
  <2>3. InSlots(p) = {i}
    BY <2>1, <2>2, GoodParts DEF InSlots
  <2> QED BY <2>2, <2>3, FS_Singleton
<1> QED BY <1>1, Inductive, PTL

(***************************************************************************)
(* The active flags and the task stack agree (connect, disconnect,         *)
(* iofinish): nobody else frees or takes the process of a task.            *)
(***************************************************************************)
THEOREM ProcessesAreOwned == ASSUME ResizeBusy = FALSE PROVE Spec => []TasksOwnTheirSlots
<1>1. IInv => TasksOwnTheirSlots
  <2> SUFFICES ASSUME IInv PROVE TasksOwnTheirSlots
    OBVIOUS
  <2>0. 0 \in Nat
    OBVIOUS
  <2>1. Good(cache) /\ Stack(task) /\ Owns(cache, Running(task))
    BY DEF IInv
  <2>2. /\ DOMAIN task = 1 .. Len(task) /\ \A k \in 1 .. Len(task) : task[k] \in Frames /\ k > 0
        /\ Running(task) \in SUBSET Pids
    BY <2>0, <2>1, StackParts DEF Running
  <2>3. \A p \in Pids : p \in Running(task) <=> \E k \in 1 .. Len(task) : task[k].pid = p
    <3>1. \A p \in Pids : p \in Running(task) <=> \E k \in 1 .. Len(task) : k > 0 /\ task[k].pid = p
      BY <2>0, <2>1, StackParts DEF Running
    <3> QED BY <2>2, <3>1
  <2>4. ASSUME NEW k \in DOMAIN task, task[k].kind = "proc"
        PROVE  \E i \in InSlots(task[k].pid) : cache.slot[i].active
    <3>1. task[k].pid \in Pids
      <4>1. task[k] \in Frames /\ task[k].pid # None
        BY <2>1, <2>2, <2>4 DEF Stack
      <4> QED BY <4>1 DEF Frames
    <3>2. task[k].pid \in Running(task)
      BY <2>2, <2>3, <3>1
    <3> QED BY <2>1, <3>2 DEF Owns, InSlots
  <2>5. ASSUME NEW i \in Slots, cache.slot[i].active, Usable(cache.slot[i].pid)
        PROVE  Cardinality({k \in DOMAIN task : task[k].pid = cache.slot[i].pid}) = 1
    <3> DEFINE p == cache.slot[i].pid
    <3>1. p \in Pids /\ p # None
      BY <2>1, <2>5, GoodParts DEF Busy, Pids, None
    <3>2. p \in Running(task)
      BY <2>1, <2>5 DEF Owns, Alive, Usable
    <3> HIDE DEF p
    <3>3. PICK k \in 1 .. Len(task) : task[k].pid = p
      BY <2>3, <3>1, <3>2
    <3>4. \A j \in 1 .. Len(task) : task[j].pid = p => j = k
      BY <2>1, <3>1, <3>3 DEF Stack
    <3>5. {j \in DOMAIN task : task[j].pid = p} = {k}
      BY <2>2, <3>3, <3>4
    <3> QED BY <3>5, FS_Singleton DEF p
  <2> QED BY <2>4, <2>5 DEF TasksOwnTheirSlots
<1> QED BY <1>1, Inductive, PTL

LEMMA OnlyRunStarts ==
  ASSUME IInv, ResizeBusy = FALSE, [Next]_vars, NEW e \in Exe, Started(e)
  PROVE  \E f \in Exe : Run(f)
<1>1. ASSUME Ends PROVE FALSE
  <2>1. Len(task) \in Nat /\ Len(task') > Len(task) /\ Len(task') =< Len(task)
    BY <1>1, Owners DEF Ends, Started
  <2>2. Stack(task') /\ 0 \in Nat
    BY NextKeeps DEF Settles
  <2>3. Len(task') \in Nat
    BY <2>2, StackParts
  <2> QED BY <2>1, <2>3
<1>2. ASSUME NEW f \in Exe, FlushTask(f) PROVE FALSE
  BY <1>1, <1>2, FlushTaskSteps
<1>3. ASSUME NEW f \in Exe, LockTask(f) PROVE FALSE
  BY <1>1, <1>3, LockTaskSteps
<1>4. ASSUME NEW f \in Exe, Relink(f) PROVE FALSE
  BY <1>1, <1>4, RelinkSteps
<1>5. CASE Script \/ Cl
  <2>1. task'[Len(task')].exe = "" /\ task'[Len(task')].exe = e
    BY <1>5, PushSteps DEF Started
  <2> QED BY <2>1, NameAssumption
<1>6. CASE Package
  BY <1>1, <1>6, PackageSteps
<1>7. CASE Finish
  BY <1>1, <1>7, FinishSteps
<1>8. CASE Error
  BY <1>1, <1>8, ErrorSteps
<1>9. CASE Flush
  BY <1>1, <1>9, FlushSteps
<1>10. CASE FlushAll
  BY <1>1, <1>10, FlushAllSteps
<1>11. CASE Broadcast
  BY <1>1, <1>11, BroadcastSteps
<1>12. CASE Answer
  BY <1>1, <1>12, AnswerSteps
<1>13. ASSUME NEW n \in Sizes, SetCache(n) PROVE FALSE
  BY <1>1, <1>13, SetCacheSteps
<1>14. ASSUME NEW pid \in Pids, Crash(pid) PROVE FALSE
  BY <1>1, <1>14, CrashSteps
<1>15. CASE UNCHANGED vars
  <2>1. Len(task) \in Nat /\ task' = task
    BY <1>15, Owners DEF vars
  <2>2. Ends
    BY <2>1 DEF Ends
  <2> QED BY <1>1, <2>2
<1> QED BY <1>2, <1>3, <1>4, <1>5, <1>6, <1>7, <1>8, <1>9, <1>10, <1>11, <1>12, <1>13,
           <1>14, <1>15 DEF Next

(***************************************************************************)
(* No task is started in a process of an executable that has been linked   *)
(* again, unless it was locked (fi_mtime against pr_time, pr_pconnect).    *)
(***************************************************************************)
THEOREM TasksStartCurrent == ASSUME ResizeBusy = FALSE PROVE Spec => StartsCurrent
<1>1. ASSUME IInv, [Next]_vars, NEW e \in Exe, Started(e)
      PROVE  LET p == task'[Len(task')].pid
             IN  /\ cache.child'[p].exe = e
                 /\ \/ ~cache.child'[p].relinked
                    \/ \E i \in InSlots(p) : cache.slot[i].locked
  <2>1. PICK f \in Exe : Run(f)
    BY <1>1, OnlyRunStarts
  <2>2. ~Ends
    <3>1. Stack(task') /\ 0 \in Nat
      BY <1>1, NextKeeps DEF Settles
    <3>2. Len(task') \in Nat /\ Len(task) \in Nat
      BY <1>1, <3>1, StackParts, Owners
    <3> QED BY <1>1, <3>2 DEF Started, Ends
  <2> DEFINE p == task'[Len(task')].pid
  <2>3. /\ cache'.child[p].exe = f /\ task'[Len(task')].exe = f
        /\ cache'.child[p].relinked => \E i \in Slots : cache.slot[i].pid = p /\ cache.slot[i].locked
    BY <1>1, <2>1, <2>2, RunSteps
  <2>4. f = e
    BY <1>1, <2>3 DEF Started
  <2> QED BY <2>3, <2>4 DEF InSlots
<1>2. ASSUME IInv, [Next]_vars
      PROVE  [\A e \in Exe : Started(e) =>
                LET p == task'[Len(task')].pid
                IN  /\ cache.child'[p].exe = e
                    /\ \/ ~cache.child'[p].relinked
                       \/ \E i \in InSlots(p) : cache.slot[i].locked]_vars
  BY <1>1, <1>2
<1> QED BY <1>2, Inductive, PTL DEF Spec, StartsCurrent

LEMMA HeldAreKept ==
  ASSUME IInv, Settles, Held(cache) \subseteq Held(cache'), NEW i \in Slots,
         cache.slot[i].locked, cache.child[cache.slot[i].pid].state = "up"
  PROVE  cache'.child[cache.slot[i].pid] # Closed
<1>1. cache.slot[i].pid \in Pids
  BY Owners, GoodParts DEF Busy
<1>2. cache.slot[i].pid \in Held(cache')
  BY <1>1 DEF Held
<1>3. cache'.child[cache.slot[i].pid].state = "up"
  BY <1>2 DEF Held
<1>4. Closed.state = "none"
  BY DEF Closed
<1> QED BY <1>3, <1>4

(***************************************************************************)
(* No eviction, pruning or plain flush closes a process that is locked and *)
(* alive (pr_findproc, pr_pdisconnect): what breaks locks is a flprcache   *)
(* with an argument, or a change of the size.                              *)
(***************************************************************************)
THEOREM LocksAreKept == ASSUME ResizeBusy = FALSE PROVE Spec => LocksHold
<1> DEFINE A == \A i \in Slots :
              /\ cache.slot[i].locked /\ cache.child[cache.slot[i].pid].state = "up"
              /\ cache.child'[cache.slot[i].pid] = Closed
              => BreaksLocks
<1>1. ASSUME IInv, Held(cache) \subseteq Held(cache'), Settles PROVE A
  BY <1>1, HeldAreKept
<1>2. ASSUME IInv,
             \A p \in Pids : cache.child[p].state # "none" => cache'.child[p].state # "none"
      PROVE  A
  <2>1. \A i \in Slots : cache.slot[i].locked => cache.slot[i].pid \in Pids
    BY <1>2, Owners, GoodParts DEF Busy
  <2>2. Closed.state = "none"
    BY DEF Closed
  <2> QED BY <1>2, <2>1, <2>2
<1>3. ASSUME BreaksLocks PROVE A
  BY <1>3
<1> HIDE DEF A
<1>4. ASSUME IInv, Next PROVE A
  <2>1. ASSUME NEW e \in Exe, Run(e) PROVE A
    BY <1>1, <1>4, <2>1, RunSteps
  <2>2. ASSUME NEW e \in Exe, FlushTask(e) PROVE A
    BY <1>3, <2>2 DEF BreaksLocks
  <2>3. ASSUME NEW e \in Exe, LockTask(e) PROVE A
    BY <1>1, <1>4, <2>3, LockTaskSteps
  <2>4. ASSUME NEW e \in Exe, Relink(e) PROVE A
    BY <1>2, <1>4, <2>4, RelinkSteps
  <2>5. CASE Script \/ Cl
    <3>1. cache' = cache
      BY <1>4, <2>5, PushSteps
    <3> QED BY <1>2, <1>4, <3>1
  <2>6. CASE Package
    BY <1>1, <1>4, <2>6, PackageSteps
  <2>7. CASE Finish
    BY <1>1, <1>4, <2>7, FinishSteps
  <2>8. CASE Error
    BY <1>1, <1>4, <2>8, ErrorSteps
  <2>9. CASE Flush
    BY <1>1, <1>4, <2>9, FlushSteps
  <2>10. CASE FlushAll
    BY <1>3, <2>10 DEF BreaksLocks
  <2>11. CASE Broadcast
    BY <1>1, <1>4, <2>11, BroadcastSteps
  <2>12. CASE Answer
    BY <1>1, <1>4, <2>12, AnswerSteps
  <2>13. ASSUME NEW n \in Sizes, SetCache(n) PROVE A
    BY <1>3, <2>13 DEF BreaksLocks
  <2>14. ASSUME NEW pid \in Pids, Crash(pid) PROVE A
    BY <1>2, <1>4, <2>14, CrashSteps
  <2> QED BY <1>4, <2>1, <2>2, <2>3, <2>4, <2>5, <2>6, <2>7, <2>8, <2>9, <2>10, <2>11, <2>12,
             <2>13, <2>14 DEF Next
<1>5. ASSUME IInv, [Next]_vars PROVE [A]_vars
  BY <1>4, <1>5
<1> QED BY <1>5, Inductive, PTL DEF Spec, LocksHold, A
-----------------------------------------------------------------------------
(***************************************************************************)
(* The head of the list is the slot that was used last.                    *)
(***************************************************************************)
HeadIs(list, i) == list # <<>> /\ list[1] = i

LEMMA OnlyHead ==
  ASSUME NEW list \in Lists, NEW i, HeadIs(list, i), NEW S, i \in S
  PROVE  HeadIs(Only(list, S), i)
<1> DEFINE D == At(list, S)
           N == Cardinality(D)
           nth(m) == CHOOSE k \in D : Rank(D, k) = m
           only == [m \in 1 .. N |-> list[nth(m)]]
<1>1. list \in Seq(Slots) /\ Len(list) \in Nat /\ DOMAIN list = 1 .. Len(list)
      /\ D \in SUBSET (1 .. Len(list))
  BY DEF Lists, At
<1>2. Len(list) # 0
  BY <1>1, EmptySeq DEF HeadIs
<1>3. 1 \in D
  BY <1>1, <1>2 DEF At, HeadIs
<1>4. /\ N \in Nat
      /\ \A k \in D : Rank(D, k) \in 1 .. N
      /\ \A k, l \in D : k < l => Rank(D, k) < Rank(D, l)
      /\ \A m \in 1 .. N : \E k \in D : Rank(D, k) = m
  <2> HIDE DEF D
  <2> QED BY <1>1, Ranks
<1>5. 1 \in 1 .. N
  BY <1>3, <1>4
<1>6. nth(1) \in D /\ Rank(D, nth(1)) = 1
  <2> HIDE DEF D, N
  <2> QED BY <1>4, <1>5
<1> HIDE DEF nth
<1>7. nth(1) = 1
  <2> SUFFICES ASSUME nth(1) # 1 PROVE FALSE
    OBVIOUS
  <2>1. nth(1) \in 1 .. Len(list)
    BY <1>1, <1>6
  <2>2. 1 < nth(1)
    BY <2>1
  <2> HIDE DEF D
  <2>3. Rank(D, 1) < 1 /\ Rank(D, 1) \in 1 .. N
    BY <1>3, <1>4, <1>6, <2>2
  <2> QED BY <2>3
<1>8. Only(list, S) = only
  BY DEF Only, nth
<1> HIDE DEF N
<1>9. only[1] = i /\ 1 \in DOMAIN only
  BY <1>5, <1>7 DEF HeadIs
<1> HIDE DEF only
<1>10. only # <<>>
  BY <1>9
<1> QED BY <1>8, <1>9, <1>10 DEF HeadIs

LEMMA ToTailHead ==
  ASSUME NEW list \in Lists, NEW i \in Slots, HeadIs(list, i), NEW S, i \notin S
  PROVE  HeadIs(ToTail(list, S), i)
<1> DEFINE s == Only(list, Slots \ S)
           t == Only(Array, S)
<1>1. HeadIs(s, i) /\ s \in Seq(Slots)
  BY OnlyHead, OnlyList DEF Lists
<1>2. t \in Seq(Slots)
  <2>1. Array \in Lists
    BY BoundAssumption DEF Lists, IsInjective, Array, Slots
  <2> QED BY <2>1, OnlyList DEF Lists
<1> HIDE DEF s, t
<1>3. Len(s) \in Nat /\ Len(t) \in Nat /\ Len(s) >= 1
  BY <1>1, <1>2, EmptySeq DEF HeadIs
<1> DEFINE c == s \o t
<1>4. c \in Seq(Slots) /\ Len(c) = Len(s) + Len(t) /\ c[1] = s[1]
  <2>1. 1 \in 1 .. Len(s) + Len(t) /\ 1 =< Len(s)
    BY <1>3
  <2> QED BY <1>1, <1>2, <2>1, ConcatProperties
<1> HIDE DEF c
<1>5. c # <<>>
  BY <1>3, <1>4, EmptySeq
<1>6. ToTail(list, S) = c
  BY DEF ToTail, c, s, t
<1> QED BY <1>1, <1>4, <1>5, <1>6 DEF HeadIs

LEMMA ToHeadHead ==
  ASSUME NEW list \in Lists, NEW i \in Slots PROVE HeadIs(ToHead(list, i), i)
<1> DEFINE t == Only(list, Slots \ {i})
           c == <<i>> \o t
<1>1. t \in Seq(Slots) /\ <<i>> \in Seq(Slots) /\ Len(<<i>>) = 1 /\ <<i>>[1] = i
  BY OnlyList DEF Lists
<1> HIDE DEF t
<1>2. Len(t) \in Nat /\ 1 \in 1 .. 1 + Len(t)
  BY <1>1
<1>3. c \in Seq(Slots) /\ Len(c) = 1 + Len(t) /\ c[1] = i
  BY <1>1, <1>2, ConcatProperties
<1> HIDE DEF c
<1>4. c # <<>>
  BY <1>2, <1>3, EmptySeq
<1> QED BY <1>3, <1>4 DEF HeadIs, ToHead, c, t

LEMMA FromTailLast ==
  ASSUME NEW list \in Lists, NEW i, HeadIs(list, i), NEW S,
         \E j \in Range(list) \ {i} : j \in S
  PROVE  FromTail(list, S) # None /\ FromTail(list, S) # i
<1> DEFINE D == At(list, S)
<1>1. /\ Len(list) \in Nat /\ DOMAIN list = 1 .. Len(list) /\ D \in SUBSET (1 .. Len(list))
      /\ \A j, k \in DOMAIN list : list[j] = list[k] => j = k
      /\ \A k \in DOMAIN list : list[k] \in Slots
  BY DEF Lists, At, IsInjective
<1>2. PICK k \in D : list[k] # i
  BY DEF At, Range
<1>3. Max(D) \in D /\ \A y \in D : y =< Max(D)
  <2> HIDE DEF D
  <2> QED BY <1>1, <1>2, Greatest
<1> DEFINE m == Max(D)
<1>4. FromTail(list, S) = list[m]
  BY <1>2 DEF FromTail
<1> HIDE DEF D, m
<1>5. m \in 1 .. Len(list) /\ k \in 1 .. Len(list) /\ k =< m
  BY <1>1, <1>2, <1>3 DEF m
<1>6. k # 1
  BY <1>2 DEF HeadIs
<1>7. m # 1 /\ 1 \in 1 .. Len(list)
  BY <1>1, <1>5, <1>6
<1>8. list[m] # i
  BY <1>1, <1>5, <1>7 DEF HeadIs
<1> QED BY <1>1, <1>4, <1>5, <1>8 DEF Slots, None

(***************************************************************************)
(* A process that stays connected stays in its slot, and at the head.      *)
(***************************************************************************)
Stays(c, d) ==
    /\ \A i \in Slots : Live(d, i) => d.slot[i].pid = c.slot[i].pid
    /\ \A p \in Pids : d.child[p] = c.child[p] \/ d.child[p] = Closed
    /\ \A i \in Slots : Live(d, i) /\ HeadIs(c.list, i) => HeadIs(d.list, i)

LEMMA StaysTwice ==
  ASSUME NEW a, NEW b, NEW c, Stays(a, b), Stays(b, c) PROVE Stays(a, c)
BY DEF Stays, Live

LEMMA PDisconnectStays ==
  ASSUME NEW c, Good(c), NEW S \in SUBSET Slots
  PROVE  Stays(c, PDisconnect(c, S))
<1> DEFINE closed == {i \in S : Live(c, i) /\ ~Busy(c.slot[i])}
           d == PDisconnect(c, S)
<1>1. Trimmed(c, d) /\ Emptied(c, d, closed) /\ c \in Caches /\ c.list \in Lists
  BY PDisconnectTrims, PDisconnectEmpties, Parts DEF Closing, Good
<1>2. d.list = ToTail(c.list, closed)
  BY <1>1 DEF PDisconnect, Caches
<1>3. \A i \in Slots : Live(d, i) => i \notin closed
  BY <1>1 DEF Emptied
<1> HIDE DEF closed, d
<1>4. \A i \in Slots : Live(d, i) /\ HeadIs(c.list, i) => HeadIs(d.list, i)
  BY <1>1, <1>2, <1>3, ToTailHead
<1> QED BY <1>1, <1>4 DEF Stays, Trimmed, d

LEMMA CheckUpStays ==
  ASSUME NEW c, Good(c)
  PROVE  LET d == CheckUp(c)
         IN  /\ Stays(c, d)
             /\ \A i \in Slots : Live(c, i) /\ Alive(c, c.slot[i].pid) => d.slot[i] = c.slot[i]
<1> DEFINE held == DeadIn(c)
           d == CheckUp(c)
<1>1. ASSUME NEW b \in Caches, d = PDisconnect(b, held), Good(b), Flagged(c, b),
             \A i \in Slots \ held : b.slot[i] = c.slot[i]
      PROVE  /\ Stays(c, d)
             /\ \A i \in Slots : Live(c, i) /\ Alive(c, c.slot[i].pid) => d.slot[i] = c.slot[i]
  <2>1. held \in SUBSET Slots /\ \A i \in held : c.child[c.slot[i].pid].state = "dead"
    BY DEF DeadIn
  <2> HIDE DEF held, d
  <2>2. Stays(b, d) /\ Emptied(b, d, Closing(b, held))
    BY <1>1, <2>1, PDisconnectStays, PDisconnectEmpties
  <2>3. Stays(c, d)
    BY <1>1, <2>2 DEF Stays, Flagged
  <2>4. ASSUME NEW i \in Slots, Alive(c, c.slot[i].pid) PROVE d.slot[i] = c.slot[i]
    <3>1. i \notin held
      BY <2>1, <2>4 DEF Alive
    <3>2. i \notin Closing(b, held)
      BY <3>1 DEF Closing
    <3> QED BY <1>1, <2>2, <3>1, <3>2 DEF Emptied
  <2> QED BY <2>3, <2>4
<1>2. Stays(c, c)
  BY DEF Stays
<1> HIDE DEF d
<1> QED BY <1>1, <1>2, CheckUpIs DEF d

LEMMA LeftStays ==
  ASSUME NEW c, Good(c), NEW P \in SUBSET Pids, NEW s
  PROVE  Stays(c, Restored(Disconnect(c, P), s))
<1> DEFINE b == CheckUp(c)
           slot == [i \in Slots |-> IF i \in {SlotOf(b, p) : p \in P} THEN Idle(b, i) ELSE b.slot[i]]
           d == [b EXCEPT !.slot = slot]
           u == Disconnect(c, P)
<1>1. Good(b) /\ b \in Caches /\ Stays(c, b)
  BY CheckUpStays, CheckUpKeeps DEF Keeps, Good
<1>2. Good(u) /\ (u = c \/ u = d)
  <2>1. Good(u)
    BY DisconnectKeeps
  <2> QED BY <2>1 DEF Disconnect
<1> HIDE DEF b, u
<1>3. \A i \in Slots : slot[i].pid = b.slot[i].pid
  <2>1. FALSE \in BOOLEAN
    OBVIOUS
  <2> QED BY <1>1, <2>1, Flags
<1> HIDE DEF slot
<1>4. d.slot = slot /\ d.list = b.list /\ d.child = b.child
  BY <1>1 DEF Caches
<1> HIDE DEF d
<1>5. Stays(c, u)
  <2>1. Stays(c, c)
    BY DEF Stays
  <2>2. Stays(b, d)
    BY <1>3, <1>4 DEF Stays
  <2> QED BY <1>1, <1>2, <2>1, <2>2, StaysTwice
<1>6. Restored(u, s) = u \/ \E pno : Restored(u, s) = PruneCache(u, pno)
  BY DEF Restored
<1>7. ASSUME NEW pno PROVE Stays(u, PruneCache(u, pno))
  <2> DEFINE v == CheckUp(u)
             S == {i \in Slots : Younger(v.slot[i], pno)}
  <2>1. Good(v) /\ Stays(u, v) /\ S \in SUBSET Slots
    BY <1>2, CheckUpStays, CheckUpKeeps DEF Keeps
  <2>2. PruneCache(u, pno) = PDisconnect(v, S)
    BY DEF PruneCache
  <2> HIDE DEF v, S
  <2> QED BY <2>1, <2>2, PDisconnectStays, StaysTwice
<1>8. Restored(u, s) = u \/ Stays(u, Restored(u, s))
  BY <1>6, <1>7
<1>9. Stays(c, Restored(u, s))
  BY <1>5, <1>8, StaysTwice
<1> QED BY <1>9 DEF u
(***************************************************************************)
(* Connecting puts the slot of the process at the head, and leaves the one *)
(* that was there alone as long as another can be had.                     *)
(***************************************************************************)
Spares(c, i) ==
    HeadIs(c.list, i) /\ Live(c, i) /\ \E j \in Range(c.list) \ {i} : ~Busy(c.slot[j])

AtHead(r) == \E h \in Slots : HeadIs(r.cache.list, h) /\ r.cache.slot[h].pid = r.pid

LEMMA ReuseHead ==
  ASSUME NEW c, Good(c), NEW i \in Slots, Live(c, i)
  PROVE  /\ AtHead(Reuse(c, i))
         /\ \A h \in Slots \ {i} : Reuse(c, i).cache.slot[h] = c.slot[h]
<1> DEFINE list == ToHead(c.list, i)
           slot == [c.slot EXCEPT ![i].active = TRUE]
           d == [c EXCEPT !.list = list, !.slot = slot]
           r == Reuse(c, i)
<1>1. c \in Caches /\ c.list \in Lists
  BY Parts DEF Good
<1>2. r.cache = d /\ r.pid = c.slot[i].pid
  BY <1>1 DEF Reuse, Caches
<1>3. HeadIs(list, i)
  BY <1>1, ToHeadHead
<1>4. slot[i].pid = c.slot[i].pid /\ \A h \in Slots \ {i} : slot[h] = c.slot[h]
  BY <1>1 DEF Caches, SlotType
<1> HIDE DEF list, slot
<1>5. d.list = list /\ d.slot = slot
  BY <1>1 DEF Caches
<1> HIDE DEF d, r
<1> QED BY <1>2, <1>3, <1>4, <1>5 DEF AtHead, r

LEMMA SpawnHead ==
  ASSUME NEW c, Good(c), NEW e, NEW i \in Slots, HeadIs(c.list, i)
  PROVE  /\ AtHead(Spawn(c, i, e))
         /\ \A h \in Slots \ {i} : Spawn(c, i, e).cache.slot[h] = c.slot[h]
<1> DEFINE p == IF i \in Spare(c) THEN i ELSE Min(Spare(c))
           new == [pid |-> p, name |-> e, active |-> TRUE, locked |-> FALSE, pno |-> c.pno]
           up == [state |-> "up", exe |-> e, relinked |-> FALSE]
           slot == [c.slot EXCEPT ![i] = new]
           child == [c.child EXCEPT ![p] = up]
           pno == c.pno + 1
           d == [c EXCEPT !.slot = slot, !.child = child, !.pno = pno]
           r == Spawn(c, i, e)
<1>1. c \in Caches
  BY DEF Good
<1>2. r.cache = d /\ r.pid = p
  BY <1>1 DEF Spawn, Caches
<1> HIDE DEF p
<1>3. new.pid = p
  OBVIOUS
<1> HIDE DEF new
<1>4. slot[i] = new /\ \A h \in Slots \ {i} : slot[h] = c.slot[h]
  BY <1>1 DEF Caches
<1> HIDE DEF slot, child, pno
<1>5. d.list = c.list /\ d.slot = slot
  BY <1>1 DEF Caches
<1> HIDE DEF d, r
<1> QED BY <1>2, <1>3, <1>4, <1>5 DEF AtHead, r

LEMMA NewProcessHead ==
  ASSUME NEW c, Good(c), NEW e, NEW spawn
  PROVE  LET r == NewProcess(c, e, spawn)
         IN  /\ r.pid # None => AtHead(r)
             /\ \A h \in Slots : Spares(c, h) => r.cache.slot[h] = c.slot[h]
<1> DEFINE i == FromTail(c.list, {j \in Slots : ~Busy(c.slot[j])})
           b == PDisconnect(c, {i})
           list == ToHead(b.list, i)
           d == [b EXCEPT !.list = list]
           r == NewProcess(c, e, spawn)
<1>1. c \in Caches /\ c.list \in Lists /\ Range(c.list) \subseteq Slots
  BY Parts DEF Good
<1>2. r = IF i = None THEN Failed(c)
          ELSE IF spawn = "ok" /\ Spare(d) # {} THEN Spawn(d, i, e)
          ELSE Failed(d)
  BY DEF NewProcess
<1>3. i # None => i \in Range(c.list)
  BY <1>1, Found
<1>4. \A h \in Slots : Spares(c, h) => i # h
  <2> SUFFICES ASSUME NEW h \in Slots, Spares(c, h) PROVE i # h
    OBVIOUS
  <2>1. HeadIs(c.list, h) /\ \E j \in Range(c.list) \ {h} : j \in {k \in Slots : ~Busy(c.slot[k])}
    BY <1>1 DEF Spares
  <2> QED BY <1>1, <2>1, FromTailLast
<1> HIDE DEF i, r, b, list
<1>5. CASE i = None
  <2>1. r = Failed(c)
    BY <1>2, <1>5
  <2>2. r.pid = None /\ r.cache = c
    BY <2>1 DEF Failed
  <2> QED BY <2>2 DEF r
<1>6. CASE i # None
  <2>1. i \in Slots /\ i \in Range(c.list)
    BY <1>1, <1>3, <1>6
  <2>2. Good(b) /\ Emptied(c, b, Closing(c, {i}))
    BY <2>1, PDisconnectKeeps, PDisconnectEmpties DEF Keeps, b
  <2>3. \A h \in Slots \ {i} : b.slot[h] = c.slot[h]
    BY <2>2 DEF Emptied, Closing
  <2>4. b.list \in Lists /\ i \in Range(b.list)
    BY <2>1, <2>2, Parts DEF Good, Emptied
  <2>5. HeadIs(list, i) /\ list \in Lists /\ Range(list) = Range(b.list)
    BY <2>1, <2>4, ToHeadHead, ToHeadList DEF list
  <2>6. Good(d) /\ d.list = list /\ d.slot = b.slot
    BY <2>2, <2>5, Relisted DEF Keeps
  <2> HIDE DEF d
  <2>7. \A h \in Slots : Spares(c, h) => h \in Slots \ {i}
    BY <1>4
  <2>8. CASE r = Failed(d)
    <3>1. r.pid = None /\ r.cache = d
      BY <2>8 DEF Failed
    <3> QED BY <2>3, <2>6, <2>7, <3>1 DEF r
  <2>9. CASE r = Spawn(d, i, e)
    <3>1. AtHead(r) /\ \A h \in Slots \ {i} : r.cache.slot[h] = d.slot[h]
      BY <2>1, <2>5, <2>6, <2>9, SpawnHead
    <3> QED BY <2>3, <2>6, <2>7, <3>1 DEF r
  <2> QED BY <1>2, <1>6, <2>8, <2>9
<1> QED BY <1>5, <1>6

LEMMA SparesStays ==
  ASSUME NEW c, NEW d, Good(c), Good(d), NEW i \in Slots, Spares(c, i),
         Stays(c, d), Trimmed(c, d), d.slot[i] = c.slot[i]
  PROVE  Spares(d, i)
<1>1. HeadIs(c.list, i) /\ Live(c, i)
  BY DEF Spares
<1>2. PICK j \in Range(c.list) \ {i} : ~Busy(c.slot[j])
  BY DEF Spares
<1>3. Live(d, i) /\ HeadIs(d.list, i)
  BY <1>1 DEF Live, Stays
<1>4. j \in Slots /\ j \in Range(d.list) \ {i}
  BY <1>2, Parts DEF Trimmed, Good
<1>5. ~Busy(d.slot[j])
  BY <1>2, <1>4, GoodParts DEF Trimmed
<1> QED BY <1>3, <1>4, <1>5 DEF Spares

LEMMA PConnectHead ==
  ASSUME NEW c, Good(c), NEW e, NEW spawn
  PROVE  LET r == PConnect(c, e, spawn)
         IN  /\ r.pid # None => AtHead(r)
             /\ \A h \in Slots : /\ Spares(c, h) /\ Alive(c, c.slot[h].pid)
                                 /\ c.slot[h].name # e
                                 => r.cache.slot[h] = c.slot[h]
<1> DEFINE b == Ready(c)
           i == FindProc(b, e)
           d == PDisconnect(b, {i})
           r == PConnect(c, e, spawn)
           Kept(h) == Spares(c, h) /\ Alive(c, c.slot[h].pid) /\ c.slot[h].name # e
<1>1. r = IF i = None THEN NewProcess(b, e, spawn)
          ELSE IF Outdated(b, i, spawn) THEN NewProcess(d, e, spawn)
          ELSE Reuse(b, i)
  BY DEF PConnect, Ready
<1>2. Good(b) /\ b \in Caches
  BY ReadyKeeps DEF Keeps, Good
<1>3. ASSUME NEW h \in Slots, Kept(h) PROVE Spares(b, h) /\ b.slot[h] = c.slot[h]
  <2>1. c.list # <<>> /\ Live(c, h)
    BY <1>3 DEF Spares, HeadIs
  <2>2. b = CheckUp(c)
    BY <2>1 DEF Ready
  <2>3. Stays(c, b) /\ Trimmed(c, b) /\ b.slot[h] = c.slot[h]
    BY <1>3, <2>1, <2>2, CheckUpStays, CheckUpKeeps
  <2> HIDE DEF b
  <2> QED BY <1>2, <1>3, <2>3, SparesStays
<1> HIDE DEF b
<1>4. i # None => i \in Slots /\ Live(b, i) /\ b.slot[i].name = e
  BY <1>2, Found, Parts DEF FindProc
<1>5. \A h \in Slots : Kept(h) => h # i \/ i = None
  BY <1>3, <1>4
<1> HIDE DEF i, r, Kept, d
<1>6. CASE r = NewProcess(b, e, spawn)
  <2>1. (r.pid # None => AtHead(r)) /\ \A h \in Slots : Spares(b, h) => r.cache.slot[h] = b.slot[h]
    BY <1>2, <1>6, NewProcessHead
  <2> QED BY <1>3, <2>1 DEF r, Kept
<1>7. CASE i # None /\ r = NewProcess(d, e, spawn)
  <2>1. {i} \in SUBSET Slots
    BY <1>4, <1>7
  <2>2. Good(d) /\ Stays(b, d) /\ Trimmed(b, d) /\ Emptied(b, d, Closing(b, {i}))
    BY <1>2, <2>1, PDisconnectKeeps, PDisconnectStays, PDisconnectTrims, PDisconnectEmpties
       DEF Keeps, d
  <2>3. \A h \in Slots \ {i} : d.slot[h] = b.slot[h]
    BY <2>2 DEF Emptied, Closing
  <2>4. ASSUME NEW h \in Slots, Kept(h) PROVE Spares(d, h) /\ d.slot[h] = c.slot[h]
    BY <1>2, <1>3, <1>5, <1>7, <2>2, <2>3, <2>4, SparesStays
  <2>5. (r.pid # None => AtHead(r)) /\ \A h \in Slots : Spares(d, h) => r.cache.slot[h] = d.slot[h]
    BY <1>7, <2>2, NewProcessHead
  <2> QED BY <2>4, <2>5 DEF r, Kept
<1>8. CASE i # None /\ r = Reuse(b, i)
  <2>1. AtHead(r) /\ \A h \in Slots \ {i} : r.cache.slot[h] = b.slot[h]
    BY <1>2, <1>4, <1>8, ReuseHead
  <2>2. \A h \in Slots : Kept(h) => r.cache.slot[h] = c.slot[h]
    BY <1>3, <1>5, <1>8, <2>1
  <2> QED BY <2>1, <2>2 DEF r, Kept
<1> QED BY <1>1, <1>6, <1>7, <1>8

(***************************************************************************)
(* The slot of the last task is at the head, for as long as its process is *)
(* connected.                                                              *)
(***************************************************************************)
Recent ==
    last # None /\ Live(cache, last) /\ Alive(cache, cache.slot[last].pid)
        => HeadIs(cache.list, last)

LEMMA RunHead ==
  ASSUME IInv, NEW e \in Exe, Run(e)
  PROVE  /\ Recent'
         /\ \/ Ends
            \/ \A h \in Slots : /\ Spares(cache, h) /\ Alive(cache, cache.slot[h].pid)
                                /\ cache.slot[h].name # e
                                => cache'.slot[h] = cache.slot[h]
<1>1. PICK spawn : LET r == Connect(cache, e, spawn)
                   IN  /\ last' = IF r.pid = None THEN None ELSE SlotOf(r.cache, r.pid)
                       /\ IF r.pid = None
                          THEN Unwind(r.cache, Called)
                          ELSE cache' = r.cache /\ task' = Append(Called, Frame("proc", e, r.pid))
  BY DEF Run
<1> DEFINE r == Connect(cache, e, spawn)
           q == PConnect(cache, e, spawn)
<1>2. Connects(cache, e, r) /\ Connects(cache, e, q) /\ e \in Names
  BY Owners, ConnectConnects, PConnectConnects DEF Names
<1>3. r = q \/ r.pid = None
  BY DEF Connect, Failed
<1>4. /\ q.pid # None => AtHead(q)
      /\ \A h \in Slots : /\ Spares(cache, h) /\ Alive(cache, cache.slot[h].pid)
                          /\ cache.slot[h].name # e
                          => q.cache.slot[h] = cache.slot[h]
  BY Owners, PConnectHead
<1> HIDE DEF r, q
<1>5. CASE r.pid = None
  <2>1. last' = None /\ Unwind(r.cache, Called) /\ Keeps(cache, r.cache)
    BY <1>1, <1>2, <1>5 DEF r, Connects
  <2> QED BY <2>1, UnwindCalled DEF Recent
<1>6. CASE r.pid # None
  <2>1. cache' = q.cache /\ last' = SlotOf(q.cache, q.pid) /\ r = q
    BY <1>1, <1>3, <1>6 DEF r
  <2>2. Good(q.cache) /\ q.pid \in Pids /\ q.pid # None
    BY <1>2, <1>6, <2>1 DEF Connects, Gains, Pids, None
  <2>3. PICK h \in Slots : HeadIs(q.cache.list, h) /\ q.cache.slot[h].pid = q.pid
    BY <1>4, <2>2 DEF AtHead
  <2>4. last' = h
    BY <2>1, <2>2, <2>3, SlotOfPid DEF Live
  <2>5. Recent'
    BY <2>1, <2>3, <2>4 DEF Recent
  <2> QED BY <1>4, <2>1, <2>5
<1> QED BY <1>5, <1>6

LEMMA RecentKeeps ==
  ASSUME IInv, Recent, ResizeBusy = FALSE, [Next]_vars
  PROVE  Recent'
<1>1. ASSUME NEW e \in Exe, Run(e) PROVE Recent'
  BY <1>1, RunHead
<1>2. ASSUME last' = None PROVE Recent'
  BY <1>2 DEF Recent
<1>3. ASSUME NEW e \in Exe, FlushTask(e) \/ LockTask(e) \/ Relink(e) PROVE Recent'
  BY <1>2, <1>3, FlushTaskSteps, LockTaskSteps, RelinkSteps
<1>4. CASE (Script \/ Cl) \/ UNCHANGED vars
  <2>1. cache' = cache /\ last' = last
    BY <1>4, PushSteps DEF vars
  <2> QED BY <2>1 DEF Recent
<1>5. CASE Package \/ Error \/ Flush \/ FlushAll \/ Broadcast \/ Answer
  BY <1>2, <1>5, PackageSteps, ErrorSteps, FlushSteps, FlushAllSteps, BroadcastSteps, AnswerSteps
<1>6. ASSUME NEW n \in Sizes, SetCache(n) PROVE Recent'
  BY <1>2, <1>6, SetCacheSteps
<1>7. ASSUME NEW pid \in Pids, Crash(pid) PROVE Recent'
  BY <1>2, <1>7, CrashSteps
<1>8. CASE Finish
  <2> DEFINE n == Len(task) - 1
             P == PidsAbove(task, n)
             d == Restored(Disconnect(cache, P), SubSeq(task, 1, n))
  <2>1. cache' = d /\ last' = last /\ Len(task) > 1
    BY <1>8 DEF Finish, Finished
  <2>2. n \in Nat /\ Good(cache) /\ Stack(task)
    BY <2>1, Owners
  <2>3. P \in SUBSET Pids
    BY <2>2, StackParts
  <2> HIDE DEF P, n
  <2>4. Stays(cache, d)
    BY <2>2, <2>3, LeftStays
  <2> HIDE DEF d
  <2>5. Stays(cache, cache') /\ last' = last /\ Good(cache')
    BY <1>8, <2>1, <2>4, FinishSteps DEF Settles
  <2>6. ASSUME last # None, Live(cache', last), Alive(cache', cache'.slot[last].pid)
        PROVE  HeadIs(cache'.list, last)
    <3>1. last \in Slots
      BY <2>6 DEF IInv
    <3>2. cache'.slot[last].pid = cache.slot[last].pid /\ Live(cache, last)
      BY <2>5, <2>6, <3>1 DEF Stays, Live
    <3>3. cache.slot[last].pid \in Pids
      BY <2>2, <3>1, <3>2, GoodParts
    <3>4. Alive(cache, cache.slot[last].pid)
      <4>1. Closed.state \notin {"up", "gone"}
        BY DEF Closed
      <4> QED BY <2>5, <2>6, <3>2, <3>3, <4>1 DEF Stays, Alive
    <3>5. HeadIs(cache.list, last)
      BY <2>6, <3>2, <3>4 DEF Recent
    <3> QED BY <2>5, <2>6, <3>1, <3>5 DEF Stays
  <2> QED BY <2>5, <2>6 DEF Recent
<1> QED BY <1>1, <1>3, <1>4, <1>5, <1>6, <1>7, <1>8 DEF Next

(***************************************************************************)
(* The process used last stays connected when another task is run, as long *)
(* as another slot can be had (PR_TOHEAD, and the search from the tail in  *)
(* pr_pconnect).                                                           *)
(***************************************************************************)
THEOREM RecentIsKept == ASSUME ResizeBusy = FALSE PROVE Spec => KeepsRecent
<1>1. ASSUME IInv, Recent, [Next]_vars, NEW e \in Exe, NEW i \in Slots,
             i = last /\ Live(cache, i) /\ Usable(cache.slot[i].pid),
             Started(e) /\ cache.slot[i].name # e,
             \E j \in Range(cache.list) \ {i} : ~Busy(cache.slot[j])
      PROVE  cache.slot'[i].name = cache.slot[i].name /\ Live(cache', i)
  <2>1. PICK f \in Exe : Run(f)
    BY <1>1, OnlyRunStarts
  <2>2. ~Ends
    <3>1. Stack(task') /\ 0 \in Nat
      BY <1>1, NextKeeps DEF Settles
    <3>2. Len(task') \in Nat /\ Len(task) \in Nat
      BY <1>1, <3>1, StackParts, Owners
    <3> QED BY <1>1, <3>2 DEF Started, Ends
  <2>3. f = e
    <3>1. task'[Len(task')].exe = f
      BY <1>1, <2>1, <2>2, RunSteps
    <3> QED BY <1>1, <3>1 DEF Started
  <2>4. Alive(cache, cache.slot[i].pid) /\ i # None
    BY <1>1 DEF Usable, Alive, Slots, None
  <2>5. Spares(cache, i)
    BY <1>1, <2>4 DEF Recent, Spares
  <2>6. cache'.slot[i] = cache.slot[i]
    BY <1>1, <2>1, <2>2, <2>3, <2>4, <2>5, RunHead
  <2> QED BY <1>1, <2>6 DEF Live
<1> DEFINE A == \A e \in Exe, i \in Slots :
              /\ i = last /\ Live(cache, i) /\ Usable(cache.slot[i].pid)
              /\ Started(e) /\ cache.slot[i].name # e
              /\ \E j \in Range(cache.list) \ {i} : ~Busy(cache.slot[j])
              => cache.slot'[i].name = cache.slot[i].name /\ Live(cache', i)
<1>2. ASSUME IInv, Recent, [Next]_vars PROVE A
  BY <1>1, <1>2
<1>3. Init => Recent
  BY DEF Init, Recent
<1>4. IInv /\ Recent /\ [Next]_vars => Recent'
  BY RecentKeeps
<1>5. IInv /\ Recent /\ [Next]_vars => [A]_vars
  BY <1>2
<1> QED BY <1>3, <1>4, <1>5, Inductive, PTL DEF Spec, KeepsRecent, A
=============================================================================
