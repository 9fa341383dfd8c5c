-------------------------- MODULE MonitoringProofs --------------------------
(***************************************************************************)
(* Proofs about the monitor arm: for every set of processes, settings and  *)
(* clicks, whatever the processes do between two polls.                    *)
(*                                                                         *)
(* Three facts carry the rest.  A start time is never used twice, so that  *)
(* who runs under an identity is who was seen under it (PersonStays): an   *)
(* ignore, an offer and a notice mean the same program until it exits.     *)
(* What is counted is what the polls found: each violation and each streak *)
(* has as many polls in past behind it as it counts (ViolationsInv,        *)
(* StreaksInv), and a breach that goes on is counted (BreachInv).  And the *)
(* time since a notice is kept by the books or the subject was gone or     *)
(* ignored meanwhile (EventsSpacedInv, StaleSpacedInv, AppsSpacedInv).     *)
(*                                                                         *)
(* A poll is taken apart once (PollLooks): from there on each lemma is     *)
(* about what one service makes of a snapshot that looks at the processes  *)
(* as they are.  BooksInv is the inductive invariant; SpacedInv adds what  *)
(* holds when the time between two polls is less than an hour of ignoring. *)
(*                                                                         *)
(* The orders to stop rest on parents that form a forest: who is deeper    *)
(* below the root is above nobody who is listed later.  What the commands  *)
(* make of the processes of the moment rests on SeenInv, parents stay the  *)
(* parents that were seen while both run, and TreesInv, what is published  *)
(* is what was found below its root.                                       *)
(***************************************************************************)
EXTENDS Monitoring, FiniteSetTheorems, WellFoundedInduction, TLAPS

(* Numbers.  A set of numbers has a least one: the induction of what       *)
(* follows, by a least counterexample.                                     *)
LEMMA LeastNumber ==
    ASSUME NEW T, T \subseteq Nat, T # {}
    PROVE  \E x \in T : \A y \in T : x <= y
<1> DEFINE R == StrictSubsetOrdering(Nat)
           N == FiniteSubsetsOf(Nat)
           U == {1..x : x \in T}
<1>1. IsWellFoundedOn(R, N)
  BY FS_StrictSubsetOrderingWellFounded
<1>2. U \subseteq N /\ U # {}
  <2>1. ASSUME NEW x \in T PROVE 1..x \in N
    <3>1. x \in Int /\ 1..x \in SUBSET Nat
      OBVIOUS
    <3>2. IsFiniteSet(1..x)
      BY <3>1, FS_Interval
    <3> QED BY <3>1, <3>2 DEF FiniteSubsetsOf
  <2> QED BY <2>1
<1>3. PICK u \in U : \A v \in U : ~(<<v, u>> \in R)
  <2> HIDE DEF R, N, U
  <2> QED BY <1>1, <1>2, WFMin
<1>4. PICK x \in T : u = 1..x
  OBVIOUS
<1>5. ASSUME NEW y \in T, y < x PROVE FALSE
  <2>1. 1..y \in U
    OBVIOUS
  <2>2. 1..y \subseteq 1..x /\ 1..y # 1..x
    <3>1. x \in 1..x /\ x \notin 1..y
      BY <1>5
    <3> QED BY <1>5, <3>1
  <2>3. <<1..y, 1..x>> \in R
    BY <2>2 DEF StrictSubsetOrdering
  <2> QED BY <1>3, <1>4, <2>1, <2>3
<1> QED
  BY <1>5

LEMMA LargestBelow ==
    ASSUME NEW n \in Nat, NEW T, T \subseteq 0..n, T # {}
    PROVE  Max(T) \in T /\ \A x \in T : x <= Max(T)
<1> DEFINE U == {n - x : x \in T}
<1>1. U \subseteq Nat /\ U # {}
  OBVIOUS
<1>2. PICK u \in U : \A v \in U : u <= v
  BY <1>1, LeastNumber
<1>3. PICK x \in T : u = n - x
  OBVIOUS
<1>4. \A y \in T : n - y \in U /\ y \in Int
  OBVIOUS
<1>5. \A y \in T : x >= y
  BY <1>2, <1>3, <1>4
<1> QED
  BY <1>5 DEF Max

(* A finite set of numbers has a largest one.                              *)
LEMMA FiniteIsBounded ==
    ASSUME NEW S, IsFiniteSet(S), S \subseteq Nat
    PROVE  \E n \in Nat : S \subseteq 0..n
<1> DEFINE R == StrictSubsetOrdering(Nat)
           N == FiniteSubsetsOf(Nat)
           T == {U \in N : ~\E n \in Nat : U \subseteq 0..n}
<1> SUFFICES ASSUME T # {} PROVE FALSE
  BY DEF FiniteSubsetsOf
<1>1. IsWellFoundedOn(R, N)
  BY FS_StrictSubsetOrderingWellFounded
<1>2. PICK U \in T : \A V \in T : ~(<<V, U>> \in R)
  <2>1. T \subseteq N
    OBVIOUS
  <2> HIDE DEF R, N, T
  <2> QED BY <1>1, <2>1, WFMin
<1>3. PICK x \in U : TRUE
  <2>1. {} \subseteq 0..0
    OBVIOUS
  <2>2. ~\E n \in Nat : U \subseteq 0..n
    OBVIOUS
  <2> QED BY <2>1, <2>2
<1>4. U \ {x} \notin T
  <2>1. U \ {x} \subseteq U /\ U \ {x} # U /\ U \in SUBSET Nat
    BY <1>3 DEF FiniteSubsetsOf
  <2>2. <<U \ {x}, U>> \in R
    BY <2>1 DEF StrictSubsetOrdering
  <2> QED BY <1>2, <2>2
<1>5. U \ {x} \in N
  BY FS_RemoveElement DEF FiniteSubsetsOf
<1>6. PICK n \in Nat : U \ {x} \subseteq 0..n
  BY <1>4, <1>5
<1>7. x \in Nat
  BY DEF FiniteSubsetsOf
<1>8. U \subseteq 0..(n + x)
  <2>1. ASSUME NEW y \in U PROVE y \in 0..(n + x)
    <3>1. y = x \/ y \in 0..n
      BY <1>6
    <3> QED BY <1>6, <1>7, <3>1
  <2> QED BY <2>1
<1>9. n + x \in Nat /\ ~\E m \in Nat : U \subseteq 0..m
  BY <1>7
<1> QED
  BY <1>8, <1>9

LEMMA Largest ==
    ASSUME NEW S, IsFiniteSet(S), S \subseteq Nat, S # {}
    PROVE  Max(S) \in S /\ \A x \in S : x <= Max(S)
BY FiniteIsBounded, LargestBelow

(* What a function makes of a finite set is finite.                        *)
LEMMA FiniteImage ==
    ASSUME NEW f, IsFiniteSet(DOMAIN f), f = [x \in DOMAIN f |-> f[x]]
    PROVE  IsFiniteSet({f[x] : x \in DOMAIN f})
<1> DEFINE T == {f[x] : x \in DOMAIN f}
<1>1. f \in Surjection(DOMAIN f, T)
  BY DEF Surjection
<1> HIDE DEF T
<1>2. IsFiniteSet(T)
  BY <1>1, FS_Surjection
<1> QED
  BY <1>2 DEF T

LEMMA LengthOf ==
    ASSUME NEW n \in Nat, NEW f, f = [k \in 1..n |-> f[k]]
    PROVE  Len(f) = n /\ DOMAIN f = 1..n
<1>1. f \in Seq({f[k] : k \in 1..n})
  OBVIOUS
<1>2. DOMAIN f = 1..Len(f) /\ Len(f) \in Nat /\ DOMAIN f = 1..n
  BY <1>1
<1>3. 1..Len(f) = 1..n => Len(f) = n
  <2> DEFINE l == Len(f)
  <2>1. l \in Nat
    BY <1>2
  <2> HIDE DEF l
  <2>2. 1..l = 1..n => l = n
    <3> SUFFICES ASSUME 1..l = 1..n PROVE l = n
      OBVIOUS
    <3>1. l > 0 => l \in 1..n
      BY <2>1
    <3>2. n > 0 => n \in 1..l
      BY <2>1
    <3> QED BY <2>1, <3>1, <3>2
  <2> QED BY <2>2 DEF l
<1> QED
  BY <1>2, <1>3

-----------------------------------------------------------------------------
(* Ancestors: a function that is defined by recursion is what it says.     *)

Climb(s, p, k, g) ==
    g = [n \in 0..k |-> IF n = 0 THEN p
                        ELSE LET child == g[n - 1] IN
                             IF child \in DOMAIN s /\ s[child].parent \in DOMAIN s
                             THEN s[child].parent ELSE NoPid]

LEMMA ClimbExists ==
    ASSUME NEW s, NEW p, NEW m \in Nat
    PROVE  \E g : Climb(s, p, m, g)
<1> DEFINE T == {k \in Nat : ~\E g : Climb(s, p, k, g)}
<1> SUFFICES ASSUME T # {} PROVE FALSE
  OBVIOUS
<1>1. PICK k \in T : \A j \in T : k <= j
  <2>1. T \subseteq Nat
    OBVIOUS
  <2> HIDE DEF T
  <2> QED BY <2>1, LeastNumber
<1>2. ~\E g : Climb(s, p, k, g)
  OBVIOUS
<1>3. k # 0
  <2>1. Climb(s, p, 0, [n \in 0..0 |-> p])
    BY DEF Climb
  <2> QED BY <1>2, <2>1
<1>4. PICK g : Climb(s, p, k - 1, g)
  <2>1. k - 1 \in Nat /\ k - 1 \notin T
    BY <1>1, <1>3
  <2> QED BY <2>1
<1> DEFINE next(x) == IF x \in DOMAIN s /\ s[x].parent \in DOMAIN s THEN s[x].parent ELSE NoPid
           h == [n \in 0..k |-> IF n < k THEN g[n] ELSE next(g[k - 1])]
<1>5. \A n \in 0..(k - 1) : g[n] = IF n = 0 THEN p ELSE next(g[n - 1])
  BY <1>4 DEF Climb
<1>6. \A n \in 0..k : h[n] = IF n = 0 THEN p ELSE next(h[n - 1])
  <2> HIDE DEF next
  <2>1. ASSUME NEW n \in 0..k PROVE h[n] = IF n = 0 THEN p ELSE next(h[n - 1])
    <3>1. CASE n = 0
      BY <1>3, <1>5, <3>1
    <3>2. CASE n # 0 /\ n < k
      <4>1. h[n] = g[n] /\ h[n - 1] = g[n - 1] /\ n \in 0..(k - 1)
        BY <3>2
      <4> QED BY <1>5, <3>2, <4>1
    <3>3. CASE n # 0 /\ n = k
      BY <3>3
    <3> QED BY <3>1, <3>2, <3>3
  <2> QED BY <2>1
<1>7. Climb(s, p, k, h)
  <2>1. h = [n \in 0..k |-> h[n]]
    OBVIOUS
  <2> HIDE DEF h
  <2> QED BY <1>6, <2>1 DEF Climb
<1> QED
  BY <1>2, <1>7

LEMMA AboveIs ==
    ASSUME NEW s, IsFiniteSet(DOMAIN s), NEW p
    PROVE  /\ DOMAIN Above(s, p) = 0..Cardinality(DOMAIN s)
           /\ Above(s, p)[0] = p
           /\ Cardinality(DOMAIN s) \in Nat
<1>1. Cardinality(DOMAIN s) \in Nat
  BY FS_CardinalityType
<1> DEFINE m == Cardinality(DOMAIN s)
<1>2. Above(s, p) = CHOOSE g : Climb(s, p, m, g)
  BY DEF Above, Climb
<1>3. Climb(s, p, m, Above(s, p))
  BY <1>1, <1>2, ClimbExists
<1> QED
  BY <1>1, <1>3 DEF Climb

-----------------------------------------------------------------------------
(* Orders.                                                                 *)

(* A finite set in order: all of it, each member once.                     *)
Arranges(before, S) ==
    /\ \A x \in S : <<x, x>> \notin before
    /\ \A x, y, z \in S : <<x, y>> \in before /\ <<y, z>> \in before => <<x, z>> \in before
    /\ \A x, y \in S : x # y => <<x, y>> \in before \/ <<y, x>> \in before

LEMMA InOrderIs ==
    ASSUME NEW S, IsFiniteSet(S), NEW before, Arranges(before, S)
    PROVE  LET order == InOrder(S, before)
               n == Cardinality(S)
           IN /\ n \in Nat /\ order \in [1..n -> S]
              /\ \A x \in S : \E k \in 1..n : order[k] = x
              /\ \A i, j \in 1..n : i < j => <<order[i], order[j]>> \in before
<1> DEFINE n == Cardinality(S)
           ahead(x) == {y \in S : <<y, x>> \in before}
           rank == [x \in S |-> Cardinality(ahead(x))]
           order == InOrder(S, before)
<1>1. n \in Nat
  BY FS_CardinalityType
<1>2. \A x \in S : IsFiniteSet(ahead(x)) /\ Cardinality(ahead(x)) \in 0..(n - 1)
  <2> SUFFICES ASSUME NEW x \in S
               PROVE  IsFiniteSet(ahead(x)) /\ Cardinality(ahead(x)) \in 0..(n - 1)
    OBVIOUS
  <2>1. IsFiniteSet(S \ {x}) /\ Cardinality(S \ {x}) = n - 1
    BY FS_RemoveElement
  <2>2. ahead(x) \in SUBSET (S \ {x})
    BY DEF Arranges
  <2> HIDE DEF ahead
  <2>3. IsFiniteSet(ahead(x)) /\ Cardinality(ahead(x)) <= Cardinality(S \ {x})
    BY <2>1, <2>2, FS_Subset
  <2>4. Cardinality(ahead(x)) \in Nat
    BY <2>3, FS_CardinalityType
  <2> QED BY <1>1, <2>1, <2>3, <2>4
<1>3. ASSUME NEW x \in S, NEW y \in S, <<x, y>> \in before
      PROVE  Cardinality(ahead(x)) < Cardinality(ahead(y))
  <2>1. ahead(x) \in SUBSET ahead(y) /\ x \in ahead(y) /\ x \notin ahead(x)
    BY <1>3 DEF Arranges
  <2> HIDE DEF ahead
  <2>2. /\ Cardinality(ahead(x)) <= Cardinality(ahead(y))
        /\ Cardinality(ahead(x)) # Cardinality(ahead(y))
    BY <1>2, <2>1, FS_Subset
  <2> QED BY <1>1, <1>2, <2>2
<1>4. rank \in Injection(S, 0..(n - 1))
  <2>1. \A x \in S : rank[x] \in 0..(n - 1)
    BY <1>2
  <2>2. ASSUME NEW x \in S, NEW y \in S, rank[x] = rank[y], x # y PROVE FALSE
    <3>1. <<x, y>> \in before \/ <<y, x>> \in before
      BY <2>2 DEF Arranges
    <3> HIDE DEF ahead
    <3> QED BY <1>1, <1>2, <1>3, <2>2, <3>1
  <2>3. rank \in [S -> 0..(n - 1)]
    BY <2>1
  <2> HIDE DEF rank
  <2> QED BY <2>2, <2>3 DEF Injection, IsInjective
<1>5. IsFiniteSet(0..(n - 1)) /\ Cardinality(0..(n - 1)) = n
  <2>1. IsFiniteSet(0..(n - 1))
        /\ Cardinality(0..(n - 1)) = IF 0 > n - 1 THEN 0 ELSE (n - 1) - 0 + 1
    BY <1>1, FS_Interval
  <2> QED BY <1>1, <2>1
<1>6. rank \in Surjection(S, 0..(n - 1))
  <2> HIDE DEF rank
  <2> QED BY <1>4, <1>5, FS_Injection
<1>7. ASSUME NEW k \in 1..n
      PROVE  order[k] \in S /\ rank[order[k]] = k - 1
  <2>1. order[k] = CHOOSE x \in S : Cardinality(ahead(x)) = k - 1
    BY <1>1 DEF InOrder
  <2>2. k - 1 \in 0..(n - 1)
    BY <1>1
  <2>3. \E x \in S : rank[x] = k - 1
    <3> HIDE DEF rank
    <3> QED BY <1>6, <2>2 DEF Surjection
  <2>4. \E x \in S : Cardinality(ahead(x)) = k - 1
    BY <2>3
  <2>5. order[k] \in S /\ Cardinality(ahead(order[k])) = k - 1
    <3> HIDE DEF ahead, order
    <3> QED BY <2>1, <2>4
  <2> QED BY <2>5
<1>8. order \in [1..n -> S]
  <2> DEFINE pick(k) == CHOOSE x \in S : Cardinality(ahead(x)) = k - 1
  <2>1. order = [k \in 1..n |-> order[k]]
    <3>1. order = [k \in 1..n |-> pick(k)]
      BY DEF InOrder
    <3> HIDE DEF pick, order
    <3> QED BY <3>1
  <2> HIDE DEF order
  <2> QED BY <1>7, <2>1
<1>9. ASSUME NEW x \in S PROVE \E k \in 1..n : order[k] = x
  <2>1. rank[x] + 1 \in 1..n /\ rank[x] \in Nat
    BY <1>1, <1>2
  <2>2. order[rank[x] + 1] \in S /\ rank[order[rank[x] + 1]] = rank[x]
    <3> HIDE DEF rank, order
    <3>1. rank[order[rank[x] + 1]] = (rank[x] + 1) - 1
      BY <1>7, <2>1
    <3> QED BY <1>7, <2>1, <3>1
  <2>3. order[rank[x] + 1] = x
    <3> HIDE DEF rank, order
    <3> QED BY <1>4, <2>2 DEF Injection, IsInjective
  <2> QED BY <2>1, <2>3
<1>10. ASSUME NEW i \in 1..n, NEW j \in 1..n, i < j
       PROVE  <<order[i], order[j]>> \in before
  <2>1. order[i] \in S /\ order[j] \in S /\ rank[order[i]] = i - 1 /\ rank[order[j]] = j - 1
    BY <1>7
  <2> HIDE DEF order
  <2>2. order[i] # order[j]
    BY <1>10, <2>1
  <2>3. ~(<<order[j], order[i]>> \in before)
    <3>1. <<order[j], order[i]>> \in before => rank[order[j]] < rank[order[i]]
      BY <1>3, <2>1
    <3> HIDE DEF rank
    <3> QED BY <1>10, <2>1, <3>1
  <2> QED BY <2>1, <2>2, <2>3 DEF Arranges
<1> QED
  BY <1>1, <1>8, <1>9, <1>10

-----------------------------------------------------------------------------
(* Generations.                                                            *)

(* What holds of 0, and of each number after one it holds of, holds of all.*)
LEMMA UpFromZero ==
    ASSUME NEW T, 0 \in T, \A n \in Nat : n \in T => n + 1 \in T
    PROVE  Nat \subseteq T
<1> DEFINE U == Nat \ T
<1> SUFFICES ASSUME U # {} PROVE FALSE
  OBVIOUS
<1>1. PICK n \in U : \A m \in U : n <= m
  <2>1. U \subseteq Nat
    OBVIOUS
  <2> HIDE DEF U
  <2> QED BY <2>1, LeastNumber
<1>2. n # 0 /\ n - 1 \in Nat /\ (n - 1) + 1 = n
  OBVIOUS
<1>3. n - 1 \in T
  BY <1>1, <1>2
<1> QED
  BY <1>2, <1>3

Forest(s) ==
    /\ IsFiniteSet(DOMAIN s) /\ NoPid \notin DOMAIN s
    /\ \A S \in SUBSET DOMAIN s : S # {} => \E p \in S : s[p].parent \notin S

LEMMA StepsAbove ==
    ASSUME NEW s, IsFiniteSet(DOMAIN s), NEW p
    PROVE  LET up == Above(s, p)
           IN \A n \in 0..Cardinality(DOMAIN s) :
                 n # 0 => up[n] = IF up[n - 1] \in DOMAIN s /\ s[up[n - 1]].parent \in DOMAIN s
                                  THEN s[up[n - 1]].parent ELSE NoPid
<1> DEFINE m == Cardinality(DOMAIN s)
<1>1. m \in Nat
  BY FS_CardinalityType
<1>2. Above(s, p) = CHOOSE g : Climb(s, p, m, g)
  BY DEF Above, Climb
<1>3. Climb(s, p, m, Above(s, p))
  BY <1>1, <1>2, ClimbExists
<1> QED
  BY <1>1, <1>3 DEF Climb

(* All the way up to a process there are processes, each the parent of the *)
(* one before it.                                                          *)
LEMMA AllTheWay ==
    ASSUME NEW s, IsFiniteSet(DOMAIN s), NoPid \notin DOMAIN s, NEW p,
           NEW j \in DOMAIN Above(s, p), Above(s, p)[j] \in DOMAIN s
    PROVE  /\ j \in Nat
           /\ \A k \in 0..j : Above(s, p)[k] \in DOMAIN s
           /\ \A k \in 0..(j - 1) : s[Above(s, p)[k]].parent = Above(s, p)[k + 1]
<1> DEFINE up == Above(s, p)
           m == Cardinality(DOMAIN s)
<1>1. m \in Nat /\ DOMAIN up = 0..m
  BY AboveIs
<1>2. \A n \in 0..m : n # 0 => up[n] = IF up[n - 1] \in DOMAIN s /\ s[up[n - 1]].parent \in DOMAIN s
                                       THEN s[up[n - 1]].parent ELSE NoPid
  BY StepsAbove
<1>3. j \in 0..m /\ up[j] \in DOMAIN s
  BY <1>1
<1> HIDE DEF m, up
<1>4. \A n \in 0..m : n # 0 /\ up[n] \in DOMAIN s
                        => up[n - 1] \in DOMAIN s /\ s[up[n - 1]].parent = up[n]
  BY <1>2
<1> DEFINE T == {k \in 0..j : up[k] \notin DOMAIN s}
<1>5. T = {}
  <2> SUFFICES ASSUME T # {} PROVE FALSE
    OBVIOUS
  <2>1. T \subseteq 0..m
    BY <1>1, <1>3
  <2>2. Max(T) \in T /\ \A x \in T : x <= Max(T)
    <3> HIDE DEF T
    <3> QED BY <1>1, <2>1, LargestBelow
  <2>3. PICK k \in T : \A x \in T : x <= k
    BY <2>2
  <2>4. k \in 0..j /\ k # j
    BY <1>3
  <2>5. k + 1 \in 0..j /\ k + 1 \in 0..m /\ k + 1 # 0 /\ (k + 1) - 1 = k
    BY <1>1, <1>3, <2>4
  <2>6. k + 1 \notin T
    <3>1. k + 1 > k
      BY <2>4
    <3> QED BY <2>3, <2>4, <2>5, <3>1
  <2>7. up[k + 1] \in DOMAIN s
    BY <2>5, <2>6
  <2> QED BY <1>4, <2>5, <2>7
<1>6. ASSUME NEW k \in 0..(j - 1) PROVE s[up[k]].parent = up[k + 1]
  <2>1. k + 1 \in 0..j /\ k + 1 \in 0..m /\ k + 1 # 0 /\ (k + 1) - 1 = k
    BY <1>1, <1>3
  <2> QED BY <1>4, <1>5, <2>1
<1> QED
  BY <1>1, <1>3, <1>5, <1>6 DEF up

(* In a forest no way up meets a process twice.                            *)
LEMMA NeverTwice ==
    ASSUME NEW s, Forest(s), NEW p, NEW i \in DOMAIN Above(s, p), NEW j \in DOMAIN Above(s, p),
           Above(s, p)[j] \in DOMAIN s, Above(s, p)[i] = Above(s, p)[j], i < j
    PROVE  FALSE
<1> DEFINE up == Above(s, p)
           m == Cardinality(DOMAIN s)
<1>1. m \in Nat /\ DOMAIN up = 0..m
  BY AboveIs DEF Forest
<1>2. i \in 0..m /\ j \in 0..m /\ up[i] = up[j]
  BY <1>1
<1>3. /\ \A k \in 0..j : up[k] \in DOMAIN s
      /\ \A k \in 0..(j - 1) : s[up[k]].parent = up[k + 1]
  BY AllTheWay DEF Forest
<1> HIDE DEF m, up
<1> DEFINE S == {up[k] : k \in i..(j - 1)}
<1>4. S \in SUBSET DOMAIN s /\ S # {} /\ i \in i..(j - 1)
  <2>1. i \in i..(j - 1) /\ \A k \in i..(j - 1) : k \in 0..j
    BY <1>1, <1>2
  <2> QED BY <1>3, <2>1
<1>5. ASSUME NEW k \in i..(j - 1) PROVE s[up[k]].parent \in S
  <2>1. k \in 0..(j - 1) /\ (k + 1 = j \/ k + 1 \in i..(j - 1))
    BY <1>1, <1>2
  <2>2. s[up[k]].parent = up[k + 1]
    BY <1>3, <2>1
  <2> QED BY <1>2, <1>4, <2>1, <2>2
<1>6. PICK q \in S : s[q].parent \notin S
  <2> HIDE DEF S
  <2> QED BY <1>4 DEF Forest
<1> QED
  BY <1>5, <1>6

(* So a way up ends before it is as long as there are processes.           *)
LEMMA WayEnds ==
    ASSUME NEW s, Forest(s), NEW p,
           NEW j \in DOMAIN Above(s, p), Above(s, p)[j] \in DOMAIN s
    PROVE  j + 1 \in DOMAIN Above(s, p)
<1> DEFINE up == Above(s, p)
           m == Cardinality(DOMAIN s)
           f == [k \in 0..m |-> up[k]]
<1>1. m \in Nat /\ DOMAIN up = 0..m
  BY AboveIs DEF Forest
<1> SUFFICES ASSUME j = m PROVE FALSE
  <2> HIDE DEF m, up
  <2>1. j \in 0..m
    BY <1>1 DEF up
  <2>2. j # m => j + 1 \in 0..m
    BY <1>1, <2>1
  <2> QED BY <1>1, <2>2 DEF up
<1>2. \A k \in 0..m : up[k] \in DOMAIN s
  BY AllTheWay DEF Forest
<1>3. ASSUME NEW k \in 0..m, NEW l \in 0..m, up[k] = up[l], k # l PROVE FALSE
  <2>1. k < l \/ l < k
    <3> HIDE DEF m
    <3> QED BY <1>1, <1>3
  <2> QED BY <1>1, <1>2, <1>3, <2>1, NeverTwice
<1>4. f \in Injection(0..m, DOMAIN s)
  <2> HIDE DEF m, up
  <2>1. f \in [0..m -> DOMAIN s]
    BY <1>2
  <2>2. \A k, l \in 0..m : f[k] = f[l] => k = l
    BY <1>3
  <2> HIDE DEF f
  <2> QED BY <2>1, <2>2 DEF Injection, IsInjective
<1>5. Cardinality(0..m) <= m
  <2> HIDE DEF f
  <2> QED BY <1>4, FS_Injection DEF Forest
<1>6. Cardinality(0..m) = IF 0 > m THEN 0 ELSE m - 0 + 1
  <2> HIDE DEF m
  <2> QED BY <1>1, FS_Interval
<1> HIDE DEF m
<1> QED
  BY <1>1, <1>5, <1>6

(* The way up from a parent is the way up from its child, one shorter.     *)
LEMMA WayFromParent ==
    ASSUME NEW s, IsFiniteSet(DOMAIN s), NEW p \in DOMAIN s, s[p].parent \in DOMAIN s
    PROVE  \A n \in Nat : n + 1 \in DOMAIN Above(s, p)
                => Above(s, p)[n + 1] = Above(s, s[p].parent)[n]
<1> DEFINE up == Above(s, p)
           over == Above(s, s[p].parent)
           m == Cardinality(DOMAIN s)
           next(x) == IF x \in DOMAIN s /\ s[x].parent \in DOMAIN s THEN s[x].parent ELSE NoPid
           T == {n \in Nat : n + 1 \in 0..m => up[n + 1] = over[n]}
<1>1. m \in Nat /\ DOMAIN up = 0..m /\ DOMAIN over = 0..m /\ up[0] = p /\ over[0] = s[p].parent
  BY AboveIs
<1>2. \A n \in 0..m : n # 0 => up[n] = next(up[n - 1]) /\ over[n] = next(over[n - 1])
  BY StepsAbove
<1>3. next(p) = s[p].parent
  OBVIOUS
<1> HIDE DEF m, up, over, next
<1>4. 0 \in T
  <2> SUFFICES ASSUME 1 \in 0..m PROVE up[1] = over[0]
    OBVIOUS
  <2>1. up[1] = next(up[1 - 1])
    BY <1>2
  <2> QED BY <1>1, <1>3, <2>1
<1>5. ASSUME NEW n \in Nat, n \in T PROVE n + 1 \in T
  <2> SUFFICES ASSUME (n + 1) + 1 \in 0..m PROVE up[(n + 1) + 1] = over[n + 1]
    OBVIOUS
  <2>1. /\ n + 1 \in 0..m /\ n + 1 # 0 /\ (n + 1) - 1 = n
        /\ (n + 1) + 1 # 0 /\ ((n + 1) + 1) - 1 = n + 1
    BY <1>1
  <2>2. up[n + 1] = over[n]
    BY <1>5, <2>1
  <2>3. up[(n + 1) + 1] = next(up[n + 1]) /\ over[n + 1] = next(over[n])
    BY <1>2, <2>1
  <2> QED BY <2>2, <2>3
<1>6. Nat \subseteq T
  <2> HIDE DEF T
  <2> QED BY <1>4, <1>5, UpFromZero
<1> QED
  BY <1>1, <1>6 DEF up, over

(* Generations, counted from the child and from its parent.                *)
LEMMA GenerationsAre ==
    ASSUME NEW s, Forest(s), NEW p \in DOMAIN s, NEW r \in DOMAIN s
    PROVE  /\ Generations(s, p, r) \subseteq Nat
           /\ 0 \in Generations(s, p, r) <=> p = r
           /\ \A n \in Nat : n + 1 \in Generations(s, p, r)
                <=> s[p].parent \in DOMAIN s /\ n \in Generations(s, s[p].parent, r)
<1> DEFINE up == Above(s, p)
           over == Above(s, s[p].parent)
           m == Cardinality(DOMAIN s)
<1>1. m \in Nat /\ DOMAIN up = 0..m /\ DOMAIN over = 0..m /\ up[0] = p
  BY AboveIs DEF Forest
<1>2. /\ Generations(s, p, r) = {n \in DOMAIN up : up[n] = r}
      /\ Generations(s, s[p].parent, r) = {n \in DOMAIN over : over[n] = r}
  BY DEF Generations
<1>3. ASSUME NEW n \in Nat, n + 1 \in DOMAIN up, up[n + 1] = r
      PROVE  s[p].parent \in DOMAIN s /\ n \in DOMAIN over /\ over[n] = r
  <2>1. \A k \in 0..((n + 1) - 1) : s[up[k]].parent = up[k + 1]
    BY <1>3, AllTheWay DEF Forest
  <2>2. \A k \in 0..(n + 1) : up[k] \in DOMAIN s
    BY <1>3, AllTheWay DEF Forest
  <2>3. s[p].parent \in DOMAIN s
    <3> HIDE DEF up
    <3>1. 0 \in 0..((n + 1) - 1) /\ 0 + 1 \in 0..(n + 1)
      OBVIOUS
    <3> QED BY <1>1, <2>1, <2>2, <3>1
  <2>4. up[n + 1] = over[n]
    BY <1>3, <2>3, WayFromParent DEF Forest
  <2>5. n \in 0..m
    <3> HIDE DEF m
    <3> QED BY <1>1, <1>3
  <2> QED BY <1>1, <1>3, <2>3, <2>4, <2>5
<1>4. ASSUME NEW n \in Nat, s[p].parent \in DOMAIN s, n \in DOMAIN over, over[n] = r
      PROVE  n + 1 \in DOMAIN up /\ up[n + 1] = r
  <2>1. n + 1 \in DOMAIN over
    BY <1>4, WayEnds
  <2>2. up[n + 1] = over[n]
    BY <1>1, <1>4, <2>1, WayFromParent DEF Forest
  <2> QED BY <1>1, <1>4, <2>1, <2>2
<1>5. 0 \in DOMAIN up /\ DOMAIN up \subseteq Nat
  <2> HIDE DEF m, up
  <2> QED BY <1>1
<1> HIDE DEF up, over, m
<1> QED
  BY <1>1, <1>2, <1>3, <1>4, <1>5

(* A process is one number of generations below another.                   *)
LEMMA GenerationIsOne ==
    ASSUME NEW s, Forest(s), NEW p, NEW r \in DOMAIN s,
           NEW m \in Generations(s, p, r), NEW n \in Generations(s, p, r)
    PROVE  m = n
<1>1. /\ m \in DOMAIN Above(s, p) /\ Above(s, p)[m] = r
      /\ n \in DOMAIN Above(s, p) /\ Above(s, p)[n] = r
  BY DEF Generations
<1>2. m \in Nat /\ n \in Nat
  <2>1. DOMAIN Above(s, p) = 0..Cardinality(DOMAIN s) /\ Cardinality(DOMAIN s) \in Nat
    BY AboveIs DEF Forest
  <2> QED BY <1>1, <2>1
<1>3. ~(m < n) /\ ~(n < m)
  BY <1>1, NeverTwice
<1> QED
  BY <1>2, <1>3

LEMMA DepthIs ==
    ASSUME NEW s, Forest(s), NEW p, NEW r \in DOMAIN s, Below(s, p, r)
    PROVE  Depth(s, p, r) \in Generations(s, p, r) /\ Depth(s, p, r) \in Nat
<1>1. PICK n \in Generations(s, p, r) : TRUE
  BY DEF Below
<1>2. n \in Nat
  <2>1. DOMAIN Above(s, p) = 0..Cardinality(DOMAIN s) /\ Cardinality(DOMAIN s) \in Nat
    BY AboveIs DEF Forest
  <2>2. n \in DOMAIN Above(s, p)
    BY DEF Generations
  <2> QED BY <2>1, <2>2
<1>3. Generations(s, p, r) = {n}
  BY GenerationIsOne
<1>4. Min({n}) = n
  BY <1>2 DEF Min
<1> QED
  BY <1>2, <1>3, <1>4 DEF Depth

LEMMA GenerationsAdd ==
    ASSUME NEW s, Forest(s), NEW p \in DOMAIN s, NEW a \in DOMAIN s, NEW r \in DOMAIN s,
           NEW m \in Generations(s, p, a), NEW n \in Generations(s, a, r)
    PROVE  m + n \in Generations(s, p, r)
<1> DEFINE T == {k \in Nat : \A x \in DOMAIN s : k \in Generations(s, x, a)
                                                    => k + n \in Generations(s, x, r)}
<1>1. m \in Nat /\ n \in Nat
  BY GenerationsAre
<1>2. 0 \in T
  <2>1. 0 + n = n
    BY <1>1
  <2>2. \A x \in DOMAIN s : 0 \in Generations(s, x, a) => x = a
    BY GenerationsAre
  <2> QED BY <2>1, <2>2
<1>3. ASSUME NEW k \in Nat, k \in T PROVE k + 1 \in T
  <2> SUFFICES ASSUME NEW x \in DOMAIN s, k + 1 \in Generations(s, x, a)
               PROVE  (k + 1) + n \in Generations(s, x, r)
    OBVIOUS
  <2>1. s[x].parent \in DOMAIN s /\ k \in Generations(s, s[x].parent, a)
    BY GenerationsAre
  <2>2. k + n \in Generations(s, s[x].parent, r)
    BY <1>3, <2>1
  <2>3. k + n \in Nat /\ (k + n) + 1 = (k + 1) + n
    BY <1>1
  <2>4. (k + n) + 1 \in Generations(s, x, r)
    BY <2>1, <2>2, <2>3, GenerationsAre
  <2> QED BY <2>3, <2>4
<1>4. Nat \subseteq T
  <2> HIDE DEF T
  <2> QED BY <1>2, <1>3, UpFromZero
<1> QED
  BY <1>1, <1>4

(* Of two above a process the one fewer generations away is below the      *)
(* other.                                                                  *)
LEMMA GenerationsBetween ==
    ASSUME NEW s, Forest(s), NEW p \in DOMAIN s, NEW a \in DOMAIN s, NEW r \in DOMAIN s,
           NEW m \in Generations(s, p, a), NEW n \in Generations(s, p, r), m <= n
    PROVE  n - m \in Generations(s, a, r)
<1> DEFINE T == {k \in Nat : \A x \in DOMAIN s, l \in Nat :
                    k <= l /\ k \in Generations(s, x, a) /\ l \in Generations(s, x, r)
                        => l - k \in Generations(s, a, r)}
<1>1. m \in Nat /\ n \in Nat
  BY GenerationsAre
<1>2. 0 \in T
  <2>1. \A l \in Nat : l - 0 = l
    OBVIOUS
  <2>2. \A x \in DOMAIN s : 0 \in Generations(s, x, a) => x = a
    BY GenerationsAre
  <2> QED BY <2>1, <2>2
<1>3. ASSUME NEW k \in Nat, k \in T PROVE k + 1 \in T
  <2> SUFFICES ASSUME NEW x \in DOMAIN s, NEW l \in Nat, k + 1 <= l,
                      k + 1 \in Generations(s, x, a), l \in Generations(s, x, r)
               PROVE  l - (k + 1) \in Generations(s, a, r)
    OBVIOUS
  <2>1. s[x].parent \in DOMAIN s /\ k \in Generations(s, s[x].parent, a)
    BY GenerationsAre
  <2>2. l - 1 \in Nat /\ (l - 1) + 1 = l /\ k <= l - 1 /\ (l - 1) - k = l - (k + 1)
    OBVIOUS
  <2>3. l - 1 \in Generations(s, s[x].parent, r)
    <3>1. (l - 1) + 1 \in Generations(s, x, r)
      BY <2>2
    <3> HIDE DEF T
    <3> QED BY <2>1, <2>2, <3>1, GenerationsAre
  <2>4. (l - 1) - k \in Generations(s, a, r)
    BY <1>3, <2>1, <2>2, <2>3
  <2> QED BY <2>2, <2>4
<1>4. Nat \subseteq T
  <2> HIDE DEF T
  <2> QED BY <1>2, <1>3, UpFromZero
<1> QED
  BY <1>1, <1>4

(* A part of a forest, with the parents as they are.                       *)
PartOf(t, s) ==
    /\ DOMAIN t \subseteq DOMAIN s
    /\ \A p \in DOMAIN t : t[p].parent = s[p].parent

LEMMA PartIsForest ==
    ASSUME NEW s, Forest(s), NEW t, PartOf(t, s)
    PROVE  Forest(t)
<1>1. IsFiniteSet(DOMAIN t)
  BY FS_Subset DEF Forest, PartOf
<1>2. ASSUME NEW S \in SUBSET DOMAIN t, S # {} PROVE \E p \in S : t[p].parent \notin S
  <2>1. S \in SUBSET DOMAIN s
    BY DEF PartOf
  <2>2. PICK p \in S : s[p].parent \notin S
    BY <1>2, <2>1 DEF Forest
  <2> QED BY <2>2 DEF PartOf
<1> QED
  BY <1>1, <1>2 DEF Forest, PartOf

LEMMA PartIsBelow ==
    ASSUME NEW s, Forest(s), NEW t, PartOf(t, s), NEW p \in DOMAIN t, NEW r \in DOMAIN t,
           NEW n \in Generations(t, p, r)
    PROVE  n \in Generations(s, p, r)
<1> DEFINE T == {k \in Nat : \A x \in DOMAIN t : k \in Generations(t, x, r)
                                                    => k \in Generations(s, x, r)}
<1>1. Forest(t) /\ DOMAIN t \subseteq DOMAIN s
  BY PartIsForest DEF PartOf
<1>2. n \in Nat
  BY <1>1, GenerationsAre
<1>3. 0 \in T
  <2>1. ASSUME NEW x \in DOMAIN t, 0 \in Generations(t, x, r) PROVE 0 \in Generations(s, x, r)
    <3>1. x = r /\ x \in DOMAIN s
      BY <1>1, <2>1, GenerationsAre
    <3> QED BY <1>1, <3>1, GenerationsAre
  <2> QED BY <2>1
<1>4. ASSUME NEW k \in Nat, k \in T PROVE k + 1 \in T
  <2> SUFFICES ASSUME NEW x \in DOMAIN t, k + 1 \in Generations(t, x, r)
               PROVE  k + 1 \in Generations(s, x, r)
    OBVIOUS
  <2>1. t[x].parent \in DOMAIN t /\ k \in Generations(t, t[x].parent, r)
    BY <1>1, GenerationsAre
  <2>2. t[x].parent = s[x].parent
    BY DEF PartOf
  <2>3. k \in Generations(s, s[x].parent, r) /\ s[x].parent \in DOMAIN s
    BY <1>1, <1>4, <2>1, <2>2
  <2> QED BY <1>1, <2>3, GenerationsAre
<1>5. Nat \subseteq T
  <2> HIDE DEF T
  <2> QED BY <1>3, <1>4, UpFromZero
<1> QED
  BY <1>2, <1>5

(* Who stands between two processes of a part on a way up in it is in it.  *)
LEMMA BetweenIsPart ==
    ASSUME NEW s, Forest(s), NEW t, PartOf(t, s), NEW p \in DOMAIN t, NEW r \in DOMAIN t,
           NEW a \in DOMAIN s, NEW n \in Generations(t, p, r), NEW m \in Generations(s, p, a),
           m <= n
    PROVE  a \in DOMAIN t /\ m \in Generations(t, p, a)
<1> DEFINE T == {k \in Nat : \A x \in DOMAIN t, l \in Nat :
                    k <= l /\ k \in Generations(s, x, a) /\ l \in Generations(t, x, r)
                        => a \in DOMAIN t /\ k \in Generations(t, x, a)}
<1>1. Forest(t) /\ DOMAIN t \subseteq DOMAIN s
  BY PartIsForest DEF PartOf
<1>2. m \in Nat /\ n \in Nat
  BY <1>1, GenerationsAre
<1>3. 0 \in T
  <2>1. ASSUME NEW x \in DOMAIN t, 0 \in Generations(s, x, a)
        PROVE  a \in DOMAIN t /\ 0 \in Generations(t, x, a)
    <3>1. x = a
      BY <1>1, <2>1, GenerationsAre
    <3> QED BY <1>1, <3>1, GenerationsAre
  <2> QED BY <2>1
<1>4. ASSUME NEW k \in Nat, k \in T PROVE k + 1 \in T
  <2> SUFFICES ASSUME NEW x \in DOMAIN t, NEW l \in Nat, k + 1 <= l,
                      k + 1 \in Generations(s, x, a), l \in Generations(t, x, r)
               PROVE  a \in DOMAIN t /\ k + 1 \in Generations(t, x, a)
    OBVIOUS
  <2>1. l - 1 \in Nat /\ (l - 1) + 1 = l /\ k <= l - 1
    OBVIOUS
  <2>2. (l - 1) + 1 \in Generations(t, x, r)
    BY <2>1
  <2>3. t[x].parent \in DOMAIN t /\ l - 1 \in Generations(t, t[x].parent, r)
    <3> HIDE DEF T
    <3> QED BY <1>1, <2>1, <2>2, GenerationsAre
  <2>4. t[x].parent = s[x].parent
    BY DEF PartOf
  <2>5. k \in Generations(s, t[x].parent, a)
    BY <1>1, <2>4, GenerationsAre
  <2>6. a \in DOMAIN t /\ k \in Generations(t, t[x].parent, a)
    BY <1>4, <2>1, <2>3, <2>5
  <2> QED BY <1>1, <2>3, <2>6, GenerationsAre
<1>5. Nat \subseteq T
  <2> HIDE DEF T
  <2> QED BY <1>3, <1>4, UpFromZero
<1> QED
  BY <1>2, <1>5

(* In a tree the deeper of two is not above the other, in the tree or in   *)
(* the forest it is part of.                                               *)
LEMMA DeeperIsNotAbove ==
    ASSUME NEW s, Forest(s), NEW t, PartOf(t, s), NEW root \in DOMAIN t,
           NEW p \in DOMAIN t, NEW q \in DOMAIN t, Below(t, p, root), Below(t, q, root),
           p # q, Depth(t, p, root) >= Depth(t, q, root)
    PROVE  ~Below(s, q, p)
<1> SUFFICES ASSUME Below(s, q, p) PROVE FALSE
  OBVIOUS
<1>1. Forest(t) /\ DOMAIN t \subseteq DOMAIN s
  BY PartIsForest DEF PartOf
<1>2. PICK m \in Generations(s, q, p) : TRUE
  BY DEF Below
<1> DEFINE d == Depth(t, p, root)
           e == Depth(t, q, root)
<1>3. d \in Nat /\ e \in Nat /\ d \in Generations(t, p, root) /\ e \in Generations(t, q, root)
  BY <1>1, DepthIs
<1>4. d \in Generations(s, p, root) /\ e \in Generations(s, q, root)
  BY <1>3, PartIsBelow
<1>5. m + d \in Generations(s, q, root) /\ m \in Nat
  BY <1>1, <1>2, <1>4, GenerationsAdd, GenerationsAre
<1>6. m + d = e
  BY <1>1, <1>4, <1>5, GenerationIsOne
<1>7. m = 0
  BY <1>3, <1>5, <1>6
<1>8. p = q
  BY <1>1, <1>2, <1>7, GenerationsAre
<1> QED
  BY <1>8

-----------------------------------------------------------------------------
(* Orders to stop.                                                         *)

LEMMA TerminationOrderIs ==
    ASSUME NEW depth, IsFiniteSet(DOMAIN depth), DOMAIN depth \subseteq Nat,
           \A p \in DOMAIN depth : depth[p] \in Nat, NEW root \in DOMAIN depth
    PROVE  LET order == TerminationOrder(root, depth)
               n == Cardinality(DOMAIN depth)
           IN /\ n \in Nat \ {0} /\ order \in [1..n -> DOMAIN depth] /\ order[n] = root
              /\ \A p \in DOMAIN depth : \E k \in 1..n : order[k] = p
              /\ \A i, j \in 1..n : i < j =>
                    /\ order[i] # order[j] /\ order[i] # root
                    /\ order[j] = root \/ Deeper(depth, order[i], order[j])
<1> DEFINE others == DOMAIN depth \ {root}
           before == {pair \in others \X others : Deeper(depth, pair[1], pair[2])}
           n == Cardinality(DOMAIN depth)
           front == InOrder(others, before)
           order == TerminationOrder(root, depth)
<1>1. n \in Nat \ {0} /\ IsFiniteSet(others) /\ Cardinality(others) = n - 1
  <2>1. n \in Nat /\ n # 0
    BY FS_CardinalityType, FS_EmptySet
  <2> QED BY <2>1, FS_RemoveElement
<1>2. Arranges(before, others)
  <2>1. \A p, q \in others : <<p, q>> \in before <=> Deeper(depth, p, q)
    OBVIOUS
  <2>2. \A p \in others : ~Deeper(depth, p, p)
    BY DEF Deeper
  <2>3. \A p, q, r \in others : Deeper(depth, p, q) /\ Deeper(depth, q, r) => Deeper(depth, p, r)
    BY DEF Deeper
  <2>4. \A p, q \in others : p # q => Deeper(depth, p, q) \/ Deeper(depth, q, p)
    BY DEF Deeper
  <2> HIDE DEF before, others
  <2> QED BY <2>1, <2>2, <2>3, <2>4 DEF Arranges
<1>3. /\ front \in [1..(n - 1) -> others]
      /\ \A x \in others : \E k \in 1..(n - 1) : front[k] = x
      /\ \A i, j \in 1..(n - 1) : i < j => <<front[i], front[j]>> \in before
  <2> HIDE DEF before, others, n
  <2>1. LET o == InOrder(others, before)
            c == Cardinality(others)
        IN /\ c \in Nat /\ o \in [1..c -> others]
           /\ \A x \in others : \E k \in 1..c : o[k] = x
           /\ \A i, j \in 1..c : i < j => <<o[i], o[j]>> \in before
    BY <1>1, <1>2, InOrderIs
  <2> QED BY <1>1, <2>1
<1>4. \A i, j \in 1..(n - 1) : i < j => Deeper(depth, front[i], front[j]) /\ front[i] # front[j]
  <2>1. \A p, q : <<p, q>> \in before => Deeper(depth, p, q) /\ p # q
    BY DEF Deeper
  <2> HIDE DEF before
  <2> QED BY <1>3, <2>1
<1>5. order = front \o <<root>>
  BY DEF TerminationOrder
<1> HIDE DEF front, order, n, before
<1>6. front \in Seq(others) /\ Len(front) = n - 1
  <2>1. n - 1 \in Nat
    BY <1>1
  <2> QED BY <1>3, <2>1
<1>7. order \in Seq(DOMAIN depth) /\ Len(order) = n
  <2>1. front \in Seq(DOMAIN depth) /\ <<root>> \in Seq(DOMAIN depth)
    BY <1>6
  <2>2. Len(<<root>>) = 1
    OBVIOUS
  <2> QED BY <1>1, <1>5, <1>6, <2>1, <2>2
<1>8. \A k \in 1..n : order[k] = IF k = n THEN root ELSE front[k]
  <2>1. Len(<<root>>) = 1 /\ <<root>>[1] = root
    OBVIOUS
  <2> SUFFICES ASSUME NEW k \in 1..n PROVE order[k] = IF k = n THEN root ELSE front[k]
    OBVIOUS
  <2>2. k <= n - 1 <=> k # n
    BY <1>1
  <2> QED BY <1>1, <1>5, <1>6, <2>1, <2>2
<1>9. order \in [1..n -> DOMAIN depth]
  BY <1>7
<1>10. ASSUME NEW p \in DOMAIN depth PROVE \E k \in 1..n : order[k] = p
  <2>1. CASE p = root
    <3>1. n \in 1..n
      BY <1>1
    <3> QED BY <1>8, <2>1, <3>1
  <2>2. CASE p # root
    <3>1. PICK k \in 1..(n - 1) : front[k] = p
      BY <1>3, <2>2
    <3>2. k \in 1..n /\ k # n
      BY <1>1
    <3> QED BY <1>8, <3>1, <3>2
  <2> QED BY <2>1, <2>2
<1>11. ASSUME NEW i \in 1..n, NEW j \in 1..n, i < j
       PROVE  /\ order[i] # order[j] /\ order[i] # root
              /\ order[j] = root \/ Deeper(depth, order[i], order[j])
  <2>1. i \in 1..(n - 1) /\ i # n
    BY <1>1, <1>11
  <2>2. order[i] = front[i] /\ front[i] # root
    BY <1>3, <1>8, <2>1
  <2>3. CASE j = n
    BY <1>8, <2>2, <2>3
  <2>4. CASE j # n
    <3>1. j \in 1..(n - 1)
      BY <1>1, <2>4
    <3> QED BY <1>4, <1>8, <1>11, <2>1, <2>2, <2>4, <3>1
  <2> QED BY <2>3, <2>4
<1>12. order[n] = root
  <2>1. n \in 1..n
    BY <1>1
  <2> QED BY <1>8, <2>1
<1> QED
  BY <1>1, <1>9, <1>10, <1>11, <1>12 DEF n, order

-----------------------------------------------------------------------------
(* What detection finds is in the snapshot.                                *)

LEMMA LauncherRootIsThere ==
    ASSUME NEW s, IsFiniteSet(DOMAIN s), NEW p \in DOMAIN s, s[p].uid = Me, NEW policy
    PROVE  LauncherRoot(s, p, policy) \in DOMAIN s /\ s[LauncherRoot(s, p, policy)].uid = Me
<1> DEFINE up == Above(s, p)
           climbed == {n \in DOMAIN up : \A i \in 1..n : IsLauncher(s, up[i], policy)}
<1>1. up[0] = p /\ DOMAIN up = 0..Cardinality(DOMAIN s) /\ Cardinality(DOMAIN s) \in Nat
  BY AboveIs
<1>2. Max(climbed) \in climbed
  <2>1. 0 \in climbed /\ climbed \subseteq 0..Cardinality(DOMAIN s)
    <3> HIDE DEF up
    <3> QED BY <1>1
  <2> HIDE DEF climbed
  <2> QED BY <1>1, <2>1, LargestBelow
<1>3. up[Max(climbed)] \in DOMAIN s /\ s[up[Max(climbed)]].uid = Me
  <2>1. PICK n \in climbed : n = Max(climbed)
    BY <1>2
  <2>2. n \in 0..Cardinality(DOMAIN s)
    BY <1>1
  <2>3. CASE n = 0
    BY <1>1, <2>1, <2>3
  <2>4. CASE n # 0
    <3>1. n \in 1..n
      BY <1>1, <2>2, <2>4
    <3>2. IsLauncher(s, up[n], policy)
      BY <3>1
    <3> QED BY <2>1, <3>2 DEF IsLauncher
  <2> QED BY <2>3, <2>4
<1> QED
  BY <1>3 DEF LauncherRoot

LEMMA EligibleIsThere ==
    ASSUME NEW s, IsFiniteSet(DOMAIN s), NEW policy, NEW ignored,
           NEW w \in Eligible(s, policy, ignored)
    PROVE  \E r \in DOMAIN s : /\ w = Workload(s, r) /\ w.root = IdOf(s, r)
                              /\ w.name = s[r].name /\ s[r].uid = Me
                              /\ w.name \notin policy.ignored /\ w.root \notin ignored
<1>1. PICK p \in Candidates(s, policy) : w = Workload(s, LauncherRoot(s, p, policy))
  BY DEF Eligible
<1>2. p \in DOMAIN s /\ s[p].uid = Me
  BY DEF Candidates
<1> DEFINE r == LauncherRoot(s, p, policy)
<1>3. r \in DOMAIN s /\ s[r].uid = Me
  BY <1>2, LauncherRootIsThere
<1>4. w = Workload(s, r) /\ w.name \notin policy.ignored /\ w.root \notin ignored
  BY <1>1 DEF Eligible
<1> HIDE DEF r
<1>5. w.root = IdOf(s, r) /\ w.name = s[r].name
  BY <1>4 DEF Workload
<1> QED
  BY <1>3, <1>4, <1>5

LEMMA SelectRootIsThere ==
    ASSUME NEW s, NEW members, members # {},
           \A p \in members : p \in Nat /\ s[p].start \in Nat
    PROVE  LET root == SelectRoot(s, members)
           IN /\ root \in members
              /\ (\E p \in members : s[p].parent \notin members) => s[root].parent \notin members
<1> DEFINE tops == {p \in members : s[p].parent \notin members}
           pool == IF tops = {} THEN members ELSE tops
           starts == {StartSecond(s, p) : p \in pool}
<1>0. \A p \in members : p \in Nat /\ StartSecond(s, p) \in Nat
  <2>1. \A n \in Nat : n \div TicksPerSecond \in Nat
    BY BackgroundAssumption
  <2> QED BY <2>1 DEF StartSecond
<1>1. pool # {} /\ pool \subseteq members
  OBVIOUS
<1> HIDE DEF pool
<1>2. PICK t \in starts : \A u \in starts : t <= u
  <2>1. starts # {} /\ starts \subseteq Nat
    BY <1>0, <1>1
  <2> HIDE DEF starts
  <2> QED BY <2>1, LeastNumber
<1> DEFINE oldest == {p \in pool : StartSecond(s, p) = t}
<1>3. PICK p \in oldest : \A q \in oldest : p <= q
  <2>1. oldest # {} /\ oldest \subseteq Nat
    BY <1>1
  <2> HIDE DEF oldest
  <2> QED BY <2>1, LeastNumber
<1>4. \A q \in pool : \/ StartSecond(s, p) < StartSecond(s, q)
                      \/ StartSecond(s, p) = StartSecond(s, q) /\ p <= q
  BY <1>0, <1>1, <1>2, <1>3
<1>5. (CHOOSE o \in pool : \A q \in pool :
          \/ StartSecond(s, o) < StartSecond(s, q)
          \/ StartSecond(s, o) = StartSecond(s, q) /\ o <= q) \in pool
  BY <1>4
<1>6. SelectRoot(s, members) \in pool
  BY <1>5 DEF SelectRoot, pool
<1>7. tops # {} => pool = tops
  BY DEF pool
<1> QED
  BY <1>1, <1>6, <1>7

(* A program the policy names is not monitored.                            *)
LEMMA NamedIsNotMonitored ==
    ASSUME NEW policy, NEW process, Names(process, policy.ignoredNames, policy.ignoredExes)
    PROVE  Disposition(policy, process) # "Monitor"
BY DEF Disposition

LEMMA SafeIsThere ==
    ASSUME NEW s, DOMAIN s \subseteq Nat, \A p \in DOMAIN s : s[p].start \in Nat,
           NEW guard, NEW policy, NEW w \in BuildBackgroundWorkloads(s, guard, policy)
    PROVE  /\ \A x \in w.programs : Disposition(guard, x) = "Monitor"
           /\ ~RootIgnored(w, policy)
           /\ \E r \in DOMAIN s : w.root = IdOf(s, r) /\ w.name = s[r].name /\ w.exe = s[r].exe
<1>1. PICK g \in EligibleGroups(s) : SafeGroup(s, g, guard, policy) /\ w = BuildGroup(s, g)
  BY DEF BuildBackgroundWorkloads
<1> DEFINE members == GroupMembers(s, g)
           root == SelectRoot(s, members)
<1>2. root \in members /\ members \subseteq DOMAIN s
  <2>1. members # {} /\ members \subseteq DOMAIN s
    BY DEF EligibleGroups, GroupMembers
  <2> HIDE DEF members
  <2> QED BY <2>1, SelectRootIsThere
<1>3. /\ w.root = IdOf(s, root) /\ w.name = s[root].name /\ w.exe = s[root].exe
      /\ w.programs = {[name |-> s[p].name, exe |-> s[p].exe] : p \in members}
  BY <1>1 DEF BuildGroup
<1>4. ~RootIgnored(s[root], policy)
      /\ \A p \in members : Disposition(guard, s[p]) = "Monitor"
  BY <1>1 DEF SafeGroup
<1> HIDE DEF members, root
<1>5. ~RootIgnored(w, policy)
  BY <1>3, <1>4 DEF RootIgnored, Names
<1>6. \A x \in w.programs : Disposition(guard, x) = "Monitor"
  BY <1>3, <1>4 DEF Disposition, IsProtected, Names
<1> QED
  BY <1>2, <1>3, <1>5, <1>6

-----------------------------------------------------------------------------
(* The invariant.                                                          *)

(* The hour of an ignore is longer than the time between two polls.        *)
PollsWithinTheHour ==
    \A scenario \in Scenarios : \A delay \in scenario.delays : delay < Hour

(* The settings, and the time between two polls.                           *)
SettingsInv ==
    /\ delays \subseteq Nat \ {0}
    /\ PollsWithinTheHour => \A delay \in delays : delay < Hour
    /\ IsLimits(limits) /\ limits.samples <= Memory /\ limits.duration < Memory
    /\ IsProtection(protection) /\ bgProtection = protection
    /\ IsStalePolicy(stalePolicy) /\ stalePolicy.samples <= Memory
    /\ IsBackgroundPolicy(bgPolicy)

(* The processes: a start time is never used twice.                        *)
TableInv ==
    /\ IsTable(table) /\ clock \in Nat /\ changes \in Nat /\ clicks \in Nat
    /\ \A p \in DOMAIN table : table[p].start < clock

(* The past is a sequence of polls, some time apart.                       *)
PastInv ==
    /\ Len(past) \in Nat /\ DOMAIN past = 1..Len(past) /\ Len(past) <= Memory
    /\ \A k \in DOMAIN past :
         /\ DOMAIN past[k] = {"ago", "over", "alone", "dirs", "quiet", "sampled", "watched", "safe",
                              "events", "trees", "groups", "apps"}
         /\ past[k].ago \in Nat /\ past[k].ago >= k - 1
         /\ \A j \in 1..k : past[j].ago <= past[k].ago

(* A process is the one that was called so, as long as it runs.            *)
Runs(id) == id.pid \in DOMAIN table /\ table[id.pid].start = id.start
WasSeen(id) == id.start \in Nat /\ id.start < clock
IsNamed(id, name) == WasSeen(id) /\ (Runs(id) => table[id.pid].name = name)
IsProgram(id, name, exe) ==
    IsNamed(id, name) /\ (Runs(id) => table[id.pid].exe = exe)

OffersInv ==
    /\ DOMAIN offers = {"events", "trees", "apps"}
    /\ \A o \in offers.events : IsProgram(o.id, o.name, o.exe)
    /\ \A o \in offers.trees : IsNamed(o.id, o.name) /\ stalePolicy.enabled
    /\ \A o \in offers.apps : IsProgram(o.id, o.name, o.exe)

(* What the user ignores the services do: for what is left of the hour, or *)
(* by a rule that names the program.                                       *)
HourIn(deadlines, i) == i[2] \in DOMAIN deadlines /\ deadlines[i[2]] = quiet[i]
EventIsIgnored(i) ==
    IF quiet[i] <= Hour THEN HourIn(ignores, i)
    ELSE WasSeen(i[2])
         /\ (Runs(i[2]) => Names(table[i[2].pid], protection.ignoredNames, protection.ignoredExes))
TreeIsIgnored(i) ==
    /\ stalePolicy.enabled
    /\ IF quiet[i] <= Hour THEN HourIn(staleIgnored, i)
       ELSE WasSeen(i[2]) /\ (Runs(i[2]) => table[i[2].pid].name \in stalePolicy.ignored)
AppIsIgnored(i) ==
    IF quiet[i] <= Hour THEN HourIn(bgIgnored, i)
    ELSE WasSeen(i[2]) /\ (Runs(i[2]) => RootIgnored(table[i[2].pid], bgPolicy))

QuietInv ==
    \A i \in DOMAIN quiet :
        /\ quiet[i] \in Nat \ {0} /\ i[1] \in {"events", "trees", "apps"} /\ i = <<i[1], i[2]>>
        /\ i[1] = "events" => EventIsIgnored(i)
        /\ i[1] = "trees" => TreeIsIgnored(i)
        /\ i[1] = "apps" => AppIsIgnored(i)

(* Deadlines are within the hour.                                          *)
DeadlinesInv ==
    /\ \A id \in DOMAIN ignores : ignores[id] \in 1..Hour
    /\ \A r \in DOMAIN staleIgnored : staleIgnored[r] \in 1..Hour
    /\ \A r \in DOMAIN bgIgnored : bgIgnored[r] \in 1..Hour

JustIgnored(kind, x) ==
    <<kind, x>> \in DOMAIN quiet /\ quiet[<<kind, x>>] \in {Hour, Forever}

(* A violation is as old as the polls that found it.                       *)
Since(v, n, id) ==
    /\ n >= v.streak /\ past[n].ago >= v.since
    /\ \A k \in 1..n : id \in past[k].over
Violation(v) ==
    /\ DOMAIN v = {"streak", "since", "last"}
    /\ v.streak \in 0..limits.samples /\ v.since \in 0..limits.duration
    /\ v.last \in 0..limits.cooldown
ViolationsInv ==
    \A id \in DOMAIN violations :
        Violation(violations[id]) /\ \E n \in DOMAIN past : Since(violations[id], n, id)

EventsSpacedInv ==
    \A k \in DOMAIN past : \A id \in past[k].events :
        /\ id \in past[k].over
        /\ \/ \E j \in 1..(k - 1) : id \notin past[j].over
           \/ id \in DOMAIN violations /\ violations[id].last <= past[k].ago
           \/ JustIgnored("events", id)

(* A breach that is not forgotten has been counted.                        *)
Unreported(n, id) == \A k \in 1..n : id \notin past[k].events
Counts(v, n, id) ==
    /\ v.streak >= Least(limits.samples, n)
    /\ v.since >= Least(limits.duration, past[n].ago)
    /\ Unreported(n, id) => v.last >= Least(limits.cooldown, past[n].ago) /\ ~Notifies(v, limits)
BreachInv ==
    /\ past = <<>> => trackedIds = {}
    /\ past # <<>> => \A id \in past[1].over : id \in trackedIds \/ JustIgnored("events", id)
    /\ \A id \in trackedIds, n \in DOMAIN past :
         (\A k \in 1..n : id \in past[k].over) =>
             id \in DOMAIN violations /\ Counts(violations[id], n, id)

(* The streaks of the stale service, and the times of its notices.         *)
Streak(state) ==
    DOMAIN state = {"streak", "last"} /\ state.streak \in 0..stalePolicy.samples
    /\ state.last \in 0..stalePolicy.cooldown
Streaks(states, there) ==
    \A a \in DOMAIN states :
        /\ Streak(states[a])
        /\ \A k \in 1..states[a].streak :
             k \in DOMAIN past /\ ~past[k].quiet /\ a \in past[k][there]
StreaksInv == Streaks(tracked, "alone") /\ Streaks(trackedGroups, "dirs")

SpacedSoFar(states, said, there) ==
    \A k \in DOMAIN past : \A a \in past[k][said] :
        /\ a \in past[k][there]
        /\ \/ \E j \in 1..(k - 1) : a \notin past[j][there]
           \/ a \in DOMAIN states /\ states[a].last <= past[k].ago
           \/ JustIgnored(said, a)
StaleSpacedInv ==
    SpacedSoFar(tracked, "trees", "alone") /\ SpacedSoFar(trackedGroups, "groups", "dirs")

TrackingInv ==
    /\ \A r \in DOMAIN tracking :
         /\ DOMAIN tracking[r] = {"streak", "last"}
         /\ tracking[r].streak \in Nat /\ tracking[r].last \in 0..bgPolicy.cooldown
    /\ sinceSample \in Nat

AppsSpacedInv ==
    /\ TrackingInv
    /\ \A k \in DOMAIN past : \A r \in past[k].apps :
         /\ bgPolicy.enabled
         /\ past[k].sampled => r \in past[k].watched
         /\ \/ \E j \in 1..(k - 1) : past[j].sampled /\ r \notin past[j].watched
            \/ r \in DOMAIN tracking /\ tracking[r].last <= past[k].ago

(* What is published is what was found; a group is a set of trees.         *)
FoundInv ==
    /\ published.top \subseteq {seen[p].id : p \in DOMAIN seen}
    /\ trackedIds \subseteq published.top
    /\ DOMAIN violations \subseteq trackedIds
    /\ DOMAIN facts = DOMAIN seen
    /\ published.stale \subseteq {seen[p].id : p \in DOMAIN seen}
    /\ DOMAIN tracked \subseteq published.stale
    /\ DOMAIN history = DOMAIN tracking

-----------------------------------------------------------------------------
(* The processes: who runs under a PID is who ran there, or new.           *)

Passing ==
    /\ clock \in Nat /\ clock' \in Nat /\ clock <= clock'
    /\ \A q \in DOMAIN table' :
         \/ /\ q \in DOMAIN table /\ table'[q].start = table[q].start
            /\ table'[q].name = table[q].name /\ table'[q].exe = table[q].exe
         \/ table'[q].start \in Nat /\ table'[q].start >= clock

LEMMA PersonStays ==
    ASSUME Passing, NEW id, WasSeen(id)
    PROVE  /\ WasSeen(id)'
           /\ Runs(id)' => /\ Runs(id)
                           /\ table'[id.pid].name = table[id.pid].name
                           /\ table'[id.pid].exe = table[id.pid].exe
<1>1. clock \in Nat /\ clock' \in Nat /\ clock <= clock' /\ id.start \in Nat /\ id.start < clock
  BY DEF Passing, WasSeen
<1>2. WasSeen(id)'
  BY <1>1 DEF WasSeen
<1>3. ASSUME Runs(id)'
      PROVE  /\ id.pid \in DOMAIN table /\ table[id.pid].start = id.start
             /\ table'[id.pid].name = table[id.pid].name
             /\ table'[id.pid].exe = table[id.pid].exe
  <2>1. id.pid \in DOMAIN table' /\ table'[id.pid].start = id.start
    BY <1>3 DEF Runs
  <2>2. ~(table'[id.pid].start >= clock)
    BY <1>1, <2>1
  <2> QED BY <2>1, <2>2 DEF Passing
<1> QED
  BY <1>2, <1>3 DEF Runs

(* A process keeps its parent as long as both run.                         *)
KinStay ==
    \A q \in DOMAIN table' :
        q \in DOMAIN table /\ table'[q].start = table[q].start /\ table'[q].parent # NoPid =>
            /\ table'[q].parent = table[q].parent
            /\ table[q].parent \in DOMAIN table /\ table[q].parent \in DOMAIN table'
            /\ table'[table[q].parent].start = table[table[q].parent].start

Parents(procs) ==
    /\ \A q \in DOMAIN procs : procs[q].parent \in DOMAIN procs \cup {NoPid}
    /\ \A S \in SUBSET DOMAIN procs : S # {} => \E q \in S : procs[q].parent \notin S

LEMMA ProcessesKin ==
    ASSUME TableInv, Processes
    PROVE  Parents(table)' /\ KinStay
<1>1. PICK p \in Pids : \/ Exit(p) \/ \E child \in Pids : Fork(p, child)
                        \/ (\E size \in Sizes : Resize(p, size)) \/ Move(p) \/ TakeTerminal(p)
  BY DEF Processes
<1>2. /\ Parents(table) /\ DOMAIN table \subseteq Pids /\ NoPid \notin Pids
      /\ \A q \in DOMAIN table : DOMAIN table[q] = Facets
  BY SnapshotAssumption DEF TableInv, IsTable, Parents, NoPid
<1>3. CASE Exit(p)
  <2>1. /\ DOMAIN table' = DOMAIN table \ {p}
        /\ \A q \in DOMAIN table' :
             /\ table'[q].parent = IF table[q].parent = p THEN NoPid ELSE table[q].parent
             /\ table'[q].start = table[q].start
    BY <1>2, <1>3 DEF Exit, Facets
  <2>2. ASSUME NEW S \in SUBSET DOMAIN table', S # {} PROVE \E q \in S : table'[q].parent \notin S
    <3>1. PICK q \in S : table[q].parent \notin S
      BY <1>2, <2>1, <2>2 DEF Parents
    <3> QED BY <1>2, <2>1, <3>1
  <2>3. \A q \in DOMAIN table' : table'[q].parent \in DOMAIN table' \cup {NoPid}
    BY <1>2, <2>1 DEF Parents
  <2>4. KinStay
    BY <1>2, <2>1 DEF KinStay, Parents
  <2> QED BY <2>2, <2>3, <2>4 DEF Parents
<1>4. CASE \E child \in Pids : Fork(p, child)
  <2>1. PICK child \in Pids : Fork(p, child)
    BY <1>4
  <2>2. /\ DOMAIN table' = DOMAIN table \cup {child} /\ child \notin DOMAIN table
        /\ p \in DOMAIN table /\ table'[child].parent = p
        /\ \A q \in DOMAIN table : table'[q] = table[q]
    BY <1>2, <2>1 DEF Fork, Facets
  <2>3. ASSUME NEW S \in SUBSET DOMAIN table', S # {} PROVE \E q \in S : table'[q].parent \notin S
    <3>1. CASE S \subseteq {child}
      BY <2>2, <2>3, <3>1
    <3>2. CASE ~(S \subseteq {child})
      <4>1. S \ {child} \in SUBSET DOMAIN table /\ S \ {child} # {}
        BY <2>2, <3>2
      <4>2. PICK q \in S \ {child} : table[q].parent \notin S \ {child}
        BY <1>2, <4>1 DEF Parents
      <4>3. table[q].parent # child
        BY <1>2, <2>2, <4>1 DEF Parents
      <4> QED BY <2>2, <4>1, <4>2, <4>3
    <3> QED BY <3>1, <3>2
  <2>4. \A q \in DOMAIN table' : table'[q].parent \in DOMAIN table' \cup {NoPid}
    BY <1>2, <2>2 DEF Parents
  <2>5. KinStay
    BY <1>2, <2>2 DEF KinStay, Parents
  <2> QED BY <2>3, <2>4, <2>5 DEF Parents
<1>5. CASE (\E size \in Sizes : Resize(p, size)) \/ Move(p) \/ TakeTerminal(p)
  <2>1. /\ DOMAIN table' = DOMAIN table
        /\ \A q \in DOMAIN table' : /\ table'[q].parent = table[q].parent
                                     /\ table'[q].start = table[q].start
    BY <1>2, <1>5 DEF Resize, Move, TakeTerminal, Facets
  <2>2. KinStay
    BY <1>2, <2>1 DEF KinStay, Parents
  <2> QED BY <1>2, <2>1, <2>2 DEF Parents
<1> QED
  BY <1>1, <1>3, <1>4, <1>5

LEMMA ProcessesPass ==
    ASSUME TableInv, Processes
    PROVE  Passing /\ KinStay /\ TableInv' /\ changes' \in Nat /\ clicks' = clicks
<1> USE DEF TableInv, IsTable, Facets
<1>6. Parents(table)' /\ KinStay
  BY ProcessesKin
<1>7. /\ \A q \in DOMAIN table' : table'[q].parent \in DOMAIN table' \cup {NoPid}
      /\ \A S \in SUBSET DOMAIN table' : S # {} => \E q \in S : table'[q].parent \notin S
  BY <1>6 DEF Parents
<1>1. changes' \in Nat /\ clicks' = clicks
  <2>1. Changed
    BY DEF Processes, Exit, Fork, Resize, Move, TakeTerminal
  <2>2. changes \in Nat /\ changes > 0 /\ changes' = changes - 1 /\ clicks' = clicks
    BY <2>1 DEF Changed
  <2> QED BY <2>2
<1>2. PICK p \in Pids : \/ Exit(p) \/ \E child \in Pids : Fork(p, child)
                        \/ (\E size \in Sizes : Resize(p, size)) \/ Move(p) \/ TakeTerminal(p)
  BY DEF Processes
<1>3. CASE Exit(p)
  <2>1. /\ DOMAIN table' = DOMAIN table \ {p} /\ clock' = clock
        /\ \A q \in DOMAIN table' :
             /\ DOMAIN table'[q] = DOMAIN table[q] /\ table'[q].start = table[q].start
             /\ table'[q].name = table[q].name /\ table'[q].exe = table[q].exe
             /\ table'[q].memory = table[q].memory
    BY <1>3 DEF Exit
  <2>2. IsFiniteSet(DOMAIN table')
    BY <2>1, FS_Subset
  <2> QED BY <1>1, <1>6, <1>7, <2>1, <2>2 DEF Passing
<1>4. CASE \E child \in Pids : Fork(p, child)
  <2>1. PICK child \in Pids : Fork(p, child)
    BY <1>4
  <2>2. /\ DOMAIN table' = DOMAIN table \cup {child} /\ clock' = clock + 1
        /\ child \notin DOMAIN table /\ p \in DOMAIN table
        /\ table'[child] = [table[p] EXCEPT !.parent = p, !.start = clock, !.age = 0]
        /\ \A q \in DOMAIN table : table'[q] = table[q]
    BY <2>1 DEF Fork
  <2>3. /\ DOMAIN table'[child] = DOMAIN table[p] /\ table'[child].start = clock
        /\ table'[child].memory = table[p].memory
    BY <2>2
  <2>4. IsFiniteSet(DOMAIN table')
    BY <2>2, FS_AddElement
  <2>5. clock' \in Nat /\ clock <= clock' /\ clock < clock'
    BY <2>2
  <2>6. ASSUME NEW q \in DOMAIN table'
        PROVE  /\ DOMAIN table'[q] = Facets /\ table'[q].start \in Nat
               /\ table'[q].start < clock' /\ table'[q].memory \in Nat
               /\ \/ q \in DOMAIN table /\ table'[q] = table[q]
                  \/ table'[q].start >= clock
    <3>1. CASE q = child
      <4>1. DOMAIN table'[child] = Facets /\ table'[child].memory \in Nat
        BY <2>2, <2>3
      <4> QED BY <2>3, <2>5, <3>1, <4>1
    <3>2. CASE q # child
      <4>1. q \in DOMAIN table /\ table'[q] = table[q]
        BY <2>2, <3>2
      <4>2. /\ DOMAIN table[q] = Facets /\ table[q].start \in Nat /\ table[q].start < clock
            /\ table[q].memory \in Nat
        BY <4>1
      <4> QED BY <2>5, <4>1, <4>2
    <3> QED BY <3>1, <3>2
  <2>7. Passing
    BY <2>5, <2>6 DEF Passing
  <2>8. child \in Pids /\ DOMAIN table' \subseteq Pids
    BY <2>2
  <2>9. TableInv'
    BY <1>1, <1>7, <2>4, <2>5, <2>6, <2>8
  <2> QED BY <1>1, <1>6, <2>7, <2>9
<1>5. CASE (\E size \in Sizes : Resize(p, size)) \/ Move(p) \/ TakeTerminal(p)
  <2>1. /\ DOMAIN table' = DOMAIN table /\ clock' = clock
        /\ \A q \in DOMAIN table' :
             /\ DOMAIN table'[q] = DOMAIN table[q] /\ table'[q].start = table[q].start
             /\ table'[q].name = table[q].name /\ table'[q].exe = table[q].exe
    BY <1>5 DEF Resize, Move, TakeTerminal
  <2>2. ASSUME NEW q \in DOMAIN table' PROVE table'[q].memory \in Nat
    <3>1. table[q].memory \in Nat
      BY <2>1, <2>2
    <3>2. table'[q].memory \in Sizes \cup {table[q].memory}
      BY <1>5, <2>1, <2>2 DEF Resize, Move, TakeTerminal
    <3> QED BY <3>1, <3>2, MonitoringAssumption
  <2>3. TableInv'
    BY <1>1, <1>7, <2>1, <2>2
  <2> QED BY <1>1, <1>6, <2>1, <2>3 DEF Passing
<1> QED
  BY <1>1, <1>2, <1>3, <1>4, <1>5

(* One poll looks at the processes as they are.                            *)
Looks(s) ==
    /\ DOMAIN s = DOMAIN table /\ IsFiniteSet(DOMAIN s) /\ DOMAIN s \subseteq Nat
    /\ \A p \in DOMAIN s :
         /\ s[p].start = table[p].start /\ s[p].start \in Nat /\ s[p].start < clock
         /\ s[p].memory \in Nat
         /\ s[p].name = table[p].name /\ s[p].exe = table[p].exe
    /\ Forest(s)

(* What the poll leaves behind is as it saw it.                            *)
Pictures(s) ==
    /\ DOMAIN table' = DOMAIN s
    /\ \A p \in DOMAIN s :
         /\ table'[p].start = s[p].start /\ table'[p].parent = s[p].parent
         /\ s[p].parent \in DOMAIN s \cup {NoPid}

Shown(s, delay) == Monitored(s, protection, DOMAIN Left(ignores, delay))

Polled(s, level, delay) ==
    /\ Passing /\ TableInv' /\ Looks(s) /\ delay \in delays
    /\ DOMAIN facts' = DOMAIN s /\ Pictures(s)
    /\ MonitorPoll(s, delay)
    /\ EvaluateStale(Restrict(s, Shown(s, delay)), level, delay)
    /\ EvaluateBackground(s, level, delay)
    /\ Publish /\ Offer(s) /\ Remember(s, level, delay)
    /\ UNCHANGED <<clock, changes, clicks, delays>>

LEMMA PollLooks ==
    ASSUME TableInv, Polls
    PROVE  \E s, level, delay : Polled(s, level, delay)
<1> USE DEF TableInv, IsTable, Facets
<1>1. PICK level \in {"Normal", "Warning"}, delay \in delays : Poll(level, delay)
  BY DEF Polls
<1> DEFINE aged == Older(delay)
           known == Facts(facts, aged)
           s == Observed(known, aged)
<1>2. /\ DOMAIN aged = DOMAIN table
      /\ \A p \in DOMAIN table :
           /\ DOMAIN aged[p] = DOMAIN table[p] /\ aged[p].start = table[p].start
           /\ aged[p].name = table[p].name /\ aged[p].exe = table[p].exe
           /\ aged[p].memory = table[p].memory /\ aged[p].parent = table[p].parent
  BY DEF Older
<1> HIDE DEF aged
<1>3. DOMAIN known = DOMAIN table /\ \A p \in DOMAIN table : known[p].start = table[p].start
  BY <1>2 DEF Facts
<1> HIDE DEF known
<1>4. /\ DOMAIN s = DOMAIN table
      /\ \A p \in DOMAIN s : /\ s[p].start = table[p].start /\ s[p].name = table[p].name
                             /\ s[p].exe = table[p].exe /\ s[p].memory = table[p].memory
                             /\ s[p].parent = table[p].parent
  BY <1>2, <1>3 DEF Observed
<1> HIDE DEF s
<1>5. Looks(s)
  <2>1. Forest(s)
    BY <1>4, SnapshotAssumption DEF Forest, NoPid
  <2> QED BY <1>4, <2>1, SnapshotAssumption DEF Looks
<1>6. /\ table' = aged /\ facts' = known /\ MonitorPoll(s, delay)
      /\ EvaluateStale(Restrict(s, Shown(s, delay)), level, delay)
      /\ EvaluateBackground(s, level, delay)
      /\ Publish /\ Offer(s) /\ Remember(s, level, delay)
      /\ UNCHANGED <<clock, changes, clicks, delays>>
  BY <1>1 DEF Poll, s, known, aged, Shown
<1>7. Passing /\ TableInv'
  BY <1>2, <1>6 DEF Passing
<1>8. Pictures(s)
  BY <1>2, <1>4, <1>6 DEF Pictures
<1> QED
  BY <1>3, <1>4, <1>5, <1>6, <1>7, <1>8 DEF Polled

-----------------------------------------------------------------------------
(* The steps.                                                              *)

(* What is kept, when processes change or nothing does.                    *)
Elsewhere ==
    /\ Passing /\ KinStay /\ TableInv'
    /\ UNCHANGED <<monitorVars, staleVars, bgVars, delays, facts, published, offers, quiet, seen, past>>

Clicks ==
    \/ IgnoreEventForHour \/ IgnoreTreeForHour \/ IgnoreAppForHour
    \/ AlwaysIgnoreEvent \/ AlwaysIgnoreTrees \/ AlwaysIgnoreApp

LEMMA ClickKeeps ==
    ASSUME Clicks
    PROVE  /\ UNCHANGED <<envVars, facts, published, offers, seen, past>>
           /\ clicks > 0 /\ clicks' = clicks - 1
BY DEF Clicks, IgnoreEventForHour, IgnoreTreeForHour, IgnoreAppForHour, AlwaysIgnoreEvent,
       AlwaysIgnoreTrees, AlwaysIgnoreApp, Clicked

LEMMA StepIs ==
    ASSUME TableInv, [Next]_vars
    PROVE  \/ Elsewhere
           \/ \E s, level, delay : Polled(s, level, delay)
           \/ Clicks
<1>1. CASE UNCHANGED vars
  <2>1. UNCHANGED <<table, clock, changes, clicks>>
    BY <1>1 DEF vars, envVars
  <2>2. Passing
    BY <2>1 DEF Passing, TableInv
  <2>3. TableInv'
    BY <2>1 DEF TableInv, IsTable
  <2>4. KinStay
    BY <2>1 DEF KinStay, TableInv, IsTable
  <2> QED BY <1>1, <2>2, <2>3, <2>4 DEF Elsewhere, vars, envVars
<1>2. CASE Processes
  <2>1. UNCHANGED <<monitorVars, staleVars, bgVars, delays, facts, published, offers, quiet, seen, past>>
    BY <1>2 DEF Processes, Exit, Fork, Resize, Move, TakeTerminal, Changed
  <2> QED BY <1>2, <2>1, ProcessesPass DEF Elsewhere
<1>3. CASE Polls
  BY <1>3, PollLooks
<1>4. CASE Clicks
  BY <1>4
<1> QED
  BY <1>1, <1>2, <1>3, <1>4 DEF Next, Clicks

-----------------------------------------------------------------------------
(* The settings.                                                           *)

LEMMA InitSettings ==
    ASSUME MonitoringInit
    PROVE  SettingsInv /\ TableInv
<1>1. PICK scenario \in Scenarios :
          /\ table = scenario.table /\ delays = scenario.delays
          /\ clock = 1 + Max({0} \cup {table[p].start : p \in DOMAIN table})
          /\ MonitorInit({scenario.limits}, scenario.protection)
          /\ StaleInit({scenario.stale})
          /\ BackgroundInit({scenario.background}, scenario.protection)
          /\ changes = scenario.changes /\ clicks = scenario.clicks
  BY DEF MonitoringInit
<1>2. /\ Memory \in Nat
      /\ scenario.delays \subseteq Nat \ {0}
      /\ IsTable(scenario.table) /\ {scenario.changes, scenario.clicks} \subseteq Nat
      /\ IsLimits(scenario.limits) /\ IsProtection(scenario.protection)
      /\ IsStalePolicy(scenario.stale) /\ IsBackgroundPolicy(scenario.background)
      /\ {scenario.limits.samples, scenario.limits.duration + 1, scenario.stale.samples,
          Reach(scenario.background) + 1} \subseteq 1..Memory
  BY MonitoringAssumption
<1>3. /\ limits = scenario.limits /\ protection = scenario.protection
      /\ stalePolicy = scenario.stale /\ bgPolicy = scenario.background
      /\ bgProtection = scenario.protection
  BY <1>1 DEF MonitorInit, StaleInit, BackgroundInit
<1>4. limits.samples <= Memory /\ limits.duration < Memory /\ stalePolicy.samples <= Memory
  BY <1>2, <1>3 DEF IsLimits
<1>5. PollsWithinTheHour => \A delay \in delays : delay < Hour
  BY <1>1 DEF PollsWithinTheHour
<1>6. SettingsInv
  BY <1>1, <1>2, <1>3, <1>4, <1>5 DEF SettingsInv
<1> DEFINE starts == {0} \cup {table[p].start : p \in DOMAIN table}
<1>7. Max(starts) \in starts /\ \A x \in starts : x <= Max(starts)
  <2>1. IsFiniteSet(DOMAIN table)
    BY <1>1, <1>2 DEF IsTable
  <2>2. IsFiniteSet({table[p].start : p \in DOMAIN table})
    <3> DEFINE f == [p \in DOMAIN table |-> table[p].start]
    <3>1. IsFiniteSet(DOMAIN f) /\ f = [p \in DOMAIN f |-> f[p]]
      BY <2>1
    <3>2. {f[p] : p \in DOMAIN f} = {table[p].start : p \in DOMAIN table}
      OBVIOUS
    <3> HIDE DEF f
    <3> QED BY <3>1, <3>2, FiniteImage
  <2>3. IsFiniteSet(starts)
    BY <2>2, FS_Union, FS_Singleton
  <2>4. starts \subseteq Nat /\ starts # {}
    BY <1>1, <1>2 DEF IsTable
  <2> HIDE DEF starts
  <2> QED BY <2>3, <2>4, Largest
<1>8. starts \subseteq Nat
  BY <1>1, <1>2 DEF IsTable
<1>9. clock \in Nat /\ \A p \in DOMAIN table : table[p].start < clock
  <2>1. \A p \in DOMAIN table : table[p].start \in starts
    OBVIOUS
  <2>2. clock = 1 + Max(starts)
    BY <1>1
  <2> HIDE DEF starts
  <2>3. PICK m \in Nat : clock = 1 + m /\ \A x \in starts : x \in Nat /\ x <= m
    BY <1>7, <1>8, <2>2
  <2>4. ASSUME NEW p \in DOMAIN table PROVE table[p].start < clock
    <3>1. table[p].start \in Nat /\ table[p].start <= m
      BY <2>1, <2>3
    <3> QED BY <2>3, <3>1
  <2> QED BY <2>3, <2>4
<1>10. TableInv
  BY <1>1, <1>2, <1>9 DEF TableInv
<1> QED
  BY <1>6, <1>10

LEMMA PoliciesGrow ==
    /\ \A policy, process : IsProtection(policy) => IsProtection(IgnoringProcess(policy, process))
    /\ \A policy, n : IsStalePolicy(policy) =>
          IsStalePolicy([policy EXCEPT !.ignored = @ \cup {n}])
    /\ \A policy, n : IsBackgroundPolicy(policy) =>
          /\ IsBackgroundPolicy([policy EXCEPT !.ignoredExes = @ \cup {n}])
          /\ IsBackgroundPolicy([policy EXCEPT !.ignoredNames = @ \cup {n}])
<1>1. ASSUME NEW policy, NEW process, IsProtection(policy)
      PROVE  IsProtection(IgnoringProcess(policy, process))
  BY <1>1 DEF IsProtection, IgnoringProcess
<1>2. ASSUME NEW policy, NEW n, IsStalePolicy(policy)
      PROVE  IsStalePolicy([policy EXCEPT !.ignored = @ \cup {n}])
  BY <1>2 DEF IsStalePolicy
<1>3. ASSUME NEW policy, NEW n, IsBackgroundPolicy(policy)
      PROVE  /\ IsBackgroundPolicy([policy EXCEPT !.ignoredExes = @ \cup {n}])
             /\ IsBackgroundPolicy([policy EXCEPT !.ignoredNames = @ \cup {n}])
  BY <1>3 DEF IsBackgroundPolicy
<1> QED
  BY <1>1, <1>2, <1>3

LEMMA ClickSettings ==
    ASSUME SettingsInv, TableInv, Clicks
    PROVE  SettingsInv' /\ TableInv'
<1>1. TableInv'
  <2>1. clicks' \in Nat
    BY ClickKeeps DEF TableInv
  <2> QED BY <2>1, ClickKeeps DEF TableInv, IsTable, envVars
<1>2. UNCHANGED <<limits, delays>>
  BY DEF Clicks, IgnoreEventForHour, IgnoreTreeForHour, IgnoreAppForHour, AlwaysIgnoreEvent,
         AlwaysIgnoreTrees, AlwaysIgnoreApp, Clicked, envVars, monitorVars, IgnoreFor,
         IgnorePermanently
<1>3. \/ UNCHANGED <<protection, bgProtection>>
      \/ \E process : /\ protection' = IgnoringProcess(protection, process)
                      /\ bgProtection' = protection'
  BY DEF Clicks, IgnoreEventForHour, IgnoreTreeForHour, IgnoreAppForHour, AlwaysIgnoreEvent,
         AlwaysIgnoreTrees, AlwaysIgnoreApp, monitorVars, bgVars, IgnoreFor, IgnorePermanently,
         ReplaceProtection, IgnoreGroup, AlwaysIgnoreGroup
<1>4. \/ UNCHANGED stalePolicy
      \/ \E n : stalePolicy' = [stalePolicy EXCEPT !.ignored = @ \cup {n}]
  BY DEF Clicks, IgnoreEventForHour, IgnoreTreeForHour, IgnoreAppForHour, AlwaysIgnoreEvent,
         AlwaysIgnoreTrees, AlwaysIgnoreApp, staleVars, IgnoreTree, AlwaysIgnoreTree
<1>5. \/ UNCHANGED bgPolicy
      \/ \E n : bgPolicy' = [bgPolicy EXCEPT !.ignoredExes = @ \cup {n}]
      \/ \E n : bgPolicy' = [bgPolicy EXCEPT !.ignoredNames = @ \cup {n}]
  BY DEF Clicks, IgnoreEventForHour, IgnoreTreeForHour, IgnoreAppForHour, AlwaysIgnoreEvent,
         AlwaysIgnoreTrees, AlwaysIgnoreApp, bgVars, IgnoreGroup, AlwaysIgnoreGroup,
         ReplaceProtection
<1>6. IsProtection(protection)' /\ bgProtection' = protection'
  BY <1>3, PoliciesGrow DEF SettingsInv, IsProtection
<1>7. IsStalePolicy(stalePolicy)' /\ stalePolicy'.samples = stalePolicy.samples
  BY <1>4, PoliciesGrow DEF SettingsInv, IsStalePolicy
<1>8. IsBackgroundPolicy(bgPolicy)'
  BY <1>5, PoliciesGrow DEF SettingsInv, IsBackgroundPolicy
<1>9. SettingsInv'
  BY <1>2, <1>6, <1>7, <1>8 DEF SettingsInv, IsLimits
<1> QED
  BY <1>1, <1>9

LEMMA PollSettings ==
    ASSUME SettingsInv, NEW s, NEW level, NEW delay, Polled(s, level, delay)
    PROVE  /\ SettingsInv' /\ delay \in Nat \ {0}
           /\ UNCHANGED <<limits, protection, stalePolicy, bgPolicy, bgProtection>>
<1>1. UNCHANGED <<limits, protection>>
  BY DEF Polled, MonitorPoll
<1>2. UNCHANGED stalePolicy
  BY DEF Polled, EvaluateStale
<1>3. UNCHANGED <<bgPolicy, bgProtection>>
  BY DEF Polled, EvaluateBackground
<1>4. UNCHANGED delays /\ delay \in delays
  BY DEF Polled
<1> QED
  BY <1>1, <1>2, <1>3, <1>4 DEF SettingsInv, IsLimits, IsProtection, IsStalePolicy,
     IsBackgroundPolicy

LEMMA ElsewhereSettings ==
    ASSUME SettingsInv, Elsewhere
    PROVE  SettingsInv'
BY DEF SettingsInv, Elsewhere, monitorVars, staleVars, bgVars, IsLimits, IsProtection,
       IsStalePolicy, IsBackgroundPolicy

LEMMA ForeverIsLong ==
    Forever \in Nat /\ Forever - 1 > Hour /\ Hour \in Nat \ {0}
<1> DEFINE f == [scenario \in Scenarios |-> scenario.delays]
           all == UNION {scenario.delays : scenario \in Scenarios}
<1>1. /\ Hour \in Nat \ {0} /\ Scenarios # {} /\ IsFiniteSet(Scenarios)
      /\ \A scenario \in Scenarios :
           scenario.delays # {} /\ scenario.delays \subseteq Nat \ {0} /\ IsFiniteSet(scenario.delays)
  BY MonitoringAssumption
<1>2. IsFiniteSet({f[x] : x \in DOMAIN f})
  <2>1. IsFiniteSet(DOMAIN f) /\ f = [x \in DOMAIN f |-> f[x]]
    BY <1>1
  <2> HIDE DEF f
  <2> QED BY <2>1, FiniteImage
<1>3. {f[x] : x \in DOMAIN f} = {scenario.delays : scenario \in Scenarios}
  OBVIOUS
<1>4. IsFiniteSet(all)
  BY <1>1, <1>2, <1>3, FS_UNION
<1>5. all # {} /\ all \subseteq Nat \ {0}
  BY <1>1
<1> HIDE DEF all
<1>6. Max(all) \in Nat \ {0}
  <2>1. Max(all) \in all
    BY <1>4, <1>5, Largest
  <2> QED BY <1>5, <2>1
<1>7. Forever = 2 * Hour + Max(all)
  BY DEF Forever, all
<1> QED
  BY <1>1, <1>6, <1>7

-----------------------------------------------------------------------------
(* The past: one poll is added, as its first.                              *)

Recalled(n) ==
    /\ n \in Nat \ {0} /\ n <= Memory /\ n <= Len(past) + 1
    /\ (n = Memory \/ n = Len(past) + 1)
    /\ DOMAIN past' = 1..n /\ Len(past') = n

LEMMA PollIsRecalled ==
    ASSUME SettingsInv, PastInv, NEW s, NEW level, NEW delay, Polled(s, level, delay)
    PROVE  /\ \E n : Recalled(n)
           /\ past' # <<>> /\ 1 \in DOMAIN past'
           /\ past'[1].ago = 0
           /\ \A k \in DOMAIN past' : k # 1 =>
                /\ k - 1 \in DOMAIN past /\ k \in Nat /\ k > 1
                /\ past'[k] = [past[k - 1] EXCEPT !.ago = @ + delay]
<1> DEFINE n == Least(Memory, Len(past) + 1)
<1>1. n \in Nat \ {0} /\ n <= Memory /\ n <= Len(past) + 1 /\ (n = Memory \/ n = Len(past) + 1)
  BY MonitoringAssumption DEF Least, PastInv
<1>2. past' = [k \in 1..n |-> past'[k]]
  BY DEF Polled, Remember
<1>3. DOMAIN past' = 1..n /\ Len(past') = n
  <2> HIDE DEF n
  <2> QED BY <1>1, <1>2, LengthOf
<1>4. \A k \in 1..n : k # 1 => past'[k] = [past[k - 1] EXCEPT !.ago = @ + delay]
  BY DEF Polled, Remember
<1>5. past'[1].ago = 0
  <2>1. 1 \in 1..n
    BY <1>1
  <2> QED BY <2>1 DEF Polled, Remember
<1> HIDE DEF n
<1>6. ASSUME NEW k \in 1..n, k # 1
      PROVE  k - 1 \in DOMAIN past /\ k \in Nat /\ k > 1
  <2>1. k - 1 \in 1..Len(past)
    BY <1>1, <1>6 DEF PastInv
  <2> QED BY <2>1 DEF PastInv
<1>7. Recalled(n)
  BY <1>1, <1>3 DEF Recalled
<1>8. past' # <<>> /\ 1 \in DOMAIN past'
  <2>1. 1 \in DOMAIN past'
    BY <1>1, <1>3
  <2> QED BY <2>1
<1> QED
  BY <1>3, <1>4, <1>5, <1>6, <1>7, <1>8

(* What a poll remembers of itself.                                        *)
LEMMA PollIsFirst ==
    ASSUME SettingsInv, PastInv, NEW s, NEW level, NEW delay, Polled(s, level, delay)
    PROVE  LET own == Shown(s, delay)
           IN  /\ DOMAIN past'[1] = {"ago", "over", "alone", "dirs", "quiet", "sampled", "watched",
                                     "safe", "events", "trees", "groups", "apps"}
               /\ past'[1].over = {IdOf(s, p) : p \in {q \in own : Breach(s[q], limits)}}
               /\ past'[1].alone = OfferedAlone(staleFound')
               /\ past'[1].dirs = {g.dir : g \in staleFound'.groups}
               /\ past'[1].quiet = (stalePolicy.onlyUnderPressure /\ level = "Normal")
               /\ past'[1].sampled = (sinceSample' = 0)
               /\ past'[1].watched = DOMAIN tracking'
               /\ past'[1].events = events'
               /\ past'[1].trees = {w.root : w \in staleNotices'.trees}
               /\ past'[1].groups = {g.dir : g \in staleNotices'.groups}
               /\ past'[1].apps = {w.root : w \in bgNotices'}
<1> DEFINE n == Least(Memory, Len(past) + 1)
<1>1. 1 \in 1..n
  BY MonitoringAssumption DEF Least, PastInv
<1>2. Monitored(s, protection, DOMAIN ignores') = Shown(s, delay)
  BY DEF Polled, MonitorPoll, Shown
<1> HIDE DEF n
<1> QED
  BY <1>1, <1>2 DEF Polled, Remember, n

LEMMA PollPast ==
    ASSUME SettingsInv, PastInv, NEW s, NEW level, NEW delay, Polled(s, level, delay)
    PROVE  PastInv'
<1>1. PICK n : Recalled(n)
  BY PollIsRecalled
<1>2. Len(past') \in Nat /\ DOMAIN past' = 1..Len(past') /\ Len(past') <= Memory
  BY <1>1 DEF Recalled
<1>3. delay \in Nat \ {0}
  BY PollSettings
<1>4. ASSUME NEW k \in DOMAIN past'
      PROVE  /\ DOMAIN past'[k] = {"ago", "over", "alone", "dirs", "quiet", "sampled", "watched",
                                   "safe", "events", "trees", "groups", "apps"}
             /\ past'[k].ago \in Nat /\ past'[k].ago >= k - 1
             /\ \A j \in 1..k : past'[j].ago <= past'[k].ago
  <2>1. CASE k = 1
    BY <2>1, PollIsRecalled, PollIsFirst
  <2>2. CASE k # 1
    <3>1. /\ k - 1 \in DOMAIN past /\ k \in Nat /\ k > 1
          /\ past'[k] = [past[k - 1] EXCEPT !.ago = @ + delay]
      BY <2>2, PollIsRecalled
    <3>2. /\ DOMAIN past[k - 1] = {"ago", "over", "alone", "dirs", "quiet", "sampled", "watched",
                                   "safe", "events", "trees", "groups", "apps"}
          /\ past[k - 1].ago \in Nat /\ past[k - 1].ago >= k - 2
          /\ \A j \in 1..(k - 1) : past[j].ago <= past[k - 1].ago
      BY <3>1 DEF PastInv
    <3>3. past'[k].ago = past[k - 1].ago + delay
      BY <3>1, <3>2
    <3>4. ASSUME NEW j \in 1..k PROVE past'[j].ago <= past'[k].ago
      <4>1. CASE j = 1
        BY <1>3, <3>2, <3>3, <4>1, PollIsRecalled
      <4>2. CASE j # 1
        <5>1. j \in DOMAIN past'
          BY <1>1, <3>1 DEF Recalled
        <5>2. j - 1 \in DOMAIN past /\ past'[j] = [past[j - 1] EXCEPT !.ago = @ + delay]
          BY <4>2, <5>1, PollIsRecalled
        <5>3. "ago" \in DOMAIN past[j - 1] /\ past[j - 1].ago \in Nat
          BY <5>2 DEF PastInv
        <5>4. past'[j].ago = past[j - 1].ago + delay
          BY <5>2, <5>3
        <5>5. j - 1 \in 1..(k - 1)
          BY <3>1, <4>2
        <5> QED BY <1>3, <3>2, <3>3, <5>3, <5>4, <5>5
      <4> QED BY <4>1, <4>2
    <3> QED BY <1>3, <3>1, <3>2, <3>3, <3>4
  <2> QED BY <2>1, <2>2
<1> QED
  BY <1>2, <1>4 DEF PastInv

-----------------------------------------------------------------------------
(* What a poll says is about what it sees.                                 *)

LEMMA SeenIsProgram ==
    ASSUME TableInv, Passing, NEW s, Looks(s), NEW p \in DOMAIN s
    PROVE  IsProgram(IdOf(s, p), s[p].name, s[p].exe)'
<1> DEFINE id == IdOf(s, p)
<1>1. /\ id.pid = p /\ id.start = s[p].start
  BY DEF IdOf
<1> HIDE DEF id
<1>2. /\ p \in DOMAIN table /\ s[p].start = table[p].start /\ s[p].start \in Nat
      /\ s[p].start < clock /\ s[p].name = table[p].name /\ s[p].exe = table[p].exe
  BY DEF Looks
<1>3. WasSeen(id)
  BY <1>1, <1>2 DEF WasSeen
<1>4. /\ WasSeen(id)'
      /\ Runs(id)' => /\ Runs(id)
                      /\ table'[id.pid].name = table[id.pid].name
                      /\ table'[id.pid].exe = table[id.pid].exe
  BY <1>3, PersonStays
<1>5. IsProgram(id, s[p].name, s[p].exe)'
  BY <1>1, <1>2, <1>4 DEF IsProgram, IsNamed
<1> QED
  BY <1>5 DEF id

LEMMA EventsAreShown ==
    ASSUME NEW s, NEW level, NEW delay, Polled(s, level, delay), NEW id \in events'
    PROVE  \E p \in Shown(s, delay) : id = IdOf(s, p) /\ Breach(s[p], limits)
BY DEF Polled, MonitorPoll, Shown, Violations

LEMMA ShownIsThere ==
    ASSUME NEW s, NEW level, NEW delay, Polled(s, level, delay)
    PROVE  /\ Shown(s, delay) \subseteq DOMAIN s
           /\ IsFiniteSet(Shown(s, delay))
           /\ DOMAIN Restrict(s, Shown(s, delay)) = Shown(s, delay)
           /\ \A p \in Shown(s, delay) :
                /\ Restrict(s, Shown(s, delay))[p] = s[p]
                /\ IdOf(Restrict(s, Shown(s, delay)), p) = IdOf(s, p)
                /\ Disposition(protection, s[p]) = "Monitor"
                /\ IdOf(s, p) \notin DOMAIN ignores'
<1>1. Shown(s, delay) \subseteq DOMAIN s
  BY DEF Shown, Monitored
<1>2. IsFiniteSet(Shown(s, delay))
  BY <1>1, FS_Subset DEF Polled, Looks
<1>3. ignores' = Left(ignores, delay)
  BY DEF Polled, MonitorPoll
<1> QED
  BY <1>1, <1>2, <1>3 DEF Restrict, IdOf, Shown, Monitored

(* A group holds the eligible trees of its directory, all of which are     *)
(* found.                                                                  *)
LEMMA GroupIs ==
    ASSUME NEW eligible, NEW policy, NEW g \in GroupsOf(eligible, policy)
    PROVE  /\ g.trees \subseteq eligible
           /\ Cardinality(g.trees) >= policy.minTrees
<1>1. PICK dir : /\ g = [dir |-> dir, trees |-> {w \in eligible : w.cwd = dir}]
                 /\ Cardinality({w \in eligible : w.cwd = dir}) >= policy.minTrees
  BY DEF GroupsOf
<1>2. g.trees = {w \in eligible : w.cwd = dir}
  BY <1>1
<1> QED
  BY <1>1, <1>2

LEMMA FoundAreEligible ==
    ASSUME NEW eligible, NEW policy
    PROVE  /\ Assembled(eligible, policy).workloads \subseteq eligible
           /\ Assembled(eligible, policy).groups = GroupsOf(eligible, policy)
           /\ \A g \in GroupsOf(eligible, policy) :
                 g.trees \subseteq Assembled(eligible, policy).workloads
<1> DEFINE groups == GroupsOf(eligible, policy)
           direct == {w \in eligible : w.memory >= policy.minTree}
<1>1. /\ Assembled(eligible, policy).workloads = direct \cup UNION {g.trees : g \in groups}
      /\ Assembled(eligible, policy).groups = groups
  BY DEF Assembled
<1>2. ASSUME NEW g \in groups PROVE g.trees \subseteq eligible
  <2>1. g \in GroupsOf(eligible, policy)
    OBVIOUS
  <2> HIDE DEF groups
  <2> QED BY <2>1, GroupIs
<1> HIDE DEF groups
<1>3. UNION {g.trees : g \in groups} \subseteq eligible
  BY <1>2
<1>4. ASSUME NEW g \in groups PROVE g.trees \subseteq UNION {h.trees : h \in groups}
  <2>1. g.trees \in {h.trees : h \in groups}
    OBVIOUS
  <2> QED BY <2>1
<1>5. direct \subseteq eligible
  OBVIOUS
<1> HIDE DEF direct
<1>6. direct \cup UNION {g.trees : g \in groups} \subseteq eligible
  BY <1>3, <1>5
<1>7. \A g \in groups : g.trees \subseteq direct \cup UNION {h.trees : h \in groups}
  BY <1>4
<1> QED
  BY <1>1, <1>6, <1>7 DEF groups

LEMMA FoundIsEligible ==
    ASSUME NEW s, NEW level, NEW delay, Polled(s, level, delay)
    PROVE  /\ staleNotices'.trees \subseteq staleFound'.workloads
           /\ \A w \in staleFound'.workloads :
                /\ stalePolicy.enabled
                /\ w \in Eligible(Restrict(s, Shown(s, delay)), stalePolicy, DOMAIN staleIgnored')
<1>1. CASE stalePolicy.enabled
  <2> DEFINE r == Restrict(s, Shown(s, delay))
             all == Eligible(r, stalePolicy, DOMAIN Left(staleIgnored, delay))
  <2>1. /\ staleIgnored' = Left(staleIgnored, delay)
        /\ staleFound' = Detection(r, stalePolicy, DOMAIN Left(staleIgnored, delay))
    BY <1>1 DEF Polled, EvaluateStale
  <2>4. staleNotices'.trees \subseteq staleFound'.workloads
    <3>1. PICK told : staleNotices'.trees = {w \in staleFound'.workloads : w.root \in told}
      BY <1>1 DEF Polled, EvaluateStale
    <3> QED BY <3>1
  <2>2. staleFound' = Assembled(all, stalePolicy)
    BY <2>1 DEF Detection
  <2> HIDE DEF all
  <2>3. staleFound'.workloads \subseteq all
    BY <2>2, FoundAreEligible
  <2> QED BY <1>1, <2>1, <2>3, <2>4 DEF all
<1>2. CASE ~stalePolicy.enabled
  BY <1>2 DEF Polled, EvaluateStale, NothingStale, NoStaleNotices
<1> QED
  BY <1>1, <1>2

LEMMA TreesAreShown ==
    ASSUME NEW s, NEW level, NEW delay, Polled(s, level, delay), NEW w \in staleFound'.workloads
    PROVE  /\ stalePolicy.enabled
           /\ \E p \in Shown(s, delay) :
                /\ w.root = IdOf(s, p) /\ w.name = s[p].name
                /\ w.name \notin stalePolicy.ignored /\ w.root \notin DOMAIN staleIgnored'
<1> DEFINE r == Restrict(s, Shown(s, delay))
<1>1. IsFiniteSet(DOMAIN r)
  BY ShownIsThere
<1>2. w \in Eligible(r, stalePolicy, DOMAIN staleIgnored') /\ stalePolicy.enabled
  BY FoundIsEligible
<1> HIDE DEF r
<1>3. PICK p \in DOMAIN r : /\ w.root = IdOf(r, p) /\ w.name = r[p].name
                            /\ w.name \notin stalePolicy.ignored
                            /\ w.root \notin DOMAIN staleIgnored'
  BY <1>1, <1>2, EligibleIsThere
<1>4. p \in Shown(s, delay) /\ r[p] = s[p] /\ IdOf(r, p) = IdOf(s, p)
  BY ShownIsThere DEF r
<1> QED
  BY <1>2, <1>3, <1>4

LEMMA AppsAreSafe ==
    ASSUME NEW s, NEW level, NEW delay, Polled(s, level, delay), NEW w \in bgNotices'
    PROVE  /\ w \in BuildBackgroundWorkloads(s, bgProtection, bgPolicy)
           /\ w.root \notin DOMAIN bgIgnored'
<1>1. bgPolicy.enabled /\ TakeSample(s, level, delay, DOMAIN bgIgnored')
  BY DEF Polled, EvaluateBackground
<1>2. w \in Capped(BuildBackgroundWorkloads(s, bgProtection, bgPolicy)) /\ w.root \notin DOMAIN bgIgnored'
  BY <1>1 DEF TakeSample
<1> QED
  BY <1>2 DEF Capped

LEMMA AppIsThere ==
    ASSUME TableInv, NEW s, Looks(s),
           NEW w \in BuildBackgroundWorkloads(s, bgProtection, bgPolicy)
    PROVE  /\ \A x \in w.programs : Disposition(bgProtection, x) = "Monitor"
           /\ ~RootIgnored(w, bgPolicy)
           /\ \E p \in DOMAIN s : w.root = IdOf(s, p) /\ w.name = s[p].name /\ w.exe = s[p].exe
BY SafeIsThere DEF Looks

-----------------------------------------------------------------------------
(* Offers name the programs they are about.                                *)

LEMMA ProgramStays ==
    ASSUME Passing, NEW id, NEW name, NEW exe
    PROVE  /\ IsNamed(id, name) => IsNamed(id, name)'
           /\ IsProgram(id, name, exe) => IsProgram(id, name, exe)'
BY PersonStays DEF IsNamed, IsProgram

LEMMA PollOffers ==
    ASSUME TableInv, SettingsInv, OffersInv,
           NEW s, NEW level, NEW delay, Polled(s, level, delay)
    PROVE  OffersInv'
<1> DEFINE new == [events |-> {[id |-> id, name |-> s[id.pid].name, exe |-> s[id.pid].exe] :
                                   id \in events'},
                   trees |-> {[id |-> w.root, name |-> w.name] : w \in staleNotices'.trees},
                   apps |-> {[id |-> w.root, name |-> w.name, exe |-> w.exe] : w \in bgNotices'}]
<1>1. /\ DOMAIN offers' = {"events", "trees", "apps"}
      /\ \A kind \in {"events", "trees", "apps"} :
           offers'[kind] = offers[kind] \/ offers'[kind] = new[kind]
  BY DEF Polled, Offer, OffersInv
<1>2. Looks(s) /\ Passing
  BY DEF Polled
<1>3. ASSUME NEW o \in new.events PROVE IsProgram(o.id, o.name, o.exe)'
  <2>1. PICK id \in events' : o = [id |-> id, name |-> s[id.pid].name, exe |-> s[id.pid].exe]
    OBVIOUS
  <2>2. PICK p \in DOMAIN s : id = IdOf(s, p)
    BY EventsAreShown, ShownIsThere
  <2>3. id.pid = p
    BY <2>2 DEF IdOf
  <2>4. o.id = IdOf(s, p) /\ o.name = s[p].name /\ o.exe = s[p].exe
    BY <2>1, <2>2, <2>3
  <2> QED BY <1>2, <2>4, SeenIsProgram
<1>4. ASSUME NEW o \in new.trees PROVE IsNamed(o.id, o.name)' /\ stalePolicy'.enabled
  <2>1. PICK w \in staleNotices'.trees : o = [id |-> w.root, name |-> w.name]
    OBVIOUS
  <2>2. w \in staleFound'.workloads
    BY FoundIsEligible
  <2>3. PICK p \in DOMAIN s : w.root = IdOf(s, p) /\ w.name = s[p].name
    BY <2>2, TreesAreShown, ShownIsThere
  <2>4. IsProgram(IdOf(s, p), s[p].name, s[p].exe)'
    BY <1>2, SeenIsProgram
  <2>5. stalePolicy'.enabled
    BY <2>2, TreesAreShown, PollSettings
  <2> QED BY <2>1, <2>3, <2>4, <2>5 DEF IsProgram
<1>5. ASSUME NEW o \in new.apps PROVE IsProgram(o.id, o.name, o.exe)'
  <2>1. PICK w \in bgNotices' : o = [id |-> w.root, name |-> w.name, exe |-> w.exe]
    OBVIOUS
  <2>2. PICK p \in DOMAIN s : w.root = IdOf(s, p) /\ w.name = s[p].name /\ w.exe = s[p].exe
    BY <1>2, AppsAreSafe, AppIsThere
  <2> QED BY <1>2, <2>1, <2>2, SeenIsProgram
<1> HIDE DEF new
<1>6. ASSUME NEW o \in offers'.events PROVE IsProgram(o.id, o.name, o.exe)'
  BY <1>1, <1>2, <1>3, ProgramStays DEF OffersInv
<1>7. ASSUME NEW o \in offers'.trees PROVE IsNamed(o.id, o.name)' /\ stalePolicy'.enabled
  <2>1. CASE o \in offers.trees
    BY <1>2, <2>1, ProgramStays, PollSettings DEF OffersInv
  <2> QED BY <1>1, <1>4, <2>1
<1>8. ASSUME NEW o \in offers'.apps PROVE IsProgram(o.id, o.name, o.exe)'
  BY <1>1, <1>2, <1>5, ProgramStays DEF OffersInv
<1> QED
  BY <1>1, <1>6, <1>7, <1>8 DEF OffersInv

-----------------------------------------------------------------------------
(* A click is about an offer, for an hour or for ever.                     *)

Hourly(kind, o, time) ==
    /\ ignores' = IF kind = "events" /\ time = Hour THEN Until(ignores, o.id, Hour) ELSE ignores
    /\ staleIgnored' = IF kind = "trees" /\ time = Hour THEN Until(staleIgnored, o.id, Hour)
                       ELSE staleIgnored
    /\ bgIgnored' = IF kind = "apps" /\ time = Hour THEN Until(bgIgnored, o.id, Hour) ELSE bgIgnored

Ruled(kind, o) ==
    /\ kind = "events" =>
         \A x : x.name = o.name /\ x.exe = o.exe =>
             Names(x, protection'.ignoredNames, protection'.ignoredExes)
    /\ kind = "trees" => o.name \in stalePolicy'.ignored
    /\ kind = "apps" => \A x : x.name = o.name /\ x.exe = o.exe => RootIgnored(x, bgPolicy')

Click(kind, o, time) ==
    /\ kind \in {"events", "trees", "apps"} /\ o \in offers[kind] /\ time \in {Hour, Forever}
    /\ quiet' = Until(quiet, <<kind, o.id>>, time)
    /\ Hourly(kind, o, time)
    /\ time = Forever => Ruled(kind, o)

LEMMA ClickIs ==
    ASSUME SettingsInv, Clicks
    PROVE  \E kind, o, time : Click(kind, o, time)
<1>1. Forever # Hour
  BY ForeverIsLong
<1> HIDE DEF Forever
<1>2. CASE IgnoreEventForHour
  <2>1. PICK o \in offers.events :
            /\ IgnoreFor(o.id, Hour) /\ UNCHANGED <<staleVars, bgVars>>
            /\ Clicked(o.id, "events", Hour)
    BY <1>2 DEF IgnoreEventForHour
  <2>2. Click("events", o, Hour)
    BY <1>1, <2>1 DEF Click, Hourly, IgnoreFor, Clicked, staleVars, bgVars
  <2> QED BY <2>2
<1>3. CASE IgnoreTreeForHour
  <2>1. PICK o \in offers.trees :
            /\ IgnoreTree(o.id, Hour) /\ UNCHANGED <<monitorVars, bgVars>>
            /\ Clicked(o.id, "trees", Hour)
    BY <1>3 DEF IgnoreTreeForHour
  <2>2. Click("trees", o, Hour)
    BY <1>1, <2>1 DEF Click, Hourly, IgnoreTree, Clicked, monitorVars, bgVars
  <2> QED BY <2>2
<1>4. CASE IgnoreAppForHour
  <2>1. PICK o \in offers.apps :
            /\ IgnoreGroup(o.id, Hour) /\ UNCHANGED <<monitorVars, staleVars>>
            /\ Clicked(o.id, "apps", Hour)
    BY <1>4 DEF IgnoreAppForHour
  <2>2. Click("apps", o, Hour)
    BY <1>1, <2>1 DEF Click, Hourly, IgnoreGroup, Clicked, monitorVars, staleVars
  <2> QED BY <2>2
<1>5. CASE AlwaysIgnoreEvent
  <2>1. PICK o \in offers.events :
            /\ IgnorePermanently(o.id, o) /\ ReplaceProtection(protection')
            /\ UNCHANGED staleVars /\ Clicked(o.id, "events", Forever)
    BY <1>5 DEF AlwaysIgnoreEvent
  <2>2. protection' = IgnoringProcess(protection, o)
    BY <2>1 DEF IgnorePermanently
  <2>3. ASSUME NEW x, x.name = o.name, x.exe = o.exe
        PROVE  Names(x, protection'.ignoredNames, protection'.ignoredExes)
    BY <2>2, <2>3 DEF IgnoringProcess, Names, SettingsInv, IsProtection
  <2>4. Click("events", o, Forever)
    BY <1>1, <2>1, <2>3 DEF Click, Hourly, Ruled, IgnorePermanently, ReplaceProtection, Clicked,
       staleVars
  <2> QED BY <2>4
<1>6. CASE AlwaysIgnoreTrees
  <2>1. PICK o \in offers.trees :
            /\ AlwaysIgnoreTree(o.name) /\ UNCHANGED <<monitorVars, bgVars>>
            /\ Clicked(o.id, "trees", Forever)
    BY <1>6 DEF AlwaysIgnoreTrees
  <2>2. o.name \in stalePolicy'.ignored
    BY <2>1 DEF AlwaysIgnoreTree, SettingsInv, IsStalePolicy
  <2>3. Click("trees", o, Forever)
    BY <1>1, <2>1, <2>2 DEF Click, Hourly, Ruled, AlwaysIgnoreTree, Clicked, monitorVars, bgVars
  <2> QED BY <2>3
<1>7. CASE AlwaysIgnoreApp
  <2>1. PICK o \in offers.apps :
            /\ AlwaysIgnoreGroup(o) /\ UNCHANGED <<monitorVars, staleVars>>
            /\ Clicked(o.id, "apps", Forever)
    BY <1>7 DEF AlwaysIgnoreApp
  <2>2. ASSUME NEW x, x.name = o.name, x.exe = o.exe
        PROVE  RootIgnored(x, bgPolicy')
    BY <2>1, <2>2 DEF AlwaysIgnoreGroup, RootIgnored, Names, SettingsInv, IsBackgroundPolicy
  <2>3. Click("apps", o, Forever)
    BY <1>1, <2>1, <2>2 DEF Click, Hourly, Ruled, AlwaysIgnoreGroup, Clicked, monitorVars, staleVars
  <2> QED BY <2>3
<1> QED
  BY <1>2, <1>3, <1>4, <1>5, <1>6, <1>7 DEF Clicks

(* Rules are added only.                                                   *)
Lasting ==
    /\ UNCHANGED <<table, clock>>
    /\ stalePolicy'.enabled = stalePolicy.enabled
    /\ \A x : Names(x, protection.ignoredNames, protection.ignoredExes) =>
              Names(x, protection'.ignoredNames, protection'.ignoredExes)
    /\ \A n : n \in stalePolicy.ignored => n \in stalePolicy'.ignored
    /\ \A x : RootIgnored(x, bgPolicy) => RootIgnored(x, bgPolicy')

LEMMA ClickLasts ==
    ASSUME SettingsInv, Clicks
    PROVE  Lasting
<1>1. UNCHANGED <<table, clock>>
  BY ClickKeeps DEF envVars
<1>2. \A x : Names(x, protection.ignoredNames, protection.ignoredExes) =>
             Names(x, protection'.ignoredNames, protection'.ignoredExes)
  <2>1. \/ UNCHANGED protection
        \/ \E process : protection' = IgnoringProcess(protection, process)
    BY DEF Clicks, IgnoreEventForHour, IgnoreTreeForHour, IgnoreAppForHour, AlwaysIgnoreEvent,
           AlwaysIgnoreTrees, AlwaysIgnoreApp, monitorVars, IgnoreFor, IgnorePermanently
  <2> QED BY <2>1 DEF IgnoringProcess, Names, SettingsInv, IsProtection
<1>3. /\ stalePolicy'.enabled = stalePolicy.enabled
      /\ \A n : n \in stalePolicy.ignored => n \in stalePolicy'.ignored
  <2>1. \/ UNCHANGED stalePolicy
        \/ \E n : stalePolicy' = [stalePolicy EXCEPT !.ignored = @ \cup {n}]
    BY DEF Clicks, IgnoreEventForHour, IgnoreTreeForHour, IgnoreAppForHour, AlwaysIgnoreEvent,
           AlwaysIgnoreTrees, AlwaysIgnoreApp, staleVars, IgnoreTree, AlwaysIgnoreTree
  <2> QED BY <2>1 DEF SettingsInv, IsStalePolicy
<1>4. \A x : RootIgnored(x, bgPolicy) => RootIgnored(x, bgPolicy')
  <2>1. \/ UNCHANGED bgPolicy
        \/ \E n : bgPolicy' = [bgPolicy EXCEPT !.ignoredExes = @ \cup {n}]
        \/ \E n : bgPolicy' = [bgPolicy EXCEPT !.ignoredNames = @ \cup {n}]
    BY DEF Clicks, IgnoreEventForHour, IgnoreTreeForHour, IgnoreAppForHour, AlwaysIgnoreEvent,
           AlwaysIgnoreTrees, AlwaysIgnoreApp, bgVars, IgnoreGroup, AlwaysIgnoreGroup,
           ReplaceProtection
  <2> QED BY <2>1 DEF RootIgnored, Names, SettingsInv, IsBackgroundPolicy
<1> QED
  BY <1>1, <1>2, <1>3, <1>4 DEF Lasting

LEMMA ClickDeadlines ==
    ASSUME SettingsInv, DeadlinesInv, Clicks
    PROVE  DeadlinesInv'
<1>1. PICK kind, o, time : Click(kind, o, time)
  BY ClickIs
<1>2. ASSUME NEW deadlines, \A x \in DOMAIN deadlines : deadlines[x] \in 1..Hour, NEW id
      PROVE  \A x \in DOMAIN Until(deadlines, id, Hour) : Until(deadlines, id, Hour)[x] \in 1..Hour
  <2>1. Hour \in 1..Hour
    BY ForeverIsLong
  <2>2. ASSUME NEW x \in DOMAIN Until(deadlines, id, Hour)
        PROVE  Until(deadlines, id, Hour)[x] \in 1..Hour
    <3>1. CASE x = id
      BY <2>1, <3>1 DEF Until
    <3>2. CASE x # id
      <4>1. x \in DOMAIN deadlines /\ Until(deadlines, id, Hour)[x] = deadlines[x]
        BY <3>2 DEF Until
      <4> QED BY <1>2, <4>1
    <3> QED BY <3>1, <3>2
  <2> QED BY <2>2
<1>3. \A id \in DOMAIN ignores' : ignores'[id] \in 1..Hour
  <2>1. ignores' = ignores \/ ignores' = Until(ignores, o.id, Hour)
    BY <1>1 DEF Click, Hourly
  <2> QED BY <1>2, <2>1 DEF DeadlinesInv
<1>4. \A r \in DOMAIN staleIgnored' : staleIgnored'[r] \in 1..Hour
  <2>1. staleIgnored' = staleIgnored \/ staleIgnored' = Until(staleIgnored, o.id, Hour)
    BY <1>1 DEF Click, Hourly
  <2> QED BY <1>2, <2>1 DEF DeadlinesInv
<1>5. \A r \in DOMAIN bgIgnored' : bgIgnored'[r] \in 1..Hour
  <2>1. bgIgnored' = bgIgnored \/ bgIgnored' = Until(bgIgnored, o.id, Hour)
    BY <1>1 DEF Click, Hourly
  <2> QED BY <1>2, <2>1 DEF DeadlinesInv
<1> QED
  BY <1>3, <1>4, <1>5 DEF DeadlinesInv

LEMMA ClickOffers ==
    ASSUME SettingsInv, OffersInv, Clicks
    PROVE  OffersInv'
<1>1. UNCHANGED <<offers, table, clock>> /\ stalePolicy'.enabled = stalePolicy.enabled
  BY ClickKeeps, ClickLasts DEF Lasting
<1> QED
  BY <1>1 DEF OffersInv, IsProgram, IsNamed, WasSeen, Runs

LEMMA ClickQuiet ==
    ASSUME SettingsInv, TableInv, OffersInv, QuietInv, Clicks
    PROVE  QuietInv'
<1>1. PICK kind, o, time : Click(kind, o, time)
  BY ClickIs
<1>2. Lasting
  BY ClickLasts
<1>3. /\ Hour \in Nat \ {0} /\ Forever \in Nat \ {0} /\ Forever > Hour
  BY ForeverIsLong
<1> HIDE DEF Forever
<1> DEFINE new == <<kind, o.id>>
<1>4. /\ DOMAIN quiet' = DOMAIN quiet \cup {new} /\ quiet'[new] = time
      /\ \A i \in DOMAIN quiet : i # new => quiet'[i] = quiet[i]
  BY <1>1 DEF Click, Until
<1>5. /\ new[1] = kind /\ new[2] = o.id /\ new = <<new[1], new[2]>>
      /\ kind \in {"events", "trees", "apps"} /\ time \in {Hour, Forever} /\ o \in offers[kind]
      /\ Hourly(kind, o, time)
  BY <1>1 DEF Click
<1>6. /\ quiet'[new] \in Nat \ {0}
      /\ new[1] = "events" => EventIsIgnored(new)'
      /\ new[1] = "trees" => TreeIsIgnored(new)'
      /\ new[1] = "apps" => AppIsIgnored(new)'
  <2>1. CASE time = Hour
    <3>1. kind = "events" => o.id \in DOMAIN ignores' /\ ignores'[o.id] = Hour
      BY <1>5, <2>1 DEF Hourly, Until
    <3>2. kind = "trees" => o.id \in DOMAIN staleIgnored' /\ staleIgnored'[o.id] = Hour
      BY <1>5, <2>1 DEF Hourly, Until
    <3>3. kind = "apps" => o.id \in DOMAIN bgIgnored' /\ bgIgnored'[o.id] = Hour
      BY <1>5, <2>1 DEF Hourly, Until
    <3>4. kind = "trees" => stalePolicy'.enabled
      BY <1>2, <1>5 DEF Lasting, OffersInv
    <3>5. quiet'[new] = Hour /\ Hour <= Hour /\ Hour \in Nat \ {0}
      BY <1>3, <1>4, <2>1
    <3> HIDE DEF new
    <3> QED BY <1>5, <3>1, <3>2, <3>3, <3>4, <3>5
            DEF EventIsIgnored, TreeIsIgnored, AppIsIgnored, HourIn
  <2>2. CASE time = Forever
    <3>1. Ruled(kind, o)
      BY <1>1, <2>2 DEF Click
    <3>2. quiet'[new] = Forever /\ ~(Forever <= Hour) /\ Forever \in Nat \ {0}
      BY <1>3, <1>4, <2>2
    <3>3. kind = "events" =>
            /\ WasSeen(o.id)'
            /\ Runs(o.id)' => Names(table'[o.id.pid], protection'.ignoredNames, protection'.ignoredExes)
      BY <1>2, <1>5, <3>1 DEF Lasting, OffersInv, IsProgram, IsNamed, WasSeen, Runs, Ruled
    <3>4. kind = "trees" =>
            /\ stalePolicy'.enabled /\ WasSeen(o.id)'
            /\ Runs(o.id)' => table'[o.id.pid].name \in stalePolicy'.ignored
      BY <1>2, <1>5, <3>1 DEF Lasting, OffersInv, IsNamed, WasSeen, Runs, Ruled
    <3>5. kind = "apps" =>
            /\ WasSeen(o.id)'
            /\ Runs(o.id)' => RootIgnored(table'[o.id.pid], bgPolicy')
      BY <1>2, <1>5, <3>1 DEF Lasting, OffersInv, IsProgram, IsNamed, WasSeen, Runs, Ruled
    <3> HIDE DEF new
    <3> QED BY <1>5, <3>2, <3>3, <3>4, <3>5 DEF EventIsIgnored, TreeIsIgnored, AppIsIgnored
  <2> QED BY <1>5, <2>1, <2>2
<1>7. ASSUME NEW i \in DOMAIN quiet, i # new
      PROVE  /\ quiet'[i] \in Nat \ {0} /\ i[1] \in {"events", "trees", "apps"} /\ i = <<i[1], i[2]>>
             /\ i[1] = "events" => EventIsIgnored(i)'
             /\ i[1] = "trees" => TreeIsIgnored(i)'
             /\ i[1] = "apps" => AppIsIgnored(i)'
  <2>1. quiet'[i] = quiet[i]
    BY <1>4, <1>7
  <2>2. /\ quiet[i] \in Nat \ {0} /\ i[1] \in {"events", "trees", "apps"} /\ i = <<i[1], i[2]>>
        /\ i[1] = "events" => EventIsIgnored(i)
        /\ i[1] = "trees" => TreeIsIgnored(i)
        /\ i[1] = "apps" => AppIsIgnored(i)
    BY DEF QuietInv
  <2>3. kind = i[1] => o.id # i[2]
    BY <1>7, <2>2
  <2>4. i[1] = "events" /\ i[2] \in DOMAIN ignores =>
          i[2] \in DOMAIN ignores' /\ ignores'[i[2]] = ignores[i[2]]
    BY <1>5, <2>3 DEF Hourly, Until
  <2>5. i[1] = "trees" /\ i[2] \in DOMAIN staleIgnored =>
          i[2] \in DOMAIN staleIgnored' /\ staleIgnored'[i[2]] = staleIgnored[i[2]]
    BY <1>5, <2>3 DEF Hourly, Until
  <2>6. i[1] = "apps" /\ i[2] \in DOMAIN bgIgnored =>
          i[2] \in DOMAIN bgIgnored' /\ bgIgnored'[i[2]] = bgIgnored[i[2]]
    BY <1>5, <2>3 DEF Hourly, Until
  <2>7. i[1] = "events" => EventIsIgnored(i)'
    BY <1>2, <2>1, <2>2, <2>4 DEF EventIsIgnored, HourIn, Lasting, WasSeen, Runs
  <2>8. i[1] = "trees" => TreeIsIgnored(i)'
    BY <1>2, <2>1, <2>2, <2>5 DEF TreeIsIgnored, HourIn, Lasting, WasSeen, Runs
  <2>9. i[1] = "apps" => AppIsIgnored(i)'
    BY <1>2, <2>1, <2>2, <2>6 DEF AppIsIgnored, HourIn, Lasting, WasSeen, Runs
  <2> QED BY <2>1, <2>2, <2>7, <2>8, <2>9
<1> HIDE DEF new
<1> QED
  BY <1>4, <1>5, <1>6, <1>7 DEF QuietInv

LEMMA LeftIs ==
    ASSUME NEW deadlines, NEW delay
    PROVE  /\ \A x : x \in DOMAIN Left(deadlines, delay) <=>
                        x \in DOMAIN deadlines /\ deadlines[x] - delay > 0
           /\ \A x \in DOMAIN Left(deadlines, delay) :
                Left(deadlines, delay)[x] = deadlines[x] - delay
BY DEF Left

LEMMA PollDeadlines ==
    ASSUME SettingsInv, DeadlinesInv, NEW s, NEW level, NEW delay, Polled(s, level, delay)
    PROVE  DeadlinesInv'
<1>1. delay \in Nat \ {0}
  BY PollSettings
<1>2. ASSUME NEW deadlines, \A x \in DOMAIN deadlines : deadlines[x] \in 1..Hour
      PROVE  \A x \in DOMAIN Left(deadlines, delay) : Left(deadlines, delay)[x] \in 1..Hour
  <2>1. ASSUME NEW x \in DOMAIN Left(deadlines, delay)
        PROVE  Left(deadlines, delay)[x] \in 1..Hour
    <3>1. /\ x \in DOMAIN deadlines /\ deadlines[x] - delay > 0
          /\ Left(deadlines, delay)[x] = deadlines[x] - delay
      BY LeftIs
    <3> QED BY <1>1, <1>2, <3>1, ForeverIsLong
  <2> QED BY <2>1
<1>3. ignores' = Left(ignores, delay)
  BY DEF Polled, MonitorPoll
<1>4. staleIgnored' = Left(staleIgnored, delay) \/ staleIgnored' = <<>>
  BY DEF Polled, EvaluateStale
<1>5. bgIgnored' = Left(bgIgnored, delay)
  BY DEF Polled, EvaluateBackground
<1> QED
  BY <1>2, <1>3, <1>4, <1>5 DEF DeadlinesInv

LEMMA PollQuiet ==
    ASSUME SettingsInv, TableInv, QuietInv,
           NEW s, NEW level, NEW delay, Polled(s, level, delay)
    PROVE  QuietInv'
<1>1. /\ delay \in Nat \ {0} /\ Passing
      /\ UNCHANGED <<limits, protection, stalePolicy, bgPolicy, bgProtection>>
  BY PollSettings DEF Polled
<1>2. Forever \in Nat /\ Hour \in Nat \ {0} /\ Forever - 1 > Hour
  BY ForeverIsLong
<1> HIDE DEF Forever
<1>3. /\ DOMAIN quiet' = {j \in DOMAIN quiet : quiet[j] > delay}
      /\ \A i \in DOMAIN quiet' :
           quiet'[i] = IF quiet[i] > Hour THEN Forever - 1 ELSE quiet[i] - delay
  BY DEF Polled, Remember
<1>4. /\ ignores' = Left(ignores, delay)
      /\ stalePolicy.enabled => staleIgnored' = Left(staleIgnored, delay)
      /\ bgIgnored' = Left(bgIgnored, delay)
  BY DEF Polled, MonitorPoll, EvaluateStale, EvaluateBackground
<1>5. ASSUME NEW i \in DOMAIN quiet'
      PROVE  /\ quiet'[i] \in Nat \ {0} /\ i[1] \in {"events", "trees", "apps"} /\ i = <<i[1], i[2]>>
             /\ i[1] = "events" => EventIsIgnored(i)'
             /\ i[1] = "trees" => TreeIsIgnored(i)'
             /\ i[1] = "apps" => AppIsIgnored(i)'
  <2>1. /\ i \in DOMAIN quiet /\ quiet[i] > delay
        /\ quiet'[i] = IF quiet[i] > Hour THEN Forever - 1 ELSE quiet[i] - delay
    BY <1>3
  <2>2. /\ quiet[i] \in Nat \ {0} /\ i[1] \in {"events", "trees", "apps"} /\ i = <<i[1], i[2]>>
        /\ i[1] = "events" => EventIsIgnored(i)
        /\ i[1] = "trees" => TreeIsIgnored(i)
        /\ i[1] = "apps" => AppIsIgnored(i)
    BY <2>1 DEF QuietInv
  <2>3. CASE quiet[i] <= Hour
    <3>1. /\ quiet'[i] = quiet[i] - delay /\ quiet[i] - delay > 0 /\ quiet'[i] \in Nat \ {0}
          /\ quiet'[i] <= Hour
      BY <1>1, <1>2, <2>1, <2>2, <2>3
    <3>2. ASSUME NEW deadlines, i[2] \in DOMAIN deadlines, deadlines[i[2]] = quiet[i]
          PROVE  /\ i[2] \in DOMAIN Left(deadlines, delay)
                 /\ Left(deadlines, delay)[i[2]] = quiet'[i]
      BY <3>1, <3>2, LeftIs
    <3>3. i[1] = "events" => EventIsIgnored(i)'
      BY <1>4, <2>2, <2>3, <3>1, <3>2 DEF EventIsIgnored, HourIn
    <3>4. i[1] = "trees" => TreeIsIgnored(i)'
      BY <1>1, <1>4, <2>2, <2>3, <3>1, <3>2 DEF TreeIsIgnored, HourIn
    <3>5. i[1] = "apps" => AppIsIgnored(i)'
      BY <1>4, <2>2, <2>3, <3>1, <3>2 DEF AppIsIgnored, HourIn
    <3> QED BY <2>2, <3>1, <3>3, <3>4, <3>5
  <2>4. CASE ~(quiet[i] <= Hour)
    <3>1. quiet'[i] = Forever - 1 /\ quiet'[i] \in Nat \ {0} /\ ~(quiet'[i] <= Hour)
      BY <1>2, <2>1, <2>2, <2>4
    <3>2. WasSeen(i[2]) =>
             /\ WasSeen(i[2])'
             /\ Runs(i[2])' => /\ Runs(i[2])
                               /\ table'[i[2].pid].name = table[i[2].pid].name
                               /\ table'[i[2].pid].exe = table[i[2].pid].exe
      BY <1>1, PersonStays
    <3>3. i[1] = "events" => EventIsIgnored(i)'
      BY <1>1, <2>2, <2>4, <3>1, <3>2 DEF EventIsIgnored, Names
    <3>4. i[1] = "trees" => TreeIsIgnored(i)'
      BY <1>1, <2>2, <2>4, <3>1, <3>2 DEF TreeIsIgnored
    <3>5. i[1] = "apps" => AppIsIgnored(i)'
      BY <1>1, <2>2, <2>4, <3>1, <3>2 DEF AppIsIgnored, RootIgnored, Names
    <3> QED BY <2>2, <3>1, <3>3, <3>4, <3>5
  <2> QED BY <2>3, <2>4
<1> QED
  BY <1>5 DEF QuietInv

(* What the user has ignored, for longer than until this poll, no service  *)
(* looks at.                                                               *)
LEMMA IgnoredIsUnseen ==
    ASSUME SettingsInv, TableInv, QuietInv,
           NEW s, NEW level, NEW delay, Polled(s, level, delay),
           NEW i \in DOMAIN quiet, quiet[i] > delay
    PROVE  /\ i[1] = "events" => \A p \in Shown(s, delay) : i[2] # IdOf(s, p)
           /\ i[1] = "trees" => \A w \in staleFound'.workloads : i[2] # w.root
           /\ i[1] = "apps" => \A w \in bgNotices' : i[2] # w.root
<1>1. /\ delay \in Nat \ {0} /\ Looks(s)
      /\ UNCHANGED <<protection, stalePolicy, bgPolicy, bgProtection>>
  BY PollSettings DEF Polled
<1>3. /\ quiet[i] \in Nat \ {0} /\ i[1] \in {"events", "trees", "apps"}
      /\ i[1] = "events" => EventIsIgnored(i)
      /\ i[1] = "trees" => TreeIsIgnored(i)
      /\ i[1] = "apps" => AppIsIgnored(i)
  BY DEF QuietInv
<1>4. /\ ignores' = Left(ignores, delay)
      /\ stalePolicy.enabled => staleIgnored' = Left(staleIgnored, delay)
      /\ bgIgnored' = Left(bgIgnored, delay)
  BY DEF Polled, MonitorPoll, EvaluateStale, EvaluateBackground
<1>5. ASSUME NEW deadlines, HourIn(deadlines, i)
      PROVE  i[2] \in DOMAIN Left(deadlines, delay)
  <2>1. i[2] \in DOMAIN deadlines /\ deadlines[i[2]] - delay > 0
    BY <1>1, <1>3, <1>5 DEF HourIn
  <2> QED BY <2>1 DEF Left
<1>6. ASSUME NEW p \in DOMAIN s, i[2] = IdOf(s, p)
      PROVE  Runs(i[2]) /\ table[i[2].pid].name = s[p].name /\ table[i[2].pid].exe = s[p].exe
  BY <1>1, <1>6 DEF Looks, IdOf, Runs
<1>7. ASSUME i[1] = "events", NEW p \in Shown(s, delay), i[2] = IdOf(s, p) PROVE FALSE
  <2>3. /\ p \in DOMAIN s /\ i[2] \notin DOMAIN ignores'
        /\ Disposition(protection, s[p]) = "Monitor"
    BY <1>7, ShownIsThere
  <2>4. ~Names(s[p], protection.ignoredNames, protection.ignoredExes)
    BY <2>3, NamedIsNotMonitored
  <2>5. EventIsIgnored(i)
    BY <1>3, <1>7
  <2> QED BY <1>4, <1>5, <1>6, <1>7, <2>3, <2>4, <2>5 DEF EventIsIgnored, Names
<1>8. ASSUME i[1] = "trees", NEW w \in staleFound'.workloads, i[2] = w.root PROVE FALSE
  <2>3. PICK p \in Shown(s, delay) : /\ w.root = IdOf(s, p) /\ w.name = s[p].name
                                     /\ w.name \notin stalePolicy.ignored
                                     /\ w.root \notin DOMAIN staleIgnored'
    BY TreesAreShown
  <2>4. p \in DOMAIN s
    BY ShownIsThere
  <2>5. TreeIsIgnored(i)
    BY <1>3, <1>8
  <2> QED BY <1>4, <1>5, <1>6, <1>8, <2>3, <2>4, <2>5 DEF TreeIsIgnored
<1>9. ASSUME i[1] = "apps", NEW w \in bgNotices', i[2] = w.root PROVE FALSE
  <2>2. w \in BuildBackgroundWorkloads(s, bgProtection, bgPolicy) /\ w.root \notin DOMAIN bgIgnored'
    BY AppsAreSafe
  <2>3. /\ ~RootIgnored(w, bgPolicy)
        /\ \E p \in DOMAIN s : w.root = IdOf(s, p) /\ w.name = s[p].name /\ w.exe = s[p].exe
    BY <1>1, <2>2, AppIsThere
  <2>4. PICK p \in DOMAIN s : w.root = IdOf(s, p) /\ w.name = s[p].name /\ w.exe = s[p].exe
    BY <2>3
  <2>5. AppIsIgnored(i)
    BY <1>3, <1>9
  <2> QED BY <1>4, <1>5, <1>6, <1>9, <2>2, <2>3, <2>4, <2>5
          DEF AppIsIgnored, RootIgnored, Names
<1> QED
  BY <1>7, <1>8, <1>9

LEMMA PollSilent ==
    ASSUME SettingsInv, TableInv, PastInv, QuietInv,
           NEW s, NEW level, NEW delay, Polled(s, level, delay)
    PROVE  \A i \in DOMAIN quiet' : i[2] \notin past'[1][i[1]]
<1> SUFFICES ASSUME NEW i \in DOMAIN quiet', i[2] \in past'[1][i[1]] PROVE FALSE
  OBVIOUS
<1>1. i \in DOMAIN quiet /\ quiet[i] > delay
  BY DEF Polled, Remember
<1>2. i[1] \in {"events", "trees", "apps"}
  BY <1>1 DEF QuietInv
<1>3. /\ i[1] = "events" => \A p \in Shown(s, delay) : i[2] # IdOf(s, p)
      /\ i[1] = "trees" => \A w \in staleFound'.workloads : i[2] # w.root
      /\ i[1] = "apps" => \A w \in bgNotices' : i[2] # w.root
  BY <1>1, IgnoredIsUnseen
<1>4. ASSUME i[1] = "events" PROVE FALSE
  <2>1. i[2] \in events'
    BY <1>4, PollIsFirst
  <2> QED BY <1>3, <1>4, <2>1, EventsAreShown
<1>5. ASSUME i[1] = "trees" PROVE FALSE
  <2>1. PICK w \in staleNotices'.trees : i[2] = w.root
    BY <1>5, PollIsFirst
  <2> QED BY <1>3, <1>5, <2>1, FoundIsEligible
<1>6. ASSUME i[1] = "apps" PROVE FALSE
  <2>1. PICK w \in bgNotices' : i[2] = w.root
    BY <1>6, PollIsFirst
  <2> QED BY <1>3, <1>6, <2>1
<1> QED
  BY <1>2, <1>4, <1>5, <1>6

(* Until the next poll the notice a click answers is the last one.         *)
LEMMA ClickStaysQuiet ==
    ASSUME SettingsInv, IgnoredStaysQuiet, Clicks
    PROVE  IgnoredStaysQuiet'
<1>1. PICK kind, o, time : Click(kind, o, time)
  BY ClickIs
<1>2. UNCHANGED past
  BY ClickKeeps
<1> HIDE DEF Forever
<1>3. \A i \in DOMAIN quiet' :
        quiet'[i] \in {Hour, Forever} \/ (i \in DOMAIN quiet /\ quiet'[i] = quiet[i])
  BY <1>1 DEF Click, Until
<1> QED
  BY <1>2, <1>3 DEF IgnoredStaysQuiet

-----------------------------------------------------------------------------
(* The first part of the invariant, and what the user's ignores come to.   *)

IgnoresInv ==
    /\ SettingsInv /\ TableInv /\ PastInv /\ OffersInv /\ QuietInv /\ DeadlinesInv
    /\ IgnoredStaysQuiet

LEMMA IgnoresInit ==
    MonitoringInit => IgnoresInv
<1> SUFFICES ASSUME MonitoringInit PROVE IgnoresInv
  OBVIOUS
<1>1. SettingsInv /\ TableInv
  BY InitSettings
<1>2. /\ ignores = <<>> /\ staleIgnored = <<>> /\ bgIgnored = <<>>
      /\ offers = NoOffers /\ quiet = <<>> /\ past = <<>>
  BY DEF MonitoringInit, MonitorInit, StaleInit, BackgroundInit
<1>3. PastInv
  <2>1. Len(<<>>) = 0 /\ DOMAIN <<>> = 1..0
    OBVIOUS
  <2>2. \A k \in DOMAIN past : FALSE
    BY <1>2, <2>1
  <2> QED BY <1>2, <2>1, <2>2, MonitoringAssumption DEF PastInv
<1>4. OffersInv
  BY <1>2 DEF OffersInv, NoOffers
<1>5. QuietInv /\ DeadlinesInv
  BY <1>2 DEF QuietInv, DeadlinesInv
<1>6. IgnoredStaysQuiet
  BY <1>2 DEF IgnoredStaysQuiet
<1> QED
  BY <1>1, <1>3, <1>4, <1>5, <1>6 DEF IgnoresInv

LEMMA IgnoresStep ==
    IgnoresInv /\ [Next]_vars => IgnoresInv'
<1> SUFFICES ASSUME IgnoresInv, [Next]_vars PROVE IgnoresInv'
  OBVIOUS
<1> USE DEF IgnoresInv
<1>1. CASE Elsewhere
  <2>1. SettingsInv' /\ TableInv' /\ Passing
    BY <1>1, ElsewhereSettings DEF Elsewhere
  <2>2. UNCHANGED <<ignores, protection, staleIgnored, stalePolicy, bgIgnored, bgPolicy, offers,
                    quiet, past>>
    BY <1>1 DEF Elsewhere, monitorVars, staleVars, bgVars
  <2>3. PastInv'
    BY <2>2 DEF PastInv
  <2>4. OffersInv'
    BY <2>1, <2>2, ProgramStays DEF OffersInv
  <2>5. \A id : WasSeen(id) =>
           /\ WasSeen(id)'
           /\ Runs(id)' => /\ Runs(id)
                           /\ table'[id.pid].name = table[id.pid].name
                           /\ table'[id.pid].exe = table[id.pid].exe
    BY <2>1, PersonStays
  <2>6. QuietInv'
    <3>1. ASSUME NEW i, EventIsIgnored(i) PROVE EventIsIgnored(i)'
      BY <2>2, <2>5, <3>1 DEF EventIsIgnored, HourIn, Names
    <3>2. ASSUME NEW i, TreeIsIgnored(i) PROVE TreeIsIgnored(i)'
      BY <2>2, <2>5, <3>2 DEF TreeIsIgnored, HourIn
    <3>3. ASSUME NEW i, AppIsIgnored(i) PROVE AppIsIgnored(i)'
      BY <2>2, <2>5, <3>3 DEF AppIsIgnored, HourIn, RootIgnored, Names
    <3> QED BY <2>2, <3>1, <3>2, <3>3 DEF QuietInv
  <2>7. DeadlinesInv'
    BY <2>2 DEF DeadlinesInv
  <2>8. IgnoredStaysQuiet'
    BY <2>2 DEF IgnoredStaysQuiet
  <2> QED BY <2>1, <2>3, <2>4, <2>6, <2>7, <2>8
<1>2. CASE \E s, level, delay : Polled(s, level, delay)
  <2>1. PICK s, level, delay : Polled(s, level, delay)
    BY <1>2
  <2>2. SettingsInv' /\ TableInv' /\ PastInv' /\ DeadlinesInv'
    BY <2>1, PollSettings, PollPast, PollDeadlines DEF Polled
  <2>3. OffersInv' /\ QuietInv'
    BY <2>1, PollOffers, PollQuiet
  <2>4. IgnoredStaysQuiet'
    BY <2>1, PollSilent DEF IgnoredStaysQuiet
  <2> QED BY <2>2, <2>3, <2>4
<1>3. CASE Clicks
  <2>1. SettingsInv' /\ TableInv' /\ OffersInv' /\ QuietInv' /\ DeadlinesInv'
    BY <1>3, ClickSettings, ClickOffers, ClickQuiet, ClickDeadlines
  <2>2. PastInv'
    BY <1>3, ClickKeeps DEF PastInv
  <2>3. IgnoredStaysQuiet'
    BY <1>3, ClickStaysQuiet
  <2> QED BY <2>1, <2>2, <2>3
<1> QED
  BY <1>1, <1>2, <1>3, StepIs

-----------------------------------------------------------------------------
(* The monitor's books.                                                    *)

(* The violation of a process in breach, before it is reported.            *)
Counting(id, delay) ==
    LET before == IF id \in DOMAIN violations THEN Waited(violations[id], limits, delay)
                  ELSE NewViolation(limits)
    IN [before EXCEPT !.streak = Least(limits.samples, @ + 1)]

LEMMA MonitorPolls ==
    ASSUME SettingsInv, PastInv, NEW s, NEW level, NEW delay, Polled(s, level, delay)
    PROVE  /\ trackedIds' = {IdOf(s, p) : p \in Shown(s, delay)}
           /\ past'[1].over \subseteq trackedIds'
           /\ DOMAIN violations' = past'[1].over
           /\ past'[1].events = events'
           /\ events' = {id \in past'[1].over : Notifies(Counting(id, delay), limits)}
           /\ \A id \in past'[1].over :
                violations'[id] = IF id \in events' THEN [Counting(id, delay) EXCEPT !.last = 0]
                                  ELSE Counting(id, delay)
<1> DEFINE active == Shown(s, delay)
           over == {IdOf(s, p) : p \in {q \in active : Breach(s[q], limits)}}
           states == Violations(s, active, WaitedAll(violations, limits, delay), limits)
           due == {id \in DOMAIN states : Notifies(states[id], limits)}
<1>1. past'[1].over = over /\ past'[1].events = events'
  BY PollIsFirst
<1>2. over \subseteq {IdOf(s, p) : p \in active}
  OBVIOUS
<1>3. DOMAIN states = over
  BY DEF Violations
<1>4. ASSUME NEW id \in over PROVE states[id] = Counting(id, delay)
  BY DEF Violations, WaitedAll, Counting
<1>5. /\ trackedIds' = {IdOf(s, p) : p \in active} /\ events' = due
      /\ violations' = [id \in DOMAIN states |->
                           IF id \in due THEN [states[id] EXCEPT !.last = 0] ELSE states[id]]
  BY DEF Polled, MonitorPoll, Shown
<1> HIDE DEF active, states, over
<1>6. due = {id \in over : Notifies(Counting(id, delay), limits)}
  BY <1>3, <1>4
<1> HIDE DEF due
<1>7. /\ DOMAIN violations' = over
      /\ \A id \in over : violations'[id] = IF id \in due THEN [Counting(id, delay) EXCEPT !.last = 0]
                                            ELSE Counting(id, delay)
  BY <1>3, <1>4, <1>5
<1> QED
  BY <1>1, <1>2, <1>5, <1>6, <1>7 DEF active

LEMMA CountingIs ==
    ASSUME SettingsInv, NEW delay \in Nat, NEW id,
           id \in DOMAIN violations => Violation(violations[id])
    PROVE  /\ Violation(Counting(id, delay))
           /\ IF id \in DOMAIN violations
              THEN /\ Counting(id, delay).streak = Least(limits.samples, violations[id].streak + 1)
                   /\ Counting(id, delay).since = Least(limits.duration, violations[id].since + delay)
                   /\ Counting(id, delay).last = Least(limits.cooldown, violations[id].last + delay)
              ELSE /\ Counting(id, delay).streak = 1 /\ Counting(id, delay).since = 0
                   /\ Counting(id, delay).last = limits.cooldown
<1>1. limits.samples \in Nat \ {0} /\ limits.duration \in Nat /\ limits.cooldown \in Nat
  BY DEF SettingsInv, IsLimits
<1>2. CASE id \in DOMAIN violations
  <2> DEFINE v == violations[id]
             w == Counting(id, delay)
  <2>1. Violation(v)
    BY <1>2
  <2>2. /\ DOMAIN w = {"streak", "since", "last"}
        /\ w.streak = Least(limits.samples, v.streak + 1)
        /\ w.since = Least(limits.duration, v.since + delay)
        /\ w.last = Least(limits.cooldown, v.last + delay)
    BY <1>2, <2>1 DEF Counting, Waited, Violation
  <2>3. v.streak \in Nat /\ v.since \in Nat /\ v.last \in Nat
    BY <1>1, <2>1 DEF Violation
  <2> HIDE DEF v, w
  <2>4. Violation(w)
    BY <1>1, <2>2, <2>3 DEF Violation, Least
  <2> QED BY <1>2, <2>2, <2>4 DEF v, w
<1>3. CASE id \notin DOMAIN violations
  <2> DEFINE w == Counting(id, delay)
  <2>1. /\ DOMAIN w = {"streak", "since", "last"}
        /\ w.streak = Least(limits.samples, 0 + 1) /\ w.since = 0 /\ w.last = limits.cooldown
    BY <1>3 DEF Counting, NewViolation
  <2>2. w.streak = 1
    BY <1>1, <2>1 DEF Least
  <2> HIDE DEF w
  <2>3. Violation(w)
    BY <1>1, <2>1, <2>2 DEF Violation
  <2> QED BY <1>3, <2>1, <2>2, <2>3 DEF w
<1> QED
  BY <1>2, <1>3

LEMMA CountedIs ==
    ASSUME SettingsInv, PastInv, ViolationsInv, NEW s, NEW level, NEW delay,
           Polled(s, level, delay), NEW id \in past'[1].over
    PROVE  LET v == violations'[id]
               w == Counting(id, delay)
           IN  /\ id \in DOMAIN violations' /\ Violation(v) /\ Violation(w)
               /\ v.streak = w.streak /\ v.since = w.since
               /\ IF id \in events' THEN v.last = 0 ELSE v.last = w.last
<1>1. delay \in Nat
  BY PollSettings
<1>2. Violation(Counting(id, delay))
  BY <1>1, CountingIs DEF ViolationsInv
<1>3. /\ id \in DOMAIN violations'
      /\ violations'[id] = IF id \in events' THEN [Counting(id, delay) EXCEPT !.last = 0]
                           ELSE Counting(id, delay)
  BY MonitorPolls
<1> DEFINE w == Counting(id, delay)
<1> HIDE DEF w
<1>4. limits.cooldown \in Nat
  BY DEF SettingsInv, IsLimits
<1>5. Violation(w) /\ violations'[id] = IF id \in events' THEN [w EXCEPT !.last = 0] ELSE w
  BY <1>2, <1>3 DEF w
<1> QED
  BY <1>3, <1>4, <1>5 DEF Violation, w

LEMMA PollViolations ==
    ASSUME SettingsInv, PastInv, ViolationsInv, NEW s, NEW level, NEW delay,
           Polled(s, level, delay)
    PROVE  ViolationsInv'
<1>1. /\ delay \in Nat /\ UNCHANGED limits
      /\ limits.samples \in Nat \ {0} /\ limits.duration \in Nat /\ limits.cooldown \in Nat
      /\ limits.samples <= Memory /\ limits.duration < Memory
  BY PollSettings DEF SettingsInv, IsLimits
<1>2. PICK n : Recalled(n)
  BY PollIsRecalled
<1>3. PastInv'
  BY PollPast
<1>4. ASSUME NEW id \in DOMAIN violations'
      PROVE  Violation(violations[id])' /\ \E k \in DOMAIN past' : Since(violations[id], k, id)'
  <2>1. id \in past'[1].over
    BY MonitorPolls
  <2> DEFINE v == violations'[id]
             w == Counting(id, delay)
  <2>2. /\ Violation(v) /\ Violation(w) /\ v.streak = w.streak /\ v.since = w.since
    BY <2>1, CountedIs
  <2>3. Violation(violations[id])'
    BY <1>1, <2>2 DEF Violation
  <2>4. CASE id \notin DOMAIN violations
    <3>1. w.streak = 1 /\ w.since = 0
      BY <1>1, <2>4, CountingIs
    <3>2. \A j \in 1..1 : id \in past'[j].over
      BY <2>1
    <3>3. Since(violations[id], 1, id)'
      BY <2>2, <3>1, <3>2, PollIsRecalled DEF Since
    <3> QED BY <2>3, <3>3, PollIsRecalled
  <2>5. CASE id \in DOMAIN violations
    <3> DEFINE u == violations[id]
    <3>1. PICK m \in DOMAIN past : Since(u, m, id)
      BY <2>5 DEF ViolationsInv
    <3>2. /\ Violation(u) /\ w.streak = Least(limits.samples, u.streak + 1)
          /\ w.since = Least(limits.duration, u.since + delay)
      BY <1>1, <2>5, CountingIs DEF ViolationsInv
    <3>3. /\ u.streak \in Nat /\ u.since \in Nat
          /\ v.streak <= limits.samples /\ v.streak <= u.streak + 1
          /\ v.since <= limits.duration /\ v.since <= u.since + delay
          /\ v.streak \in Int /\ v.since \in Int
      BY <1>1, <2>2, <3>2 DEF Violation, Least
    <3>4. /\ m \in Nat /\ m <= Len(past) /\ m <= Memory /\ m >= u.streak /\ past[m].ago >= u.since
          /\ past[m].ago \in Nat
          /\ \A j \in 1..m : id \in past[j].over
      <4>1. m \in Nat /\ m <= Len(past) /\ m <= Memory /\ past[m].ago \in Nat
        BY <3>1, MonitoringAssumption DEF PastInv
      <4>2. m >= u.streak /\ past[m].ago >= u.since /\ \A j \in 1..m : id \in past[j].over
        BY <3>1 DEF Since
      <4> QED BY <4>1, <4>2
    <3> DEFINE k == Least(n, m + 1)
    <3>5. k \in DOMAIN past' /\ k \in Nat /\ k <= m + 1 /\ (k = m + 1 \/ k = n)
      BY <1>2, <3>4 DEF Least, Recalled
    <3>6. k = m + 1 \/ (k = Memory /\ k <= m)
      BY <1>2, <3>4 DEF Least, Recalled, PastInv
    <3> HIDE DEF k, u, v, w
    <3>7. ASSUME NEW j \in 1..k PROVE id \in past'[j].over
      <4>1. CASE j = 1
        BY <2>1, <4>1
      <4>2. CASE j # 1
        <5>1. j \in DOMAIN past' /\ j - 1 \in 1..m
          BY <1>2, <3>4, <3>5, <4>2 DEF Recalled
        <5>2. past'[j] = [past[j - 1] EXCEPT !.ago = @ + delay]
          BY <4>2, <5>1, PollIsRecalled
        <5>3. past'[j].over = past[j - 1].over
          BY <5>2
        <5> QED BY <3>4, <5>1, <5>3
      <4> QED BY <4>1, <4>2
    <3>8. CASE k = m + 1
      <4>1. k # 1 /\ past'[k] = [past[m] EXCEPT !.ago = @ + delay]
        <5>1. m > 0
          BY <3>1 DEF PastInv
        <5>2. k # 1 /\ k - 1 = m
          BY <3>4, <3>8, <5>1
        <5> QED BY <3>5, <5>2, PollIsRecalled
      <4>2. past'[k].ago = past[m].ago + delay
        <5>1. "ago" \in DOMAIN past[m]
          BY <3>1 DEF PastInv
        <5> QED BY <4>1, <5>1
      <4>3. k >= v.streak /\ past'[k].ago >= v.since
        <5>1. k >= v.streak
          BY <3>3, <3>4, <3>8
        <5>2. PICK x \in Nat : x = past[m].ago /\ x >= u.since
          BY <3>4
        <5>3. past'[k].ago = x + delay /\ x + delay >= u.since + delay
          BY <1>1, <3>3, <4>2, <5>2
        <5>4. x + delay >= v.since
          BY <1>1, <3>3, <5>2, <5>3
        <5> QED BY <5>1, <5>3, <5>4
      <4>4. Since(violations[id], k, id)'
        BY <3>7, <4>3 DEF Since, v
      <4> QED BY <2>3, <3>5, <4>4 DEF v
    <3>9. CASE k = Memory
      <4>1. k >= v.streak
        BY <1>1, <3>3, <3>5, <3>9
      <4>2. past'[k].ago \in Nat /\ past'[k].ago >= Memory - 1
        BY <1>3, <3>5, <3>9 DEF PastInv
      <4>3. past'[k].ago >= v.since
        BY <1>1, <3>3, <3>5, <3>9, <4>2
      <4>4. Since(violations[id], k, id)'
        BY <3>7, <4>1, <4>3 DEF Since, v
      <4> QED BY <2>3, <3>5, <4>4 DEF v
    <3> QED BY <3>6, <3>8, <3>9
  <2> QED BY <2>4, <2>5
<1> QED
  BY <1>4 DEF ViolationsInv

(* A report has the streak and the time of its violation.                  *)
LEMMA PollSustained ==
    ASSUME SettingsInv, PastInv, ViolationsInv, NEW s, NEW level, NEW delay,
           Polled(s, level, delay)
    PROVE  EventsSustained'
<1>1. ASSUME NEW id \in past'[1].events
      PROVE  \E n \in DOMAIN past' :
                /\ n >= limits'.samples /\ past'[n].ago >= limits'.duration
                /\ n \in DOMAIN past' /\ \A k \in 1..n : id \in past'[k].over
  <2>1. id \in past'[1].over /\ id \in events' /\ Notifies(Counting(id, delay), limits)
    BY MonitorPolls
  <2>2. /\ id \in DOMAIN violations' /\ violations'[id].streak >= limits.samples
        /\ violations'[id].since >= limits.duration
    BY <2>1, CountedIs DEF Notifies
  <2>3. PICK n \in DOMAIN past' : Since(violations[id], n, id)'
    BY <2>2, PollViolations DEF ViolationsInv
  <2>4. /\ n >= violations'[id].streak /\ past'[n].ago >= violations'[id].since
        /\ \A k \in 1..n : id \in past'[k].over
    BY <2>3 DEF Since
  <2>5. UNCHANGED limits /\ limits.samples \in Nat /\ limits.duration \in Nat
    BY PollSettings DEF SettingsInv, IsLimits
  <2>6. n \in Nat /\ past'[n].ago \in Nat
    BY PollPast DEF PastInv
  <2>7. violations'[id].streak \in Nat /\ violations'[id].since \in Nat
    BY <2>1, <2>5, CountedIs DEF Violation
  <2> QED BY <2>2, <2>4, <2>5, <2>6, <2>7
<1> QED
  BY <1>1 DEF EventsSustained, Throughout

(* What was ignored before this poll it does not find.                     *)
LEMMA JustIgnoredIsUnseen ==
    ASSUME PollsWithinTheHour, SettingsInv, TableInv, PastInv, QuietInv,
           NEW s, NEW level, NEW delay, Polled(s, level, delay),
           NEW id, JustIgnored("events", id)
    PROVE  id \notin past'[1].over
<1> DEFINE i == <<"events", id>>
<1>1. i \in DOMAIN quiet /\ quiet[i] \in {Hour, Forever}
  BY DEF JustIgnored
<1>2. delay \in delays /\ delay \in Nat /\ delay < Hour
  BY DEF Polled, SettingsInv
<1>3. quiet[i] > delay
  BY <1>1, <1>2, ForeverIsLong
<1>4. \A p \in Shown(s, delay) : i[2] # IdOf(s, p)
  BY <1>1, <1>3, IgnoredIsUnseen
<1> QED
  BY <1>4, PollIsFirst

LEMMA PollEventsSpaced ==
    ASSUME PollsWithinTheHour, SettingsInv, TableInv, PastInv, QuietInv, ViolationsInv,
           EventsSpacedInv, NEW s, NEW level, NEW delay, Polled(s, level, delay)
    PROVE  EventsSpacedInv'
<1>1. PICK n : Recalled(n)
  BY PollIsRecalled
<1>2. delay \in Nat /\ limits.cooldown \in Nat
  BY PollSettings DEF SettingsInv, IsLimits
<1>3. ASSUME NEW k \in DOMAIN past', NEW id \in past'[k].events
      PROVE  /\ id \in past'[k].over
             /\ \/ \E j \in 1..(k - 1) : id \notin past'[j].over
                \/ id \in DOMAIN violations' /\ violations'[id].last <= past'[k].ago
                \/ JustIgnored("events", id)'
  <2>1. CASE k = 1
    <3>1. id \in events' /\ id \in past'[1].over
      BY <2>1, MonitorPolls
    <3>2. id \in DOMAIN violations' /\ violations'[id].last = 0
      BY <3>1, CountedIs
    <3>3. past'[k].ago = 0
      BY <2>1, PollIsRecalled
    <3> QED BY <2>1, <3>1, <3>2, <3>3
  <2>2. CASE k # 1
    <3>1. /\ k - 1 \in DOMAIN past /\ k \in Nat /\ k > 1
          /\ past'[k] = [past[k - 1] EXCEPT !.ago = @ + delay]
      BY <2>2, PollIsRecalled
    <3>2. /\ "ago" \in DOMAIN past[k - 1] /\ past[k - 1].ago \in Nat
      BY <3>1 DEF PastInv
    <3>3. /\ past'[k].events = past[k - 1].events /\ past'[k].over = past[k - 1].over
          /\ past'[k].ago = past[k - 1].ago + delay
      BY <3>1, <3>2
    <3>4. /\ id \in past[k - 1].over
          /\ \/ \E j \in 1..(k - 2) : id \notin past[j].over
             \/ id \in DOMAIN violations /\ violations[id].last <= past[k - 1].ago
             \/ JustIgnored("events", id)
      <4>1. k - 1 \in DOMAIN past /\ id \in past[k - 1].events /\ (k - 1) - 1 = k - 2
        BY <3>1, <3>3
      <4> QED BY <4>1 DEF EventsSpacedInv
    <3>5. CASE id \notin past'[1].over
      <4>1. 1 \in 1..(k - 1)
        BY <3>1
      <4> QED BY <3>3, <3>4, <3>5, <4>1
    <3>6. CASE id \in past'[1].over /\ \E j \in 1..(k - 2) : id \notin past[j].over
      <4>1. PICK j \in 1..(k - 2) : id \notin past[j].over
        BY <3>6
      <4>2. /\ j + 1 \in DOMAIN past' /\ j + 1 # 1 /\ (j + 1) - 1 = j
            /\ j + 1 \in 1..(k - 1)
        BY <1>1, <3>1 DEF Recalled
      <4>3. past'[j + 1] = [past[j] EXCEPT !.ago = @ + delay]
        BY <4>2, PollIsRecalled
      <4>4. past'[j + 1].over = past[j].over
        BY <4>3
      <4> QED BY <3>3, <3>4, <4>1, <4>2, <4>4
    <3>7. CASE /\ id \in past'[1].over /\ id \in DOMAIN violations
               /\ violations[id].last <= past[k - 1].ago
      <4>1. /\ id \in DOMAIN violations'
            /\ IF id \in events' THEN violations'[id].last = 0
               ELSE violations'[id].last = Counting(id, delay).last
        BY <3>7, CountedIs
      <4>2. /\ violations[id].last \in Nat
            /\ Counting(id, delay).last = Least(limits.cooldown, violations[id].last + delay)
        BY <1>2, <3>7, CountingIs DEF ViolationsInv, Violation
      <4>3. violations'[id].last <= violations[id].last + delay /\ violations'[id].last \in Nat
        BY <1>2, <4>1, <4>2 DEF Least
      <4>4. violations'[id].last <= past'[k].ago
        BY <1>2, <3>2, <3>3, <3>7, <4>2, <4>3
      <4> QED BY <3>3, <3>4, <4>1, <4>4
    <3>8. CASE JustIgnored("events", id)
      BY <3>5, <3>8, JustIgnoredIsUnseen
    <3> QED BY <3>4, <3>5, <3>6, <3>7, <3>8
  <2> QED BY <2>1, <2>2
<1> QED
  BY <1>3 DEF EventsSpacedInv

EventsSpaced ==
    past # <<>> =>
        \A x \in past[1].events :
            Spaced(x, LAMBDA poll : x \in poll.events, LAMBDA poll : x \in poll.over,
                   limits.cooldown)

LEMMA PollEventsAreSpaced ==
    ASSUME PollsWithinTheHour, SettingsInv, TableInv, PastInv, QuietInv, ViolationsInv,
           EventsSpacedInv, NEW s, NEW level, NEW delay, Polled(s, level, delay)
    PROVE  EventsSpaced'
<1>1. PICK n : Recalled(n)
  BY PollIsRecalled
<1>2. delay \in Nat /\ limits.cooldown \in Nat /\ UNCHANGED limits
  BY PollSettings DEF SettingsInv, IsLimits
<1>3. ASSUME NEW x \in past'[1].events, NEW k \in 2..Len(past'), x \in past'[k].events
      PROVE  \/ past'[k].ago >= limits.cooldown
             \/ \E j \in 2..(k - 1) : ~(x \in past'[j].over)
  <2>1. x \in past'[1].over /\ Notifies(Counting(x, delay), limits)
    BY MonitorPolls
  <2>2. k \in DOMAIN past' /\ k # 1
    BY <1>1 DEF Recalled
  <2>3. /\ k - 1 \in DOMAIN past /\ k \in Nat /\ k > 1
        /\ past'[k] = [past[k - 1] EXCEPT !.ago = @ + delay]
    BY <2>2, PollIsRecalled
  <2>4. /\ "ago" \in DOMAIN past[k - 1] /\ past[k - 1].ago \in Nat
    BY <2>3 DEF PastInv
  <2>5. past'[k].events = past[k - 1].events /\ past'[k].ago = past[k - 1].ago + delay
    BY <2>3, <2>4
  <2>6. \/ \E j \in 1..(k - 2) : x \notin past[j].over
        \/ x \in DOMAIN violations /\ violations[x].last <= past[k - 1].ago
        \/ JustIgnored("events", x)
    <3>1. k - 1 \in DOMAIN past /\ x \in past[k - 1].events /\ (k - 1) - 1 = k - 2
      BY <1>3, <2>3, <2>5
    <3> QED BY <3>1 DEF EventsSpacedInv
  <2>7. CASE \E j \in 1..(k - 2) : x \notin past[j].over
    <3>1. PICK j \in 1..(k - 2) : x \notin past[j].over
      BY <2>7
    <3>2. j + 1 \in DOMAIN past' /\ j + 1 # 1 /\ (j + 1) - 1 = j /\ j + 1 \in 2..(k - 1)
      BY <1>1, <2>3 DEF Recalled
    <3>3. past'[j + 1] = [past[j] EXCEPT !.ago = @ + delay]
      BY <3>2, PollIsRecalled
    <3>4. past'[j + 1].over = past[j].over
      BY <3>3
    <3> QED BY <3>1, <3>2, <3>4
  <2>8. CASE x \in DOMAIN violations /\ violations[x].last <= past[k - 1].ago
    <3>1. /\ violations[x].last \in Nat
          /\ Counting(x, delay).last = Least(limits.cooldown, violations[x].last + delay)
      BY <1>2, <2>8, CountingIs DEF ViolationsInv, Violation
    <3>2. violations[x].last + delay >= limits.cooldown
      BY <1>2, <2>1, <3>1 DEF Notifies, Least
    <3> QED BY <1>2, <2>4, <2>5, <2>8, <3>1, <3>2
  <2>9. CASE JustIgnored("events", x)
    BY <2>1, <2>9, JustIgnoredIsUnseen
  <2> QED BY <2>6, <2>7, <2>8, <2>9
<1> QED
  BY <1>2, <1>3 DEF EventsSpaced, Spaced

LEMMA PollBreach ==
    ASSUME PollsWithinTheHour, SettingsInv, TableInv, PastInv, QuietInv, ViolationsInv, BreachInv,
           NEW s, NEW level, NEW delay, Polled(s, level, delay)
    PROVE  BreachInv'
<1>1. PICK m : Recalled(m)
  BY PollIsRecalled
<1>2. /\ delay \in Nat /\ UNCHANGED limits
      /\ limits.samples \in Nat \ {0} /\ limits.duration \in Nat /\ limits.cooldown \in Nat
  BY PollSettings DEF SettingsInv, IsLimits
<1>3. past' # <<>> /\ past'[1].over \subseteq trackedIds'
  BY MonitorPolls, PollIsRecalled
<1>4. ASSUME NEW id \in trackedIds', NEW n \in DOMAIN past', \A k \in 1..n : id \in past'[k].over
      PROVE  id \in DOMAIN violations' /\ Counts(violations[id], n, id)'
  <2>1. n \in Nat /\ n >= 1
    BY <1>1 DEF Recalled
  <2>2. id \in past'[1].over
    <3>1. 1 \in 1..n
      BY <2>1
    <3> QED BY <1>4, <3>1
  <2> DEFINE v == violations'[id]
             w == Counting(id, delay)
  <2>3. /\ id \in DOMAIN violations' /\ Violation(w)
        /\ v.streak = w.streak /\ v.since = w.since
        /\ IF id \in events' THEN v.last = 0 ELSE v.last = w.last
    BY <2>2, CountedIs
  <2>4. w.streak \in Nat /\ w.since \in Nat /\ w.last \in Nat
    BY <1>2, <2>3 DEF Violation
  <2>5. id \notin events' => ~Notifies(w, limits)
    BY <2>2, MonitorPolls
  <2>6. (\A k \in 1..n : id \notin past'[k].events) => id \notin events'
    <3>1. 1 \in 1..n /\ past'[1].events = events'
      BY <2>1, MonitorPolls
    <3> QED BY <3>1
  <2>7. CASE n = 1
    <3>1. w.streak >= 1
      BY <1>2, CountingIs, <2>4 DEF ViolationsInv, Violation, Least
    <3>2. past'[n].ago = 0
      BY <2>7, PollIsRecalled
    <3>3. w.streak >= Least(limits.samples, n) /\ w.since >= Least(limits.duration, past'[n].ago)
          /\ w.last >= Least(limits.cooldown, past'[n].ago)
      BY <1>2, <2>4, <2>7, <3>1, <3>2 DEF Least
    <3>4. Counts(violations[id], n, id)'
      BY <1>2, <2>3, <2>5, <2>6, <3>3 DEF Counts, Unreported, Notifies
    <3> QED BY <2>3, <3>4
  <2>8. CASE n # 1
    <3>1. /\ n - 1 \in DOMAIN past /\ n - 1 \in Nat
          /\ past'[n] = [past[n - 1] EXCEPT !.ago = @ + delay]
      BY <2>1, <2>8, PollIsRecalled
    <3>2. /\ "ago" \in DOMAIN past[n - 1] /\ past[n - 1].ago \in Nat
      BY <3>1 DEF PastInv
    <3>3. past'[n].ago = past[n - 1].ago + delay
      BY <3>1, <3>2
    <3>4. ASSUME NEW j \in 1..(n - 1)
          PROVE  past'[j + 1].over = past[j].over /\ past'[j + 1].events = past[j].events
                 /\ j + 1 \in 1..n
      <4>1. /\ j + 1 \in DOMAIN past' /\ j + 1 # 1 /\ (j + 1) - 1 = j /\ j + 1 \in 1..n
        BY <1>1, <2>1 DEF Recalled
      <4>2. past'[j + 1] = [past[j] EXCEPT !.ago = @ + delay]
        BY <4>1, PollIsRecalled
      <4>3. past'[j + 1].over = past[j].over /\ past'[j + 1].events = past[j].events
        BY <4>2
      <4> QED BY <4>1, <4>3
    <3>5. \A j \in 1..(n - 1) : id \in past[j].over
      BY <1>4, <3>4
    <3>6. id \in trackedIds
      <4>1. 1 \in 1..(n - 1) /\ past # <<>>
        BY <2>1, <2>8, <3>1
      <4>2. id \in trackedIds \/ JustIgnored("events", id)
        BY <3>5, <4>1 DEF BreachInv
      <4> QED BY <2>2, <4>2, JustIgnoredIsUnseen
    <3> DEFINE u == violations[id]
    <3>7. id \in DOMAIN violations /\ Counts(u, n - 1, id)
      BY <3>1, <3>5, <3>6 DEF BreachInv
    <3>8. /\ u.streak \in Nat /\ u.since \in Nat /\ u.last \in Nat
          /\ w.streak = Least(limits.samples, u.streak + 1)
          /\ w.since = Least(limits.duration, u.since + delay)
          /\ w.last = Least(limits.cooldown, u.last + delay)
      BY <1>2, <3>7, CountingIs DEF ViolationsInv, Violation
    <3>9. /\ u.streak >= Least(limits.samples, n - 1)
          /\ u.since >= Least(limits.duration, past[n - 1].ago)
          /\ Unreported(n - 1, id) => u.last >= Least(limits.cooldown, past[n - 1].ago)
      BY <3>7 DEF Counts
    <3>10. (\A k \in 1..n : id \notin past'[k].events) => Unreported(n - 1, id)
      BY <3>4 DEF Unreported
    <3> HIDE DEF u, w, v
    <3>11. w.streak >= Least(limits.samples, n)
      BY <1>2, <2>1, <3>8, <3>9 DEF Least
    <3>12. w.since >= Least(limits.duration, past'[n].ago)
      BY <1>2, <3>2, <3>3, <3>8, <3>9 DEF Least
    <3>13. Unreported(n - 1, id) => w.last >= Least(limits.cooldown, past'[n].ago)
      BY <1>2, <3>2, <3>3, <3>8, <3>9 DEF Least
    <3>14. Counts(violations[id], n, id)'
      BY <1>2, <2>3, <2>5, <2>6, <3>10, <3>11, <3>12, <3>13
         DEF Counts, Unreported, Notifies, v
    <3> QED BY <2>3, <3>14
  <2> QED BY <2>7, <2>8
<1> QED
  BY <1>3, <1>4 DEF BreachInv

LEMMA BreachIsReported ==
    ASSUME SettingsInv, PastInv, BreachInv
    PROVE  BreachReported
<1> SUFFICES ASSUME NEW id \in trackedIds, NEW n \in DOMAIN past,
                    n > limits.samples,
                    past[n].ago >= Max({limits.cooldown, limits.duration}),
                    \A k \in 1..n : id \in past[k].over,
                    \A k \in 1..n : id \notin past[k].events
             PROVE  FALSE
  BY DEF BreachReported, Throughout
<1>1. /\ limits.samples \in Nat /\ limits.duration \in Nat /\ limits.cooldown \in Nat
      /\ past[n].ago \in Nat /\ n \in Nat
  BY DEF SettingsInv, IsLimits, PastInv
<1>2. past[n].ago >= limits.cooldown /\ past[n].ago >= limits.duration
  <2> DEFINE both == {limits.cooldown, limits.duration}
  <2>1. IsFiniteSet(both)
    <3>1. both = {limits.cooldown} \cup {limits.duration}
      OBVIOUS
    <3> HIDE DEF both
    <3> QED BY <3>1, FS_Singleton, FS_AddElement
  <2>2. both \subseteq Nat /\ both # {}
    BY <1>1
  <2>3. Max(both) \in both /\ \A x \in both : x <= Max(both)
    <3> HIDE DEF both
    <3> QED BY <2>1, <2>2, Largest
  <2>4. PICK m \in Nat : m = Max(both) /\ limits.cooldown <= m /\ limits.duration <= m
    BY <2>2, <2>3
  <2> QED BY <1>1, <2>4
<1> DEFINE v == violations[id]
<1>3. Counts(v, n, id)
  BY DEF BreachInv
<1>4. /\ v.streak >= Least(limits.samples, n) /\ v.since >= Least(limits.duration, past[n].ago)
      /\ v.last >= Least(limits.cooldown, past[n].ago) /\ ~Notifies(v, limits)
  BY <1>3 DEF Counts, Unreported
<1> HIDE DEF v
<1>5. v.streak >= limits.samples /\ v.since >= limits.duration /\ v.last >= limits.cooldown
  BY <1>1, <1>2, <1>4 DEF Least
<1> QED
  BY <1>4, <1>5 DEF Notifies

-----------------------------------------------------------------------------
(* What a click does to the monitor's books: it forgets the process.       *)

LEMMA ClickMonitor ==
    ASSUME SettingsInv, Clicks
    PROVE  /\ UNCHANGED <<past, limits>>
           /\ \/ UNCHANGED <<violations, trackedIds>>
              \/ \E id : /\ JustIgnored("events", id)'
                         /\ violations' = Restrict(violations, DOMAIN violations \ {id})
                         /\ trackedIds' = trackedIds \ {id}
           /\ \A kind, x : JustIgnored(kind, x) => JustIgnored(kind, x)'
<1>1. PICK kind, o, time : Click(kind, o, time)
  BY ClickIs
<1> HIDE DEF Forever
<1>2. UNCHANGED past
  BY ClickKeeps
<1>3. UNCHANGED limits
  BY DEF Clicks, IgnoreEventForHour, IgnoreTreeForHour, IgnoreAppForHour, AlwaysIgnoreEvent,
         AlwaysIgnoreTrees, AlwaysIgnoreApp, monitorVars, IgnoreFor, IgnorePermanently
<1>4. \A a, x : JustIgnored(a, x) => JustIgnored(a, x)'
  BY <1>1 DEF Click, Until, JustIgnored
<1>5. \/ UNCHANGED <<violations, trackedIds>>
      \/ \E p \in offers.events, t \in {Hour, Forever} : Forgotten(p.id) /\ Clicked(p.id, "events", t)
  <2>1. CASE IgnoreEventForHour
    BY <2>1 DEF IgnoreEventForHour, IgnoreFor
  <2>2. CASE AlwaysIgnoreEvent
    BY <2>2 DEF AlwaysIgnoreEvent, IgnorePermanently
  <2>3. CASE \/ IgnoreTreeForHour \/ IgnoreAppForHour \/ AlwaysIgnoreTrees \/ AlwaysIgnoreApp
    BY <2>3 DEF IgnoreTreeForHour, IgnoreAppForHour, AlwaysIgnoreTrees, AlwaysIgnoreApp, monitorVars
  <2> QED BY <2>1, <2>2, <2>3 DEF Clicks
<1>6. ASSUME NEW p, NEW t \in {Hour, Forever}, Forgotten(p.id), Clicked(p.id, "events", t)
      PROVE  /\ JustIgnored("events", p.id)'
             /\ violations' = Restrict(violations, DOMAIN violations \ {p.id})
             /\ trackedIds' = trackedIds \ {p.id}
  BY <1>6 DEF Forgotten, Clicked, Until, JustIgnored
<1> QED
  BY <1>2, <1>3, <1>4, <1>5, <1>6

LEMMA ClickBooks ==
    ASSUME SettingsInv, Clicks
    PROVE  /\ ViolationsInv => ViolationsInv'
           /\ EventsSpacedInv => EventsSpacedInv'
           /\ BreachInv => BreachInv'
<1>1. /\ UNCHANGED <<past, limits>>
      /\ \A kind, x : JustIgnored(kind, x) => JustIgnored(kind, x)'
  BY ClickMonitor
<1>2. /\ trackedIds' \subseteq trackedIds /\ DOMAIN violations' \subseteq DOMAIN violations
      /\ \A id \in DOMAIN violations' : violations'[id] = violations[id]
      /\ \A id \in DOMAIN violations : id \in DOMAIN violations' \/ JustIgnored("events", id)'
      /\ \A id \in trackedIds : id \in trackedIds' \/ JustIgnored("events", id)'
      /\ \A id \in trackedIds' : id \in DOMAIN violations => id \in DOMAIN violations'
  <2>1. CASE UNCHANGED <<violations, trackedIds>>
    BY <2>1
  <2>2. CASE \E id : /\ JustIgnored("events", id)'
                     /\ violations' = Restrict(violations, DOMAIN violations \ {id})
                     /\ trackedIds' = trackedIds \ {id}
    BY <2>2 DEF Restrict
  <2> QED BY <2>1, <2>2, ClickMonitor
<1>3. ViolationsInv => ViolationsInv'
  BY <1>1, <1>2 DEF ViolationsInv, Violation, Since
<1>4. EventsSpacedInv => EventsSpacedInv'
  BY <1>1, <1>2 DEF EventsSpacedInv
<1>5. BreachInv => BreachInv'
  BY <1>1, <1>2 DEF BreachInv, Counts, Unreported, Notifies
<1> QED
  BY <1>3, <1>4, <1>5

-----------------------------------------------------------------------------
(* The books of the stale service, of trees and of groups alike.           *)

Samples(old, new, said, there, delay) ==
    /\ DOMAIN new = past'[1][there]
    /\ past'[1][said] \subseteq past'[1][there]
    /\ \A a \in DOMAIN new :
         /\ Streak(new[a])
         /\ IF past'[1].quiet THEN new[a].streak = 0
            ELSE new[a].streak <= IF a \in DOMAIN old THEN old[a].streak + 1 ELSE 1
         /\ a \in DOMAIN old => new[a].last <= old[a].last + delay
         /\ a \in past'[1][said] =>
              /\ new[a].last = 0 /\ new[a].streak >= stalePolicy.samples
              /\ a \in DOMAIN old => old[a].last + delay >= stalePolicy.cooldown

LEMMA SampleIs ==
    ASSUME SettingsInv, NEW old, \A a \in DOMAIN old : Streak(old[a]),
           NEW active, NEW permitted \in BOOLEAN, NEW delay \in Nat, NEW a \in active
    PROVE  LET states == Tracking(old, active, stalePolicy, delay)
               new == AfterSample(states, permitted, stalePolicy)
               told == Notified(states, permitted, stalePolicy)
           IN  /\ DOMAIN new = active /\ told \subseteq active
               /\ Streak(new[a])
               /\ IF ~permitted THEN new[a].streak = 0
                  ELSE new[a].streak <= IF a \in DOMAIN old THEN old[a].streak + 1 ELSE 1
               /\ a \in DOMAIN old => new[a].last <= old[a].last + delay
               /\ a \in told =>
                    /\ new[a].last = 0 /\ new[a].streak >= stalePolicy.samples
                    /\ a \in DOMAIN old => old[a].last + delay >= stalePolicy.cooldown
<1> DEFINE states == Tracking(old, active, stalePolicy, delay)
           new == AfterSample(states, permitted, stalePolicy)
           told == Notified(states, permitted, stalePolicy)
           before == states[a]
           after == Sampled(before, permitted, stalePolicy)
<1>1. stalePolicy.samples \in Nat \ {0} /\ stalePolicy.cooldown \in Nat
  BY DEF SettingsInv, IsStalePolicy
<1>2. DOMAIN states = active
  BY DEF Tracking
<1>3. before = IF a \in DOMAIN old
               THEN [old[a] EXCEPT !.last = Least(stalePolicy.cooldown, @ + delay)]
               ELSE [streak |-> 0, last |-> stalePolicy.cooldown]
  BY DEF Tracking, Untracked
<1>4. /\ Streak(before)
      /\ IF a \in DOMAIN old
         THEN /\ before.streak = old[a].streak
              /\ before.last = Least(stalePolicy.cooldown, old[a].last + delay)
         ELSE before.streak = 0 /\ before.last = stalePolicy.cooldown
  <2>1. CASE a \in DOMAIN old
    <3> DEFINE u == old[a]
    <3>1. Streak(u) /\ before = [u EXCEPT !.last = Least(stalePolicy.cooldown, @ + delay)]
      BY <1>3, <2>1
    <3>2. u.last \in Nat
      BY <1>1, <3>1 DEF Streak
    <3> HIDE DEF u, before
    <3>3. /\ DOMAIN before = {"streak", "last"} /\ before.streak = u.streak
          /\ before.last = Least(stalePolicy.cooldown, u.last + delay)
      BY <3>1 DEF Streak
    <3>4. before.last \in 0..stalePolicy.cooldown
      BY <1>1, <3>2, <3>3 DEF Least
    <3>5. Streak(before)
      BY <3>1, <3>3, <3>4 DEF Streak
    <3> QED BY <2>1, <3>3, <3>5 DEF u
  <2>2. CASE a \notin DOMAIN old
    <3> HIDE DEF before
    <3> QED BY <1>1, <1>3, <2>2 DEF Streak
  <2> QED BY <2>1, <2>2
<1>5. /\ DOMAIN new = active /\ told \subseteq active
      /\ new[a] = IF a \in told THEN [after EXCEPT !.last = 0] ELSE after
      /\ a \in told <=> permitted /\ Due(after, stalePolicy)
  BY <1>2 DEF AfterSample, Notified
<1> HIDE DEF before, states, new, told
<1>6. /\ DOMAIN after = {"streak", "last"} /\ after.last = before.last
      /\ after.streak = IF permitted THEN Least(stalePolicy.samples, before.streak + 1) ELSE 0
  BY <1>4 DEF Sampled, Counted, Streak
<1> HIDE DEF after
<1>7. before.streak \in Nat /\ before.last \in Nat
  BY <1>1, <1>4 DEF Streak
<1>8. /\ after.streak \in 0..stalePolicy.samples /\ after.streak <= before.streak + 1
      /\ permitted \/ after.streak = 0
  BY <1>1, <1>6, <1>7 DEF Least
<1>9. /\ DOMAIN new[a] = {"streak", "last"} /\ new[a].streak = after.streak
      /\ new[a].last = IF a \in told THEN 0 ELSE before.last
  BY <1>5, <1>6
<1>10. Streak(new[a])
  BY <1>1, <1>4, <1>8, <1>9 DEF Streak
<1>11. IF ~permitted THEN new[a].streak = 0
       ELSE new[a].streak <= IF a \in DOMAIN old THEN old[a].streak + 1 ELSE 1
  BY <1>4, <1>8, <1>9
<1>12. ASSUME a \in DOMAIN old
       PROVE  /\ new[a].last <= old[a].last + delay
              /\ a \in told => old[a].last + delay >= stalePolicy.cooldown
  <2>1. old[a].last \in Nat /\ before.last = Least(stalePolicy.cooldown, old[a].last + delay)
    BY <1>1, <1>4, <1>12 DEF Streak
  <2> QED BY <1>1, <1>5, <1>6, <1>9, <2>1 DEF Least, Due
<1>13. a \in told => new[a].last = 0 /\ new[a].streak >= stalePolicy.samples
  BY <1>5, <1>9 DEF Due
<1> QED
  BY <1>5, <1>10, <1>11, <1>12, <1>13 DEF new, told, states

LEMMA StalePolls ==
    ASSUME SettingsInv, PastInv, StreaksInv, NEW s, NEW level, NEW delay, Polled(s, level, delay)
    PROVE  /\ Samples(tracked, tracked', "trees", "alone", delay)
           /\ Samples(trackedGroups, trackedGroups', "groups", "dirs", delay)
<1>1. /\ past'[1].alone = OfferedAlone(staleFound')
      /\ past'[1].dirs = {g.dir : g \in staleFound'.groups}
      /\ past'[1].quiet = (stalePolicy.onlyUnderPressure /\ level = "Normal")
      /\ past'[1].trees = {w.root : w \in staleNotices'.trees}
      /\ past'[1].groups = {g.dir : g \in staleNotices'.groups}
  BY PollIsFirst
<1>2. delay \in Nat
  BY PollSettings
<1>3. CASE stalePolicy.enabled
  <2> DEFINE permitted == Permitted(stalePolicy, level)
             alone == OfferedAlone(staleFound')
             dirs == {g.dir : g \in staleFound'.groups}
             trees == Tracking(tracked, alone, stalePolicy, delay)
             groups == Tracking(trackedGroups, dirs, stalePolicy, delay)
  <2>1. /\ tracked' = AfterSample(trees, permitted, stalePolicy)
        /\ trackedGroups' = AfterSample(groups, permitted, stalePolicy)
        /\ staleNotices'.trees = {w \in staleFound'.workloads :
                                    w.root \in Notified(trees, permitted, stalePolicy)}
        /\ staleNotices'.groups = {g \in staleFound'.groups :
                                     g.dir \in Notified(groups, permitted, stalePolicy)}
    <3>1. EvaluateStale(Restrict(s, Shown(s, delay)), level, delay)
      BY DEF Polled
    <3> QED BY <1>3, <3>1 DEF EvaluateStale
  <2>2. permitted \in BOOLEAN /\ (past'[1].quiet <=> ~permitted)
    BY <1>1 DEF Permitted
  <2>3. /\ past'[1].trees \subseteq Notified(trees, permitted, stalePolicy)
        /\ past'[1].groups \subseteq Notified(groups, permitted, stalePolicy)
    BY <1>1, <2>1
  <2> HIDE DEF permitted, alone, dirs
  <2>4. /\ \A a \in DOMAIN tracked : Streak(tracked[a])
        /\ \A a \in DOMAIN trackedGroups : Streak(trackedGroups[a])
    BY DEF StreaksInv, Streaks
  <2>5. Samples(tracked, tracked', "trees", "alone", delay)
    <3>1. past'[1].alone = alone
      BY <1>1 DEF alone
    <3>2. DOMAIN tracked' = alone /\ Notified(trees, permitted, stalePolicy) \subseteq alone
      BY <2>1 DEF AfterSample, Tracking, Notified
    <3>3. ASSUME NEW a \in alone
          PROVE  /\ Streak(tracked'[a])
                 /\ IF ~permitted THEN tracked'[a].streak = 0
                    ELSE tracked'[a].streak <= IF a \in DOMAIN tracked THEN tracked[a].streak + 1 ELSE 1
                 /\ a \in DOMAIN tracked => tracked'[a].last <= tracked[a].last + delay
                 /\ a \in Notified(trees, permitted, stalePolicy) =>
                      /\ tracked'[a].last = 0 /\ tracked'[a].streak >= stalePolicy.samples
                      /\ a \in DOMAIN tracked => tracked[a].last + delay >= stalePolicy.cooldown
      BY <1>2, <2>1, <2>2, <2>4, SampleIs
    <3> HIDE DEF trees
    <3> QED BY <2>2, <2>3, <3>1, <3>2, <3>3 DEF Samples
  <2>6. Samples(trackedGroups, trackedGroups', "groups", "dirs", delay)
    <3>1. past'[1].dirs = dirs
      BY <1>1 DEF dirs
    <3>2. DOMAIN trackedGroups' = dirs /\ Notified(groups, permitted, stalePolicy) \subseteq dirs
      BY <2>1 DEF AfterSample, Tracking, Notified
    <3>3. ASSUME NEW a \in dirs
          PROVE  /\ Streak(trackedGroups'[a])
                 /\ IF ~permitted THEN trackedGroups'[a].streak = 0
                    ELSE trackedGroups'[a].streak <=
                            IF a \in DOMAIN trackedGroups THEN trackedGroups[a].streak + 1 ELSE 1
                 /\ a \in DOMAIN trackedGroups =>
                      trackedGroups'[a].last <= trackedGroups[a].last + delay
                 /\ a \in Notified(groups, permitted, stalePolicy) =>
                      /\ trackedGroups'[a].last = 0 /\ trackedGroups'[a].streak >= stalePolicy.samples
                      /\ a \in DOMAIN trackedGroups =>
                           trackedGroups[a].last + delay >= stalePolicy.cooldown
      BY <1>2, <2>1, <2>2, <2>4, SampleIs
    <3> HIDE DEF groups
    <3> QED BY <2>2, <2>3, <3>1, <3>2, <3>3 DEF Samples
  <2> QED BY <2>5, <2>6
<1>4. CASE ~stalePolicy.enabled
  <2>1. /\ tracked' = <<>> /\ trackedGroups' = <<>>
        /\ staleFound' = NothingStale /\ staleNotices' = NoStaleNotices
    BY <1>4 DEF Polled, EvaluateStale
  <2>2. /\ past'[1].alone = {} /\ past'[1].dirs = {}
        /\ past'[1].trees = {} /\ past'[1].groups = {}
    BY <1>1, <2>1 DEF NothingStale, NoStaleNotices, OfferedAlone
  <2> QED BY <2>1, <2>2 DEF Samples
<1> QED
  BY <1>3, <1>4

(* What is remembered of earlier polls is what was.                        *)
LEMMA PollShifts ==
    ASSUME SettingsInv, PastInv, NEW s, NEW level, NEW delay, Polled(s, level, delay),
           NEW k \in DOMAIN past', k # 1
    PROVE  /\ k - 1 \in DOMAIN past /\ k \in Nat /\ k > 1
           /\ past[k - 1].ago \in Nat /\ past'[k].ago = past[k - 1].ago + delay
           /\ \A facet \in {"over", "alone", "dirs", "quiet", "sampled", "watched", "safe",
                            "events", "trees", "groups", "apps"} :
                past'[k][facet] = past[k - 1][facet]
<1>1. /\ k - 1 \in DOMAIN past /\ k \in Nat /\ k > 1
      /\ past'[k] = [past[k - 1] EXCEPT !.ago = @ + delay]
  BY PollIsRecalled
<1> DEFINE facets == {"ago", "over", "alone", "dirs", "quiet", "sampled", "watched", "safe",
                      "events", "trees", "groups", "apps"}
<1>2. DOMAIN past[k - 1] = facets /\ past[k - 1].ago \in Nat
  BY <1>1 DEF PastInv
<1>3. past'[k].ago = past[k - 1].ago + delay
  BY <1>1, <1>2
<1>4. ASSUME NEW facet \in facets, facet # "ago"
      PROVE  past'[k][facet] = past[k - 1][facet]
  <2> HIDE DEF facets
  <2> QED BY <1>1, <1>2, <1>4
<1> QED
  BY <1>1, <1>2, <1>3, <1>4

LEMMA PollStreaks ==
    ASSUME SettingsInv, PastInv, StreaksInv, NEW s, NEW level, NEW delay, Polled(s, level, delay),
           NEW old, NEW new, NEW said, NEW there \in {"alone", "dirs"},
           Streaks(old, there), Samples(old, new, said, there, delay)
    PROVE  \A a \in DOMAIN new :
              /\ Streak(new[a])
              /\ \A k \in 1..new[a].streak :
                   k \in DOMAIN past' /\ ~past'[k].quiet /\ a \in past'[k][there]
<1>1. PICK m : Recalled(m)
  BY PollIsRecalled
<1>2. stalePolicy.samples \in Nat \ {0} /\ stalePolicy.samples <= Memory /\ Memory \in Nat
  BY MonitoringAssumption DEF SettingsInv, IsStalePolicy
<1>3. ASSUME NEW a \in DOMAIN new, NEW k \in 1..new[a].streak
      PROVE  k \in DOMAIN past' /\ ~past'[k].quiet /\ a \in past'[k][there]
  <2>1. /\ Streak(new[a]) /\ a \in past'[1][there]
        /\ IF past'[1].quiet THEN new[a].streak = 0
           ELSE new[a].streak <= IF a \in DOMAIN old THEN old[a].streak + 1 ELSE 1
    BY DEF Samples
  <2>2. new[a].streak \in Nat /\ new[a].streak <= stalePolicy.samples /\ k \in Nat /\ k >= 1
        /\ k <= new[a].streak
    BY <1>2, <2>1 DEF Streak
  <2>3. ~past'[1].quiet
    BY <2>1, <2>2
  <2>4. CASE k = 1
    BY <2>1, <2>3, <2>4, PollIsRecalled
  <2>5. CASE k # 1
    <3>1. a \in DOMAIN old /\ Streak(old[a])
      BY <2>1, <2>2, <2>3, <2>5 DEF Streaks
    <3>2. old[a].streak \in Nat /\ k - 1 \in 1..old[a].streak
      BY <1>2, <2>1, <2>2, <2>3, <2>5, <3>1 DEF Streak
    <3>3. k - 1 \in DOMAIN past /\ ~past[k - 1].quiet /\ a \in past[k - 1][there]
      BY <3>1, <3>2 DEF Streaks
    <3>4. k \in DOMAIN past'
      BY <1>1, <1>2, <2>2, <3>3 DEF Recalled, PastInv
    <3>5. past'[k].quiet = past[k - 1].quiet /\ past'[k][there] = past[k - 1][there]
      BY <2>5, <3>4, PollShifts
    <3> QED BY <3>3, <3>4, <3>5
  <2> QED BY <2>4, <2>5
<1> QED
  BY <1>3 DEF Samples

LEMMA PollStale ==
    ASSUME SettingsInv, PastInv, StreaksInv, NEW s, NEW level, NEW delay, Polled(s, level, delay)
    PROVE  StreaksInv' /\ StaleSustained'
<1>1. /\ Samples(tracked, tracked', "trees", "alone", delay)
      /\ Samples(trackedGroups, trackedGroups', "groups", "dirs", delay)
  BY StalePolls
<1>2. UNCHANGED stalePolicy /\ stalePolicy.samples \in Nat \ {0}
  BY PollSettings DEF SettingsInv, IsStalePolicy
<1>3. \A a \in DOMAIN tracked' :
         /\ Streak(tracked'[a])
         /\ \A k \in 1..tracked'[a].streak :
              k \in DOMAIN past' /\ ~past'[k].quiet /\ a \in past'[k].alone
  BY <1>1, PollStreaks DEF StreaksInv
<1>4. \A a \in DOMAIN trackedGroups' :
         /\ Streak(trackedGroups'[a])
         /\ \A k \in 1..trackedGroups'[a].streak :
              k \in DOMAIN past' /\ ~past'[k].quiet /\ a \in past'[k].dirs
  BY <1>1, PollStreaks DEF StreaksInv
<1>5. StreaksInv'
  BY <1>2, <1>3, <1>4 DEF StreaksInv, Streaks, Streak
<1>6. ASSUME NEW a \in past'[1].trees
      PROVE  /\ stalePolicy.samples \in DOMAIN past'
             /\ \A k \in 1..stalePolicy.samples : ~past'[k].quiet /\ a \in past'[k].alone
  <2>1. a \in DOMAIN tracked' /\ tracked'[a].streak >= stalePolicy.samples
    BY <1>1 DEF Samples
  <2>2. tracked'[a].streak \in Nat
    BY <1>2, <1>3, <2>1 DEF Streak
  <2>3. 1..stalePolicy.samples \subseteq 1..tracked'[a].streak
        /\ stalePolicy.samples \in 1..stalePolicy.samples
    BY <1>2, <2>1, <2>2
  <2> QED BY <1>3, <2>1, <2>3
<1>7. ASSUME NEW a \in past'[1].groups
      PROVE  /\ stalePolicy.samples \in DOMAIN past'
             /\ \A k \in 1..stalePolicy.samples : ~past'[k].quiet /\ a \in past'[k].dirs
  <2>1. a \in DOMAIN trackedGroups' /\ trackedGroups'[a].streak >= stalePolicy.samples
    BY <1>1 DEF Samples
  <2>2. trackedGroups'[a].streak \in Nat
    BY <1>2, <1>4, <2>1 DEF Streak
  <2>3. 1..stalePolicy.samples \subseteq 1..trackedGroups'[a].streak
        /\ stalePolicy.samples \in 1..stalePolicy.samples
    BY <1>2, <2>1, <2>2
  <2> QED BY <1>4, <2>1, <2>3
<1>8. StaleSustained'
  BY <1>2, <1>6, <1>7 DEF StaleSustained, Throughout
<1> QED
  BY <1>5, <1>8

LEMMA AloneIsFound ==
    ASSUME NEW s, NEW level, NEW delay, Polled(s, level, delay)
    PROVE  OfferedAlone(staleFound') \subseteq {w.root : w \in staleFound'.workloads}
<1>1. CASE stalePolicy.enabled
  <2> DEFINE r == Restrict(s, Shown(s, delay))
             all == Eligible(r, stalePolicy, DOMAIN Left(staleIgnored, delay))
             direct == {w \in all : w.memory >= stalePolicy.minTree}
  <2>1. staleFound' = Assembled(all, stalePolicy)
    BY <1>1 DEF Polled, EvaluateStale, Detection
  <2> HIDE DEF all
  <2>2. direct \subseteq staleFound'.workloads /\ staleFound'.direct = {w.root : w \in direct}
    BY <2>1 DEF Assembled
  <2>3. OfferedAlone(staleFound') \subseteq staleFound'.direct
    BY DEF OfferedAlone
  <2> HIDE DEF direct
  <2> QED BY <2>2, <2>3
<1>2. CASE ~stalePolicy.enabled
  <2>1. staleFound' = NothingStale
    BY <1>2 DEF Polled, EvaluateStale
  <2> QED BY <2>1 DEF OfferedAlone, NothingStale
<1> QED
  BY <1>1, <1>2

(* What was ignored before this poll it does not offer.                    *)
LEMMA JustIgnoredIsNotOffered ==
    ASSUME PollsWithinTheHour, SettingsInv, TableInv, PastInv, QuietInv,
           NEW s, NEW level, NEW delay, Polled(s, level, delay),
           NEW said, NEW there, <<said, there>> \in {<<"trees", "alone">>, <<"groups", "dirs">>},
           NEW a, JustIgnored(said, a)
    PROVE  a \notin past'[1][there]
<1> DEFINE i == <<said, a>>
<1>1. i \in DOMAIN quiet /\ quiet[i] \in {Hour, Forever} /\ i[1] = said /\ i[2] = a
  BY DEF JustIgnored
<1>2. delay \in delays /\ delay \in Nat /\ delay < Hour
  BY DEF Polled, SettingsInv
<1>3. quiet[i] > delay
  BY <1>1, <1>2, ForeverIsLong
<1>4. said \in {"events", "trees", "apps"}
  BY <1>1 DEF QuietInv
<1>5. said = "trees" /\ there = "alone"
  BY <1>4
<1>6. \A w \in staleFound'.workloads : a # w.root
  BY <1>1, <1>3, <1>5, IgnoredIsUnseen
<1>7. past'[1].alone \subseteq {w.root : w \in staleFound'.workloads}
  BY AloneIsFound, PollIsFirst
<1> QED
  BY <1>5, <1>6, <1>7

SpacedNext(new, said, there) ==
    /\ \A k \in DOMAIN past' : \A a \in past'[k][said] :
         /\ a \in past'[k][there]
         /\ \/ \E j \in 1..(k - 1) : a \notin past'[j][there]
            \/ a \in DOMAIN new /\ new[a].last <= past'[k].ago
            \/ JustIgnored(said, a)'
    /\ \A a \in past'[1][said], k \in 2..Len(past') :
         a \in past'[k][said] =>
             \/ past'[k].ago >= stalePolicy.cooldown
             \/ \E j \in 2..(k - 1) : a \notin past'[j][there]

LEMMA PollSpaced ==
    ASSUME PollsWithinTheHour, SettingsInv, TableInv, PastInv, QuietInv, StreaksInv,
           NEW s, NEW level, NEW delay, Polled(s, level, delay),
           NEW said, NEW there, <<said, there>> \in {<<"trees", "alone">>, <<"groups", "dirs">>},
           NEW old, NEW new, Samples(old, new, said, there, delay),
           \A a \in DOMAIN old : Streak(old[a]), SpacedSoFar(old, said, there)
    PROVE  SpacedNext(new, said, there)
<1>1. PICK n : Recalled(n)
  BY PollIsRecalled
<1>2. delay \in Nat /\ stalePolicy.cooldown \in Nat
  BY PollSettings DEF SettingsInv, IsStalePolicy
<1>3. said \in {"trees", "groups"} /\ there \in {"alone", "dirs"}
  OBVIOUS
<1>7. ASSUME NEW a, JustIgnored(said, a) PROVE a \notin past'[1][there]
  BY <1>7, JustIgnoredIsNotOffered
<1>4. ASSUME NEW k \in DOMAIN past', k # 1, NEW a \in past'[k][said]
      PROVE  /\ k - 1 \in DOMAIN past /\ k \in Nat /\ k > 1
             /\ past[k - 1].ago \in Nat /\ past'[k].ago = past[k - 1].ago + delay
             /\ a \in past'[k][there]
             /\ \/ \E j \in 2..(k - 1) : a \notin past'[j][there]
                \/ a \in DOMAIN old /\ old[a].last <= past[k - 1].ago
                \/ JustIgnored(said, a)
  <2>1. /\ k - 1 \in DOMAIN past /\ k \in Nat /\ k > 1
        /\ past[k - 1].ago \in Nat /\ past'[k].ago = past[k - 1].ago + delay
        /\ past'[k][said] = past[k - 1][said] /\ past'[k][there] = past[k - 1][there]
    BY <1>3, <1>4, PollShifts
  <2>2. /\ a \in past[k - 1][there]
        /\ \/ \E j \in 1..(k - 2) : a \notin past[j][there]
           \/ a \in DOMAIN old /\ old[a].last <= past[k - 1].ago
           \/ JustIgnored(said, a)
    <3>1. k - 1 \in DOMAIN past /\ a \in past[k - 1][said] /\ (k - 1) - 1 = k - 2
      BY <1>4, <2>1
    <3> QED BY <3>1 DEF SpacedSoFar
  <2>3. ASSUME NEW j \in 1..(k - 2), a \notin past[j][there]
        PROVE  \E l \in 2..(k - 1) : a \notin past'[l][there]
    <3>1. j + 1 \in DOMAIN past' /\ j + 1 # 1 /\ (j + 1) - 1 = j /\ j + 1 \in 2..(k - 1)
      BY <1>1, <2>1 DEF Recalled
    <3>2. past'[j + 1][there] = past[j][there]
      BY <1>3, <3>1, PollShifts
    <3> QED BY <2>3, <3>1, <3>2
  <2> QED BY <2>1, <2>2, <2>3
<1>5. ASSUME NEW k \in DOMAIN past', NEW a \in past'[k][said]
      PROVE  /\ a \in past'[k][there]
             /\ \/ \E j \in 1..(k - 1) : a \notin past'[j][there]
                \/ a \in DOMAIN new /\ new[a].last <= past'[k].ago
                \/ JustIgnored(said, a)'
  <2>1. CASE k = 1
    <3>1. a \in DOMAIN new /\ a \in past'[1][there] /\ new[a].last = 0 /\ past'[1].ago = 0
      BY <2>1, PollIsRecalled DEF Samples
    <3> QED BY <2>1, <3>1
  <2>2. CASE k # 1
    <3>1. /\ k - 1 \in DOMAIN past /\ k \in Nat /\ k > 1
          /\ past[k - 1].ago \in Nat /\ past'[k].ago = past[k - 1].ago + delay
          /\ a \in past'[k][there]
          /\ \/ \E j \in 2..(k - 1) : a \notin past'[j][there]
             \/ a \in DOMAIN old /\ old[a].last <= past[k - 1].ago
             \/ JustIgnored(said, a)
      BY <1>4, <2>2
    <3>2. CASE \E j \in 2..(k - 1) : a \notin past'[j][there]
      <4>1. PICK j \in 2..(k - 1) : a \notin past'[j][there]
        BY <3>2
      <4>2. j \in 1..(k - 1)
        OBVIOUS
      <4> QED BY <3>1, <4>1, <4>2
    <3>3. CASE a \notin past'[1][there]
      <4>1. 1 \in 1..(k - 1)
        BY <3>1
      <4> QED BY <3>1, <3>3, <4>1
    <3>4. CASE a \in past'[1][there] /\ a \in DOMAIN old /\ old[a].last <= past[k - 1].ago
      <4>1. a \in DOMAIN new /\ new[a].last <= old[a].last + delay /\ Streak(new[a]) /\ Streak(old[a])
        BY <3>4 DEF Samples
      <4>2. old[a].last \in Nat /\ new[a].last \in Nat
        BY <1>2, <4>1 DEF Streak
      <4>3. new[a].last <= past'[k].ago
        BY <1>2, <3>1, <3>4, <4>1, <4>2
      <4> QED BY <3>1, <4>1, <4>3
    <3>5. CASE JustIgnored(said, a)
      BY <1>7, <3>3, <3>5
    <3> QED BY <3>1, <3>2, <3>3, <3>4, <3>5
  <2> QED BY <2>1, <2>2
<1>6. ASSUME NEW a \in past'[1][said], NEW k \in 2..Len(past'), a \in past'[k][said]
      PROVE  \/ past'[k].ago >= stalePolicy.cooldown
             \/ \E j \in 2..(k - 1) : a \notin past'[j][there]
  <2>1. k \in DOMAIN past' /\ k # 1
    BY <1>1 DEF Recalled
  <2>2. /\ past[k - 1].ago \in Nat /\ past'[k].ago = past[k - 1].ago + delay
        /\ \/ \E j \in 2..(k - 1) : a \notin past'[j][there]
           \/ a \in DOMAIN old /\ old[a].last <= past[k - 1].ago
           \/ JustIgnored(said, a)
    BY <1>4, <1>6, <2>1
  <2>3. /\ a \in DOMAIN new /\ a \in past'[1][there]
        /\ a \in DOMAIN old => old[a].last + delay >= stalePolicy.cooldown
    BY DEF Samples
  <2>4. CASE a \in DOMAIN old /\ old[a].last <= past[k - 1].ago
    <3>1. old[a].last \in Nat
      BY <1>2, <2>4 DEF Streak
    <3> QED BY <1>2, <2>2, <2>3, <2>4, <3>1
  <2>5. CASE JustIgnored(said, a)
    <3>1. a \notin past'[1][there]
      BY <1>7, <2>5
    <3> QED BY <2>3, <3>1
  <2> QED BY <2>2, <2>4, <2>5
<1> QED
  BY <1>5, <1>6 DEF SpacedNext

StaleSpaced ==
    past # <<>> =>
        /\ \A x \in past[1].trees :
              Spaced(x, LAMBDA poll : x \in poll.trees, LAMBDA poll : x \in poll.alone,
                     stalePolicy.cooldown)
        /\ \A x \in past[1].groups :
              Spaced(x, LAMBDA poll : x \in poll.groups, LAMBDA poll : x \in poll.dirs,
                     stalePolicy.cooldown)

LEMMA PollStaleSpaced ==
    ASSUME PollsWithinTheHour, SettingsInv, TableInv, PastInv, QuietInv, StreaksInv, StaleSpacedInv,
           NEW s, NEW level, NEW delay, Polled(s, level, delay)
    PROVE  StaleSpacedInv' /\ StaleSpaced'
<1>1. /\ Samples(tracked, tracked', "trees", "alone", delay)
      /\ Samples(trackedGroups, trackedGroups', "groups", "dirs", delay)
  BY StalePolls
<1>2. /\ \A a \in DOMAIN tracked : Streak(tracked[a])
      /\ \A a \in DOMAIN trackedGroups : Streak(trackedGroups[a])
  BY DEF StreaksInv, Streaks
<1>3. /\ SpacedSoFar(tracked, "trees", "alone")
      /\ SpacedSoFar(trackedGroups, "groups", "dirs")
  BY DEF StaleSpacedInv
<1>4. UNCHANGED stalePolicy
  BY PollSettings
<1>5. SpacedNext(tracked', "trees", "alone")
  BY <1>1, <1>2, <1>3, PollSpaced
<1>6. SpacedNext(trackedGroups', "groups", "dirs")
  BY <1>1, <1>2, <1>3, PollSpaced
<1>7. StaleSpacedInv'
  BY <1>5, <1>6 DEF StaleSpacedInv, SpacedSoFar, SpacedNext
<1>8. StaleSpaced'
  BY <1>4, <1>5, <1>6 DEF StaleSpaced, Spaced, SpacedNext
<1> QED
  BY <1>7, <1>8

LEMMA ClickStale ==
    ASSUME SettingsInv, Clicks
    PROVE  /\ StreaksInv => StreaksInv'
           /\ StaleSpacedInv => StaleSpacedInv'
           /\ DOMAIN tracked' \subseteq DOMAIN tracked
<1>1. UNCHANGED past
  BY ClickKeeps
<1>2. \A kind, x : JustIgnored(kind, x) => JustIgnored(kind, x)'
  BY ClickMonitor
<1>3. \/ UNCHANGED stalePolicy
      \/ \E n : stalePolicy' = [stalePolicy EXCEPT !.ignored = @ \cup {n}]
  BY DEF Clicks, IgnoreEventForHour, IgnoreTreeForHour, IgnoreAppForHour, AlwaysIgnoreEvent,
         AlwaysIgnoreTrees, AlwaysIgnoreApp, staleVars, IgnoreTree, AlwaysIgnoreTree
<1>4. stalePolicy'.samples = stalePolicy.samples /\ stalePolicy'.cooldown = stalePolicy.cooldown
  BY <1>3 DEF SettingsInv, IsStalePolicy
<1>5. UNCHANGED trackedGroups
  BY DEF Clicks, IgnoreEventForHour, IgnoreTreeForHour, IgnoreAppForHour, AlwaysIgnoreEvent,
         AlwaysIgnoreTrees, AlwaysIgnoreApp, staleVars, IgnoreTree, AlwaysIgnoreTree
<1>6. /\ DOMAIN tracked' \subseteq DOMAIN tracked
      /\ \A r \in DOMAIN tracked' : tracked'[r] = tracked[r]
      /\ \A r \in DOMAIN tracked : r \in DOMAIN tracked' \/ JustIgnored("trees", r)'
  <2>1. CASE IgnoreTreeForHour
    <3>1. PICK o \in offers.trees : IgnoreTree(o.id, Hour) /\ Clicked(o.id, "trees", Hour)
      BY <2>1 DEF IgnoreTreeForHour
    <3>2. JustIgnored("trees", o.id)'
      BY <3>1 DEF Clicked, Until, JustIgnored
    <3> QED BY <3>1, <3>2 DEF IgnoreTree, Restrict
  <2>2. CASE ~IgnoreTreeForHour
    <3>1. UNCHANGED tracked
      BY <2>2 DEF Clicks, IgnoreEventForHour, IgnoreAppForHour, AlwaysIgnoreEvent,
         AlwaysIgnoreTrees, AlwaysIgnoreApp, staleVars, AlwaysIgnoreTree
    <3> QED BY <3>1
  <2> QED BY <2>1, <2>2
<1>7. StreaksInv => StreaksInv'
  BY <1>1, <1>4, <1>5, <1>6 DEF StreaksInv, Streaks, Streak
<1>8. SpacedSoFar(tracked, "trees", "alone") => SpacedSoFar(tracked, "trees", "alone")'
  BY <1>1, <1>2, <1>6 DEF SpacedSoFar
<1>9. SpacedSoFar(trackedGroups, "groups", "dirs") => SpacedSoFar(trackedGroups, "groups", "dirs")'
  BY <1>1, <1>2, <1>5 DEF SpacedSoFar
<1> QED
  BY <1>6, <1>7, <1>8, <1>9 DEF StaleSpacedInv

-----------------------------------------------------------------------------
(* The books of the background service.                                    *)

(* The root of an application tells its group.                             *)
LEMMA RootTellsApp ==
    ASSUME NEW s, DOMAIN s \subseteq Nat, \A p \in DOMAIN s : s[p].start \in Nat,
           NEW guard, NEW policy,
           NEW v \in BuildBackgroundWorkloads(s, guard, policy),
           NEW w \in BuildBackgroundWorkloads(s, guard, policy), v.root = w.root
    PROVE  v = w
<1>1. ASSUME NEW x \in BuildBackgroundWorkloads(s, guard, policy)
      PROVE  \E g : x = BuildGroup(s, g) /\ x.root.pid \in GroupMembers(s, g)
  <2>1. PICK g \in EligibleGroups(s) : x = BuildGroup(s, g)
    BY DEF BuildBackgroundWorkloads
  <2> DEFINE members == GroupMembers(s, g)
             root == SelectRoot(s, members)
  <2>2. root \in members
    <3>1. members # {} /\ members \subseteq DOMAIN s
      BY DEF EligibleGroups, GroupMembers
    <3> HIDE DEF members
    <3> QED BY <3>1, SelectRootIsThere
  <2>3. x.root = IdOf(s, root)
    BY <2>1 DEF BuildGroup
  <2>4. x.root.pid = root
    BY <2>3 DEF IdOf
  <2> QED BY <2>1, <2>2, <2>4
<1>2. PICK g : v = BuildGroup(s, g) /\ v.root.pid \in GroupMembers(s, g)
  BY <1>1
<1>3. PICK h : w = BuildGroup(s, h) /\ w.root.pid \in GroupMembers(s, h)
  BY <1>1
<1>4. g = h
  BY <1>2, <1>3 DEF GroupMembers
<1> QED
  BY <1>2, <1>3, <1>4

(* What a poll makes of the books.                                         *)
Watches(delay) ==
    /\ past'[1].sampled \/ DOMAIN tracking' = DOMAIN tracking \/ ~bgPolicy.enabled
    /\ past'[1].apps \subseteq past'[1].watched
    /\ \A r \in DOMAIN tracking' :
         r \in DOMAIN tracking => tracking'[r].last <= tracking[r].last + delay
    /\ \A r \in past'[1].apps :
         /\ bgPolicy.enabled /\ tracking'[r].last = 0
         /\ r \in DOMAIN tracking => tracking[r].last + delay >= bgPolicy.cooldown

LEMMA TrackingIs ==
    ASSUME SettingsInv, TrackingInv, NEW active, NEW delay \in Nat, NEW r \in active
    PROVE  LET state == Tracking(tracking, active, bgPolicy, delay)[r] IN
           /\ DOMAIN state = {"streak", "last"} /\ state.streak \in Nat
           /\ state.last \in 0..bgPolicy.cooldown
           /\ r \in DOMAIN tracking =>
                state.last = Least(bgPolicy.cooldown, tracking[r].last + delay)
<1> DEFINE state == Tracking(tracking, active, bgPolicy, delay)[r]
<1>1. bgPolicy.cooldown \in Nat
  BY DEF SettingsInv, IsBackgroundPolicy
<1>2. state = IF r \in DOMAIN tracking
              THEN [tracking[r] EXCEPT !.last = Least(bgPolicy.cooldown, @ + delay)]
              ELSE [streak |-> 0, last |-> bgPolicy.cooldown]
  BY DEF Tracking, Untracked
<1> HIDE DEF state
<1>3. CASE r \in DOMAIN tracking
  <2> DEFINE u == tracking[r]
  <2>1. DOMAIN u = {"streak", "last"} /\ u.streak \in Nat /\ u.last \in 0..bgPolicy.cooldown
    BY <1>3 DEF TrackingInv
  <2>2. state = [u EXCEPT !.last = Least(bgPolicy.cooldown, @ + delay)]
    BY <1>2, <1>3
  <2> HIDE DEF u
  <2>3. /\ DOMAIN state = {"streak", "last"} /\ state.streak = u.streak
        /\ state.last = Least(bgPolicy.cooldown, u.last + delay)
    BY <2>1, <2>2
  <2>4. state.last \in 0..bgPolicy.cooldown
    BY <1>1, <2>1, <2>3 DEF Least
  <2> QED BY <1>3, <2>1, <2>3, <2>4 DEF u, state
<1>4. CASE r \notin DOMAIN tracking
  <2>1. /\ DOMAIN state = {"streak", "last"} /\ state.streak = 0 /\ state.last = bgPolicy.cooldown
    BY <1>2, <1>4
  <2> QED BY <1>1, <1>4, <2>1 DEF state
<1> QED
  BY <1>3, <1>4

LEMMA BackgroundPolls ==
    ASSUME SettingsInv, PastInv, TrackingInv,
           NEW s, NEW level, NEW delay, Polled(s, level, delay)
    PROVE  TrackingInv' /\ Watches(delay)
<1>1. /\ past'[1].sampled = (sinceSample' = 0) /\ past'[1].watched = DOMAIN tracking'
      /\ past'[1].apps = {w.root : w \in bgNotices'}
  BY PollIsFirst
<1>2. /\ delay \in Nat \ {0} /\ bgPolicy.cooldown \in Nat /\ bgPolicy.interval \in Nat \ {0}
      /\ sinceSample \in Nat
  BY PollSettings DEF SettingsInv, IsBackgroundPolicy, TrackingInv
<1>3. UNCHANGED bgPolicy
  BY PollSettings
<1>4. EvaluateBackground(s, level, delay) /\ Looks(s)
  BY DEF Polled
<1> DEFINE since == Least(bgPolicy.interval, sinceSample + delay)
<1>5. since \in Nat \ {0}
  BY <1>2 DEF Least
<1>6. CASE ~bgPolicy.enabled
  <2>1. /\ tracking' = <<>> /\ sinceSample' = bgPolicy.interval /\ bgNotices' = {}
    BY <1>4, <1>6 DEF EvaluateBackground
  <2>2. past'[1].apps = {} /\ DOMAIN tracking' = {}
    BY <1>1, <2>1
  <2>3. TrackingInv'
    BY <1>2, <1>3, <2>1, <2>2 DEF TrackingInv
  <2> QED BY <1>6, <2>2, <2>3 DEF Watches
<1>7. CASE bgPolicy.enabled /\ ~SampleDue(since, bgPolicy)
  <2>1. /\ tracking' = Tracking(tracking, DOMAIN tracking, bgPolicy, delay)
        /\ sinceSample' = since /\ bgNotices' = {}
    BY <1>4, <1>7 DEF EvaluateBackground
  <2>2. past'[1].apps = {}
    BY <1>1, <2>1
  <2>3. DOMAIN tracking' = DOMAIN tracking
    BY <2>1 DEF Tracking
  <2> HIDE DEF since
  <2>4. ASSUME NEW r \in DOMAIN tracking'
        PROVE  /\ DOMAIN tracking'[r] = {"streak", "last"} /\ tracking'[r].streak \in Nat
               /\ tracking'[r].last \in 0..bgPolicy.cooldown
               /\ tracking'[r].last <= tracking[r].last + delay
    <3>1. /\ DOMAIN tracking'[r] = {"streak", "last"} /\ tracking'[r].streak \in Nat
          /\ tracking'[r].last \in 0..bgPolicy.cooldown
          /\ tracking'[r].last = Least(bgPolicy.cooldown, tracking[r].last + delay)
      <4> DEFINE state == Tracking(tracking, DOMAIN tracking, bgPolicy, delay)[r]
      <4>1. r \in DOMAIN tracking /\ tracking'[r] = state
        BY <2>1, <2>3
      <4>2. /\ DOMAIN state = {"streak", "last"} /\ state.streak \in Nat
            /\ state.last \in 0..bgPolicy.cooldown
            /\ state.last = Least(bgPolicy.cooldown, tracking[r].last + delay)
        BY <1>2, <4>1, TrackingIs
      <4> QED BY <4>1, <4>2
    <3>2. tracking[r].last \in Nat
      BY <1>2, <2>3 DEF TrackingInv
    <3> QED BY <1>2, <3>1, <3>2 DEF Least
  <2>5. TrackingInv'
    BY <1>3, <1>5, <2>1, <2>4 DEF TrackingInv
  <2> QED BY <2>2, <2>3, <2>4, <2>5 DEF Watches
<1>8. CASE bgPolicy.enabled /\ SampleDue(since, bgPolicy)
  <2> DEFINE ignored == DOMAIN Left(bgIgnored, delay)
             all == BuildBackgroundWorkloads(s, bgProtection, bgPolicy)
             workloads == Capped(all)
             roots == {w.root : w \in workloads}
             aged == [r \in DOMAIN history |-> Aged(history[r], bgPolicy, delay)]
             samples == [w \in workloads |-> Recorded(w, aged, bgPolicy)]
             candidates == {w \in workloads : IsCandidate(w, samples[w], level, bgPolicy)}
             states == Tracking(tracking, roots, bgPolicy, delay)
             counted == [w \in workloads |->
                           IF w \in candidates THEN Counted(states[w.root], bgPolicy)
                           ELSE [states[w.root] EXCEPT !.streak = 0]]
             notified == {w \in candidates : Due(counted[w], bgPolicy) /\ w.root \notin ignored}
             Of(r) == CHOOSE w \in workloads : w.root = r
  <2>1. /\ tracking' = [r \in roots |-> IF Of(r) \in notified
                                        THEN [counted[Of(r)] EXCEPT !.last = 0]
                                        ELSE counted[Of(r)]]
        /\ sinceSample' = 0 /\ bgNotices' = notified
    BY <1>4, <1>8 DEF EvaluateBackground, TakeSample
  <2>2. ASSUME NEW r \in roots
        PROVE  Of(r) \in workloads /\ Of(r).root = r
    OBVIOUS
  <2>3. ASSUME NEW v \in workloads, NEW w \in workloads, v.root = w.root PROVE v = w
    <3>1. v \in all /\ w \in all
      BY DEF Capped
    <3>2. DOMAIN s \subseteq Nat /\ \A p \in DOMAIN s : s[p].start \in Nat
      BY <1>4 DEF Looks
    <3> QED BY <2>3, <3>1, <3>2, RootTellsApp
  <2>4. candidates \subseteq workloads /\ notified \subseteq candidates
    OBVIOUS
  <2>5. ASSUME NEW w \in workloads
        PROVE  /\ DOMAIN counted[w] = {"streak", "last"} /\ counted[w].streak \in Nat
               /\ counted[w].last \in 0..bgPolicy.cooldown
               /\ w.root \in DOMAIN tracking =>
                    counted[w].last = Least(bgPolicy.cooldown, tracking[w.root].last + delay)
    <3> DEFINE state == states[w.root]
    <3>1. w.root \in roots
      OBVIOUS
    <3>2. counted[w] = IF w \in candidates THEN Counted(state, bgPolicy)
                       ELSE [state EXCEPT !.streak = 0]
      OBVIOUS
    <3> HIDE DEF roots, workloads, candidates
    <3>3. /\ DOMAIN state = {"streak", "last"} /\ state.streak \in Nat
          /\ state.last \in 0..bgPolicy.cooldown
          /\ w.root \in DOMAIN tracking =>
               state.last = Least(bgPolicy.cooldown, tracking[w.root].last + delay)
      BY <1>2, <3>1, TrackingIs
    <3> HIDE DEF state, states, counted
    <3>4. /\ DOMAIN counted[w] = {"streak", "last"} /\ counted[w].last = state.last
          /\ counted[w].streak = IF w \in candidates THEN Least(bgPolicy.samples, state.streak + 1) ELSE 0
      BY <3>2, <3>3 DEF Counted
    <3>5. counted[w].streak \in Nat
      BY <3>3, <3>4 DEF SettingsInv, IsBackgroundPolicy, Least
    <3> QED BY <3>3, <3>4, <3>5
  <2>6. \A w \in notified : Due(counted[w], bgPolicy)
    OBVIOUS
  <2> HIDE DEF notified, candidates, counted, states
  <2>7. DOMAIN tracking' = roots /\ roots = {w.root : w \in workloads}
    BY <2>1
  <2>8. ASSUME NEW w \in workloads
        PROVE  Of(w.root) = w /\ w.root \in roots
    <3>1. w.root \in roots
      OBVIOUS
    <3> QED BY <2>2, <2>3, <3>1
  <2>9. ASSUME NEW w \in workloads
        PROVE  tracking'[w.root] = IF w \in notified THEN [counted[w] EXCEPT !.last = 0]
                                   ELSE counted[w]
    <3> DEFINE r == w.root
    <3>1. r \in roots /\ Of(r) = w
      BY <2>8
    <3> HIDE DEF Of, r, roots, workloads
    <3>2. tracking'[r] = IF Of(r) \in notified THEN [counted[Of(r)] EXCEPT !.last = 0]
                         ELSE counted[Of(r)]
      BY <2>1, <3>1
    <3>3. tracking'[r] = IF w \in notified THEN [counted[w] EXCEPT !.last = 0] ELSE counted[w]
      BY <3>1, <3>2
    <3> QED BY <3>3 DEF r
  <2> HIDE DEF workloads, roots
  <2>10. ASSUME NEW r \in DOMAIN tracking'
         PROVE  /\ DOMAIN tracking'[r] = {"streak", "last"} /\ tracking'[r].streak \in Nat
                /\ tracking'[r].last \in 0..bgPolicy.cooldown
                /\ r \in DOMAIN tracking => tracking'[r].last <= tracking[r].last + delay
    <3>1. PICK w \in workloads : r = w.root
      BY <2>7
    <3> DEFINE c == counted[w]
               u == tracking'[r]
    <3>2. /\ DOMAIN c = {"streak", "last"} /\ c.streak \in Nat /\ c.last \in 0..bgPolicy.cooldown
          /\ r \in DOMAIN tracking => c.last = Least(bgPolicy.cooldown, tracking[r].last + delay)
      BY <2>5, <3>1
    <3>3. u = IF w \in notified THEN [c EXCEPT !.last = 0] ELSE c
      BY <2>9, <3>1
    <3>4. r \in DOMAIN tracking => tracking[r].last \in Nat
      BY <1>2 DEF TrackingInv
    <3> HIDE DEF c, u
    <3>5. /\ DOMAIN u = {"streak", "last"} /\ u.streak = c.streak
          /\ u.last = IF w \in notified THEN 0 ELSE c.last
      BY <3>2, <3>3
    <3>6. r \in DOMAIN tracking => u.last <= tracking[r].last + delay
      BY <1>2, <3>2, <3>4, <3>5 DEF Least
    <3>7. u.last \in 0..bgPolicy.cooldown
      BY <1>2, <3>2, <3>5
    <3> QED BY <3>2, <3>5, <3>6, <3>7 DEF u
  <2>11. TrackingInv'
    BY <1>3, <2>1, <2>10 DEF TrackingInv
  <2>12. past'[1].apps \subseteq DOMAIN tracking'
    BY <1>1, <2>1, <2>4, <2>7
  <2>13. ASSUME NEW r \in past'[1].apps
         PROVE  /\ tracking'[r].last = 0
                /\ r \in DOMAIN tracking => tracking[r].last + delay >= bgPolicy.cooldown
    <3>1. PICK w \in notified : r = w.root
      BY <1>1, <2>1
    <3>2. w \in workloads
      BY <2>4, <3>1
    <3> DEFINE c == counted[w]
    <3>3. /\ "last" \in DOMAIN c /\ c.last >= bgPolicy.cooldown
          /\ r \in DOMAIN tracking => c.last = Least(bgPolicy.cooldown, tracking[r].last + delay)
      BY <2>5, <2>6, <3>1, <3>2 DEF Due
    <3>4. tracking'[r] = [c EXCEPT !.last = 0]
      BY <2>9, <3>1, <3>2
    <3>5. r \in DOMAIN tracking => tracking[r].last \in Nat
      BY <1>2 DEF TrackingInv
    <3> HIDE DEF c
    <3> QED BY <1>2, <3>3, <3>4, <3>5 DEF Least
  <2> QED BY <1>1, <1>8, <2>1, <2>10, <2>11, <2>12, <2>13 DEF Watches
<1> QED
  BY <1>6, <1>7, <1>8

AppsSpaced ==
    past # <<>> =>
        \A x \in past[1].apps :
            Spaced(x, LAMBDA poll : x \in poll.apps,
                   LAMBDA poll : poll.sampled => x \in poll.watched, bgPolicy.cooldown)

LEMMA PollApps ==
    ASSUME SettingsInv, PastInv, AppsSpacedInv, NEW s, NEW level, NEW delay, Polled(s, level, delay)
    PROVE  AppsSpacedInv' /\ AppsSpaced'
<1>1. PICK n : Recalled(n)
  BY PollIsRecalled
<1>2. /\ delay \in Nat /\ bgPolicy.cooldown \in Nat /\ UNCHANGED bgPolicy
  BY PollSettings DEF SettingsInv, IsBackgroundPolicy
<1>3. TrackingInv' /\ Watches(delay) /\ past'[1].watched = DOMAIN tracking' /\ TrackingInv
  BY BackgroundPolls, PollIsFirst DEF AppsSpacedInv
<1>4. ASSUME NEW k \in DOMAIN past', k # 1, NEW r \in past'[k].apps
      PROVE  /\ k \in Nat /\ k > 1 /\ bgPolicy.enabled
             /\ past[k - 1].ago \in Nat /\ past'[k].ago = past[k - 1].ago + delay
             /\ past'[k].sampled => r \in past'[k].watched
             /\ \/ \E j \in 2..(k - 1) : past'[j].sampled /\ r \notin past'[j].watched
                \/ r \in DOMAIN tracking /\ tracking[r].last <= past[k - 1].ago
  <2>1. /\ k - 1 \in DOMAIN past /\ k \in Nat /\ k > 1
        /\ past[k - 1].ago \in Nat /\ past'[k].ago = past[k - 1].ago + delay
        /\ past'[k].apps = past[k - 1].apps /\ past'[k].sampled = past[k - 1].sampled
        /\ past'[k].watched = past[k - 1].watched
    BY <1>4, PollShifts
  <2>2. /\ bgPolicy.enabled
        /\ past[k - 1].sampled => r \in past[k - 1].watched
        /\ \/ \E j \in 1..(k - 2) : past[j].sampled /\ r \notin past[j].watched
           \/ r \in DOMAIN tracking /\ tracking[r].last <= past[k - 1].ago
    <3>1. k - 1 \in DOMAIN past /\ r \in past[k - 1].apps /\ (k - 1) - 1 = k - 2
      BY <1>4, <2>1
    <3> QED BY <3>1 DEF AppsSpacedInv
  <2>3. ASSUME NEW j \in 1..(k - 2), past[j].sampled /\ r \notin past[j].watched
        PROVE  \E l \in 2..(k - 1) : past'[l].sampled /\ r \notin past'[l].watched
    <3>1. j + 1 \in DOMAIN past' /\ j + 1 # 1 /\ (j + 1) - 1 = j /\ j + 1 \in 2..(k - 1)
      BY <1>1, <2>1 DEF Recalled
    <3>2. past'[j + 1].watched = past[j].watched /\ past'[j + 1].sampled = past[j].sampled
      BY <3>1, PollShifts
    <3> QED BY <2>3, <3>1, <3>2
  <2> QED BY <2>1, <2>2, <2>3
<1>5. ASSUME NEW k \in DOMAIN past', NEW r \in past'[k].apps
      PROVE  /\ bgPolicy.enabled
             /\ past'[k].sampled => r \in past'[k].watched
             /\ \/ \E j \in 1..(k - 1) : past'[j].sampled /\ r \notin past'[j].watched
                \/ r \in DOMAIN tracking' /\ tracking'[r].last <= past'[k].ago
  <2>1. CASE k = 1
    <3>1. /\ bgPolicy.enabled /\ r \in past'[1].watched /\ tracking'[r].last = 0
          /\ past'[1].ago = 0
      BY <1>3, <2>1, PollIsRecalled DEF Watches
    <3> QED BY <1>3, <2>1, <3>1
  <2>2. CASE k # 1
    <3>1. /\ k \in Nat /\ k > 1 /\ bgPolicy.enabled
          /\ past[k - 1].ago \in Nat /\ past'[k].ago = past[k - 1].ago + delay
          /\ past'[k].sampled => r \in past'[k].watched
          /\ \/ \E j \in 2..(k - 1) : past'[j].sampled /\ r \notin past'[j].watched
             \/ r \in DOMAIN tracking /\ tracking[r].last <= past[k - 1].ago
      BY <1>4, <2>2
    <3>2. CASE \E j \in 2..(k - 1) : past'[j].sampled /\ r \notin past'[j].watched
      <4>1. PICK j \in 2..(k - 1) : past'[j].sampled /\ r \notin past'[j].watched
        BY <3>2
      <4>2. j \in 1..(k - 1)
        OBVIOUS
      <4> QED BY <3>1, <4>1, <4>2
    <3>3. CASE r \in DOMAIN tracking /\ tracking[r].last <= past[k - 1].ago
      <4>1. CASE r \in DOMAIN tracking'
        <5>1. tracking'[r].last <= tracking[r].last + delay
          BY <1>3, <3>3, <4>1 DEF Watches
        <5>2. tracking[r].last \in Nat /\ tracking'[r].last \in Nat
          BY <1>2, <1>3, <3>3, <4>1 DEF TrackingInv
        <5>3. tracking'[r].last <= past'[k].ago
          BY <1>2, <3>1, <3>3, <5>1, <5>2
        <5> QED BY <3>1, <4>1, <5>3
      <4>2. CASE r \notin DOMAIN tracking'
        <5>1. past'[1].sampled /\ r \notin past'[1].watched
          BY <1>3, <3>1, <3>3, <4>2 DEF Watches
        <5>2. 1 \in 1..(k - 1)
          BY <3>1
        <5> QED BY <3>1, <5>1, <5>2
      <4> QED BY <4>1, <4>2
    <3> QED BY <3>1, <3>2, <3>3
  <2> QED BY <2>1, <2>2
<1>6. ASSUME NEW r \in past'[1].apps, NEW k \in 2..Len(past'), r \in past'[k].apps
      PROVE  \/ past'[k].ago >= bgPolicy.cooldown
             \/ \E j \in 2..(k - 1) : past'[j].sampled /\ r \notin past'[j].watched
  <2>1. k \in DOMAIN past' /\ k # 1
    BY <1>1 DEF Recalled
  <2>2. /\ past[k - 1].ago \in Nat /\ past'[k].ago = past[k - 1].ago + delay
        /\ \/ \E j \in 2..(k - 1) : past'[j].sampled /\ r \notin past'[j].watched
           \/ r \in DOMAIN tracking /\ tracking[r].last <= past[k - 1].ago
    BY <1>4, <1>6, <2>1
  <2>3. CASE r \in DOMAIN tracking /\ tracking[r].last <= past[k - 1].ago
    <3>1. tracking[r].last \in Nat /\ tracking[r].last + delay >= bgPolicy.cooldown
      BY <1>2, <1>3, <2>3 DEF TrackingInv, Watches
    <3> QED BY <1>2, <2>2, <2>3, <3>1
  <2> QED BY <2>2, <2>3
<1>7. AppsSpacedInv'
  BY <1>2, <1>3, <1>5 DEF AppsSpacedInv
<1>8. AppsSpaced'
  <2> SUFFICES ASSUME NEW r \in past'[1].apps, NEW k \in 2..Len(past'), r \in past'[k].apps
               PROVE  \/ past'[k].ago >= bgPolicy'.cooldown
                      \/ \E j \in 2..(k - 1) : ~(past'[j].sampled => r \in past'[j].watched)
    BY DEF AppsSpaced, Spaced
  <2> QED BY <1>2, <1>6
<1> QED
  BY <1>7, <1>8

LEMMA ClickApps ==
    ASSUME SettingsInv, Clicks
    PROVE  /\ AppsSpacedInv => AppsSpacedInv'
           /\ UNCHANGED <<history, tracking, sinceSample>>
<1>1. UNCHANGED past
  BY ClickKeeps
<1>2. UNCHANGED <<history, tracking, sinceSample>>
  BY DEF Clicks, IgnoreEventForHour, IgnoreTreeForHour, IgnoreAppForHour, AlwaysIgnoreEvent,
         AlwaysIgnoreTrees, AlwaysIgnoreApp, bgVars, IgnoreGroup, AlwaysIgnoreGroup,
         ReplaceProtection
<1>3. \/ UNCHANGED bgPolicy
      \/ \E n : bgPolicy' = [bgPolicy EXCEPT !.ignoredExes = @ \cup {n}]
      \/ \E n : bgPolicy' = [bgPolicy EXCEPT !.ignoredNames = @ \cup {n}]
  BY DEF Clicks, IgnoreEventForHour, IgnoreTreeForHour, IgnoreAppForHour, AlwaysIgnoreEvent,
         AlwaysIgnoreTrees, AlwaysIgnoreApp, bgVars, IgnoreGroup, AlwaysIgnoreGroup,
         ReplaceProtection
<1>4. bgPolicy'.enabled = bgPolicy.enabled /\ bgPolicy'.cooldown = bgPolicy.cooldown
  BY <1>3 DEF SettingsInv, IsBackgroundPolicy
<1> QED
  BY <1>1, <1>2, <1>4 DEF AppsSpacedInv, TrackingInv

-----------------------------------------------------------------------------
(* What is published is what was found.                                    *)

LEMMA PollFound ==
    ASSUME FoundInv, NEW s, NEW level, NEW delay, Polled(s, level, delay)
    PROVE  FoundInv'
<1> DEFINE own == Shown(s, delay)
           ids == {IdOf(s, p) : p \in DOMAIN s}
<1>1. {seen'[p].id : p \in DOMAIN seen'} = ids
  BY DEF Polled, Remember
<1>2. own \subseteq DOMAIN s
  BY ShownIsThere
<1>3. DOMAIN facts' = DOMAIN seen'
  BY DEF Polled, Remember
<1>4. trackedIds' = {IdOf(s, p) : p \in own}
  BY DEF Polled, MonitorPoll, Shown
<1>5. DOMAIN violations' \subseteq {IdOf(s, p) : p \in own}
  BY DEF Polled, MonitorPoll, Shown, Violations
<1>6. published'.top = trackedIds' /\ published'.stale = {w.root : w \in staleFound'.workloads}
  BY DEF Polled, Publish
<1>7. ASSUME NEW w \in staleFound'.workloads PROVE w.root \in ids
  BY <1>2, TreesAreShown
<1> HIDE DEF own, ids
<1>8. trackedIds' \subseteq ids
  BY <1>2, <1>4 DEF ids
<1>9. published'.stale \subseteq ids
  BY <1>6, <1>7
<1>10. DOMAIN tracked' \subseteq published'.stale
  <2>1. CASE stalePolicy.enabled
    <3>1. DOMAIN tracked' = OfferedAlone(staleFound')
      BY <2>1 DEF Polled, EvaluateStale, AfterSample, Tracking
    <3> QED BY <1>6, <3>1, AloneIsFound
  <2>2. CASE ~stalePolicy.enabled
    <3>1. tracked' = <<>>
      BY <2>2 DEF Polled, EvaluateStale
    <3> QED BY <3>1
  <2> QED BY <2>1, <2>2
<1>11. DOMAIN history' = DOMAIN tracking'
  <2>1. EvaluateBackground(s, level, delay) /\ DOMAIN history = DOMAIN tracking
    BY DEF Polled, FoundInv
  <2>2. CASE TakeSample(s, level, delay, DOMAIN Left(bgIgnored, delay))
    <3>1. \E roots : DOMAIN history' = roots /\ DOMAIN tracking' = roots
      BY <2>2 DEF TakeSample
    <3> QED BY <3>1
  <2>3. CASE ~TakeSample(s, level, delay, DOMAIN Left(bgIgnored, delay))
    <3>1. \/ history' = <<>> /\ tracking' = <<>>
          \/ /\ history' = [r \in DOMAIN history |-> Aged(history[r], bgPolicy, delay)]
             /\ tracking' = Tracking(tracking, DOMAIN tracking, bgPolicy, delay)
      BY <2>1, <2>3 DEF EvaluateBackground
    <3> QED BY <2>1, <3>1 DEF Tracking
  <2> QED BY <2>2, <2>3
<1>12. /\ published'.top \subseteq ids /\ trackedIds' \subseteq published'.top
       /\ DOMAIN violations' \subseteq trackedIds'
  BY <1>4, <1>5, <1>6, <1>8
<1> QED
  BY <1>1, <1>3, <1>9, <1>10, <1>11, <1>12 DEF FoundInv

LEMMA ClickFound ==
    ASSUME SettingsInv, FoundInv, Clicks
    PROVE  FoundInv'
<1>1. UNCHANGED <<published, seen, facts>>
  BY ClickKeeps
<1>2. DOMAIN tracked' \subseteq DOMAIN tracked
  BY ClickStale
<1>3. UNCHANGED <<history, tracking>>
  BY ClickApps
<1>4. trackedIds' \subseteq trackedIds /\ DOMAIN violations' \subseteq trackedIds'
  BY ClickMonitor DEF FoundInv, Restrict
<1> QED
  BY <1>1, <1>2, <1>3, <1>4 DEF FoundInv

(* The root of a tree tells the tree, so that a group has as many roots as *)
(* it has trees.                                                           *)
LEMMA RootTellsTree ==
    ASSUME NEW s, IsFiniteSet(DOMAIN s), NEW policy, NEW ignored,
           NEW v \in Eligible(s, policy, ignored), NEW w \in Eligible(s, policy, ignored),
           v.root = w.root
    PROVE  v = w
<1>1. PICK p \in DOMAIN s : v = Workload(s, p) /\ v.root = IdOf(s, p)
  BY EligibleIsThere
<1>2. PICK q \in DOMAIN s : w = Workload(s, q) /\ w.root = IdOf(s, q)
  BY EligibleIsThere
<1>3. p = q
  BY <1>1, <1>2 DEF IdOf
<1> QED
  BY <1>1, <1>2, <1>3

LEMMA RootsOfGroup ==
    ASSUME NEW s, IsFiniteSet(DOMAIN s), NEW policy, NEW ignored,
           NEW g, g.trees \subseteq Eligible(s, policy, ignored)
    PROVE  /\ IsFiniteSet(RootsOf(g)) /\ IsFiniteSet(g.trees)
           /\ Cardinality(g.trees) <= Cardinality(RootsOf(g))
<1> DEFINE ids == [p \in DOMAIN s |-> IdOf(s, p)]
           roots == RootsOf(g)
           tree == [x \in roots |-> CHOOSE w \in g.trees : w.root = x]
<1>1. IsFiniteSet({ids[p] : p \in DOMAIN ids})
  <2>1. IsFiniteSet(DOMAIN ids) /\ ids = [p \in DOMAIN ids |-> ids[p]]
    OBVIOUS
  <2> HIDE DEF ids
  <2> QED BY <2>1, FiniteImage
<1>2. ASSUME NEW w \in g.trees PROVE w.root \in {ids[p] : p \in DOMAIN ids}
  <2>1. PICK p \in DOMAIN s : w.root = IdOf(s, p)
    BY EligibleIsThere
  <2> QED BY <2>1
<1>3. IsFiniteSet(roots)
  <2>1. roots \subseteq {ids[p] : p \in DOMAIN ids}
    BY <1>2 DEF RootsOf
  <2> HIDE DEF ids, roots
  <2> QED BY <1>1, <2>1, FS_Subset
<1>4. ASSUME NEW w \in g.trees PROVE w.root \in roots /\ tree[w.root] = w
  <2>1. w.root \in roots
    BY DEF RootsOf
  <2>2. tree[w.root] \in g.trees /\ tree[w.root].root = w.root
    BY <2>1
  <2> HIDE DEF tree, roots
  <2> QED BY <2>1, <2>2, RootTellsTree
<1>5. ASSUME NEW x \in roots PROVE tree[x] \in g.trees
  BY DEF RootsOf
<1>6. tree \in Surjection(roots, g.trees)
  <2>1. tree \in [roots -> g.trees]
    BY <1>5
  <2> HIDE DEF tree, roots
  <2> QED BY <1>4, <2>1 DEF Surjection
<1> HIDE DEF tree, roots
<1>7. IsFiniteSet(g.trees) /\ Cardinality(g.trees) <= Cardinality(roots)
  BY <1>3, <1>6, FS_Surjection
<1> QED
  BY <1>3, <1>7 DEF roots

LEMMA PollGroups ==
    ASSUME SettingsInv, NEW s, NEW level, NEW delay, Polled(s, level, delay)
    PROVE  GroupsHoldTrees'
<1> SUFFICES ASSUME NEW g \in published'.groups
             PROVE  /\ Cardinality(g.roots) >= stalePolicy'.minTrees
                    /\ g.roots \subseteq published'.stale
  BY DEF GroupsHoldTrees
<1>1. /\ published'.groups = {[dir |-> h.dir, roots |-> RootsOf(h)] : h \in staleFound'.groups}
      /\ published'.stale = {w.root : w \in staleFound'.workloads}
  BY DEF Polled, Publish
<1>2. PICK h \in staleFound'.groups : g = [dir |-> h.dir, roots |-> RootsOf(h)]
  BY <1>1
<1>3. stalePolicy.enabled
  BY DEF Polled, EvaluateStale, NothingStale
<1> DEFINE r == Restrict(s, Shown(s, delay))
           ignored == DOMAIN Left(staleIgnored, delay)
           all == Eligible(r, stalePolicy, ignored)
<1>4. staleFound' = Assembled(all, stalePolicy)
  BY <1>3 DEF Polled, EvaluateStale, Detection
<1>5. IsFiniteSet(DOMAIN r)
  BY ShownIsThere
<1> HIDE DEF r, ignored
<1>6. /\ h \in GroupsOf(all, stalePolicy)
      /\ h.trees \subseteq staleFound'.workloads
  <2> HIDE DEF all
  <2> QED BY <1>4, FoundAreEligible
<1>7. h.trees \subseteq all /\ Cardinality(h.trees) >= stalePolicy.minTrees
  <2> HIDE DEF all
  <2> QED BY <1>6, GroupIs
<1>8. /\ IsFiniteSet(RootsOf(h)) /\ IsFiniteSet(h.trees)
      /\ Cardinality(h.trees) <= Cardinality(RootsOf(h))
  BY <1>5, <1>7, RootsOfGroup
<1>9. Cardinality(h.trees) \in Nat /\ Cardinality(RootsOf(h)) \in Nat
  BY <1>8, FS_CardinalityType
<1>10. stalePolicy'.minTrees = stalePolicy.minTrees /\ stalePolicy.minTrees \in Nat
  BY PollSettings DEF SettingsInv, IsStalePolicy
<1>11. RootsOf(h) \subseteq published'.stale
  BY <1>1, <1>6 DEF RootsOf
<1>12. g.roots = RootsOf(h)
  BY <1>2
<1> QED
  BY <1>7, <1>8, <1>9, <1>10, <1>11, <1>12

LEMMA ClickGroups ==
    ASSUME SettingsInv, GroupsHoldTrees, Clicks
    PROVE  GroupsHoldTrees'
<1>1. UNCHANGED published
  BY ClickKeeps
<1>2. \/ UNCHANGED stalePolicy
      \/ \E n : stalePolicy' = [stalePolicy EXCEPT !.ignored = @ \cup {n}]
  BY DEF Clicks, IgnoreEventForHour, IgnoreTreeForHour, IgnoreAppForHour, AlwaysIgnoreEvent,
         AlwaysIgnoreTrees, AlwaysIgnoreApp, staleVars, IgnoreTree, AlwaysIgnoreTree
<1>3. stalePolicy'.minTrees = stalePolicy.minTrees
  BY <1>2 DEF SettingsInv, IsStalePolicy
<1> QED
  BY <1>1, <1>3 DEF GroupsHoldTrees

(* The applications that are published are not ignored.                    *)
LEMMA PollIgnoredApps ==
    ASSUME SettingsInv, TableInv, IgnoredAppsGone, NEW s, NEW level, NEW delay, Polled(s, level, delay)
    PROVE  IgnoredAppsGone'
<1>1. UNCHANGED <<protection, bgPolicy>> /\ bgProtection = protection
  BY PollSettings DEF SettingsInv
<1>2. Looks(s) /\ EvaluateBackground(s, level, delay)
  BY DEF Polled
<1>3. \/ bgCandidates' = {}
      \/ bgCandidates' = bgCandidates
      \/ TakeSample(s, level, delay, DOMAIN Left(bgIgnored, delay))
  BY <1>2 DEF EvaluateBackground
<1>4. CASE TakeSample(s, level, delay, DOMAIN Left(bgIgnored, delay))
  <2>1. bgCandidates' \subseteq Capped(BuildBackgroundWorkloads(s, bgProtection, bgPolicy))
    BY <1>4 DEF TakeSample
  <2>2. bgCandidates' \subseteq BuildBackgroundWorkloads(s, bgProtection, bgPolicy)
    BY <2>1 DEF Capped
  <2>3. ASSUME NEW w \in bgCandidates'
        PROVE  /\ \A x \in w.programs : Disposition(protection, x) = "Monitor"
               /\ ~RootIgnored(w, bgPolicy)
    BY <1>1, <1>2, <2>2, AppIsThere
  <2> QED BY <1>1, <2>3 DEF IgnoredAppsGone
<1> QED
  BY <1>1, <1>3, <1>4 DEF IgnoredAppsGone

LEMMA ClickIgnoredApps ==
    ASSUME SettingsInv, IgnoredAppsGone, Clicks
    PROVE  IgnoredAppsGone'
<1>1. \/ UNCHANGED <<bgCandidates, protection, bgPolicy>>
      \/ bgCandidates' = Retained(bgCandidates, bgPolicy', protection')
  BY DEF Clicks, IgnoreEventForHour, IgnoreTreeForHour, IgnoreAppForHour, AlwaysIgnoreEvent,
         AlwaysIgnoreTrees, AlwaysIgnoreApp, bgVars, monitorVars, IgnoreGroup, IgnoreFor,
         AlwaysIgnoreGroup, ReplaceProtection, SettingsInv
<1> QED
  BY <1>1 DEF IgnoredAppsGone, Retained

-----------------------------------------------------------------------------
(* The books, which hold whatever the time between two polls is.           *)

BooksInv ==
    /\ IgnoresInv /\ ViolationsInv /\ StreaksInv /\ AppsSpacedInv /\ FoundInv
    /\ EventsSustained /\ StaleSustained /\ AppsSpaced /\ GroupsHoldTrees /\ IgnoredAppsGone

LEMMA BooksInit ==
    MonitoringInit => BooksInv
<1> SUFFICES ASSUME MonitoringInit PROVE BooksInv
  OBVIOUS
<1>1. IgnoresInv
  BY IgnoresInit
<1>2. /\ violations = <<>> /\ trackedIds = {} /\ tracked = <<>> /\ trackedGroups = <<>>
      /\ history = <<>> /\ tracking = <<>> /\ sinceSample = bgPolicy.interval
      /\ bgCandidates = {} /\ facts = <<>> /\ seen = <<>> /\ past = <<>>
      /\ published = NothingPublished
  BY DEF MonitoringInit, MonitorInit, StaleInit, BackgroundInit
<1>3. ViolationsInv /\ StreaksInv
  BY <1>2 DEF ViolationsInv, StreaksInv, Streaks
<1>4. AppsSpacedInv
  <2>1. sinceSample \in Nat
    BY <1>1, <1>2 DEF IgnoresInv, SettingsInv, IsBackgroundPolicy
  <2>2. \A k \in DOMAIN past : FALSE
    BY <1>2
  <2> QED BY <1>2, <2>1, <2>2 DEF AppsSpacedInv, TrackingInv
<1>5. FoundInv /\ GroupsHoldTrees
  BY <1>2 DEF FoundInv, NothingPublished, GroupsHoldTrees
<1>6. EventsSustained /\ StaleSustained /\ AppsSpaced /\ IgnoredAppsGone
  BY <1>2 DEF EventsSustained, StaleSustained, AppsSpaced, IgnoredAppsGone
<1> QED
  BY <1>1, <1>3, <1>4, <1>5, <1>6 DEF BooksInv

LEMMA PoliciesKeep ==
    ASSUME SettingsInv, Clicks
    PROVE  /\ UNCHANGED <<past, limits>>
           /\ stalePolicy'.samples = stalePolicy.samples
           /\ stalePolicy'.cooldown = stalePolicy.cooldown
           /\ bgPolicy'.cooldown = bgPolicy.cooldown
           /\ bgPolicy'.window = bgPolicy.window /\ bgPolicy'.interval = bgPolicy.interval
<1>1. \/ UNCHANGED stalePolicy
      \/ \E n : stalePolicy' = [stalePolicy EXCEPT !.ignored = @ \cup {n}]
  BY DEF Clicks, IgnoreEventForHour, IgnoreTreeForHour, IgnoreAppForHour, AlwaysIgnoreEvent,
         AlwaysIgnoreTrees, AlwaysIgnoreApp, staleVars, IgnoreTree, AlwaysIgnoreTree
<1>2. \/ UNCHANGED bgPolicy
      \/ \E n : bgPolicy' = [bgPolicy EXCEPT !.ignoredExes = @ \cup {n}]
      \/ \E n : bgPolicy' = [bgPolicy EXCEPT !.ignoredNames = @ \cup {n}]
  BY DEF Clicks, IgnoreEventForHour, IgnoreTreeForHour, IgnoreAppForHour, AlwaysIgnoreEvent,
         AlwaysIgnoreTrees, AlwaysIgnoreApp, bgVars, IgnoreGroup, AlwaysIgnoreGroup,
         ReplaceProtection
<1> QED
  BY <1>1, <1>2, ClickMonitor DEF SettingsInv, IsStalePolicy, IsBackgroundPolicy

LEMMA BooksStep ==
    BooksInv /\ [Next]_vars => BooksInv'
<1> SUFFICES ASSUME BooksInv, [Next]_vars PROVE BooksInv'
  OBVIOUS
<1>1. IgnoresInv'
  BY IgnoresStep DEF BooksInv
<1>2. SettingsInv /\ TableInv /\ PastInv
  BY DEF BooksInv, IgnoresInv
<1>3. CASE Elsewhere
  <2>1. UNCHANGED <<monitorVars, staleVars, bgVars, facts, published, seen, past>>
    BY <1>3 DEF Elsewhere
  <2>2. ViolationsInv' /\ StreaksInv' /\ AppsSpacedInv' /\ FoundInv'
    BY <2>1 DEF BooksInv, ViolationsInv, Violation, Since, StreaksInv, Streaks, Streak,
       AppsSpacedInv, TrackingInv, FoundInv, monitorVars, staleVars, bgVars
  <2>3. EventsSustained' /\ StaleSustained' /\ AppsSpaced'
    BY <2>1 DEF BooksInv, EventsSustained, StaleSustained, AppsSpaced, Throughout, Spaced,
       monitorVars, staleVars, bgVars
  <2>4. GroupsHoldTrees' /\ IgnoredAppsGone'
    BY <2>1 DEF BooksInv, GroupsHoldTrees, IgnoredAppsGone, monitorVars, staleVars, bgVars
  <2> QED BY <1>1, <2>2, <2>3, <2>4 DEF BooksInv
<1>4. CASE \E s, level, delay : Polled(s, level, delay)
  <2>1. PICK s, level, delay : Polled(s, level, delay)
    BY <1>4
  <2>2. ViolationsInv' /\ EventsSustained'
    BY <1>2, <2>1, PollViolations, PollSustained DEF BooksInv
  <2>3. StreaksInv' /\ StaleSustained'
    BY <1>2, <2>1, PollStale DEF BooksInv
  <2>4. AppsSpacedInv' /\ AppsSpaced'
    BY <1>2, <2>1, PollApps DEF BooksInv
  <2>5. FoundInv' /\ GroupsHoldTrees'
    BY <1>2, <2>1, PollFound, PollGroups DEF BooksInv
  <2>6. IgnoredAppsGone'
    BY <1>2, <2>1, PollIgnoredApps DEF BooksInv
  <2> QED BY <1>1, <2>2, <2>3, <2>4, <2>5, <2>6 DEF BooksInv
<1>5. CASE Clicks
  <2>1. ViolationsInv' /\ StreaksInv'
    BY <1>2, <1>5, ClickBooks, ClickStale DEF BooksInv
  <2>2. AppsSpacedInv' /\ FoundInv'
    BY <1>2, <1>5, ClickApps, ClickFound DEF BooksInv
  <2>3. GroupsHoldTrees' /\ IgnoredAppsGone'
    BY <1>2, <1>5, ClickGroups, ClickIgnoredApps DEF BooksInv
  <2>4. /\ UNCHANGED <<past, limits>> /\ stalePolicy'.samples = stalePolicy.samples
        /\ bgPolicy'.cooldown = bgPolicy.cooldown
    BY <1>2, <1>5, PoliciesKeep
  <2>5. EventsSustained' /\ StaleSustained' /\ AppsSpaced'
    BY <2>4 DEF BooksInv, EventsSustained, StaleSustained, AppsSpaced, Throughout, Spaced
  <2> QED BY <1>1, <2>1, <2>2, <2>3, <2>5 DEF BooksInv
<1> QED
  BY <1>2, <1>3, <1>4, <1>5, StepIs

(* What holds when no ignore ends before the next poll.                    *)
SpacedInv ==
    BooksInv /\ EventsSpacedInv /\ StaleSpacedInv /\ BreachInv /\ EventsSpaced /\ StaleSpaced

LEMMA SpacedInit ==
    MonitoringInit => SpacedInv
<1> SUFFICES ASSUME MonitoringInit PROVE SpacedInv
  OBVIOUS
<1>1. past = <<>> /\ trackedIds = {}
  BY DEF MonitoringInit, MonitorInit
<1>2. \A k \in DOMAIN past : FALSE
  BY <1>1
<1>3. EventsSpacedInv /\ StaleSpacedInv /\ BreachInv
  BY <1>1, <1>2 DEF EventsSpacedInv, StaleSpacedInv, SpacedSoFar, BreachInv
<1>4. EventsSpaced /\ StaleSpaced
  BY <1>1 DEF EventsSpaced, StaleSpaced
<1> QED
  BY <1>3, <1>4, BooksInit DEF SpacedInv

LEMMA SpacedStep ==
    ASSUME PollsWithinTheHour
    PROVE  SpacedInv /\ [Next]_vars => SpacedInv'
<1> SUFFICES ASSUME SpacedInv, [Next]_vars PROVE SpacedInv'
  OBVIOUS
<1>1. BooksInv'
  BY BooksStep DEF SpacedInv
<1>2. /\ SettingsInv /\ TableInv /\ PastInv /\ QuietInv /\ ViolationsInv /\ StreaksInv
      /\ EventsSpacedInv /\ StaleSpacedInv /\ BreachInv /\ EventsSpaced /\ StaleSpaced
  BY DEF SpacedInv, BooksInv, IgnoresInv
<1>3. CASE Elsewhere
  <2>1. UNCHANGED <<monitorVars, staleVars, quiet, past>>
    BY <1>3 DEF Elsewhere
  <2>2. EventsSpacedInv' /\ StaleSpacedInv'
    BY <1>2, <2>1 DEF EventsSpacedInv, StaleSpacedInv, SpacedSoFar, JustIgnored, monitorVars, staleVars
  <2>3. BreachInv'
    BY <1>2, <2>1 DEF BreachInv, Counts, Unreported, Notifies, JustIgnored, monitorVars
  <2>4. EventsSpaced' /\ StaleSpaced'
    BY <1>2, <2>1 DEF EventsSpaced, StaleSpaced, Spaced, monitorVars, staleVars
  <2> QED BY <1>1, <2>2, <2>3, <2>4 DEF SpacedInv
<1>4. CASE \E s, level, delay : Polled(s, level, delay)
  <2>1. PICK s, level, delay : Polled(s, level, delay)
    BY <1>4
  <2>2. EventsSpacedInv' /\ EventsSpaced'
    BY <1>2, <2>1, PollEventsSpaced, PollEventsAreSpaced
  <2>3. StaleSpacedInv' /\ StaleSpaced'
    BY <1>2, <2>1, PollStaleSpaced
  <2>4. BreachInv'
    BY <1>2, <2>1, PollBreach
  <2> QED BY <1>1, <2>2, <2>3, <2>4 DEF SpacedInv
<1>5. CASE Clicks
  <2>1. EventsSpacedInv' /\ StaleSpacedInv' /\ BreachInv'
    BY <1>2, <1>5, ClickBooks, ClickStale
  <2>2. UNCHANGED <<past, limits>> /\ stalePolicy'.cooldown = stalePolicy.cooldown
    BY <1>2, <1>5, PoliciesKeep
  <2>3. EventsSpaced' /\ StaleSpaced'
    BY <1>2, <2>2 DEF EventsSpaced, StaleSpaced, Spaced
  <2> QED BY <1>1, <2>1, <2>3 DEF SpacedInv
<1> QED
  BY <1>2, <1>3, <1>4, <1>5, StepIs

LEMMA BooksHold ==
    Spec => []BooksInv
<1>1. MonitoringInit => BooksInv
  BY BooksInit
<1>2. BooksInv /\ [Next]_vars => BooksInv'
  BY BooksStep
<1> QED
  BY <1>1, <1>2, PTL DEF Spec

LEMMA SpacedHolds ==
    ASSUME PollsWithinTheHour
    PROVE  Spec => []SpacedInv
<1>1. MonitoringInit => SpacedInv
  BY SpacedInit
<1>2. SpacedInv /\ [Next]_vars => SpacedInv'
  BY SpacedStep
<1> QED
  BY <1>1, <1>2, PTL DEF Spec

-----------------------------------------------------------------------------
(* The growth windows.                                                     *)

(* The memory of a group is a number: the fold that adds it up is what its *)
(* recursion says, as for the ancestors.                                   *)
Sums(s, S, k, g) ==
    g = [t \in {u \in SUBSET S : Cardinality(u) <= k} |->
            IF t = {} THEN 0
            ELSE LET x == CHOOSE y \in t : TRUE IN s[x].memory + g[t \ {x}]]

LEMMA SumsExist ==
    ASSUME NEW s, NEW S, IsFiniteSet(S), NEW m \in Nat
    PROVE  \E g : Sums(s, S, m, g)
<1> DEFINE T == {k \in Nat : ~\E g : Sums(s, S, k, g)}
           Small(k) == {u \in SUBSET S : Cardinality(u) <= k}
           one(t) == CHOOSE y \in t : TRUE
<1> SUFFICES ASSUME T # {} PROVE FALSE
  OBVIOUS
<1>1. PICK k \in T : \A j \in T : k <= j
  <2>1. T \subseteq Nat
    OBVIOUS
  <2> HIDE DEF T
  <2> QED BY <2>1, LeastNumber
<1>2. k \in Nat /\ ~\E g : Sums(s, S, k, g)
  OBVIOUS
<1>3. \A u \in SUBSET S : IsFiniteSet(u) /\ Cardinality(u) \in Nat
  BY FS_Subset, FS_CardinalityType
<1>4. \A t \in SUBSET S : t # {} =>
          t \ {one(t)} \in SUBSET S /\ Cardinality(t \ {one(t)}) = Cardinality(t) - 1
  BY <1>3, FS_RemoveElement
<1>5. k # 0
  <2>1. \A u \in SUBSET S : Cardinality(u) <= 0 => u = {}
    BY <1>3, FS_EmptySet
  <2> DEFINE g == [t \in Small(0) |-> 0]
  <2>2. Sums(s, S, 0, g)
    BY <2>1 DEF Sums
  <2> QED BY <1>2, <2>2
<1>6. PICK g : Sums(s, S, k - 1, g)
  <2>1. k - 1 \in Nat /\ k - 1 \notin T
    BY <1>1, <1>5
  <2> QED BY <2>1
<1> DEFINE sum(t, f) == IF t = {} THEN 0 ELSE s[one(t)].memory + f[t \ {one(t)}]
           h == [t \in Small(k) |-> IF Cardinality(t) < k THEN g[t] ELSE sum(t, g)]
<1>7. \A t \in Small(k - 1) : g[t] = sum(t, g)
  BY <1>6 DEF Sums
<1>8. ASSUME NEW t \in Small(k) PROVE h[t] = sum(t, h)
  <2>1. Cardinality(t) \in Nat /\ t \in SUBSET S
    BY <1>3
  <2>2. CASE t = {}
    <3>1. Cardinality(t) = 0 /\ t \in Small(k - 1) /\ 0 < k
      BY <1>2, <1>5, <2>1, <2>2, FS_EmptySet
    <3>2. h[t] = g[t] /\ g[t] = sum(t, g)
      BY <1>7, <3>1
    <3> QED BY <2>2, <3>2
  <2>3. CASE t # {}
    <3> DEFINE rest == t \ {one(t)}
    <3>1. rest \in SUBSET S /\ Cardinality(rest) = Cardinality(t) - 1
      BY <1>4, <2>1, <2>3
    <3>2. h[rest] = g[rest]
      BY <2>1, <3>1
    <3>3. h[t] = sum(t, g)
      <4>1. Cardinality(t) < k => t \in Small(k - 1)
        BY <1>2, <2>1
      <4>2. Cardinality(t) < k => g[t] = sum(t, g)
        BY <1>7, <4>1
      <4> HIDE DEF sum
      <4> QED BY <4>2
    <3> QED BY <2>3, <3>2, <3>3
  <2> QED BY <2>2, <2>3
<1>9. Sums(s, S, k, h)
  <2>1. h = [t \in Small(k) |-> h[t]]
    OBVIOUS
  <2> HIDE DEF h
  <2>2. h = [t \in Small(k) |-> sum(t, h)]
    BY <1>8, <2>1
  <2> QED BY <2>2 DEF Sums
<1> QED
  BY <1>2, <1>9

LEMMA MemoryIsNumber ==
    ASSUME NEW s, NEW S, IsFiniteSet(S), \A p \in S : s[p].memory \in Nat
    PROVE  MemoryOf(s, S) \in Nat
<1> DEFINE n == Cardinality(S)
           one(t) == CHOOSE y \in t : TRUE
           iter == CHOOSE g : Sums(s, S, n, g)
<1>1. \A u \in SUBSET S : IsFiniteSet(u) /\ Cardinality(u) \in Nat /\ Cardinality(u) <= n
  BY FS_Subset, FS_CardinalityType
<1>2. {u \in SUBSET S : Cardinality(u) <= n} = SUBSET S
  BY <1>1
<1>3. MemoryOf(s, S) = iter[S]
  BY <1>2 DEF MemoryOf, MapThenSumSet, MapThenFoldSet, Sums
<1>4. Sums(s, S, n, iter)
  BY <1>1, SumsExist
<1>5. \A t \in SUBSET S :
        iter[t] = IF t = {} THEN 0 ELSE s[one(t)].memory + iter[t \ {one(t)}]
  BY <1>2, <1>4 DEF Sums
<1> HIDE DEF iter
<1> DEFINE T == {k \in Nat : \E t \in SUBSET S : Cardinality(t) = k /\ iter[t] \notin Nat}
<1>6. T = {}
  <2> SUFFICES ASSUME T # {} PROVE FALSE
    OBVIOUS
  <2>1. PICK k \in T : \A j \in T : k <= j
    <3>1. T \subseteq Nat
      OBVIOUS
    <3> HIDE DEF T
    <3> QED BY <3>1, LeastNumber
  <2>2. PICK t \in SUBSET S : Cardinality(t) = k /\ iter[t] \notin Nat
    OBVIOUS
  <2>3. t # {}
    BY <1>5, <2>2
  <2> DEFINE rest == t \ {one(t)}
  <2>4. one(t) \in t /\ rest \in SUBSET S
    BY <2>3
  <2>5. Cardinality(rest) = k - 1 /\ k - 1 \in Nat
    <3>1. IsFiniteSet(t) /\ Cardinality(rest) \in Nat
      BY <1>1, <2>4
    <3>2. Cardinality(rest) = Cardinality(t) - 1
      BY <2>4, <3>1, FS_RemoveElement
    <3> QED BY <2>2, <3>1, <3>2
  <2>6. iter[rest] \in Nat
    BY <2>1, <2>4, <2>5
  <2>7. iter[t] = s[one(t)].memory + iter[rest]
    BY <1>5, <2>3
  <2> QED BY <2>2, <2>4, <2>6, <2>7
<1> QED
  BY <1>1, <1>3, <1>6

LEMMA AppIsNumbered ==
    ASSUME NEW s, DOMAIN s \subseteq Nat, IsFiniteSet(DOMAIN s),
           \A p \in DOMAIN s : s[p].start \in Nat /\ s[p].memory \in Nat,
           NEW guard, NEW policy, NEW w \in BuildBackgroundWorkloads(s, guard, policy)
    PROVE  w.memory \in Nat /\ w.root.pid \in Nat
<1>1. PICK g \in EligibleGroups(s) : w = BuildGroup(s, g)
  BY DEF BuildBackgroundWorkloads
<1>2. w.memory = MemoryOf(s, GroupMembers(s, g))
  BY <1>1 DEF BuildGroup
<1>3. GroupMembers(s, g) \in SUBSET DOMAIN s
  BY DEF GroupMembers
<1>4. IsFiniteSet(GroupMembers(s, g)) /\ \A p \in GroupMembers(s, g) : s[p].memory \in Nat
  BY <1>3, FS_Subset
<1>5. w.memory \in Nat
  BY <1>2, <1>4, MemoryIsNumber
<1>6. w.root.pid \in Nat
  <2>1. PICK r \in DOMAIN s : w.root = IdOf(s, r)
    BY SafeIsThere
  <2> QED BY <2>1 DEF IdOf
<1> QED
  BY <1>5, <1>6

LEMMA PidTellsApp ==
    ASSUME NEW s, DOMAIN s \subseteq Nat, \A p \in DOMAIN s : s[p].start \in Nat,
           NEW guard, NEW policy,
           NEW v \in BuildBackgroundWorkloads(s, guard, policy),
           NEW w \in BuildBackgroundWorkloads(s, guard, policy), v.root.pid = w.root.pid
    PROVE  v = w
<1>1. PICK p \in DOMAIN s : v.root = IdOf(s, p)
  BY SafeIsThere
<1>2. PICK q \in DOMAIN s : w.root = IdOf(s, q)
  BY SafeIsThere
<1>3. v.root = w.root
  BY <1>1, <1>2 DEF IdOf
<1> QED
  BY <1>3, RootTellsApp

LEMMA AppsAreFinite ==
    ASSUME NEW s, IsFiniteSet(DOMAIN s), NEW guard, NEW policy
    PROVE  IsFiniteSet(BuildBackgroundWorkloads(s, guard, policy))
<1> DEFINE group == [p \in DOMAIN s |-> s[p].context.group]
           G == {h \in EligibleGroups(s) : SafeGroup(s, h, guard, policy)}
           build == [g \in G |-> BuildGroup(s, g)]
<1>1. IsFiniteSet({group[p] : p \in DOMAIN group})
  BY FiniteImage
<1>2. G \in SUBSET {group[p] : p \in DOMAIN group}
  BY DEF EligibleGroups
<1>3. IsFiniteSet(G)
  BY <1>1, <1>2, FS_Subset
<1>4. IsFiniteSet({build[g] : g \in DOMAIN build})
  <2> HIDE DEF G
  <2> QED BY <1>3, FiniteImage
<1>5. BuildBackgroundWorkloads(s, guard, policy) = {build[g] : g \in DOMAIN build}
  BY DEF BuildBackgroundWorkloads
<1> QED
  BY <1>4, <1>5

(* cap_workloads keeps no more than the bound: the groups that go before   *)
(* one are fewer than those that go before a later one.                    *)
LEMMA CappedAreFew ==
    ASSUME NEW s, DOMAIN s \subseteq Nat, IsFiniteSet(DOMAIN s),
           \A p \in DOMAIN s : s[p].start \in Nat /\ s[p].memory \in Nat,
           NEW guard, NEW policy
    PROVE  Cardinality({w.root : w \in Capped(BuildBackgroundWorkloads(s, guard, policy))})
             <= MaxTracked
<1> DEFINE W == BuildBackgroundWorkloads(s, guard, policy)
           before(w) == {v \in W : Precedes(v, w)}
           roots == {w.root : w \in Capped(W)}
           Of(r) == CHOOSE w \in Capped(W) : w.root = r
           rank == [r \in roots |-> Cardinality(before(Of(r)))]
<1>1. \A w \in W : w.memory \in Nat /\ w.root.pid \in Nat
  BY AppIsNumbered
<1>2. \A v, w \in W : v.root.pid = w.root.pid => v = w
  BY PidTellsApp
<1>3. IsFiniteSet(W)
  BY AppsAreFinite
<1> HIDE DEF W
<1>4. \A w \in W : IsFiniteSet(before(w)) /\ Cardinality(before(w)) \in Nat
  <2>1. \A w \in W : before(w) \in SUBSET W
    OBVIOUS
  <2> HIDE DEF before
  <2> QED BY <1>3, <2>1, FS_Subset, FS_CardinalityType
<1>5. ASSUME NEW v \in W, NEW w \in W, Precedes(v, w)
      PROVE  Cardinality(before(v)) < Cardinality(before(w))
  <2>1. before(v) \in SUBSET before(w)
    <3>1. ASSUME NEW u \in W, Precedes(u, v) PROVE Precedes(u, w)
      BY <1>1, <1>5, <3>1 DEF Precedes
    <3> QED BY <3>1
  <2>2. v \in before(w) /\ v \notin before(v)
    BY <1>1, <1>5 DEF Precedes
  <2> HIDE DEF before
  <2>3. before(v) # before(w)
    BY <2>2
  <2>4. Cardinality(before(v)) <= Cardinality(before(w))
        /\ Cardinality(before(v)) # Cardinality(before(w))
    BY <1>4, <2>1, <2>3, FS_Subset
  <2> QED BY <1>4, <2>4
<1>6. \A v, w \in W : v # w => Precedes(v, w) \/ Precedes(w, v)
  BY <1>1, <1>2 DEF Precedes
<1>7. \A v, w \in W : Cardinality(before(v)) = Cardinality(before(w)) => v = w
  <2> HIDE DEF before
  <2> QED BY <1>4, <1>5, <1>6
<1>8. \A r \in roots : Of(r) \in Capped(W) /\ Of(r).root = r
  OBVIOUS
<1>9. MaxTracked \in Nat /\ MaxTracked - 1 \in Nat
  BY BackgroundAssumption
<1>10. \A w \in Capped(W) : w \in W /\ Cardinality(before(w)) < MaxTracked
  BY DEF Capped
<1>11. rank \in Injection(roots, 0..(MaxTracked - 1))
  <2> HIDE DEF before, Of, roots
  <2>1. \A r \in roots : rank[r] \in 0..(MaxTracked - 1)
    BY <1>4, <1>8, <1>9, <1>10
  <2>2. \A q, r \in roots : rank[q] = rank[r] => q = r
    BY <1>7, <1>8, <1>10
  <2> QED BY <2>1, <2>2 DEF Injection, IsInjective
<1>12. Cardinality(roots) <= Cardinality(0..(MaxTracked - 1))
  <2>1. IsFiniteSet(0..(MaxTracked - 1))
    BY <1>9, FS_Interval
  <2> HIDE DEF rank, roots
  <2> QED BY <1>11, <2>1, FS_Injection
<1>13. Cardinality(0..(MaxTracked - 1)) = MaxTracked
  <2>1. Cardinality(0..(MaxTracked - 1)) = IF 0 > MaxTracked - 1 THEN 0 ELSE (MaxTracked - 1) - 0 + 1
    BY <1>9, FS_Interval
  <2> QED BY <1>9, <2>1
<1> QED
  BY <1>12, <1>13 DEF W

(* A history with samples at least an interval apart, the last one `since` *)
(* ago: each is that much older than the next, up to just over the window, *)
(* and only the oldest may have been over it when the last one was taken.  *)
Spread(h, window, interval, since) ==
    /\ Len(h) \in Nat \ {0} /\ h = [k \in 1..Len(h) |-> h[k]]
    /\ (Len(h) - 2) * interval <= window
    /\ \A k \in 1..Len(h) :
         /\ "age" \in DOMAIN h[k] /\ h[k].age \in Nat /\ h[k].age <= window + 1
         /\ h[k].age >= Least(window + 1, (Len(h) - k) * interval + since)

LEMMA AgedSpread ==
    ASSUME NEW window \in Nat, NEW interval \in Nat \ {0}, NEW since \in Nat, NEW delay \in Nat,
           NEW policy, policy.window = window,
           NEW h, Spread(h, window, interval, since)
    PROVE  Spread(Aged(h, policy, delay), window, interval, Least(interval, since + delay))
<1> DEFINE n == Len(h)
           g == Aged(h, policy, delay)
<1>1. n \in Nat \ {0} /\ DOMAIN h = 1..n
  BY DEF Spread
<1>2. g = [k \in 1..n |-> g[k]] /\ \A k \in 1..n :
         g[k] = [h[k] EXCEPT !.age = Least(window + 1, h[k].age + delay)]
  BY <1>1 DEF Aged
<1>3. Len(g) = n
  <2> HIDE DEF g, n
  <2> QED BY <1>1, <1>2, LengthOf
<1>4. ASSUME NEW k \in 1..n
      PROVE  /\ "age" \in DOMAIN g[k] /\ g[k].age \in Nat /\ g[k].age <= window + 1
             /\ g[k].age >= Least(window + 1, (n - k) * interval + Least(interval, since + delay))
  <2> DEFINE x == (n - k) * interval
             a == h[k].age
  <2>1. /\ "age" \in DOMAIN h[k] /\ a \in Nat /\ a <= window + 1
        /\ a >= Least(window + 1, x + since)
    BY DEF Spread
  <2>2. x \in Int
    BY <1>1
  <2>3. "age" \in DOMAIN g[k] /\ g[k].age = Least(window + 1, a + delay)
    BY <1>2, <2>1
  <2> HIDE DEF x, a, g
  <2>4. Least(window + 1, a + delay) \in Nat /\ Least(window + 1, a + delay) <= window + 1
    BY <2>1 DEF Least
  <2>5. Least(window + 1, a + delay) >= Least(window + 1, x + Least(interval, since + delay))
    BY <2>1, <2>2 DEF Least
  <2> QED BY <2>3, <2>4, <2>5 DEF x
<1>5. (n - 2) * interval <= window
  BY DEF Spread
<1> HIDE DEF n, g
<1> QED
  BY <1>1, <1>2, <1>3, <1>4, <1>5 DEF Spread, g

(* What is kept when a sample is added: it and the ones before, which stand *)
(* where they stood from the last one on.                                  *)
StandsFor(new, old, x) ==
    \A j \in 1..Len(new) :
        \/ new[j] = x /\ j = Len(new)
        \/ \E k \in 1..Len(old) : new[j] = old[k] /\ Len(new) - j = Len(old) + 1 - k

LEMMA RecordedSpread ==
    ASSUME NEW window \in Nat, NEW interval \in Nat \ {0},
           NEW h, h = <<>> \/ Spread(h, window, interval, interval),
           NEW x, "age" \in DOMAIN x, x.age = 0
    PROVE  /\ Spread(Pruned(Append(h, x), window), window, interval, 0)
           /\ StandsFor(Pruned(Append(h, x), window), h, x)
<1> DEFINE a == Append(h, x)
           n == Len(h) + 1
<1>1. n \in Nat \ {0} /\ Len(a) = n /\ DOMAIN a = 1..n /\ a \in Seq({a[k] : k \in 1..n})
      /\ a[n] = x /\ \A k \in 1..(n - 1) : a[k] = h[k]
  <2> DEFINE S == {h[k] : k \in 1..Len(h)} \cup {x}
  <2>1. h \in Seq(S) /\ Len(h) \in Nat
    <3>1. CASE h = <<>>
      BY <3>1
    <3>2. CASE Spread(h, window, interval, interval)
      BY <3>2 DEF Spread
    <3> QED BY <3>1, <3>2
  <2>2. x \in S
    OBVIOUS
  <2> HIDE DEF S
  <2>3. /\ Len(a) = n /\ DOMAIN a = 1..n /\ a \in Seq(S)
        /\ a[n] = x /\ \A k \in 1..(n - 1) : a[k] = h[k]
    BY <2>1, <2>2
  <2>4. a \in Seq({a[k] : k \in 1..n})
    <3> HIDE DEF a, n
    <3> QED BY <2>3
  <2> QED BY <2>1, <2>3, <2>4
<1>2. ASSUME NEW k \in 1..n
      PROVE  /\ "age" \in DOMAIN a[k] /\ a[k].age \in Nat /\ a[k].age <= window + 1
             /\ a[k].age >= Least(window + 1, (n - k) * interval)
  <2>1. CASE k = n
    <3>1. (n - k) * interval = 0
      BY <1>1, <2>1
    <3> QED BY <1>1, <2>1, <3>1 DEF Least
  <2>2. CASE k # n
    <3>1. k \in 1..Len(h) /\ a[k] = h[k] /\ h # <<>>
      BY <1>1, <2>2
    <3>2. (n - k) * interval = (Len(h) - k) * interval + interval
      BY <1>1, <3>1
    <3> QED BY <3>1, <3>2 DEF Spread
  <2> QED BY <2>1, <2>2
<1> DEFINE T == {1} \cup {k \in DOMAIN a : a[k].age > window}
           front == Max(T)
           m == n - front + 1
           b == SubSeq(a, front, Len(a))
<1>3. front \in 1..n /\ \A k \in 1..n : a[k].age > window => k <= front
  <2>1. T \subseteq 0..n /\ T # {} /\ T \subseteq 1..n
    BY <1>1
  <2>2. \A k \in 1..n : a[k].age > window => k \in T
    BY <1>1
  <2> HIDE DEF T
  <2> QED BY <1>1, <2>1, <2>2, LargestBelow
<1> HIDE DEF front, T
<1>4. m \in Nat \ {0} /\ Len(b) = m /\ b = [j \in 1..m |-> b[j]]
      /\ \A j \in 1..m : b[j] = a[front + j - 1] /\ front + j - 1 \in 1..n
  BY <1>1, <1>3
<1> HIDE DEF a, n, b
<1>5. ASSUME NEW j \in 1..m
      PROVE  /\ "age" \in DOMAIN b[j] /\ b[j].age \in Nat /\ b[j].age <= window + 1
             /\ b[j].age >= Least(window + 1, (m - j) * interval + 0)
  <2>1. b[j] = a[front + j - 1] /\ front + j - 1 \in 1..n
    BY <1>4
  <2>2. n - (front + j - 1) = m - j /\ (m - j) * interval + 0 = (m - j) * interval
    BY <1>1, <1>3
  <2> QED BY <1>2, <2>1, <2>2
<1>6. (m - 2) * interval <= window
  <2>1. CASE m = 1
    BY <2>1
  <2>2. CASE m # 1
    <3>1. 2 \in 1..m
      BY <1>4, <2>2
    <3>2. b[2] = a[front + 1] /\ front + 1 \in 1..n
      BY <1>3, <1>4, <3>1
    <3>3. b[2].age <= window
      BY <1>2, <1>3, <3>2
    <3>4. b[2].age >= Least(window + 1, (m - 2) * interval)
      BY <1>3, <1>1, <1>5, <3>1
    <3>5. (m - 2) * interval \in Int /\ b[2].age \in Nat
      BY <1>4, <1>5, <3>1
    <3> QED BY <3>3, <3>4, <3>5 DEF Least
  <2> QED BY <2>1, <2>2
<1>7. Pruned(Append(h, x), window) = b
  BY DEF Pruned, b, front, T, a
<1>8. ASSUME NEW j \in 1..m
      PROVE  \/ b[j] = x /\ j = m
             \/ \E k \in 1..Len(h) : b[j] = h[k] /\ m - j = Len(h) + 1 - k
  <2> DEFINE k == front + j - 1
  <2>1. k \in 1..n /\ b[j] = a[k] /\ m - j = n - k
    BY <1>1, <1>3, <1>4
  <2>2. CASE k = n
    BY <1>1, <1>4, <2>1, <2>2
  <2>3. CASE k # n
    <3>1. k \in 1..(n - 1) /\ n - 1 = Len(h)
      BY <1>1, <2>1, <2>3 DEF n
    <3>2. b[j] = h[k] /\ m - j = Len(h) + 1 - k
      BY <1>1, <2>1, <3>1
    <3> HIDE DEF k
    <3> QED BY <3>1, <3>2
  <2> QED BY <2>2, <2>3
<1> HIDE DEF m
<1>9. Spread(b, window, interval, 0)
  BY <1>4, <1>5, <1>6 DEF Spread
<1>10. StandsFor(b, h, x)
  BY <1>4, <1>8 DEF StandsFor
<1> QED
  BY <1>7, <1>9, <1>10

LEMMA Quotient ==
    ASSUME NEW a \in Nat, NEW b \in Nat \ {0}, NEW q \in Int, q * b <= a
    PROVE  q <= a \div b
OBVIOUS

(* What a poll makes of the histories.                                     *)
SampleTaken(s, delay) ==
    /\ sinceSample' = 0 /\ sinceSample + delay >= bgPolicy.interval
    /\ DOMAIN history' = {w.root : w \in Capped(BuildBackgroundWorkloads(s, bgProtection, bgPolicy))}
    /\ \A r \in DOMAIN history' : \E x :
         /\ "age" \in DOMAIN x /\ x.age = 0
         /\ history'[r] = Pruned(Append(IF r \in DOMAIN history
                                        THEN Aged(history[r], bgPolicy, delay) ELSE <<>>, x),
                                 bgPolicy.window)
NoSampleTaken(delay) ==
    /\ sinceSample' = sinceSample + delay /\ sinceSample + delay < bgPolicy.interval
    /\ history' = [r \in DOMAIN history |-> Aged(history[r], bgPolicy, delay)]

LEMMA PollSamples ==
    ASSUME SettingsInv, sinceSample \in Nat, NEW s, NEW level, NEW delay, Polled(s, level, delay)
    PROVE  /\ ~bgPolicy.enabled => history' = <<>> /\ sinceSample' = bgPolicy.interval
           /\ bgPolicy.enabled => SampleTaken(s, delay) \/ NoSampleTaken(delay)
<1>1. delay \in Nat \ {0} /\ bgPolicy.interval \in Nat \ {0}
  BY PollSettings DEF SettingsInv, IsBackgroundPolicy
<1>2. EvaluateBackground(s, level, delay)
  BY DEF Polled
<1> DEFINE since == Least(bgPolicy.interval, sinceSample + delay)
<1>3. CASE ~bgPolicy.enabled
  BY <1>2, <1>3 DEF EvaluateBackground
<1>4. CASE bgPolicy.enabled /\ ~SampleDue(since, bgPolicy)
  <2>1. /\ history' = [r \in DOMAIN history |-> Aged(history[r], bgPolicy, delay)]
        /\ sinceSample' = since
    BY <1>2, <1>4 DEF EvaluateBackground
  <2>2. since = sinceSample + delay /\ since < bgPolicy.interval
    BY <1>1, <1>4 DEF SampleDue, Least
  <2> QED BY <1>4, <2>1, <2>2 DEF NoSampleTaken
<1>5. CASE bgPolicy.enabled /\ SampleDue(since, bgPolicy)
  <2> DEFINE workloads == Capped(BuildBackgroundWorkloads(s, bgProtection, bgPolicy))
             roots == {w.root : w \in workloads}
             aged == [r \in DOMAIN history |-> Aged(history[r], bgPolicy, delay)]
             samples == [w \in workloads |-> Recorded(w, aged, bgPolicy)]
             Of(r) == CHOOSE w \in workloads : w.root = r
  <2>1. history' = [r \in roots |-> samples[Of(r)]] /\ sinceSample' = 0
    BY <1>2, <1>5 DEF EvaluateBackground, TakeSample
  <2>2. sinceSample + delay >= bgPolicy.interval
    BY <1>1, <1>5 DEF SampleDue, Least
  <2>3. \A r \in roots : Of(r) \in workloads /\ Of(r).root = r
    OBVIOUS
  <2>4. \A r \in DOMAIN history : aged[r] = Aged(history[r], bgPolicy, delay)
    OBVIOUS
  <2>5. DOMAIN aged = DOMAIN history
    OBVIOUS
  <2> HIDE DEF aged, Of, workloads
  <2>6. ASSUME NEW r \in roots
        PROVE  \E x :
                 /\ "age" \in DOMAIN x /\ x.age = 0
                 /\ history'[r] = Pruned(Append(IF r \in DOMAIN history
                                          THEN Aged(history[r], bgPolicy, delay) ELSE <<>>, x),
                                   bgPolicy.window)
    <3> DEFINE w == Of(r)
               x == [age |-> 0, memory |-> w.memory, count |-> Count(w), cpu |-> w.cpu]
    <3>1. w \in workloads /\ w.root = r
      BY <2>3, <2>6
    <3> HIDE DEF w
    <3>2. history'[r] = Recorded(w, aged, bgPolicy)
      BY <2>1, <2>6, <3>1 DEF w
    <3>3. Recorded(w, aged, bgPolicy)
            = Pruned(Append(IF r \in DOMAIN aged THEN aged[r] ELSE <<>>, x), bgPolicy.window)
      BY <3>1 DEF Recorded
    <3>4. (IF r \in DOMAIN aged THEN aged[r] ELSE <<>>)
            = IF r \in DOMAIN history THEN Aged(history[r], bgPolicy, delay) ELSE <<>>
      BY <2>4, <2>5
    <3>5. "age" \in DOMAIN x /\ x.age = 0
      OBVIOUS
    <3> HIDE DEF x
    <3> QED BY <3>2, <3>3, <3>4, <3>5
  <2>7. DOMAIN history' = roots
    BY <2>1
  <2> HIDE DEF roots
  <2>8. SampleTaken(s, delay)
    BY <2>1, <2>2, <2>6, <2>7 DEF SampleTaken, roots, workloads
  <2> QED BY <1>5, <2>8
<1> QED
  BY <1>3, <1>4, <1>5

(* Histories are few, and short.                                           *)
HistoryInv ==
    /\ sinceSample \in 0..bgPolicy.interval
    /\ Cardinality(DOMAIN history) <= MaxTracked
    /\ \A r \in DOMAIN history :
         Spread(history[r], bgPolicy.window, bgPolicy.interval, sinceSample)

LEMMA PollHistory ==
    ASSUME SettingsInv, HistoryInv, NEW s, NEW level, NEW delay, Polled(s, level, delay)
    PROVE  HistoryInv'
<1> DEFINE window == bgPolicy.window
           interval == bgPolicy.interval
<1>1. /\ delay \in Nat \ {0} /\ interval \in Nat \ {0} /\ window \in Nat
      /\ sinceSample \in Nat /\ sinceSample <= interval /\ UNCHANGED bgPolicy
  BY PollSettings DEF SettingsInv, IsBackgroundPolicy, HistoryInv
<1>2. CASE ~bgPolicy.enabled
  <2>1. history' = <<>> /\ sinceSample' = interval
    BY <1>1, <1>2, PollSamples
  <2>2. DOMAIN history' = {} /\ Cardinality(DOMAIN history') = 0
    BY <2>1, FS_EmptySet
  <2> QED BY <1>1, <2>1, <2>2, BackgroundAssumption DEF HistoryInv
<1>3. ASSUME NEW r \in DOMAIN history
      PROVE  Spread(Aged(history[r], bgPolicy, delay), window, interval,
                     Least(interval, sinceSample + delay))
  BY <1>1, AgedSpread DEF HistoryInv
<1>4. CASE bgPolicy.enabled /\ NoSampleTaken(delay)
  <2>1. sinceSample' = Least(interval, sinceSample + delay) /\ sinceSample' \in 0..interval
    BY <1>1, <1>4 DEF NoSampleTaken, Least
  <2>2. DOMAIN history' = DOMAIN history
        /\ \A r \in DOMAIN history : history'[r] = Aged(history[r], bgPolicy, delay)
    BY <1>4 DEF NoSampleTaken
  <2> QED BY <1>1, <1>3, <2>1, <2>2 DEF HistoryInv
<1>5. CASE bgPolicy.enabled /\ SampleTaken(s, delay)
  <2>1. Least(interval, sinceSample + delay) = interval /\ sinceSample' = 0
    BY <1>1, <1>5 DEF SampleTaken, Least
  <2>2. ASSUME NEW r \in DOMAIN history' PROVE Spread(history'[r], window, interval, 0)
    <3> DEFINE h == IF r \in DOMAIN history THEN Aged(history[r], bgPolicy, delay) ELSE <<>>
    <3>1. PICK x : /\ "age" \in DOMAIN x /\ x.age = 0
                   /\ history'[r] = Pruned(Append(h, x), window)
      BY <1>5, <2>2 DEF SampleTaken
    <3>2. h = <<>> \/ Spread(h, window, interval, interval)
      BY <1>3, <2>1
    <3> HIDE DEF h, window, interval
    <3>3. Spread(Pruned(Append(h, x), window), window, interval, 0)
      BY <1>1, <3>1, <3>2, RecordedSpread
    <3> QED BY <3>1, <3>3
  <2>3. Cardinality(DOMAIN history') <= MaxTracked
    <3>1. /\ DOMAIN s \subseteq Nat /\ IsFiniteSet(DOMAIN s)
          /\ \A p \in DOMAIN s : s[p].start \in Nat /\ s[p].memory \in Nat
      BY DEF Polled, Looks
    <3> QED BY <1>5, <3>1, CappedAreFew DEF SampleTaken
  <2> QED BY <1>1, <2>1, <2>2, <2>3 DEF HistoryInv
<1> QED
  BY <1>1, <1>2, <1>4, <1>5, PollSamples

LEMMA HistoriesAreShort ==
    ASSUME SettingsInv, HistoryInv, NEW r \in DOMAIN history
    PROVE  Len(history[r]) <= 2 + bgPolicy.window \div bgPolicy.interval
<1> DEFINE n == Len(history[r])
<1>1. bgPolicy.interval \in Nat \ {0} /\ bgPolicy.window \in Nat
  BY DEF SettingsInv, IsBackgroundPolicy
<1>2. n - 2 \in Int /\ (n - 2) * bgPolicy.interval <= bgPolicy.window
  BY DEF HistoryInv, Spread
<1> HIDE DEF n
<1>3. n - 2 <= bgPolicy.window \div bgPolicy.interval
  BY <1>1, <1>2, Quotient
<1>4. bgPolicy.window \div bgPolicy.interval \in Int /\ n \in Int
  BY <1>1 DEF n, HistoryInv, Spread
<1> QED
  BY <1>3, <1>4 DEF n

(* A growth window, rounded up to whole intervals.                         *)
LEMMA WholeIntervals ==
    ASSUME NEW w \in Nat, NEW i \in Nat \ {0}
    PROVE  (w + i - 1) \div i \in Nat /\ ((w + i - 1) \div i) * i >= w
<1> DEFINE a == w + i - 1
           c == a \div i
<1>1. a \in Nat
  OBVIOUS
<1> HIDE DEF a
<1>2. c \in Int /\ a < i * c + i
  BY <1>1
<1>3. 0 <= c
  BY <1>1, Quotient
<1> HIDE DEF c
<1>4. c * i >= w
  BY <1>2 DEF a
<1> QED
  BY <1>2, <1>3, <1>4 DEF a, c

(* Every sample was taken at a poll that is remembered, unless it is too   *)
(* far back, and since then the root was safe in every sample.             *)
Watched(polls, r, n) ==
    polls[n].sampled /\ \A j \in 1..n : polls[j].sampled => r \in polls[j].safe
Witnessed(polls, window, r, age, far) ==
    far <= Memory =>
        \E n \in DOMAIN polls :
            n <= far /\ polls[n].ago >= Least(window, age) /\ Watched(polls, r, n)
Far(h, k, interval, since) == 1 + since + (Len(h) - k) * interval
WatchedInv ==
    /\ Reach(bgPolicy) < Memory
    /\ \A r \in DOMAIN history :
         /\ sinceSample < bgPolicy.interval
         /\ \A k \in 1..Len(history[r]) :
              Witnessed(past, bgPolicy.window, r, history[r][k].age,
                        Far(history[r], k, bgPolicy.interval, sinceSample))

(* What was notified of has a sample as old as the window.                 *)
NoticedInv ==
    past # <<>> =>
        \A r \in past[1].apps :
            /\ r \in DOMAIN history /\ sinceSample = 0
            /\ history[r][1].age >= bgPolicy.window

LEMMA WindowIsObserved ==
    ASSUME SettingsInv, HistoryInv, WatchedInv, NoticedInv
    PROVE  WindowObserved
<1> SUFFICES ASSUME past # <<>>, NEW r \in past[1].apps
             PROVE  \E n \in DOMAIN past :
                       /\ past[n].ago >= bgPolicy.window /\ past[n].sampled
                       /\ Throughout(n, LAMBDA poll : poll.sampled => r \in poll.safe)
  BY DEF WindowObserved
<1> DEFINE h == history[r]
           n == Len(h)
           w == bgPolicy.window
           i == bgPolicy.interval
           c == (w + i - 1) \div i
<1>1. r \in DOMAIN history /\ sinceSample = 0 /\ h[1].age >= w
  BY DEF NoticedInv
<1>2. /\ n \in Nat \ {0}
      /\ \A k \in 1..n : h[k].age \in Nat /\ h[k].age >= Least(w + 1, (n - k) * i + sinceSample)
  BY <1>1 DEF HistoryInv, Spread
<1>3. w \in Nat /\ i \in Nat \ {0} /\ Memory \in Nat
  BY MonitoringAssumption DEF SettingsInv, IsBackgroundPolicy
<1>4. c \in Nat /\ c * i >= w /\ c * i < Memory
  <2>1. c \in Nat /\ c * i >= w
    BY <1>3, WholeIntervals
  <2> QED BY <2>1 DEF WatchedInv, Reach
<1>5. \A k \in 1..n : Witnessed(past, w, r, h[k].age, Far(h, k, i, 0))
  BY <1>1 DEF WatchedInv
<1>6. \A k \in 1..n : Far(h, k, i, 0) = 1 + (n - k) * i
  BY <1>1, <1>2, <1>3 DEF Far
<1> HIDE DEF h, n, w, i, c
<1>7. \E k \in 1..n : Far(h, k, i, 0) <= Memory /\ h[k].age >= w
  <2>1. CASE n - 1 <= c
    <3>1. (n - 1) * i <= c * i
      BY <1>2, <1>3, <1>4, <2>1
    <3>2. 1 \in 1..n /\ Far(h, 1, i, 0) = 1 + (n - 1) * i /\ (n - 1) * i \in Int /\ c * i \in Int
      BY <1>2, <1>3, <1>4, <1>6
    <3>3. Far(h, 1, i, 0) <= Memory
      BY <1>3, <1>4, <3>1, <3>2
    <3> QED BY <1>1, <3>2, <3>3
  <2>2. CASE n - 1 > c
    <3>1. n - c \in 1..n /\ n - (n - c) = c
      BY <1>2, <1>4, <2>2
    <3>2. Far(h, n - c, i, 0) = 1 + c * i /\ h[n - c].age >= Least(w + 1, c * i + sinceSample)
      BY <1>2, <1>6, <3>1
    <3>3. c * i \in Int
      BY <1>3, <1>4
    <3>4. h[n - c].age >= w /\ Far(h, n - c, i, 0) <= Memory
      BY <1>1, <1>2, <1>3, <1>4, <3>1, <3>2, <3>3 DEF Least
    <3> QED BY <3>1, <3>4
  <2> QED BY <1>2, <1>4, <2>1, <2>2
<1>8. PICK k \in 1..n : Far(h, k, i, 0) <= Memory /\ h[k].age >= w
  BY <1>7
<1>9. PICK m \in DOMAIN past : past[m].ago >= Least(w, h[k].age) /\ Watched(past, r, m)
  BY <1>5, <1>8 DEF Witnessed
<1>10. Least(w, h[k].age) = w
  BY <1>2, <1>3, <1>8 DEF Least
<1> QED
  BY <1>9, <1>10 DEF Watched, Throughout, w

LEMMA WitnessStays ==
    ASSUME SettingsInv, PastInv, NEW s, NEW level, NEW delay, Polled(s, level, delay),
           NEW r, past'[1].sampled => r \in past'[1].safe,
           NEW age \in Nat, NEW older \in Nat, NEW far \in Int, NEW farther \in Int,
           Witnessed(past, bgPolicy.window, r, age, far), older <= age + delay, farther >= far + 1
    PROVE  Witnessed(past', bgPolicy.window, r, older, farther)
<1>1. delay \in Nat \ {0} /\ UNCHANGED bgPolicy /\ bgPolicy.window \in Nat /\ Memory \in Nat
  BY PollSettings, MonitoringAssumption DEF SettingsInv, IsBackgroundPolicy
<1> SUFFICES ASSUME farther <= Memory
             PROVE  \E n \in DOMAIN past' :
                       /\ n <= farther /\ past'[n].ago >= Least(bgPolicy.window, older)
                       /\ past'[n].sampled
                       /\ \A j \in 1..n : past'[j].sampled => r \in past'[j].safe
  BY <1>1 DEF Witnessed, Watched
<1>2. PICK n \in DOMAIN past :
         n <= far /\ past[n].ago >= Least(bgPolicy.window, age) /\ Watched(past, r, n)
  BY <1>1 DEF Witnessed
<1>3. PICK m : Recalled(m)
  BY PollIsRecalled
<1>4. n \in 1..Len(past) /\ Len(past) \in Nat /\ past[n].ago \in Nat
  BY DEF PastInv
<1>5. n + 1 \in 1..m /\ DOMAIN past' = 1..m
  BY <1>1, <1>2, <1>3, <1>4 DEF Recalled
<1>6. ASSUME NEW j \in 2..(n + 1)
      PROVE  /\ j - 1 \in 1..n /\ j - 1 \in DOMAIN past
             /\ past'[j].sampled = past[j - 1].sampled /\ past'[j].safe = past[j - 1].safe
             /\ past'[j].ago = past[j - 1].ago + delay
  <2>1. j - 1 \in 1..n /\ j \in 1..m /\ j # 1
    BY <1>3, <1>4, <1>5 DEF Recalled
  <2>2. past'[j] = [past[j - 1] EXCEPT !.ago = @ + delay] /\ j - 1 \in DOMAIN past
    BY <1>5, <2>1, PollIsRecalled
  <2>3. DOMAIN past[j - 1] = {"ago", "over", "alone", "dirs", "quiet", "sampled", "watched", "safe",
                              "events", "trees", "groups", "apps"}
    BY <2>2 DEF PastInv
  <2> QED BY <2>1, <2>2, <2>3
<1>7. n + 1 \in 2..(n + 1) /\ (n + 1) - 1 = n
  BY <1>4
<1>8. past'[n + 1].sampled /\ past'[n + 1].ago = past[n].ago + delay
  <2>1. past'[n + 1].sampled = past[n].sampled /\ past'[n + 1].ago = past[n].ago + delay
    BY <1>6, <1>7
  <2> QED BY <1>2, <2>1 DEF Watched
<1>9. past[n].ago + delay >= Least(bgPolicy.window, older)
  BY <1>1, <1>2, <1>4 DEF Least
<1>10. ASSUME NEW j \in 1..(n + 1), past'[j].sampled PROVE r \in past'[j].safe
  <2>1. CASE j = 1
    BY <1>10, <2>1
  <2>2. CASE j # 1
    <3>1. j \in 2..(n + 1)
      BY <1>4, <2>2
    <3>2. j - 1 \in 1..n /\ past[j - 1].sampled
      BY <1>6, <1>10, <3>1
    <3>3. r \in past[j - 1].safe
      BY <1>2, <3>2 DEF Watched
    <3> QED BY <1>6, <3>1, <3>3
  <2> QED BY <2>1, <2>2
<1>11. n + 1 <= farther
  BY <1>2, <1>4
<1> QED
  BY <1>5, <1>8, <1>9, <1>10, <1>11

(* The roots that are sampled are safe to stop.                            *)
LEMMA RootsAreSafe ==
    ASSUME SettingsInv, PastInv, NEW s, NEW level, NEW delay, Polled(s, level, delay),
           NEW w \in BuildBackgroundWorkloads(s, bgProtection, bgPolicy)
    PROVE  w.root \in past'[1].safe
<1> DEFINE n == Least(Memory, Len(past) + 1)
<1>1. 1 \in 1..n
  BY MonitoringAssumption DEF Least, PastInv
<1> HIDE DEF n
<1>2. past'[1].safe = {IdOf(s, SelectRoot(s, GroupMembers(s, g))) :
                         g \in {h \in EligibleGroups(s) : SafeGroup(s, h, bgProtection, bgPolicy)}}
  BY <1>1 DEF Polled, Remember, n
<1>3. PICK g \in EligibleGroups(s) : SafeGroup(s, g, bgProtection, bgPolicy) /\ w = BuildGroup(s, g)
  BY DEF BuildBackgroundWorkloads
<1>4. w.root = IdOf(s, SelectRoot(s, GroupMembers(s, g)))
  BY <1>3 DEF BuildGroup
<1> QED
  BY <1>2, <1>3, <1>4

LEMMA PollWatched ==
    ASSUME SettingsInv, PastInv, HistoryInv, WatchedInv,
           NEW s, NEW level, NEW delay, Polled(s, level, delay)
    PROVE  WatchedInv'
<1> DEFINE window == bgPolicy.window
           interval == bgPolicy.interval
<1>1. /\ delay \in Nat \ {0} /\ interval \in Nat \ {0} /\ window \in Nat
      /\ sinceSample \in Nat /\ sinceSample <= interval /\ UNCHANGED bgPolicy
  BY PollSettings DEF SettingsInv, IsBackgroundPolicy, HistoryInv
<1>2. Reach(bgPolicy)' < Memory
  BY <1>1 DEF WatchedInv, Reach
<1>3. past'[1].sampled = (sinceSample' = 0) /\ past'[1].ago = 0 /\ 1 \in DOMAIN past'
  BY PollIsFirst, PollIsRecalled
<1>4. ASSUME NEW r \in DOMAIN history, NEW k \in 1..Len(history[r])
      PROVE  /\ Len(history[r]) \in Nat /\ "age" \in DOMAIN history[r][k] /\ history[r][k].age \in Nat
             /\ sinceSample < interval
             /\ Witnessed(past, window, r, history[r][k].age,
                          Far(history[r], k, interval, sinceSample))
  BY <1>4 DEF HistoryInv, Spread, WatchedInv
<1>5. ASSUME NEW r \in DOMAIN history
      PROVE  LET g == Aged(history[r], bgPolicy, delay) IN
             /\ Len(g) = Len(history[r])
             /\ \A k \in 1..Len(history[r]) :
                  g[k].age \in Nat /\ g[k].age <= history[r][k].age + delay
  <2> DEFINE h == history[r]
             g == Aged(h, bgPolicy, delay)
             n == Len(h)
  <2>1. n \in Nat /\ DOMAIN h = 1..n
    BY DEF HistoryInv, Spread
  <2>2. g = [k \in 1..n |-> g[k]]
        /\ \A k \in 1..n : g[k] = [h[k] EXCEPT !.age = Least(window + 1, h[k].age + delay)]
    BY <2>1 DEF Aged
  <2>3. Len(g) = n
    <3> HIDE DEF g, n
    <3> QED BY <2>1, <2>2, LengthOf
  <2>4. ASSUME NEW k \in 1..n PROVE g[k].age \in Nat /\ g[k].age <= h[k].age + delay
    <3>1. "age" \in DOMAIN h[k] /\ h[k].age \in Nat
      BY <1>4
    <3>2. g[k].age = Least(window + 1, h[k].age + delay)
      BY <2>2, <3>1
    <3> HIDE DEF g, h, n
    <3> QED BY <1>1, <3>1, <3>2 DEF Least
  <2> QED BY <2>3, <2>4
(* A sample that is kept is as far back as before, and one poll more.      *)
<1>6. ASSUME NEW r \in DOMAIN history, NEW k \in 1..Len(history[r]),
             past'[1].sampled => r \in past'[1].safe,
             NEW far \in Int,
             far >= 2 + sinceSample + (Len(history[r]) - k) * interval
      PROVE  Witnessed(past', window, r, Aged(history[r], bgPolicy, delay)[k].age, far)
  <2> DEFINE age == history[r][k].age
             older == Aged(history[r], bgPolicy, delay)[k].age
             x == (Len(history[r]) - k) * interval
             near == Far(history[r], k, interval, sinceSample)
  <2>1. older \in Nat /\ older <= age + delay /\ age \in Nat
    BY <1>4, <1>5
  <2>2. x \in Int /\ near = 1 + sinceSample + x
    BY <1>1, <1>4 DEF Far
  <2>3. Witnessed(past, window, r, age, near)
    BY <1>4
  <2>4. far >= 2 + sinceSample + x
    BY <1>6
  <2> HIDE DEF age, older, x, near
  <2>5. near \in Int /\ far >= near + 1
    BY <1>1, <2>2, <2>4
  <2>6. Witnessed(past', window, r, older, far)
    BY <1>6, <2>1, <2>3, <2>5, WitnessStays
  <2> QED BY <2>6 DEF older
<1>7. CASE ~bgPolicy.enabled
  <2>1. history' = <<>>
    BY <1>1, <1>7, PollSamples
  <2> QED BY <1>2, <2>1 DEF WatchedInv
<1>8. CASE bgPolicy.enabled /\ NoSampleTaken(delay)
  <2>1. /\ sinceSample' = sinceSample + delay /\ sinceSample' < interval /\ ~past'[1].sampled
        /\ DOMAIN history' = DOMAIN history
        /\ \A r \in DOMAIN history : history'[r] = Aged(history[r], bgPolicy, delay)
    <3>1. sinceSample' = sinceSample + delay /\ sinceSample' < interval /\ sinceSample' # 0
      BY <1>1, <1>8 DEF NoSampleTaken
    <3>2. ~past'[1].sampled
      BY <1>3, <3>1, Zenon
    <3>3. history' = [r \in DOMAIN history |-> Aged(history[r], bgPolicy, delay)]
      BY <1>8 DEF NoSampleTaken
    <3> QED BY <3>1, <3>2, <3>3
  <2>2. ASSUME NEW r \in DOMAIN history', NEW k \in 1..Len(history'[r])
        PROVE  Witnessed(past', window, r, history'[r][k].age,
                         Far(history'[r], k, interval, sinceSample'))
    <3> DEFINE far == Far(history'[r], k, interval, sinceSample')
               x == (Len(history[r]) - k) * interval
    <3>1. /\ r \in DOMAIN history /\ history'[r] = Aged(history[r], bgPolicy, delay)
          /\ Len(history'[r]) = Len(history[r]) /\ k \in 1..Len(history[r])
      BY <1>5, <2>1, <2>2
    <3>2. x \in Int /\ far = 1 + sinceSample' + x
      BY <1>1, <1>4, <3>1 DEF Far
    <3> HIDE DEF far
    <3>3. far \in Int /\ far >= 2 + sinceSample + x
      <4> HIDE DEF x
      <4> QED BY <1>1, <2>1, <3>2
    <3>4. Witnessed(past', window, r, Aged(history[r], bgPolicy, delay)[k].age, far)
      BY <1>6, <2>1, <3>1, <3>3
    <3> QED BY <3>1, <3>4 DEF far
  <2>3. WatchedInv'
    <3> USE DEF WatchedInv
    <3>1. sinceSample' < bgPolicy'.interval /\ bgPolicy' = bgPolicy
      BY <1>1, <2>1
    <3>2. \A r \in DOMAIN history' : \A k \in 1..Len(history'[r]) :
             Witnessed(past', bgPolicy'.window, r, history'[r][k].age,
                       Far(history'[r], k, bgPolicy'.interval, sinceSample'))
      <4> HIDE DEF WatchedInv
      <4> QED BY <2>2, <3>1
    <3> QED BY <1>2, <3>1, <3>2
  <2> QED BY <2>3
<1>9. CASE bgPolicy.enabled /\ SampleTaken(s, delay)
  <2>1. sinceSample' = 0 /\ past'[1].sampled /\ interval > 0
    <3>1. sinceSample' = 0 /\ interval > 0
      BY <1>1, <1>9 DEF SampleTaken
    <3>2. past'[1].sampled
      BY <1>3, <3>1, Zenon
    <3> QED BY <3>1, <3>2
  <2>2. ASSUME NEW r \in DOMAIN history' PROVE r \in past'[1].safe
    <3>1. PICK w \in Capped(BuildBackgroundWorkloads(s, bgProtection, bgPolicy)) : w.root = r
      BY <1>9, <2>2 DEF SampleTaken
    <3> QED BY <3>1, RootsAreSafe DEF Capped
  <2>3. ASSUME NEW r \in DOMAIN history', NEW k \in 1..Len(history'[r])
        PROVE  Witnessed(past', window, r, history'[r][k].age, Far(history'[r], k, interval, 0))
    <3> DEFINE h == IF r \in DOMAIN history THEN Aged(history[r], bgPolicy, delay) ELSE <<>>
               new == history'[r]
               far == Far(new, k, interval, 0)
    <3>1. PICK x : /\ "age" \in DOMAIN x /\ x.age = 0 /\ new = Pruned(Append(h, x), window)
      BY <1>9, <2>3 DEF SampleTaken
    <3>2. h = <<>> \/ Spread(h, window, interval, interval)
      <4>1. CASE r \in DOMAIN history
        <5>1. Least(interval, sinceSample + delay) = interval
          BY <1>1, <1>9 DEF SampleTaken, Least
        <5>2. Spread(history[r], window, interval, sinceSample)
          BY <4>1 DEF HistoryInv
        <5>3. Spread(Aged(history[r], bgPolicy, delay), window, interval, interval)
          BY <1>1, <5>1, <5>2, AgedSpread
        <5> QED BY <4>1, <5>3
      <4>2. CASE r \notin DOMAIN history
        BY <4>2
      <4> QED BY <4>1, <4>2
    <3>3. StandsFor(new, h, x) /\ Len(new) \in Nat
      <4> HIDE DEF h, new, window, interval
      <4> QED BY <1>1, <3>1, <3>2, RecordedSpread DEF Spread
    <3>4. far = 1 + (Len(new) - k) * interval
      BY <1>1, <2>3, <3>3 DEF Far
    <3>5. CASE new[k] = x /\ k = Len(new)
      <4>1. far = 1
        BY <1>1, <3>3, <3>4, <3>5
      <4>2. Watched(past', r, 1) /\ past'[1].ago = 0 /\ 1 \in DOMAIN past'
        BY <1>3, <2>1, <2>2 DEF Watched
      <4>3. Least(window, new[k].age) <= 0
        BY <1>1, <3>1, <3>5 DEF Least
      <4> HIDE DEF far, new
      <4> QED BY <4>1, <4>2, <4>3 DEF Witnessed, far, new
    <3>6. CASE \E j \in 1..Len(h) : new[k] = h[j] /\ Len(new) - k = Len(h) + 1 - j
      <4>1. PICK j \in 1..Len(h) : new[k] = h[j] /\ Len(new) - k = Len(h) + 1 - j
        BY <3>6
      <4>2. r \in DOMAIN history
        <5>1. h # <<>>
          BY <4>1
        <5> QED BY <5>1
      <4>3. /\ h = Aged(history[r], bgPolicy, delay) /\ Len(h) = Len(history[r])
            /\ j \in 1..Len(history[r]) /\ sinceSample < interval /\ Len(h) \in Nat
        BY <1>4, <1>5, <4>1, <4>2
      <4> DEFINE y == (Len(history[r]) - j) * interval
      <4>4. far = 1 + (Len(h) + 1 - j) * interval
        BY <3>4, <4>1
      <4>5. (Len(h) + 1 - j) * interval = y + interval /\ y \in Int
        <5> DEFINE a == Len(history[r]) - j
        <5>1. Len(h) + 1 - j = a + 1 /\ a \in Int
          BY <4>3
        <5> HIDE DEF a
        <5>2. (a + 1) * interval = a * interval + interval /\ a * interval \in Int
          BY <1>1, <5>1
        <5> QED BY <5>1, <5>2 DEF a
      <4> HIDE DEF far, y
      <4>6. far \in Int /\ far >= 2 + sinceSample + y
        BY <1>1, <4>3, <4>4, <4>5
      <4>7. Witnessed(past', window, r, Aged(history[r], bgPolicy, delay)[j].age, far)
        BY <1>6, <2>2, <4>2, <4>3, <4>6 DEF y
      <4> HIDE DEF h, new
      <4> QED BY <4>1, <4>3, <4>7 DEF far, new
    <3> QED BY <2>3, <3>3, <3>5, <3>6 DEF StandsFor
  <2>4. WatchedInv'
    BY <1>1, <1>2, <2>1, <2>3 DEF WatchedInv
  <2> QED BY <2>4
<1> QED
  BY <1>1, <1>7, <1>8, <1>9, PollSamples

(* What was notified of at a sample has a history that old.                *)
LEMMA PollNoticed ==
    ASSUME SettingsInv, PastInv, sinceSample \in Nat,
           NEW s, NEW level, NEW delay, Polled(s, level, delay)
    PROVE  NoticedInv'
<1>1. past'[1].apps = {w.root : w \in bgNotices'} /\ UNCHANGED bgPolicy
  BY PollIsFirst, PollSettings
<1>2. EvaluateBackground(s, level, delay) /\ Looks(s)
  BY DEF Polled
<1> DEFINE since == Least(bgPolicy.interval, sinceSample + delay)
<1> SUFFICES ASSUME NEW r \in past'[1].apps
             PROVE  /\ r \in DOMAIN history' /\ sinceSample' = 0
                    /\ history'[r][1].age >= bgPolicy.window
  BY <1>1 DEF NoticedInv
<1>3. bgNotices' # {}
  BY <1>1
<1>4. bgPolicy.enabled /\ SampleDue(since, bgPolicy)
  BY <1>2, <1>3 DEF EvaluateBackground
<1> DEFINE all == BuildBackgroundWorkloads(s, bgProtection, bgPolicy)
           workloads == Capped(all)
           roots == {w.root : w \in workloads}
           aged == [q \in DOMAIN history |-> Aged(history[q], bgPolicy, delay)]
           samples == [w \in workloads |-> Recorded(w, aged, bgPolicy)]
           Of(q) == CHOOSE w \in workloads : w.root = q
<1>5. /\ history' = [q \in roots |-> samples[Of(q)]] /\ sinceSample' = 0
      /\ \A w \in bgNotices' : w \in workloads /\ IsCandidate(w, samples[w], level, bgPolicy)
  BY <1>2, <1>4 DEF EvaluateBackground, TakeSample
<1>6. PICK w \in bgNotices' : r = w.root
  BY <1>1
<1>7. w \in workloads /\ r \in roots
  BY <1>5, <1>6
<1>8. Of(r) = w
  <2>1. Of(r) \in workloads /\ Of(r).root = w.root
    BY <1>6, <1>7
  <2>2. w \in all /\ Of(r) \in all
    BY <1>7, <2>1 DEF Capped
  <2>3. DOMAIN s \subseteq Nat /\ \A p \in DOMAIN s : s[p].start \in Nat
    BY <1>2 DEF Looks
  <2> HIDE DEF Of, workloads
  <2> QED BY <2>1, <2>2, <2>3, RootTellsApp
<1>9. history'[r] = samples[w]
  <2> HIDE DEF Of, roots, samples, workloads
  <2> QED BY <1>5, <1>7, <1>8
<1>10. Head(samples[w]).age >= bgPolicy.window
  BY <1>5, <1>6 DEF IsCandidate
<1>11. Head(samples[w]) = samples[w][1]
  <2> HIDE DEF samples
  <2> QED OBVIOUS
<1> HIDE DEF samples, workloads, roots
<1> QED
  BY <1>5, <1>7, <1>9, <1>10, <1>11

(* A click leaves the samples alone.                                       *)
LEMMA ClickHistories ==
    ASSUME SettingsInv, HistoryInv, WatchedInv, NoticedInv, Clicks
    PROVE  HistoryInv' /\ WatchedInv' /\ NoticedInv'
<1>1. UNCHANGED <<history, sinceSample, past>>
  BY ClickApps, ClickKeeps
<1>2. bgPolicy'.window = bgPolicy.window /\ bgPolicy'.interval = bgPolicy.interval
  BY PoliciesKeep
<1>3. HistoryInv'
  BY <1>1, <1>2 DEF HistoryInv
<1>4. WatchedInv'
  BY <1>1, <1>2 DEF WatchedInv, Reach
<1>5. NoticedInv'
  BY <1>1, <1>2 DEF NoticedInv
<1> QED
  BY <1>3, <1>4, <1>5

LEMMA HistoriesInit ==
    ASSUME MonitoringInit
    PROVE  HistoryInv /\ WatchedInv /\ NoticedInv
<1>1. past = <<>> /\ history = <<>> /\ sinceSample = bgPolicy.interval
  BY DEF MonitoringInit, BackgroundInit
<1>2. PICK scenario \in Scenarios : bgPolicy = scenario.background
  BY DEF MonitoringInit, BackgroundInit
<1>3. Memory \in Nat /\ IsBackgroundPolicy(scenario.background)
      /\ Reach(scenario.background) + 1 \in 1..Memory
  BY MonitoringAssumption
<1>4. /\ bgPolicy.interval \in Nat \ {0} /\ bgPolicy.window \in Nat
      /\ Reach(bgPolicy) + 1 \in 1..Memory
  BY <1>2, <1>3 DEF IsBackgroundPolicy
<1>5. Reach(bgPolicy) < Memory
  <2>1. Reach(bgPolicy) \in Int
    BY <1>4, WholeIntervals DEF Reach
  <2> QED BY <1>3, <1>4, <2>1
<1>6. DOMAIN history = {} /\ Cardinality(DOMAIN history) = 0
  BY <1>1, FS_EmptySet
<1> QED
  BY <1>1, <1>4, <1>5, <1>6, BackgroundAssumption DEF HistoryInv, WatchedInv, NoticedInv

LEMMA HistoriesStep ==
    ASSUME BooksInv, HistoryInv, WatchedInv, NoticedInv, [Next]_vars
    PROVE  HistoryInv' /\ WatchedInv' /\ NoticedInv'
<1>1. SettingsInv /\ TableInv /\ PastInv /\ sinceSample \in Nat
  BY DEF BooksInv, IgnoresInv, AppsSpacedInv, TrackingInv
<1>2. CASE Elsewhere
  <2>1. UNCHANGED <<bgPolicy, history, sinceSample, past>>
    BY <1>2 DEF Elsewhere, bgVars
  <2>2. HistoryInv'
    BY <2>1 DEF HistoryInv
  <2>3. WatchedInv'
    BY <2>1 DEF WatchedInv, Reach
  <2>4. NoticedInv'
    BY <2>1 DEF NoticedInv
  <2> QED BY <2>2, <2>3, <2>4
<1>3. CASE \E s, level, delay : Polled(s, level, delay)
  <2>1. PICK s, level, delay : Polled(s, level, delay)
    BY <1>3
  <2> QED BY <1>1, <2>1, PollHistory, PollWatched, PollNoticed
<1>4. CASE Clicks
  BY <1>1, <1>4, ClickHistories
<1> QED
  BY <1>1, <1>2, <1>3, <1>4, StepIs

HistoriesInv == BooksInv /\ HistoryInv /\ WatchedInv /\ NoticedInv

LEMMA HistoriesHold ==
    Spec => []HistoriesInv
<1>1. MonitoringInit => HistoriesInv
  BY BooksInit, HistoriesInit DEF HistoriesInv
<1>2. HistoriesInv /\ [Next]_vars => HistoriesInv'
  BY BooksStep, HistoriesStep DEF HistoriesInv
<1> QED
  BY <1>1, <1>2, PTL DEF Spec

-----------------------------------------------------------------------------
(* The orders to stop: of a tree, of a group, of an application.           *)

LEMMA SmallestOf ==
    ASSUME NEW T, T \subseteq Nat, T # {}
    PROVE  Min(T) \in T /\ \A x \in T : Min(T) <= x
<1>1. \E x \in T : \A y \in T : x <= y
  BY LeastNumber
<1> QED
  BY <1>1 DEF Min

(* A tree is stopped as its order says: each member once, the root last,   *)
(* the others not before what is deeper.                                   *)
LEMMA TreeOrder ==
    ASSUME NEW s, Forest(s), DOMAIN s \subseteq Nat, NEW root \in DOMAIN s, s[root].uid = Me
    PROVE  LET order == Workload(s, root).order
           IN /\ Len(order) \in Nat \ {0} /\ DOMAIN order = 1..Len(order)
              /\ order[Len(order)] = IdOf(s, root)
              /\ ToSet(order) = {IdOf(s, p) : p \in Tree(s, root)}
              /\ \A k \in DOMAIN order :
                    order[k].pid \in Tree(s, root) /\ order[k] = IdOf(s, order[k].pid)
              /\ \A i, j \in DOMAIN order : i < j =>
                    /\ order[i].pid # order[j].pid
                    /\ Depth(s, order[i].pid, root) >= Depth(s, order[j].pid, root)
<1> DEFINE members == Tree(s, root)
           depth == [p \in members |-> Depth(s, p, root)]
           pids == TerminationOrder(root, depth)
           n == Cardinality(members)
           order == Workload(s, root).order
<1>1. members \subseteq DOMAIN s /\ IsFiniteSet(members)
  <2>1. members \in SUBSET DOMAIN s
    BY DEF Tree
  <2> HIDE DEF members
  <2> QED BY <2>1, FS_Subset DEF Forest
<1>2. 0 \in Generations(s, root, root) /\ Below(s, root, root) /\ Depth(s, root, root) = 0
  <2>1. 0 \in Generations(s, root, root)
    BY GenerationsAre
  <2>2. Below(s, root, root)
    BY <2>1 DEF Below
  <2> QED BY <2>1, <2>2, DepthIs, GenerationIsOne
<1>3. root \in members
  BY <1>2 DEF Tree
<1>4. \A p \in members : depth[p] \in Nat /\ depth[p] = Depth(s, p, root)
  BY DepthIs DEF Tree
<1>5. /\ n \in Nat \ {0} /\ pids \in [1..n -> members] /\ pids[n] = root
      /\ \A p \in members : \E k \in 1..n : pids[k] = p
      /\ \A i, j \in 1..n : i < j =>
            /\ pids[i] # pids[j] /\ pids[i] # root
            /\ pids[j] = root \/ Deeper(depth, pids[i], pids[j])
  <2>1. DOMAIN depth = members /\ members \subseteq Nat
    BY <1>1
  <2> HIDE DEF members, depth
  <2> QED BY <1>1, <1>3, <1>4, <2>1, TerminationOrderIs
<1>6. order = [k \in 1..n |-> IdOf(s, pids[k])]
  <2>1. DOMAIN pids = 1..n
    BY <1>5
  <2> HIDE DEF n
  <2> QED BY <2>1 DEF Workload
<1> HIDE DEF members, depth, pids, n, order
<1>7. Len(order) = n /\ DOMAIN order = 1..n
  <2>1. order = [k \in 1..n |-> order[k]]
    BY <1>6
  <2> QED BY <1>5, <2>1, LengthOf
<1>8. \A k \in 1..n : order[k] = IdOf(s, pids[k]) /\ order[k].pid = pids[k] /\ pids[k] \in members
  BY <1>5, <1>6 DEF IdOf
<1>9. order[n] = IdOf(s, root)
  <2>1. n \in 1..n
    BY <1>5
  <2> QED BY <1>5, <1>8, <2>1
<1>10. ToSet(order) = {IdOf(s, p) : p \in members}
  BY <1>5, <1>7, <1>8 DEF ToSet
<1>11. ASSUME NEW i \in 1..n, NEW j \in 1..n, i < j
       PROVE  order[i].pid # order[j].pid
              /\ Depth(s, order[i].pid, root) >= Depth(s, order[j].pid, root)
  <2>1. pids[i] # pids[j] /\ (pids[j] = root \/ Deeper(depth, pids[i], pids[j]))
    BY <1>5, <1>11
  <2>2. pids[i] \in members /\ pids[j] \in members
    BY <1>8
  <2>3. CASE pids[j] = root
    <3>1. Depth(s, pids[j], root) = 0 /\ Depth(s, pids[i], root) \in Nat
      BY <1>2, <1>4, <2>2, <2>3
    <3> QED BY <1>8, <2>1, <3>1
  <2>4. CASE Deeper(depth, pids[i], pids[j])
    <3>1. depth[pids[i]] >= depth[pids[j]]
      BY <1>4, <2>2, <2>4 DEF Deeper
    <3> QED BY <1>4, <1>8, <2>1, <2>2, <3>1
  <2> QED BY <2>1, <2>3, <2>4
<1> QED
  BY <1>5, <1>7, <1>8, <1>9, <1>10, <1>11 DEF order, members

(* A group is stopped as its order says: each member once; who is listed   *)
(* before another stands in a tree that has not the other, or has it later.*)
LEMMA GroupOrderIs ==
    ASSUME NEW group, IsFiniteSet(group.trees),
           \A w \in group.trees :
              /\ w.memory \in Int /\ w.root.pid \in Int
              /\ Len(w.order) \in Nat /\ DOMAIN w.order = 1..Len(w.order)
              /\ \A i, j \in DOMAIN w.order : i < j => w.order[i] # w.order[j],
           \A v, w \in group.trees : v.root.pid = w.root.pid => v = w
    PROVE  LET order == GroupOrder(group)
           IN /\ Len(order) \in Nat /\ DOMAIN order = 1..Len(order)
              /\ ToSet(order) = UNION {ToSet(w.order) : w \in group.trees}
              /\ \A i, j \in DOMAIN order : i < j =>
                    /\ order[i] # order[j]
                    /\ \E w \in group.trees :
                          /\ order[i] \in ToSet(w.order)
                          /\ order[j] \in ToSet(w.order) =>
                               \E k, l \in DOMAIN w.order :
                                  k < l /\ w.order[k] = order[i] /\ w.order[l] = order[j]
<1> DEFINE all == group.trees
           larger == {pair \in all \X all : Precedes(pair[1], pair[2])}
           trees == LargestFirst(all)
           m == Cardinality(all)
           members == UNION {ToSet(w.order) : w \in all}
           in(id) == {k \in DOMAIN trees : id \in ToSet(trees[k].order)}
           number(id) == Min(in(id))
           place(id) == CHOOSE k \in DOMAIN trees[number(id)].order :
                            trees[number(id)].order[k] = id
           listed(x, y) == \/ number(x) < number(y)
                           \/ number(x) = number(y) /\ place(x) < place(y)
           before == {pair \in members \X members : listed(pair[1], pair[2])}
           n == Cardinality(members)
           order == GroupOrder(group)
<1>1. Arranges(larger, all)
  <2>1. \A v, w \in all : <<v, w>> \in larger <=> Precedes(v, w)
    OBVIOUS
  <2>2. \A v \in all : ~Precedes(v, v)
    BY DEF Precedes
  <2>3. \A u, v, w \in all : Precedes(u, v) /\ Precedes(v, w) => Precedes(u, w)
    BY DEF Precedes
  <2>4. \A v, w \in all : v # w => Precedes(v, w) \/ Precedes(w, v)
    BY DEF Precedes
  <2> HIDE DEF all, larger
  <2> QED BY <2>1, <2>2, <2>3, <2>4 DEF Arranges
<1>2. /\ m \in Nat /\ trees \in [1..m -> all]
      /\ \A w \in all : \E k \in 1..m : trees[k] = w
  <2>1. trees = InOrder(all, larger)
    BY DEF LargestFirst
  <2>2. IsFiniteSet(all)
    OBVIOUS
  <2> HIDE DEF trees, all, larger
  <2> QED BY <1>1, <2>1, <2>2, InOrderIs
<1> HIDE DEF larger, trees, m
<1>3. ASSUME NEW x \in members
      PROVE  /\ number(x) \in 1..m /\ x \in ToSet(trees[number(x)].order)
             /\ \A k \in 1..m : k < number(x) => x \notin ToSet(trees[k].order)
             /\ trees[number(x)] \in all
             /\ place(x) \in DOMAIN trees[number(x)].order
             /\ trees[number(x)].order[place(x)] = x
             /\ place(x) \in Nat
  <2>1. in(x) \subseteq Nat /\ in(x) # {}
    BY <1>2
  <2>2. Min(in(x)) \in in(x) /\ \A k \in in(x) : Min(in(x)) <= k
    <3> HIDE DEF in
    <3> QED BY <2>1, SmallestOf
  <2>3. number(x) \in 1..m /\ x \in ToSet(trees[number(x)].order)
    BY <1>2, <2>2
  <2>4. \A k \in 1..m : k < number(x) => x \notin ToSet(trees[k].order)
    <3> SUFFICES ASSUME NEW k \in 1..m, k < number(x), x \in ToSet(trees[k].order) PROVE FALSE
      OBVIOUS
    <3>1. k \in in(x)
      BY <1>2
    <3>2. number(x) <= k
      BY <2>2, <3>1
    <3> HIDE DEF number
    <3> QED BY <1>2, <2>3, <3>2
  <2> HIDE DEF number
  <2>5. trees[number(x)] \in all
    BY <1>2, <2>3
  <2>6. \E k \in DOMAIN trees[number(x)].order : trees[number(x)].order[k] = x
    BY <2>3 DEF ToSet
  <2>7. place(x) \in DOMAIN trees[number(x)].order /\ trees[number(x)].order[place(x)] = x
    BY <2>6
  <2> HIDE DEF place
  <2>8. place(x) \in Nat
    BY <2>5, <2>7
  <2> QED BY <2>3, <2>4, <2>5, <2>7, <2>8
<1>4. IsFiniteSet(members)
  <2> DEFINE set == [w \in all |-> ToSet(w.order)]
  <2>1. IsFiniteSet({set[w] : w \in DOMAIN set})
    <3>1. DOMAIN set = all /\ set = [w \in DOMAIN set |-> set[w]]
      OBVIOUS
    <3> HIDE DEF set
    <3> QED BY <3>1, FiniteImage
  <2>2. {ToSet(w.order) : w \in all} = {set[w] : w \in DOMAIN set}
    OBVIOUS
  <2>3. ASSUME NEW w \in all PROVE IsFiniteSet(ToSet(w.order))
    <3> DEFINE f == [k \in 1..Len(w.order) |-> w.order[k]]
    <3>1. IsFiniteSet(1..Len(w.order))
      <4>1. 1 \in Int /\ Len(w.order) \in Int
        OBVIOUS
      <4> QED BY <4>1, FS_Interval
    <3>2. IsFiniteSet({f[k] : k \in DOMAIN f})
      <4>1. DOMAIN f = 1..Len(w.order) /\ f = [k \in DOMAIN f |-> f[k]]
        OBVIOUS
      <4> HIDE DEF f
      <4> QED BY <3>1, <4>1, FiniteImage
    <3>3. ToSet(w.order) = {f[k] : k \in DOMAIN f}
      BY DEF ToSet
    <3> QED BY <3>2, <3>3
  <2> DEFINE sets == {ToSet(w.order) : w \in all}
  <2>4. IsFiniteSet(sets) /\ \A S \in sets : IsFiniteSet(S)
    BY <2>1, <2>2, <2>3
  <2> HIDE DEF sets
  <2>5. IsFiniteSet(UNION sets)
    BY <2>4, FS_UNION
  <2> QED BY <2>5 DEF sets
<1> HIDE DEF members, number, place
<1>5. Arranges(before, members)
  <2>1. \A x, y \in members : <<x, y>> \in before <=> listed(x, y)
    OBVIOUS
  <2>2. \A x \in members : number(x) \in Nat /\ place(x) \in Nat
    BY <1>3
  <2>3. \A x \in members : ~listed(x, x)
    BY <2>2
  <2>4. \A x, y, z \in members : listed(x, y) /\ listed(y, z) => listed(x, z)
    BY <2>2
  <2>5. \A x, y \in members : x # y => listed(x, y) \/ listed(y, x)
    <3>1. \A x, y \in members : number(x) = number(y) /\ place(x) = place(y) => x = y
      BY <1>3
    <3> QED BY <2>2, <3>1
  <2> HIDE DEF before, listed
  <2> QED BY <2>1, <2>3, <2>4, <2>5 DEF Arranges
<1>6. /\ n \in Nat /\ order \in [1..n -> members]
      /\ \A x \in members : \E k \in 1..n : order[k] = x
      /\ \A i, j \in 1..n : i < j => <<order[i], order[j]>> \in before
  <2>1. order = InOrder(members, before)
    BY DEF GroupOrder, members, number, place, trees
  <2> HIDE DEF order, before
  <2> QED BY <1>4, <1>5, <2>1, InOrderIs
<1> HIDE DEF order, n
<1>7. Len(order) = n /\ DOMAIN order = 1..n
  BY <1>6, LengthOf
<1>8. ToSet(order) = members
  BY <1>6, <1>7 DEF ToSet
<1>9. ASSUME NEW i \in 1..n, NEW j \in 1..n, i < j
      PROVE  /\ order[i] # order[j]
             /\ \E w \in all :
                   /\ order[i] \in ToSet(w.order)
                   /\ order[j] \in ToSet(w.order) =>
                        \E k, l \in DOMAIN w.order :
                           k < l /\ w.order[k] = order[i] /\ w.order[l] = order[j]
  <2> DEFINE x == order[i]
             y == order[j]
             w == trees[number(x)]
  <2>1. x \in members /\ y \in members /\ listed(x, y)
    BY <1>6, <1>9
  <2>2. number(x) \in 1..m /\ number(y) \in 1..m /\ place(x) \in Nat /\ place(y) \in Nat
    BY <1>3, <2>1
  <2>3. x # y
    BY <2>1, <2>2
  <2>4. w \in all /\ x \in ToSet(w.order)
    BY <1>3, <2>1
  <2>5. CASE number(x) < number(y)
    <3>1. y \notin ToSet(w.order)
      BY <1>3, <2>1, <2>2, <2>5
    <3> QED BY <2>3, <2>4, <3>1
  <2>6. CASE number(x) = number(y) /\ place(x) < place(y)
    <3>1. /\ place(x) \in DOMAIN w.order /\ w.order[place(x)] = x
          /\ place(y) \in DOMAIN w.order /\ w.order[place(y)] = y
      BY <1>3, <2>1, <2>6
    <3> HIDE DEF x, y, w
    <3> QED BY <2>3, <2>4, <2>6, <3>1 DEF x, y
  <2> QED BY <2>1, <2>5, <2>6
<1> QED
  BY <1>6, <1>7, <1>8, <1>9 DEF order, members

(* An application as a forest of its own.                                  *)
Within(s, members) == [p \in members |-> [parent |-> s[p].parent]]

LEMMA WithinIsPart ==
    ASSUME NEW s, NEW members, members \subseteq DOMAIN s
    PROVE  PartOf(Within(s, members), s) /\ DOMAIN Within(s, members) = members
BY DEF PartOf, Within

LEMMA MemberDepthIs ==
    ASSUME NEW s, Forest(s), NEW members, members \subseteq DOMAIN s,
           NEW root \in members, NEW p \in members
    PROVE  MemberDepth(s, p, root, members) =
              IF Below(Within(s, members), p, root) THEN Depth(Within(s, members), p, root) ELSE 0
<1> DEFINE t == Within(s, members)
           up(q) == Above(s, q)
           reached(q) == {n \in DOMAIN up(q) : up(q)[n] = root /\ \A i \in 0..n : up(q)[i] \in members}
           m == Cardinality(DOMAIN s)
           T == {n \in Nat : \A q \in members : n \in reached(q) <=> n \in Generations(t, q, root)}
<1>1. Forest(t) /\ DOMAIN t = members /\ \A q \in members : t[q].parent = s[q].parent
  BY WithinIsPart, PartIsForest DEF Within
<1>2. m \in Nat /\ \A q : DOMAIN up(q) = 0..m /\ up(q)[0] = q
  BY AboveIs DEF Forest
<1> HIDE DEF t, m
<1>3. 0 \in T
  <2>1. ASSUME NEW q \in members PROVE 0 \in reached(q) <=> q = root
    <3> HIDE DEF up
    <3>1. 0 \in 0..m /\ \A i \in 0..0 : i = 0
      BY <1>2
    <3> QED BY <1>2, <3>1
  <2>2. ASSUME NEW q \in members PROVE 0 \in Generations(t, q, root) <=> q = root
    BY <1>1, GenerationsAre
  <2> HIDE DEF reached
  <2> QED BY <2>1, <2>2
<1>4. ASSUME NEW n \in Nat, NEW q \in members, n + 1 \in reached(q)
      PROVE  s[q].parent \in members /\ n \in reached(s[q].parent)
  <2> DEFINE over == Above(s, s[q].parent)
  <2>1. n + 1 \in DOMAIN Above(s, q) /\ Above(s, q)[n + 1] = root
        /\ \A i \in 0..(n + 1) : Above(s, q)[i] \in members
    BY <1>4
  <2>2. \A k \in 0..((n + 1) - 1) : s[Above(s, q)[k]].parent = Above(s, q)[k + 1]
    BY <2>1, AllTheWay DEF Forest
  <2>3. s[q].parent \in members
    <3>1. 0 \in 0..((n + 1) - 1) /\ 0 + 1 \in 0..(n + 1)
      OBVIOUS
    <3> QED BY <1>2, <2>1, <2>2, <3>1
  <2>4. \A k \in Nat : k + 1 \in DOMAIN Above(s, q) => Above(s, q)[k + 1] = over[k]
    BY <2>3, WayFromParent DEF Forest
  <2>5. \A i \in 0..n : i \in Nat /\ i + 1 \in 0..(n + 1) /\ i + 1 \in 0..m /\ i \in 0..m
    BY <1>2, <2>1
  <2>6. \A i \in 0..n : over[i] = Above(s, q)[i + 1]
    BY <1>2, <2>4, <2>5
  <2> HIDE DEF over
  <2>7. \A i \in 0..n : over[i] \in members
    BY <2>1, <2>5, <2>6
  <2>8. n \in 0..n /\ over[n] = root
    BY <2>1, <2>6
  <2> QED BY <1>2, <2>3, <2>5, <2>7, <2>8 DEF over
<1>5. ASSUME NEW n \in Nat, NEW q \in members, s[q].parent \in members, n \in reached(s[q].parent)
      PROVE  n + 1 \in reached(q)
  <2> DEFINE over == Above(s, s[q].parent)
  <2>1. n \in DOMAIN over /\ over[n] = root /\ \A i \in 0..n : over[i] \in members
    BY <1>5
  <2>2. n + 1 \in DOMAIN over
    BY <2>1, WayEnds
  <2>3. n + 1 \in 0..m
    BY <1>2, <2>2
  <2>4. \A k \in Nat : k + 1 \in DOMAIN Above(s, q) => Above(s, q)[k + 1] = over[k]
    BY <1>5, WayFromParent DEF Forest
  <2> HIDE DEF over
  <2>5. ASSUME NEW i \in 0..(n + 1) PROVE Above(s, q)[i] \in members
    <3>1. CASE i = 0
      BY <1>2, <3>1
    <3>2. CASE i # 0
      <4>1. i - 1 \in 0..n /\ i - 1 \in Nat /\ (i - 1) + 1 = i /\ i \in 0..m
        BY <1>2, <2>3, <3>2
      <4> QED BY <1>2, <2>1, <2>4, <4>1
    <3> QED BY <3>1, <3>2
  <2>6. Above(s, q)[n + 1] = root
    BY <1>2, <2>1, <2>3, <2>4
  <2> QED BY <1>2, <2>3, <2>5, <2>6
<1>6. ASSUME NEW n \in Nat, n \in T PROVE n + 1 \in T
  <2> SUFFICES ASSUME NEW q \in members
               PROVE  n + 1 \in reached(q) <=> n + 1 \in Generations(t, q, root)
    OBVIOUS
  <2>1. n + 1 \in Generations(t, q, root)
          <=> s[q].parent \in members /\ n \in Generations(t, s[q].parent, root)
    <3>1. t[q].parent = s[q].parent /\ q \in DOMAIN t /\ root \in DOMAIN t
      BY <1>1
    <3> HIDE DEF T, reached, up
    <3>2. n + 1 \in Generations(t, q, root)
            <=> t[q].parent \in DOMAIN t /\ n \in Generations(t, t[q].parent, root)
      BY <1>1, <3>1, GenerationsAre
    <3> QED BY <1>1, <3>1, <3>2
  <2>2. n + 1 \in reached(q) <=> s[q].parent \in members /\ n \in reached(s[q].parent)
    <3> HIDE DEF reached
    <3> QED BY <1>4, <1>5
  <2> HIDE DEF reached
  <2> QED BY <1>6, <2>1, <2>2
<1>7. Nat \subseteq T
  <2> HIDE DEF T
  <2> QED BY <1>3, <1>6, UpFromZero
<1>8. reached(p) = Generations(t, p, root)
  <2>1. reached(p) \subseteq Nat
    <3> HIDE DEF up
    <3> QED BY <1>2
  <2>2. Generations(t, p, root) \subseteq Nat
    BY <1>1, GenerationsAre
  <2> HIDE DEF reached
  <2> QED BY <1>7, <2>1, <2>2
<1>9. MemberDepth(s, p, root, members) = IF reached(p) = {} THEN 0 ELSE Min(reached(p))
  BY DEF MemberDepth
<1> HIDE DEF reached
<1> QED
  BY <1>8, <1>9 DEF Below, Depth, t

(* An application is stopped as its order says: each member once, its root *)
(* last; one that is above a later member has the higher PID, and the root *)
(* is not above that member within the application.                        *)
LEMMA AppOrder ==
    ASSUME NEW s, Forest(s), DOMAIN s \subseteq Nat, \A p \in DOMAIN s : s[p].start \in Nat,
           NEW group, GroupMembers(s, group) # {}
    PROVE  LET members == GroupMembers(s, group)
               root == SelectRoot(s, members)
               part == Within(s, members)
               order == BuildGroup(s, group).order
           IN /\ root \in members
              /\ Len(order) \in Nat \ {0} /\ DOMAIN order = 1..Len(order)
              /\ order[Len(order)] = IdOf(s, root)
              /\ ToSet(order) = {IdOf(s, p) : p \in members}
              /\ \A k \in DOMAIN order :
                    order[k].pid \in members /\ order[k] = IdOf(s, order[k].pid)
              /\ \A i, j \in DOMAIN order : i < j =>
                    /\ order[i].pid # order[j].pid
                    /\ Below(part, order[j].pid, order[i].pid) =>
                          order[j].pid < order[i].pid /\ ~Below(part, order[j].pid, root)
<1> DEFINE members == GroupMembers(s, group)
           root == SelectRoot(s, members)
           part == Within(s, members)
           depth == [p \in members |-> MemberDepth(s, p, root, members)]
           pids == TerminationOrder(root, depth)
           n == Cardinality(members)
           order == BuildGroup(s, group).order
<1>1. members \subseteq DOMAIN s /\ IsFiniteSet(members)
  <2>1. members \in SUBSET DOMAIN s
    BY DEF GroupMembers
  <2> HIDE DEF members
  <2> QED BY <2>1, FS_Subset DEF Forest
<1>2. root \in members /\ s[root].parent \notin members
  <2>1. members \in SUBSET DOMAIN s /\ members # {}
    BY <1>1
  <2> HIDE DEF members
  <2>2. \E p \in members : s[p].parent \notin members
    BY <2>1 DEF Forest
  <2> QED BY <2>1, <2>2, SelectRootIsThere
<1> HIDE DEF members, root, part
<1>3. Forest(part) /\ DOMAIN part = members /\ \A p \in members : part[p].parent = s[p].parent
  BY <1>1, WithinIsPart, PartIsForest DEF part, Within
<1>4. \A p \in members : depth[p] = IF Below(part, p, root) THEN Depth(part, p, root) ELSE 0
  BY <1>1, <1>2, MemberDepthIs DEF part
<1>5. \A p \in members : depth[p] \in Nat
  <2> HIDE DEF depth
  <2> QED BY <1>2, <1>3, <1>4, DepthIs
<1>6. /\ n \in Nat \ {0} /\ pids \in [1..n -> members] /\ pids[n] = root
      /\ \A p \in members : \E k \in 1..n : pids[k] = p
      /\ \A i, j \in 1..n : i < j =>
            /\ pids[i] # pids[j] /\ pids[i] # root
            /\ pids[j] = root \/ Deeper(depth, pids[i], pids[j])
  <2>1. DOMAIN depth = members /\ members \subseteq Nat
    BY <1>1
  <2> HIDE DEF depth
  <2>2. /\ IsFiniteSet(DOMAIN depth) /\ DOMAIN depth \subseteq Nat /\ root \in DOMAIN depth
        /\ \A p \in DOMAIN depth : depth[p] \in Nat
    BY <1>1, <1>2, <1>5, <2>1
  <2>3. LET o == TerminationOrder(root, depth)
            c == Cardinality(DOMAIN depth)
        IN /\ c \in Nat \ {0} /\ o \in [1..c -> DOMAIN depth] /\ o[c] = root
           /\ \A p \in DOMAIN depth : \E k \in 1..c : o[k] = p
           /\ \A i, j \in 1..c : i < j =>
                 /\ o[i] # o[j] /\ o[i] # root
                 /\ o[j] = root \/ Deeper(depth, o[i], o[j])
    BY <2>2, TerminationOrderIs
  <2> QED BY <2>1, <2>3
<1>7. order = [k \in 1..n |-> IdOf(s, pids[k])]
  <2>1. DOMAIN pids = 1..n
    BY <1>6
  <2> HIDE DEF n
  <2> QED BY <2>1 DEF BuildGroup, members, root
<1> HIDE DEF depth, pids, n, order
<1>8. Len(order) = n /\ DOMAIN order = 1..n
  <2>1. order = [k \in 1..n |-> order[k]]
    BY <1>7
  <2> QED BY <1>6, <2>1, LengthOf
<1>9. \A k \in 1..n : order[k] = IdOf(s, pids[k]) /\ order[k].pid = pids[k] /\ pids[k] \in members
  BY <1>6, <1>7 DEF IdOf
<1>10. order[n] = IdOf(s, root)
  <2>1. n \in 1..n
    BY <1>6
  <2> QED BY <1>6, <1>9, <2>1
<1>11. ToSet(order) = {IdOf(s, p) : p \in members}
  BY <1>6, <1>8, <1>9 DEF ToSet
<1>12. \A p \in members : p # root => ~Below(part, root, p)
  <2> SUFFICES ASSUME NEW p \in members, p # root, NEW k \in Generations(part, root, p) PROVE FALSE
    BY DEF Below
  <2>1. k \in Nat /\ k # 0
    BY <1>2, <1>3, GenerationsAre
  <2>2. k - 1 \in Nat /\ (k - 1) + 1 \in Generations(part, root, p)
    BY <2>1
  <2>3. part[root].parent \in DOMAIN part
    BY <1>2, <1>3, <2>2, GenerationsAre
  <2> QED BY <1>2, <1>3, <2>3
<1>13. ASSUME NEW i \in 1..n, NEW j \in 1..n, i < j, Below(part, pids[j], pids[i])
       PROVE  pids[j] < pids[i] /\ ~Below(part, pids[j], root)
  <2> DEFINE a == pids[i]
             b == pids[j]
  <2>1. a \in members /\ b \in members /\ a # b /\ a # root /\ (b = root \/ Deeper(depth, a, b))
    BY <1>6, <1>9, <1>13
  <2>2. b # root
    BY <1>12, <1>13, <2>1
  <2>3. Deeper(depth, a, b)
    BY <2>1, <2>2
  <2>4. depth[a] \in Nat /\ depth[b] \in Nat /\ a \in Nat /\ b \in Nat
    BY <1>1, <1>5, <2>1
  <2>5. depth[a] >= depth[b]
    BY <2>3, <2>4 DEF Deeper
  <2>6. ~Below(part, b, root)
    <3> SUFFICES ASSUME Below(part, b, root) PROVE FALSE
      OBVIOUS
    <3>1. PICK k \in Generations(part, b, a) : TRUE
      BY <1>13 DEF Below
    <3>2. PICK l \in Generations(part, b, root) : TRUE
      BY DEF Below
    <3>3. k \in Nat /\ l \in Nat
      BY <1>2, <1>3, <2>1, GenerationsAre
    <3>4. CASE k <= l
      <4>1. Below(part, a, root)
        <5>1. l - k \in Generations(part, a, root)
          BY <1>2, <1>3, <2>1, <3>1, <3>2, <3>4, GenerationsBetween
        <5> QED BY <5>1 DEF Below
      <4>2. depth[a] = Depth(part, a, root) /\ depth[b] = Depth(part, b, root)
        BY <1>4, <2>1, <4>1
      <4>3. PartOf(part, part)
        BY DEF PartOf
      <4> HIDE DEF a, b
      <4>4. ~Below(part, b, a)
        BY <1>2, <1>3, <2>1, <2>5, <4>1, <4>2, <4>3, DeeperIsNotAbove
      <4> QED BY <1>13, <4>4 DEF a, b
    <3>5. CASE l <= k
      <4>1. k - l \in Generations(part, root, a)
        BY <1>2, <1>3, <2>1, <3>1, <3>2, <3>5, GenerationsBetween
      <4>2. Below(part, root, a)
        BY <4>1 DEF Below
      <4> QED BY <1>12, <2>1, <4>2
    <3> QED BY <3>3, <3>4, <3>5
  <2>7. depth[b] = 0
    BY <1>4, <2>1, <2>6
  <2>8. depth[a] = 0
    <3> SUFFICES ASSUME Below(part, a, root) PROVE FALSE
      BY <1>4, <2>1
    <3>1. PICK k \in Generations(part, b, a), l \in Generations(part, a, root) : TRUE
      BY <1>13 DEF Below
    <3>2. k + l \in Generations(part, b, root)
      BY <1>2, <1>3, <2>1, <3>1, GenerationsAdd
    <3> QED BY <2>6, <3>2 DEF Below
  <2>9. b < a
    BY <2>3, <2>4, <2>7, <2>8 DEF Deeper
  <2> QED BY <2>6, <2>9
<1> QED
  BY <1>2, <1>6, <1>8, <1>9, <1>10, <1>11, <1>13 DEF order, members, root, part

(* Same processes with the same parents: the same generations.             *)
LEMMA SameParents ==
    ASSUME NEW s, Forest(s), NEW t, PartOf(t, s), DOMAIN t = DOMAIN s,
           NEW p \in DOMAIN s, NEW r \in DOMAIN s
    PROVE  Generations(t, p, r) = Generations(s, p, r)
<1>1. Forest(t) /\ PartOf(s, t)
  <2>1. Forest(t)
    BY PartIsForest
  <2> QED BY <2>1 DEF PartOf
<1>2. \A n \in Generations(t, p, r) : n \in Generations(s, p, r)
  BY PartIsBelow
<1>3. \A n \in Generations(s, p, r) : n \in Generations(t, p, r)
  BY <1>1, PartIsBelow
<1> QED
  BY <1>2, <1>3

(* On a way up that is not all in a part there is one who is not.          *)
LEMMA OutsidePart ==
    ASSUME NEW s, Forest(s), NEW t, PartOf(t, s), NEW r \in DOMAIN t, NEW p \in DOMAIN s,
           NEW n \in Generations(s, p, r)
    PROVE  \/ p \in DOMAIN t /\ n \in Generations(t, p, r)
           \/ \E q \in DOMAIN s \ DOMAIN t, k \in 0..n : k \in Generations(s, p, q)
<1> DEFINE out(x, m) == \E q \in DOMAIN s \ DOMAIN t, k \in 0..m : k \in Generations(s, x, q)
           T == {m \in Nat : \A x \in DOMAIN s : m \in Generations(s, x, r) =>
                    (x \in DOMAIN t /\ m \in Generations(t, x, r)) \/ out(x, m)}
<1>1. Forest(t) /\ DOMAIN t \subseteq DOMAIN s
  BY PartIsForest DEF PartOf
<1>2. n \in Nat
  BY <1>1, GenerationsAre
<1>3. ASSUME NEW x \in DOMAIN s, NEW m \in Nat, x \notin DOMAIN t PROVE out(x, m)
  <2>1. 0 \in Generations(s, x, x) /\ 0 \in 0..m
    BY <1>3, GenerationsAre
  <2> QED BY <1>3, <2>1
<1>4. 0 \in T
  <2> SUFFICES ASSUME NEW x \in DOMAIN s, 0 \in Generations(s, x, r), x \in DOMAIN t
               PROVE  0 \in Generations(t, x, r)
    BY <1>3
  <2>1. x = r
    BY <1>1, GenerationsAre
  <2> QED BY <1>1, <2>1, GenerationsAre
<1>5. ASSUME NEW m \in Nat, m \in T PROVE m + 1 \in T
  <2> SUFFICES ASSUME NEW x \in DOMAIN s, m + 1 \in Generations(s, x, r)
               PROVE  (x \in DOMAIN t /\ m + 1 \in Generations(t, x, r)) \/ out(x, m + 1)
    OBVIOUS
  <2>1. s[x].parent \in DOMAIN s /\ m \in Generations(s, s[x].parent, r)
    BY <1>1, GenerationsAre
  <2>2. CASE x \notin DOMAIN t
    BY <1>3, <2>2
  <2>3. CASE x \in DOMAIN t /\ s[x].parent \in DOMAIN t /\ m \in Generations(t, s[x].parent, r)
    <3>1. t[x].parent = s[x].parent
      BY <2>3 DEF PartOf
    <3> HIDE DEF out
    <3> QED BY <1>1, <2>3, <3>1, GenerationsAre
  <2>4. CASE out(s[x].parent, m)
    <3>1. PICK q \in DOMAIN s \ DOMAIN t, k \in 0..m : k \in Generations(s, s[x].parent, q)
      BY <2>4
    <3>2. k \in Nat /\ k + 1 \in 0..(m + 1)
      BY <3>1
    <3>3. k + 1 \in Generations(s, x, q)
      BY <2>1, <3>1, <3>2, GenerationsAre
    <3> QED BY <3>2, <3>3
  <2> HIDE DEF out
  <2> QED BY <1>5, <2>1, <2>2, <2>3, <2>4
<1>6. Nat \subseteq T
  <2> HIDE DEF T
  <2> QED BY <1>4, <1>5, UpFromZero
<1> QED
  BY <1>2, <1>6

(* Who stands over a process: those it is below, itself left out.          *)
Over(t, p) == LET up == Above(t, p) IN {up[n] : n \in DOMAIN up \ {0}}

LEMMA StandsOver ==
    ASSUME NEW t, Forest(t), NEW p \in DOMAIN t, NEW a \in DOMAIN t
    PROVE  a \in Over(t, p) <=> a # p /\ Below(t, p, a)
<1> DEFINE up == Above(t, p)
<1>1. a \in {up[n] : n \in DOMAIN up \ {0}} <=> \E n \in Generations(t, p, a) : n # 0
  BY DEF Generations
<1>2. 0 \in Generations(t, p, a) <=> p = a
  BY GenerationsAre
<1>3. \A m, n \in Generations(t, p, a) : m = n
  BY GenerationIsOne
<1>4. (\E n \in Generations(t, p, a) : n # 0) <=> a # p /\ Below(t, p, a)
  BY <1>2, <1>3 DEF Below
<1> HIDE DEF up
<1> QED
  BY <1>1, <1>4 DEF up, Over

(* The same of the members of a snapshot.                                  *)
LEMMA AncestorsAre ==
    ASSUME NEW s, Forest(s), NEW members, members \subseteq DOMAIN s,
           NEW t, PartOf(t, s), DOMAIN t = members,
           NEW p \in members, NEW a \in members
    PROVE  a \in Over(Within(s, members), p) <=> a # p /\ Below(t, p, a)
<1>1. PartOf(Within(s, members), s) /\ DOMAIN Within(s, members) = members
  BY WithinIsPart
<1>2. Forest(Within(s, members)) /\ Forest(t)
  BY <1>1, PartIsForest
<1>3. PartOf(Within(s, members), t)
  BY <1>1 DEF PartOf
<1>4. Generations(Within(s, members), p, a) = Generations(t, p, a)
  BY <1>1, <1>2, <1>3, SameParents
<1> QED
  BY <1>1, <1>2, <1>4, StandsOver DEF Below

(* OrdersLeafFirst, of what a snapshot told and what was found in it.      *)
Orderly(x, members, order) ==
    \A i, j \in DOMAIN order : i < j =>
        order[i].pid \notin Over(Within(x, members), order[j].pid)
TreesOrderly(x, trees) ==
    \A w \in trees : OnceEach(w.order) /\ Orderly(x, DOMAIN x, w.order) /\ Last(w.order) = w.root
GroupsOrderly(x, groups) ==
    \A g \in groups :
        OnceEach(GroupOrder(g)) /\ Orderly(x, {p \in DOMAIN x : x[p].shown}, GroupOrder(g))
AppsOrderly(x, apps) ==
    \A w \in apps :
        /\ OnceEach(w.order) /\ Last(w.order) = w.root
        /\ \A i, j \in DOMAIN w.order :
              i < j /\ w.order[i].pid \in Over(Within(x, PidsOf(w.order)), w.order[j].pid) =>
                  /\ w.order[j].pid < w.order[i].pid
                  /\ w.root.pid \notin Over(Within(x, PidsOf(w.order)), w.order[j].pid)

LEMMA OrdersAre ==
    ASSUME TreesOrderly(seen', staleFound'.workloads), GroupsOrderly(seen', staleFound'.groups),
           AppsOrderly(seen', bgNotices')
    PROVE  OrdersLeafFirst'
<1>1. \A w \in staleFound'.workloads :
          OnceEach(w.order) /\ NoParentBefore(w.order, DOMAIN seen)' /\ Last(w.order) = w.root
  BY DEF TreesOrderly, Orderly, Over, Within, NoParentBefore, AncestorsIn
<1>2. \A g \in staleFound'.groups :
          OnceEach(GroupOrder(g)) /\ NoParentBefore(GroupOrder(g), ShownPids)'
  BY DEF GroupsOrderly, Orderly, Over, Within, NoParentBefore, AncestorsIn, ShownPids
<1>3. \A w \in bgNotices' :
          /\ OnceEach(w.order) /\ Last(w.order) = w.root
          /\ \A i, j \in DOMAIN w.order :
                i < j /\ w.order[i].pid \in AncestorsIn(PidsOf(w.order), w.order[j])' =>
                    /\ w.order[j].pid < w.order[i].pid
                    /\ w.root.pid \notin AncestorsIn(PidsOf(w.order), w.order[j])'
  BY DEF AppsOrderly, Over, Within, AncestorsIn
<1> QED
  BY <1>1, <1>2, <1>3 DEF OrdersLeafFirst

LEMMA OrdersWere ==
    ASSUME OrdersLeafFirst
    PROVE  /\ TreesOrderly(seen, staleFound.workloads) /\ GroupsOrderly(seen, staleFound.groups)
           /\ AppsOrderly(seen, bgNotices)
<1>1. TreesOrderly(seen, staleFound.workloads)
  BY DEF OrdersLeafFirst, TreesOrderly, Orderly, Over, Within, NoParentBefore, AncestorsIn
<1>2. GroupsOrderly(seen, staleFound.groups)
  BY DEF OrdersLeafFirst, GroupsOrderly, Orderly, Over, Within, NoParentBefore, AncestorsIn,
     ShownPids
<1>3. AppsOrderly(seen, bgNotices)
  BY DEF OrdersLeafFirst, AppsOrderly, Over, Within, AncestorsIn
<1> QED
  BY <1>1, <1>2, <1>3

(* What the properties keep of a snapshot.                                 *)
LEMMA SeenIs ==
    ASSUME NEW s, NEW level, NEW delay, Polled(s, level, delay)
    PROVE  /\ DOMAIN seen' = DOMAIN s
           /\ {p \in DOMAIN seen' : seen'[p].shown} = Shown(s, delay)
           /\ \A p \in DOMAIN s : seen'[p].id = IdOf(s, p) /\ seen'[p].parent = s[p].parent
           /\ \A members \in SUBSET DOMAIN s : Within(seen', members) = Within(s, members)
<1>1. ignores' = Left(ignores, delay) /\ UNCHANGED protection
  BY DEF Polled, MonitorPoll
<1> DEFINE own == Monitored(s, protection, DOMAIN ignores')
<1>2. seen' = [p \in DOMAIN s |-> [id |-> IdOf(s, p), parent |-> s[p].parent,
                                   memory |-> s[p].memory, shown |-> p \in own]]
  BY DEF Polled, Remember
<1>3. own = Shown(s, delay) /\ own \subseteq DOMAIN s
  BY <1>1 DEF Shown, Monitored
<1> HIDE DEF own
<1>4. \A p \in DOMAIN s : seen'[p].shown <=> p \in own
  BY <1>2
<1>5. DOMAIN seen' = DOMAIN s
      /\ \A p \in DOMAIN s : seen'[p].id = IdOf(s, p) /\ seen'[p].parent = s[p].parent
  BY <1>2
<1>6. \A members \in SUBSET DOMAIN s : Within(seen', members) = Within(s, members)
  BY <1>5 DEF Within
<1>7. {p \in DOMAIN seen' : seen'[p].shown} = Shown(s, delay)
  BY <1>3, <1>4, <1>5
<1> QED
  BY <1>5, <1>6, <1>7

LEMMA OnceIs ==
    ASSUME NEW order, Len(order) \in Nat, DOMAIN order = 1..Len(order),
           \A i, j \in DOMAIN order : i < j => order[i] # order[j]
    PROVE  OnceEach(order)
<1> SUFFICES ASSUME NEW i \in DOMAIN order, NEW j \in DOMAIN order, order[i] = order[j]
             PROVE  i = j
  BY DEF OnceEach
<1>1. i < j \/ j < i \/ i = j
  OBVIOUS
<1> QED
  BY <1>1

(* The processes a poll shows, as a forest of their own.                   *)
LEMMA ShownIsPart ==
    ASSUME NEW s, NEW level, NEW delay, Polled(s, level, delay)
    PROVE  LET r == Restrict(s, Shown(s, delay))
           IN /\ PartOf(r, s) /\ Forest(s) /\ Forest(r) /\ DOMAIN r = Shown(s, delay)
              /\ DOMAIN s \subseteq Nat /\ DOMAIN r \subseteq Nat
<1> DEFINE r == Restrict(s, Shown(s, delay))
<1>1. /\ DOMAIN r = Shown(s, delay) /\ Shown(s, delay) \subseteq DOMAIN s
      /\ \A p \in Shown(s, delay) : r[p] = s[p]
  BY ShownIsThere
<1>2. Forest(s) /\ DOMAIN s \subseteq Nat
  BY DEF Polled, Looks
<1> HIDE DEF r
<1>3. PartOf(r, s)
  BY <1>1 DEF PartOf
<1>4. Forest(r)
  BY <1>2, <1>3, PartIsForest
<1> QED
  BY <1>1, <1>2, <1>3, <1>4 DEF r

(* A tree that was found.                                                  *)
LEMMA FoundTree ==
    ASSUME NEW s, NEW level, NEW delay, Polled(s, level, delay), NEW w,
           w \in Eligible(Restrict(s, Shown(s, delay)), stalePolicy, DOMAIN staleIgnored')
    PROVE  LET r == Restrict(s, Shown(s, delay))
           IN \E root \in DOMAIN r :
                 /\ w = Workload(r, root) /\ w.root = IdOf(s, root) /\ r[root].uid = Me
                 /\ Len(w.order) \in Nat \ {0} /\ DOMAIN w.order = 1..Len(w.order)
                 /\ w.order[Len(w.order)] = w.root
                 /\ ToSet(w.order) = {IdOf(s, p) : p \in Tree(r, root)}
                 /\ \A k \in DOMAIN w.order :
                       w.order[k].pid \in Tree(r, root) /\ w.order[k] = IdOf(s, w.order[k].pid)
                 /\ \A i, j \in DOMAIN w.order : i < j =>
                       /\ w.order[i].pid # w.order[j].pid
                       /\ Depth(r, w.order[i].pid, root) >= Depth(r, w.order[j].pid, root)
<1> DEFINE r == Restrict(s, Shown(s, delay))
<1>1. Forest(r) /\ DOMAIN r \subseteq Nat /\ DOMAIN r = Shown(s, delay)
  BY ShownIsPart
<1>2. \A p \in DOMAIN r : IdOf(r, p) = IdOf(s, p)
  BY <1>1, ShownIsThere
<1> HIDE DEF r
<1>3. PICK root \in DOMAIN r : w = Workload(r, root) /\ w.root = IdOf(r, root) /\ r[root].uid = Me
  <2>1. w \in Eligible(r, stalePolicy, DOMAIN staleIgnored') /\ IsFiniteSet(DOMAIN r)
    BY <1>1 DEF r, Forest
  <2> QED BY <2>1, EligibleIsThere
<1>4. LET order == Workload(r, root).order
      IN /\ Len(order) \in Nat \ {0} /\ DOMAIN order = 1..Len(order)
         /\ order[Len(order)] = IdOf(r, root)
         /\ ToSet(order) = {IdOf(r, p) : p \in Tree(r, root)}
         /\ \A k \in DOMAIN order :
               order[k].pid \in Tree(r, root) /\ order[k] = IdOf(r, order[k].pid)
         /\ \A i, j \in DOMAIN order : i < j =>
               /\ order[i].pid # order[j].pid
               /\ Depth(r, order[i].pid, root) >= Depth(r, order[j].pid, root)
  BY <1>1, <1>3, TreeOrder
<1>5. Tree(r, root) \subseteq DOMAIN r
  BY DEF Tree
<1>6. {IdOf(r, p) : p \in Tree(r, root)} = {IdOf(s, p) : p \in Tree(r, root)}
  BY <1>2, <1>5
<1>7. \A k \in DOMAIN w.order :
         w.order[k].pid \in Tree(r, root) /\ w.order[k] = IdOf(s, w.order[k].pid)
  BY <1>2, <1>3, <1>4, <1>5
<1>8. /\ Len(w.order) \in Nat \ {0} /\ DOMAIN w.order = 1..Len(w.order)
      /\ w.order[Len(w.order)] = w.root
      /\ ToSet(w.order) = {IdOf(s, p) : p \in Tree(r, root)}
  BY <1>3, <1>4, <1>6
<1>9. \A i, j \in DOMAIN w.order : i < j =>
         /\ w.order[i].pid # w.order[j].pid
         /\ Depth(r, w.order[i].pid, root) >= Depth(r, w.order[j].pid, root)
  BY <1>3, <1>4
<1>10. w.root = IdOf(s, root)
  BY <1>2, <1>3
<1> QED
  BY <1>3, <1>7, <1>8, <1>9, <1>10 DEF r

LEMMA PollTreesOrderly ==
    ASSUME NEW s, NEW level, NEW delay, Polled(s, level, delay)
    PROVE  TreesOrderly(seen', staleFound'.workloads)
<1> SUFFICES ASSUME NEW w \in staleFound'.workloads
             PROVE  /\ OnceEach(w.order) /\ Orderly(seen', DOMAIN seen', w.order)
                    /\ Last(w.order) = w.root
  BY DEF TreesOrderly
<1> DEFINE r == Restrict(s, Shown(s, delay))
<1>1. w \in Eligible(r, stalePolicy, DOMAIN staleIgnored')
  BY FoundIsEligible
<1>2. /\ PartOf(r, s) /\ Forest(s) /\ Forest(r) /\ DOMAIN r = Shown(s, delay)
  BY ShownIsPart
<1>3. PICK root \in DOMAIN r :
          /\ w.root = IdOf(s, root)
          /\ Len(w.order) \in Nat \ {0} /\ DOMAIN w.order = 1..Len(w.order)
          /\ w.order[Len(w.order)] = w.root
          /\ \A k \in DOMAIN w.order : w.order[k].pid \in Tree(r, root)
          /\ \A i, j \in DOMAIN w.order : i < j =>
                /\ w.order[i].pid # w.order[j].pid
                /\ Depth(r, w.order[i].pid, root) >= Depth(r, w.order[j].pid, root)
  BY <1>1, FoundTree
<1> HIDE DEF r
<1>4. OnceEach(w.order)
  <2>1. \A i, j \in DOMAIN w.order : i < j => w.order[i] # w.order[j]
    BY <1>3
  <2> QED BY <1>3, <2>1, OnceIs
<1>5. Last(w.order) = w.root
  BY <1>3 DEF Last
<1>6. ASSUME NEW i \in DOMAIN w.order, NEW j \in DOMAIN w.order, i < j,
             w.order[i].pid \in Over(Within(seen', DOMAIN seen'), w.order[j].pid)
      PROVE  FALSE
  <2> DEFINE a == w.order[i].pid
             b == w.order[j].pid
  <2>1. Within(seen', DOMAIN seen') = Within(s, DOMAIN s)
    BY SeenIs
  <2>2. /\ a \in DOMAIN r /\ b \in DOMAIN r /\ Below(r, a, root) /\ Below(r, b, root)
        /\ a \in DOMAIN s /\ b \in DOMAIN s
    BY <1>2, <1>3, <1>6 DEF Tree, PartOf
  <2>3. a # b /\ Depth(r, a, root) >= Depth(r, b, root)
    BY <1>3, <1>6
  <2>4. a \in Over(Within(s, DOMAIN s), b)
    BY <1>6, <2>1
  <2> HIDE DEF a, b
  <2>5. Below(s, b, a)
    <3>1. PartOf(s, s)
      BY DEF PartOf
    <3> QED BY <1>2, <2>2, <2>4, <3>1, AncestorsAre
  <2>6. ~Below(s, b, a)
    BY <1>2, <2>2, <2>3, DeeperIsNotAbove
  <2> QED BY <2>5, <2>6
<1> QED
  BY <1>4, <1>5, <1>6 DEF Orderly

LEMMA PollGroupsOrderly ==
    ASSUME NEW s, NEW level, NEW delay, Polled(s, level, delay)
    PROVE  GroupsOrderly(seen', staleFound'.groups)
<1> DEFINE r == Restrict(s, Shown(s, delay))
           all == Eligible(r, stalePolicy, DOMAIN staleIgnored')
<1>0. {p \in DOMAIN seen' : seen'[p].shown} = DOMAIN r
  <2>1. {p \in DOMAIN seen' : seen'[p].shown} = Shown(s, delay)
    BY SeenIs
  <2>2. DOMAIN r = Shown(s, delay)
    BY ShownIsThere
  <2> QED BY <2>1, <2>2
<1> SUFFICES ASSUME NEW g \in staleFound'.groups
             PROVE  OnceEach(GroupOrder(g)) /\ Orderly(seen', DOMAIN r, GroupOrder(g))
  <2> HIDE DEF r
  <2> QED BY <1>0 DEF GroupsOrderly
<1>1. stalePolicy.enabled
  BY DEF Polled, EvaluateStale, NothingStale
<1>2. g \in GroupsOf(all, stalePolicy)
  <2>1. staleFound' = Assembled(all, stalePolicy)
    BY <1>1 DEF Polled, EvaluateStale, Detection
  <2> HIDE DEF all
  <2> QED BY <2>1, FoundAreEligible
<1>3. g.trees \subseteq all
  <2> HIDE DEF all
  <2> QED BY <1>2, GroupIs
<1>4. /\ PartOf(r, s) /\ Forest(s) /\ Forest(r) /\ DOMAIN r = Shown(s, delay)
      /\ DOMAIN r \subseteq Nat
  BY ShownIsPart
<1>5. IsFiniteSet(g.trees)
  <2>1. IsFiniteSet(DOMAIN r)
    BY <1>4 DEF Forest
  <2> HIDE DEF r
  <2> QED BY <1>3, <2>1, RootsOfGroup
<1>6. ASSUME NEW p \in DOMAIN r PROVE r[p].memory \in Nat
  <2>1. p \in DOMAIN s /\ r[p] = s[p]
    BY <1>4, ShownIsThere
  <2> QED BY <2>1 DEF Polled, Looks
<1>7. \A w \in g.trees : \E root \in DOMAIN r :
          /\ w = Workload(r, root) /\ w.root = IdOf(s, root)
          /\ Len(w.order) \in Nat \ {0} /\ DOMAIN w.order = 1..Len(w.order)
          /\ ToSet(w.order) = {IdOf(s, p) : p \in Tree(r, root)}
          /\ \A k \in DOMAIN w.order :
                w.order[k].pid \in Tree(r, root) /\ w.order[k] = IdOf(s, w.order[k].pid)
          /\ \A i, j \in DOMAIN w.order : i < j =>
                /\ w.order[i].pid # w.order[j].pid
                /\ Depth(r, w.order[i].pid, root) >= Depth(r, w.order[j].pid, root)
  BY <1>3, FoundTree
<1> HIDE DEF r, all
<1> DEFINE order == GroupOrder(g)
<1>8. /\ Len(order) \in Nat /\ DOMAIN order = 1..Len(order)
      /\ ToSet(order) = UNION {ToSet(w.order) : w \in g.trees}
      /\ \A i, j \in DOMAIN order : i < j =>
            /\ order[i] # order[j]
            /\ \E w \in g.trees :
                  /\ order[i] \in ToSet(w.order)
                  /\ order[j] \in ToSet(w.order) =>
                       \E k, l \in DOMAIN w.order :
                          k < l /\ w.order[k] = order[i] /\ w.order[l] = order[j]
  <2>1. ASSUME NEW w \in g.trees
        PROVE  /\ w.memory \in Int /\ w.root.pid \in Int
               /\ Len(w.order) \in Nat /\ DOMAIN w.order = 1..Len(w.order)
               /\ \A i, j \in DOMAIN w.order : i < j => w.order[i] # w.order[j]
    <3>1. PICK root \in DOMAIN r :
              /\ w = Workload(r, root) /\ w.root = IdOf(s, root)
              /\ Len(w.order) \in Nat \ {0} /\ DOMAIN w.order = 1..Len(w.order)
              /\ \A i, j \in DOMAIN w.order : i < j => w.order[i].pid # w.order[j].pid
      BY <1>7
    <3>2. w.memory = MemoryOf(r, Tree(r, root))
      BY <3>1 DEF Workload
    <3>3. Tree(r, root) \in SUBSET DOMAIN r
      BY DEF Tree
    <3>4. w.memory \in Nat
      BY <1>4, <1>6, <3>2, <3>3, MemoryIsNumber, FS_Subset DEF Forest
    <3>5. w.root.pid = root /\ root \in Nat
      BY <1>4, <3>1 DEF IdOf
    <3> QED BY <3>1, <3>4, <3>5
  <2>2. ASSUME NEW v \in g.trees, NEW w \in g.trees, v.root.pid = w.root.pid PROVE v = w
    <3>1. PICK p \in DOMAIN r : v = Workload(r, p) /\ v.root = IdOf(s, p)
      BY <1>7
    <3>2. PICK q \in DOMAIN r : w = Workload(r, q) /\ w.root = IdOf(s, q)
      BY <1>7
    <3> QED BY <2>2, <3>1, <3>2 DEF IdOf
  <2>3. LET o == GroupOrder(g)
        IN /\ Len(o) \in Nat /\ DOMAIN o = 1..Len(o)
           /\ ToSet(o) = UNION {ToSet(w.order) : w \in g.trees}
           /\ \A i, j \in DOMAIN o : i < j =>
                 /\ o[i] # o[j]
                 /\ \E w \in g.trees :
                       /\ o[i] \in ToSet(w.order)
                       /\ o[j] \in ToSet(w.order) =>
                            \E k, l \in DOMAIN w.order :
                               k < l /\ w.order[k] = o[i] /\ w.order[l] = o[j]
    BY <1>5, <2>1, <2>2, GroupOrderIs
  <2> QED BY <2>3
<1> HIDE DEF order
<1>9. OnceEach(order)
  BY <1>8, OnceIs
<1>10. ASSUME NEW w \in g.trees, NEW id \in ToSet(w.order)
       PROVE  id.pid \in DOMAIN r /\ id = IdOf(s, id.pid) /\ r[id.pid].uid = Me
  <2>1. PICK root \in DOMAIN r : ToSet(w.order) = {IdOf(s, p) : p \in Tree(r, root)}
    BY <1>7
  <2>2. PICK p \in Tree(r, root) : id = IdOf(s, p)
    BY <2>1
  <2> QED BY <2>2 DEF Tree, IdOf
<1>11. ASSUME NEW i \in DOMAIN order, NEW j \in DOMAIN order, i < j,
              order[i].pid \in Over(Within(seen', DOMAIN r), order[j].pid)
       PROVE  FALSE
  <2> DEFINE a == order[i].pid
             b == order[j].pid
  <2>1. PICK w \in g.trees :
           /\ order[i] \in ToSet(w.order)
           /\ order[j] \in ToSet(w.order) =>
                \E k, l \in DOMAIN w.order :
                   k < l /\ w.order[k] = order[i] /\ w.order[l] = order[j]
    BY <1>8, <1>11
  <2>2. PICK root \in DOMAIN r :
          /\ ToSet(w.order) = {IdOf(s, p) : p \in Tree(r, root)}
          /\ \A k \in DOMAIN w.order : w.order[k].pid \in Tree(r, root)
          /\ \A k, l \in DOMAIN w.order : k < l =>
                /\ w.order[k].pid # w.order[l].pid
                /\ Depth(r, w.order[k].pid, root) >= Depth(r, w.order[l].pid, root)
    BY <1>7
  <2>3. order[j] \in ToSet(order)
    BY <1>8, <1>11 DEF ToSet
  <2>4. PICK v \in g.trees : order[j] \in ToSet(v.order)
    BY <1>8, <2>3
  <2>5. a \in DOMAIN r /\ b \in DOMAIN r /\ r[b].uid = Me /\ order[j] = IdOf(s, b)
    BY <1>10, <2>1, <2>4
  <2>6. a \in Tree(r, root)
    BY <2>1, <2>2 DEF IdOf
  <2>7. a \in Over(Within(s, DOMAIN r), b)
    <3>1. DOMAIN r \in SUBSET DOMAIN s
      BY <1>4 DEF PartOf
    <3> QED BY <1>11, <3>1, SeenIs
  <2> HIDE DEF a, b
  <2>8. Below(r, b, a)
    BY <1>4, <2>5, <2>7, AncestorsAre DEF PartOf
  <2>9. Below(r, a, root)
    BY <2>6 DEF Tree
  <2>10. b \in Tree(r, root)
    <3>1. PICK m \in Generations(r, b, a), n \in Generations(r, a, root) : TRUE
      BY <2>8, <2>9 DEF Below
    <3>2. m + n \in Generations(r, b, root)
      BY <1>4, <2>5, GenerationsAdd
    <3> QED BY <2>5, <3>2 DEF Tree, Below
  <2>11. order[j] \in ToSet(w.order)
    BY <2>2, <2>5, <2>10
  <2>12. PICK k \in DOMAIN w.order, l \in DOMAIN w.order :
             k < l /\ w.order[k] = order[i] /\ w.order[l] = order[j]
    BY <2>1, <2>11
  <2>13. a # b /\ Depth(r, a, root) >= Depth(r, b, root)
    BY <2>2, <2>12 DEF a, b
  <2>14. PartOf(r, r) /\ Below(r, b, root)
    BY <2>10 DEF PartOf, Tree
  <2>15. ~Below(r, b, a)
    BY <1>4, <2>5, <2>9, <2>13, <2>14, DeeperIsNotAbove
  <2> QED BY <2>8, <2>15
<1> QED
  BY <1>9, <1>11 DEF Orderly, order

LEMMA PollAppsOrderly ==
    ASSUME NEW s, NEW level, NEW delay, Polled(s, level, delay)
    PROVE  AppsOrderly(seen', bgNotices')
<1> SUFFICES ASSUME NEW w \in bgNotices'
             PROVE  /\ OnceEach(w.order) /\ Last(w.order) = w.root
                    /\ \A i, j \in DOMAIN w.order :
                          i < j /\ w.order[i].pid \in Over(Within(seen', PidsOf(w.order)), w.order[j].pid)
                          => /\ w.order[j].pid < w.order[i].pid
                             /\ w.root.pid \notin Over(Within(seen', PidsOf(w.order)), w.order[j].pid)
  BY DEF AppsOrderly
<1>1. PICK group : w = BuildGroup(s, group) /\ GroupMembers(s, group) # {}
  <2>1. w \in BuildBackgroundWorkloads(s, bgProtection, bgPolicy)
    BY AppsAreSafe
  <2> QED BY <2>1 DEF BuildBackgroundWorkloads, EligibleGroups
<1> DEFINE members == GroupMembers(s, group)
           root == SelectRoot(s, members)
           part == Within(s, members)
<1>2. Forest(s) /\ DOMAIN s \subseteq Nat /\ \A p \in DOMAIN s : s[p].start \in Nat
  BY DEF Polled, Looks
<1>3. members \in SUBSET DOMAIN s
  BY DEF GroupMembers
<1>4. LET order == BuildGroup(s, group).order
      IN /\ root \in members
         /\ Len(order) \in Nat \ {0} /\ DOMAIN order = 1..Len(order)
         /\ order[Len(order)] = IdOf(s, root)
         /\ ToSet(order) = {IdOf(s, p) : p \in members}
         /\ \A k \in DOMAIN order :
               order[k].pid \in members /\ order[k] = IdOf(s, order[k].pid)
         /\ \A i, j \in DOMAIN order : i < j =>
               /\ order[i].pid # order[j].pid
               /\ Below(part, order[j].pid, order[i].pid) =>
                     order[j].pid < order[i].pid /\ ~Below(part, order[j].pid, root)
  BY <1>1, <1>2, AppOrder
<1>5. w.root = IdOf(s, root) /\ w.root.pid = root
  BY <1>1 DEF BuildGroup, IdOf
<1> HIDE DEF members, root, part
<1>6. /\ root \in members
      /\ Len(w.order) \in Nat \ {0} /\ DOMAIN w.order = 1..Len(w.order)
      /\ w.order[Len(w.order)] = IdOf(s, root)
      /\ ToSet(w.order) = {IdOf(s, p) : p \in members}
      /\ \A k \in DOMAIN w.order : w.order[k].pid \in members
      /\ \A i, j \in DOMAIN w.order : i < j =>
            /\ w.order[i].pid # w.order[j].pid
            /\ Below(part, w.order[j].pid, w.order[i].pid) =>
                  w.order[j].pid < w.order[i].pid /\ ~Below(part, w.order[j].pid, root)
  BY <1>1, <1>4
<1>7. OnceEach(w.order)
  <2>1. \A i, j \in DOMAIN w.order : i < j => w.order[i] # w.order[j]
    BY <1>6
  <2> QED BY <1>6, <2>1, OnceIs
<1>8. Last(w.order) = w.root
  BY <1>5, <1>6 DEF Last
<1>9. PidsOf(w.order) = members
  <2>1. \A p \in members : IdOf(s, p).pid = p
    BY DEF IdOf
  <2> QED BY <1>6, <2>1 DEF PidsOf
<1>10. Within(seen', members) = part
  BY <1>3, SeenIs DEF part
<1>11. PartOf(part, s) /\ DOMAIN part = members
  BY <1>3, WithinIsPart DEF part
<1>12. ASSUME NEW p \in members, NEW a \in members
       PROVE  a \in Over(part, p) <=> a # p /\ Below(part, p, a)
  <2>1. Forest(part)
    BY <1>2, <1>11, PartIsForest
  <2> QED BY <1>11, <2>1, StandsOver
<1>13. ASSUME NEW i \in DOMAIN w.order, NEW j \in DOMAIN w.order, i < j,
              w.order[i].pid \in Over(part, w.order[j].pid)
       PROVE  /\ w.order[j].pid < w.order[i].pid
              /\ w.root.pid \notin Over(part, w.order[j].pid)
  BY <1>5, <1>6, <1>12, <1>13
<1> QED
  BY <1>7, <1>8, <1>9, <1>10, <1>13

LEMMA OrdersInit ==
    ASSUME MonitoringInit
    PROVE  OrdersLeafFirst
BY DEF MonitoringInit, StaleInit, BackgroundInit, NothingStale, OrdersLeafFirst

LEMMA OrdersStep ==
    ASSUME SettingsInv, TableInv, OrdersLeafFirst, [Next]_vars
    PROVE  OrdersLeafFirst'
<1>1. CASE Elsewhere \/ Clicks
  <2>1. UNCHANGED <<seen, staleFound, bgNotices>>
    <3>1. CASE Elsewhere
      BY <3>1 DEF Elsewhere, staleVars, bgVars
    <3>2. CASE Clicks
      <4>1. UNCHANGED seen
        BY <3>2, ClickKeeps
      <4>2. UNCHANGED <<staleFound, bgNotices>>
        BY <3>2 DEF Clicks, IgnoreEventForHour, IgnoreTreeForHour, IgnoreAppForHour,
           AlwaysIgnoreEvent, AlwaysIgnoreTrees, AlwaysIgnoreApp, staleVars, bgVars, IgnoreTree,
           AlwaysIgnoreTree, IgnoreGroup, AlwaysIgnoreGroup, ReplaceProtection
      <4> QED BY <4>1, <4>2
    <3> QED BY <1>1, <3>1, <3>2
  <2>2. /\ TreesOrderly(seen, staleFound.workloads) /\ GroupsOrderly(seen, staleFound.groups)
        /\ AppsOrderly(seen, bgNotices)
    BY OrdersWere
  <2>3. /\ TreesOrderly(seen', staleFound'.workloads) /\ GroupsOrderly(seen', staleFound'.groups)
        /\ AppsOrderly(seen', bgNotices')
    BY <2>1, <2>2
  <2> QED BY <2>3, OrdersAre
<1>2. CASE \E s, level, delay : Polled(s, level, delay)
  <2>1. PICK s, level, delay : Polled(s, level, delay)
    BY <1>2
  <2> QED BY <2>1, PollTreesOrderly, PollGroupsOrderly, PollAppsOrderly, OrdersAre
<1> QED
  BY <1>1, <1>2, StepIs

-----------------------------------------------------------------------------
(* The commands that stop: of the processes as they are.                   *)

(* A process that was seen has the parent it was seen with, as long as     *)
(* both run, or none.                                                      *)
SeenInv ==
    /\ Forest(seen)
    /\ \A p \in DOMAIN seen :
         /\ seen[p].id.pid = p /\ WasSeen(seen[p].id)
         /\ Runs(seen[p].id) /\ table[p].parent # NoPid =>
              /\ table[p].parent = seen[p].parent
              /\ seen[p].parent \in DOMAIN seen /\ Runs(seen[seen[p].parent].id)

(* The trees that were found hold the user's processes that were shown     *)
(* below their roots, and their roots are published.                       *)
TreesOf(x, trees) ==
    LET own == {p \in DOMAIN x : x[p].shown}
    IN \A v \in trees :
        /\ v.root.pid \in own /\ v.root = x[v.root.pid].id
        /\ ToSet(v.order) = {x[p].id : p \in {q \in own : /\ x[q].id.uid = Me
                                                          /\ Below(Within(x, own), q, v.root.pid)}}
TreesInv ==
    /\ published.stale = {v.root : v \in staleFound.workloads}
    /\ TreesOf(seen, staleFound.workloads)

LEMMA StopsInit ==
    ASSUME MonitoringInit
    PROVE  SeenInv /\ TreesInv
<1>1. seen = <<>> /\ staleFound = NothingStale /\ published = NothingPublished
  BY DEF MonitoringInit, StaleInit
<1>2. DOMAIN seen = {} /\ IsFiniteSet({})
  BY <1>1, FS_EmptySet
<1>3. SeenInv
  BY <1>2 DEF SeenInv, Forest
<1>4. TreesInv
  BY <1>1 DEF TreesInv, TreesOf, NothingStale, NothingPublished
<1> QED
  BY <1>3, <1>4

LEMMA ElsewhereSeen ==
    ASSUME SeenInv, Elsewhere
    PROVE  SeenInv'
<1>1. UNCHANGED seen /\ Passing /\ KinStay
  BY DEF Elsewhere
<1>2. ASSUME NEW p \in DOMAIN seen
      PROVE  /\ WasSeen(seen[p].id)'
             /\ Runs(seen[p].id)' => Runs(seen[p].id)
  BY <1>1, PersonStays DEF SeenInv
<1>3. ASSUME NEW p \in DOMAIN seen, Runs(seen[p].id)', table'[p].parent # NoPid
      PROVE  /\ table'[p].parent = seen[p].parent
             /\ seen[p].parent \in DOMAIN seen /\ Runs(seen[seen[p].parent].id)'
  <2>1. seen[p].id.pid = p /\ Runs(seen[p].id)
    BY <1>2, <1>3 DEF SeenInv
  <2>2. p \in DOMAIN table' /\ p \in DOMAIN table /\ table'[p].start = table[p].start
    BY <1>1, <1>3, <2>1 DEF Runs
  <2>3. /\ table'[p].parent = table[p].parent
        /\ table[p].parent \in DOMAIN table /\ table[p].parent \in DOMAIN table'
        /\ table'[table[p].parent].start = table[table[p].parent].start
    BY <1>1, <1>3, <2>2 DEF KinStay
  <2>4. /\ table[p].parent = seen[p].parent
        /\ seen[p].parent \in DOMAIN seen /\ Runs(seen[seen[p].parent].id)
    BY <1>3, <2>1, <2>3 DEF SeenInv
  <2>5. seen[seen[p].parent].id.pid = seen[p].parent
    BY <2>4 DEF SeenInv
  <2>6. Runs(seen[seen[p].parent].id)'
    BY <1>1, <2>3, <2>4, <2>5 DEF Runs
  <2> QED BY <2>3, <2>4, <2>6
<1>4. Forest(seen) /\ \A p \in DOMAIN seen : seen[p].id.pid = p
  BY DEF SeenInv
<1>5. Forest(seen)'
  BY <1>1, <1>4
<1> QED
  BY <1>1, <1>2, <1>3, <1>4, <1>5 DEF SeenInv

LEMMA PollSeen ==
    ASSUME NEW s, NEW level, NEW delay, Polled(s, level, delay)
    PROVE  SeenInv'
<1>1. /\ DOMAIN seen' = DOMAIN s
      /\ \A p \in DOMAIN s : seen'[p].id = IdOf(s, p) /\ seen'[p].parent = s[p].parent
  BY SeenIs
<1>2. /\ Forest(s) /\ clock' = clock
      /\ \A p \in DOMAIN s : s[p].start \in Nat /\ s[p].start < clock
  BY DEF Polled, Looks
<1>3. /\ DOMAIN table' = DOMAIN s
      /\ \A p \in DOMAIN s :
           /\ table'[p].start = s[p].start /\ table'[p].parent = s[p].parent
           /\ s[p].parent \in DOMAIN s \cup {NoPid}
  BY DEF Polled, Pictures
<1>4. Forest(seen')
  <2>1. PartOf(seen', s)
    BY <1>1 DEF PartOf
  <2> QED BY <1>2, <2>1, PartIsForest
<1>5. \A p \in DOMAIN s :
         /\ seen'[p].id.pid = p /\ seen'[p].id.start = s[p].start
         /\ seen'[p].id.start \in Nat /\ seen'[p].id.start < clock'
         /\ p \in DOMAIN table' /\ table'[p].start = seen'[p].id.start
  <2> SUFFICES ASSUME NEW p \in DOMAIN s
               PROVE  /\ seen'[p].id.pid = p /\ seen'[p].id.start = s[p].start
                      /\ seen'[p].id.start \in Nat /\ seen'[p].id.start < clock'
                      /\ p \in DOMAIN table' /\ table'[p].start = seen'[p].id.start
    OBVIOUS
  <2>1. seen'[p].id = IdOf(s, p)
    BY <1>1
  <2>2. IdOf(s, p).pid = p /\ IdOf(s, p).start = s[p].start
    BY DEF IdOf
  <2>3. seen'[p].id.pid = p /\ seen'[p].id.start = s[p].start
    BY <2>1, <2>2
  <2> QED BY <1>2, <1>3, <2>3
<1>6. ASSUME NEW p \in DOMAIN s, table'[p].parent # NoPid
      PROVE  /\ table'[p].parent = seen'[p].parent /\ seen'[p].parent \in DOMAIN s
             /\ seen'[seen'[p].parent].id.pid \in DOMAIN table'
             /\ table'[seen'[seen'[p].parent].id.pid].start = seen'[seen'[p].parent].id.start
  <2>1. table'[p].parent = seen'[p].parent /\ seen'[p].parent \in DOMAIN s
    BY <1>1, <1>3, <1>6
  <2> QED BY <1>5, <2>1
<1>7. \A p \in DOMAIN seen' :
         /\ seen'[p].id.pid = p /\ (WasSeen(seen[p].id))'
         /\ table'[p].parent # NoPid =>
              /\ table'[p].parent = seen'[p].parent
              /\ seen'[p].parent \in DOMAIN seen' /\ (Runs(seen[seen[p].parent].id))'
  BY <1>1, <1>5, <1>6 DEF WasSeen, Runs
<1>8. Forest(seen)'
  BY <1>4
<1> QED
  BY <1>7, <1>8 DEF SeenInv

LEMMA PollTrees ==
    ASSUME NEW s, NEW level, NEW delay, Polled(s, level, delay)
    PROVE  TreesInv'
<1>1. published'.stale = {w.root : w \in staleFound'.workloads}
  BY DEF Polled, Publish
<1> DEFINE r == Restrict(s, Shown(s, delay))
           own == {p \in DOMAIN seen' : seen'[p].shown}
<1>2. own = Shown(s, delay) /\ DOMAIN seen' = DOMAIN s
  BY SeenIs
<1>3. /\ PartOf(r, s) /\ Forest(s) /\ Forest(r) /\ DOMAIN r = Shown(s, delay)
  BY ShownIsPart
<1>4. \A p \in DOMAIN r : p \in DOMAIN s /\ r[p] = s[p]
  BY <1>3, ShownIsThere
<1> HIDE DEF own
<1>5. ASSUME NEW v \in staleFound'.workloads
      PROVE  /\ v.root.pid \in own /\ v.root = seen'[v.root.pid].id
             /\ ToSet(v.order) = {seen'[p].id : p \in {q \in own : /\ seen'[q].id.uid = Me
                                               /\ Below(Within(seen', own), q, v.root.pid)}}
  <2>1. v \in Eligible(r, stalePolicy, DOMAIN staleIgnored')
    BY FoundIsEligible
  <2>2. PICK root \in DOMAIN r :
            /\ v = Workload(r, root) /\ v.root = IdOf(s, root) /\ r[root].uid = Me
            /\ Len(v.order) \in Nat \ {0} /\ DOMAIN v.order = 1..Len(v.order)
            /\ v.order[Len(v.order)] = v.root
            /\ ToSet(v.order) = {IdOf(s, p) : p \in Tree(r, root)}
            /\ \A k \in DOMAIN v.order :
                  v.order[k].pid \in Tree(r, root) /\ v.order[k] = IdOf(s, v.order[k].pid)
            /\ \A i, j \in DOMAIN v.order : i < j =>
                  /\ v.order[i].pid # v.order[j].pid
                  /\ Depth(r, v.order[i].pid, root) >= Depth(r, v.order[j].pid, root)
    BY <2>1, FoundTree
  <2> HIDE DEF r
  <2>3. v.root.pid = root /\ root \in own /\ root \in DOMAIN s
    BY <1>2, <1>3, <1>4, <2>2 DEF IdOf
  <2>4. \A p \in DOMAIN s : seen'[p].id = IdOf(s, p) /\ IdOf(s, p).uid = s[p].uid
    BY SeenIs DEF IdOf
  <2>5. Within(seen', own) = Within(s, own) /\ DOMAIN Within(s, own) = own
    <3>1. own \in SUBSET DOMAIN s
      BY <1>2, <1>3, <1>4
    <3> QED BY <3>1, SeenIs, WithinIsPart
  <2>6. PartOf(Within(s, own), r)
    BY <1>2, <1>3, <1>4, <2>5 DEF PartOf, Within
  <2>7. \A q \in own : Below(Within(s, own), q, root) <=> Below(r, q, root)
    BY <1>2, <1>3, <2>3, <2>5, <2>6, SameParents DEF Below
  <2>8. Tree(r, root) = {q \in own : seen'[q].id.uid = Me /\ Below(Within(s, own), q, root)}
    BY <1>2, <1>3, <1>4, <2>4, <2>7 DEF Tree
  <2>9. \A p \in Tree(r, root) : p \in DOMAIN s
    BY <1>4 DEF Tree
  <2>10. {IdOf(s, p) : p \in Tree(r, root)} = {seen'[p].id : p \in Tree(r, root)}
    BY <2>4, <2>9
  <2> QED BY <2>2, <2>3, <2>4, <2>5, <2>8, <2>10
<1>6. TreesOf(seen', staleFound'.workloads)
  BY <1>5 DEF TreesOf, own
<1> QED
  BY <1>1, <1>6 DEF TreesInv

LEMMA StopsStep ==
    ASSUME TableInv, SeenInv, TreesInv, [Next]_vars
    PROVE  SeenInv' /\ TreesInv'
<1>1. CASE Elsewhere
  <2>1. UNCHANGED <<seen, staleFound, published>>
    BY <1>1 DEF Elsewhere, staleVars
  <2>2. TreesInv'
    BY <2>1 DEF TreesInv
  <2> QED BY <1>1, <2>2, ElsewhereSeen
<1>2. CASE \E s, level, delay : Polled(s, level, delay)
  BY <1>2, PollSeen, PollTrees
<1>3. CASE Clicks
  <2>1. UNCHANGED <<seen, published, table, clock>>
    BY <1>3, ClickKeeps DEF envVars
  <2>2. UNCHANGED staleFound
    BY <1>3 DEF Clicks, IgnoreEventForHour, IgnoreTreeForHour, IgnoreAppForHour,
       AlwaysIgnoreEvent, AlwaysIgnoreTrees, AlwaysIgnoreApp, staleVars, IgnoreTree,
       AlwaysIgnoreTree
  <2>3. TreesInv'
    BY <2>1, <2>2 DEF TreesInv
  <2>4. SeenInv'
    BY <2>1 DEF SeenInv, WasSeen, Runs
  <2> QED BY <2>3, <2>4
<1> QED
  BY <1>1, <1>2, <1>3, StepIs

(* What a command sees: the processes as they are.                         *)
LEMMA FreshIs ==
    ASSUME TableInv
    PROVE  LET now == Fresh(table)
           IN /\ DOMAIN now = DOMAIN table /\ DOMAIN now \subseteq Nat /\ Forest(now)
              /\ \A p \in DOMAIN now :
                   /\ now[p].start = table[p].start /\ now[p].start \in Nat
                   /\ now[p].uid = table[p].uid /\ now[p].parent = table[p].parent
                   /\ now[p].name = table[p].name /\ now[p].exe = table[p].exe
                   /\ now[p].context = Context(table[p])
<1> DEFINE known == Facts(<<>>, table)
           now == Fresh(table)
<1>1. /\ DOMAIN known = DOMAIN table
      /\ \A p \in DOMAIN table :
           /\ known[p].start = table[p].start /\ known[p].uid = table[p].uid
           /\ known[p].context = Context(table[p])
  BY DEF Facts
<1>2. now = Observed(known, table)
  BY DEF Fresh
<1> HIDE DEF known, now
<1>3. /\ DOMAIN now = DOMAIN table
      /\ \A p \in DOMAIN table :
           /\ now[p].start = known[p].start /\ now[p].uid = known[p].uid
           /\ now[p].context = known[p].context /\ now[p].parent = table[p].parent
           /\ now[p].name = table[p].name /\ now[p].exe = table[p].exe
  BY <1>2 DEF Observed
<1>4. /\ DOMAIN table \subseteq Nat /\ \A p \in DOMAIN table : table[p].start \in Nat
  BY SnapshotAssumption DEF TableInv, IsTable
<1>5. Forest(now)
  <2>1. Forest(table)
    BY SnapshotAssumption DEF TableInv, IsTable, Forest, NoPid
  <2>2. PartOf(now, table)
    BY <1>3 DEF PartOf
  <2> QED BY <2>1, <2>2, PartIsForest
<1> QED
  BY <1>1, <1>3, <1>4, <1>5 DEF now

(* The way up from a process that was seen to one that was seen is the way *)
(* it was seen.                                                            *)
LEMMA WayIsSeen ==
    ASSUME TableInv, SeenInv, NEW p \in DOMAIN seen, Runs(seen[p].id),
           NEW r \in DOMAIN seen, r \in DOMAIN table, NEW n \in Generations(Fresh(table), p, r)
    PROVE  n \in Generations(seen, p, r)
<1> DEFINE now == Fresh(table)
           T == {m \in Nat : \A x \in DOMAIN seen :
                    Runs(seen[x].id) /\ m \in Generations(now, x, r) => m \in Generations(seen, x, r)}
<1>1. /\ DOMAIN now = DOMAIN table /\ Forest(now) /\ NoPid \notin DOMAIN now
      /\ \A x \in DOMAIN now : now[x].parent = table[x].parent
  BY FreshIs DEF Forest
<1>2. Forest(seen) /\ \A x \in DOMAIN seen : Runs(seen[x].id) => x \in DOMAIN table
  BY DEF SeenInv, Runs
<1> HIDE DEF now
<1>3. n \in Nat
  BY <1>1, <1>2, GenerationsAre DEF now
<1>4. 0 \in T
  <2> SUFFICES ASSUME NEW x \in DOMAIN seen, Runs(seen[x].id), 0 \in Generations(now, x, r)
               PROVE  0 \in Generations(seen, x, r)
    OBVIOUS
  <2>1. x = r
    BY <1>1, <1>2, GenerationsAre
  <2> QED BY <1>2, <2>1, GenerationsAre
<1>5. ASSUME NEW m \in Nat, m \in T PROVE m + 1 \in T
  <2> SUFFICES ASSUME NEW x \in DOMAIN seen, Runs(seen[x].id), m + 1 \in Generations(now, x, r)
               PROVE  m + 1 \in Generations(seen, x, r)
    OBVIOUS
  <2>1. now[x].parent \in DOMAIN now /\ m \in Generations(now, now[x].parent, r)
    BY <1>1, <1>2, GenerationsAre
  <2>2. now[x].parent = table[x].parent /\ table[x].parent # NoPid
    BY <1>1, <1>2, <2>1
  <2>3. /\ table[x].parent = seen[x].parent
        /\ seen[x].parent \in DOMAIN seen /\ Runs(seen[seen[x].parent].id)
    BY <2>2 DEF SeenInv
  <2>4. m \in Generations(seen, seen[x].parent, r)
    BY <1>5, <2>1, <2>2, <2>3
  <2> QED BY <1>2, <2>3, <2>4, GenerationsAre
<1>6. Nat \subseteq T
  <2> HIDE DEF T
  <2> QED BY <1>4, <1>5, UpFromZero
<1> QED
  BY <1>3, <1>6 DEF now

(* Who was not listed below the root was hidden, or is below someone who   *)
(* was.                                                                    *)
LEMMA UnlistedIsHidden ==
    ASSUME SeenInv, NEW p \in DOMAIN seen, NEW root, root.pid \in ShownPids,
           NEW n \in Generations(seen, p, root.pid),
           ~(p \in ShownPids /\ Below(Within(seen, ShownPids), p, root.pid))
    PROVE  Hidden(seen[p].id, root)
<1> DEFINE r == root.pid
           part == Within(seen, ShownPids)
<1>1. /\ ShownPids \subseteq DOMAIN seen /\ Forest(seen) /\ r \in DOMAIN seen
      /\ \A x \in DOMAIN seen : seen[x].id.pid = x
  BY DEF ShownPids, SeenInv
<1>2. PartOf(part, seen) /\ DOMAIN part = ShownPids
  BY <1>1, WithinIsPart
<1> HIDE DEF part, r
<1>3. r \in DOMAIN part /\ n \in Generations(seen, p, r)
  BY <1>2 DEF r
<1>4. PICK q \in DOMAIN seen \ DOMAIN part, k \in 0..n : k \in Generations(seen, p, q)
  BY <1>1, <1>2, <1>3, OutsidePart DEF Below, part, r
<1>5. \A id : \A x, a \in DOMAIN seen :
          id.pid = x => (a \in Ancestors(id) <=> a # x /\ Below(seen, x, a))
  <2> SUFFICES ASSUME NEW id, NEW x \in DOMAIN seen, NEW a \in DOMAIN seen, id.pid = x
               PROVE  a \in Ancestors(id) <=> a # x /\ Below(seen, x, a)
    OBVIOUS
  <2>1. Ancestors(id) = Over(Within(seen, DOMAIN seen), x)
    BY DEF Ancestors, AncestorsIn, Over, Within
  <2>2. PartOf(seen, seen)
    BY DEF PartOf
  <2> QED BY <1>1, <2>1, <2>2, AncestorsAre
<1>6. q \in DOMAIN seen \ ShownPids /\ q # r /\ seen[q].id.pid = q /\ seen[p].id.pid = p
  BY <1>1, <1>2, <1>3
<1>7. seen[q].id = seen[p].id \/ q \in Ancestors(seen[p].id)
  <2>1. Below(seen, p, q)
    BY <1>4 DEF Below
  <2> QED BY <1>5, <1>6, <2>1
<1>8. r \in Ancestors(seen[q].id)
  <2>1. n \in Nat /\ k <= n
    BY <1>1, <1>3, <1>4, GenerationsAre
  <2>2. n - k \in Generations(seen, q, r)
    BY <1>1, <1>3, <1>4, <2>1, GenerationsBetween
  <2>3. Below(seen, q, r)
    BY <2>2 DEF Below
  <2> QED BY <1>1, <1>5, <1>6, <2>3
<1> QED
  BY <1>6, <1>7, <1>8 DEF Hidden, r

(* stop-tree: what it would signal was reported below the root, or hidden. *)
LEMMA TreeIsReported ==
    ASSUME TableInv, SeenInv, TreesInv, NEW root \in published.stale,
           WorkloadFromRoot(Fresh(table), root) # NoWorkload
    PROVE  LET w == WorkloadFromRoot(Fresh(table), root)
               reported == CHOOSE v \in staleFound.workloads : v.root = root
           IN /\ w.root = root
              /\ \A id \in ToSet(w.order) \cap {seen[p].id : p \in DOMAIN seen} :
                    id \in ToSet(reported.order) \/ Hidden(id, root)
<1> DEFINE now == Fresh(table)
           r == root.pid
           reported == CHOOSE v \in staleFound.workloads : v.root = root
<1>1. root \in Identities(now) /\ root.uid = Me /\ WorkloadFromRoot(now, root) = Workload(now, r)
  BY DEF WorkloadFromRoot
<1>2. /\ DOMAIN now = DOMAIN table /\ DOMAIN now \subseteq Nat /\ Forest(now)
      /\ \A p \in DOMAIN now : now[p].start = table[p].start /\ now[p].uid = table[p].uid
  BY FreshIs
<1>3. reported \in staleFound.workloads /\ reported.root = root
  BY DEF TreesInv
<1>4. /\ r \in ShownPids
      /\ ToSet(reported.order) = {seen[p].id : p \in {q \in ShownPids :
                /\ seen[q].id.uid = Me /\ Below(Within(seen, ShownPids), q, r)}}
  <2>1. TreesOf(seen, staleFound.workloads)
    BY DEF TreesInv
  <2> HIDE DEF reported
  <2> QED BY <1>3, <2>1 DEF TreesOf, ShownPids
<1> HIDE DEF now, reported
<1>5. r \in DOMAIN now /\ root = IdOf(now, r) /\ now[r].uid = Me
  <2>1. PICK p \in DOMAIN now : root = IdOf(now, p)
    BY <1>1 DEF Identities
  <2> QED BY <1>1, <2>1 DEF IdOf
<1>6. Workload(now, r).root = root
  BY <1>5 DEF Workload
<1>7. ToSet(Workload(now, r).order) = {IdOf(now, p) : p \in Tree(now, r)}
  BY <1>2, <1>5, TreeOrder
<1>8. ASSUME NEW id \in ToSet(Workload(now, r).order), NEW q \in DOMAIN seen, id = seen[q].id
      PROVE  id \in ToSet(reported.order) \/ Hidden(id, root)
  <2>1. PICK p \in Tree(now, r) : id = IdOf(now, p)
    BY <1>7, <1>8
  <2>2. p \in DOMAIN now /\ now[p].uid = Me /\ Below(now, p, r)
    BY <2>1 DEF Tree
  <2>3. q = p /\ seen[q].id.pid = q
    <3>1. seen[q].id.pid = q
      BY DEF SeenInv
    <3>2. id.pid = p
      BY <2>1 DEF IdOf
    <3> QED BY <1>8, <3>1, <3>2
  <2>4. Runs(seen[p].id) /\ seen[p].id.uid = Me /\ p \in DOMAIN seen
    <3>1. id.pid = p /\ id.uid = now[p].uid /\ id.start = now[p].start
      BY <2>1 DEF IdOf
    <3>2. p \in DOMAIN table /\ now[p].start = table[p].start
      BY <1>2, <2>2
    <3> QED BY <1>8, <2>2, <2>3, <3>1, <3>2 DEF Runs
  <2>5. PICK n : n \in Generations(now, p, r)
    BY <2>2 DEF Below
  <2>6. r \in DOMAIN seen /\ r \in DOMAIN table
    BY <1>2, <1>4, <1>5 DEF ShownPids
  <2>7. n \in Generations(seen, p, r)
    BY <2>4, <2>5, <2>6, WayIsSeen DEF now
  <2>8. CASE p \in ShownPids /\ Below(Within(seen, ShownPids), p, r)
    BY <1>4, <1>8, <2>3, <2>4, <2>8
  <2>9. CASE ~(p \in ShownPids /\ Below(Within(seen, ShownPids), p, r))
    BY <1>4, <1>8, <2>3, <2>4, <2>7, <2>9, UnlistedIsHidden
  <2> QED BY <2>8, <2>9
<1> QED
  BY <1>1, <1>6, <1>8 DEF now, reported

(* stop-background: what it would signal is of the application.            *)
LEMMA AppIsReported ==
    ASSUME TableInv, NEW b, BackgroundFromRoot(Fresh(table), b, protection, bgPolicy) # NoWorkload
    PROVE  LET w == BackgroundFromRoot(Fresh(table), b, protection, bgPolicy)
           IN /\ w.root = b.root
              /\ \A id \in ToSet(w.order) :
                    /\ table[id.pid].uid = Me /\ table[id.pid].tty = "none"
                    /\ table[id.pid].cgroup.unit = b.group
                    /\ ~IsProtected(protection, table[id.pid])
<1> DEFINE now == Fresh(table)
           members == GroupMembers(now, b.group)
           w == BuildGroup(now, b.group)
<1>1. /\ DOMAIN now = DOMAIN table /\ DOMAIN now \subseteq Nat /\ Forest(now)
      /\ \A p \in DOMAIN now :
           /\ now[p].start \in Nat /\ now[p].uid = table[p].uid
           /\ now[p].name = table[p].name /\ now[p].exe = table[p].exe
           /\ now[p].context = Context(table[p])
  BY FreshIs
<1>2. /\ b.root.pid \in members /\ SafeGroup(now, b.group, protection, bgPolicy)
      /\ w.root = b.root
      /\ BackgroundFromRoot(now, b, protection, bgPolicy) = w
  BY DEF BackgroundFromRoot, NoWorkload
<1> HIDE DEF now
<1>3. ToSet(w.order) = {IdOf(now, p) : p \in members}
  <2>1. ASSUME NEW group, GroupMembers(now, group) # {}
        PROVE  ToSet(BuildGroup(now, group).order) = {IdOf(now, p) : p \in GroupMembers(now, group)}
    <3> DEFINE all == GroupMembers(now, group)
               root == SelectRoot(now, all)
               part == Within(now, all)
    <3>1. \A p \in DOMAIN now : now[p].start \in Nat
      BY <1>1
    <3>2. LET order == BuildGroup(now, group).order
          IN /\ root \in all
             /\ Len(order) \in Nat \ {0} /\ DOMAIN order = 1..Len(order)
             /\ order[Len(order)] = IdOf(now, root)
             /\ ToSet(order) = {IdOf(now, p) : p \in all}
             /\ \A k \in DOMAIN order :
                   order[k].pid \in all /\ order[k] = IdOf(now, order[k].pid)
             /\ \A i, j \in DOMAIN order : i < j =>
                   /\ order[i].pid # order[j].pid
                   /\ Below(part, order[j].pid, order[i].pid) =>
                         order[j].pid < order[i].pid /\ ~Below(part, order[j].pid, root)
      BY <1>1, <2>1, <3>1, AppOrder
    <3> QED BY <3>2
  <2> QED BY <1>2, <2>1
<1>4. ASSUME NEW p \in members
      PROVE  /\ table[p].uid = Me /\ table[p].tty = "none" /\ table[p].cgroup.unit = b.group
             /\ ~IsProtected(protection, table[p])
  <2>1. /\ p \in DOMAIN now /\ now[p].uid = Me
        /\ now[p].context.origin = "UserApplication" /\ now[p].context.group = b.group
    BY DEF GroupMembers
  <2>2. Disposition(protection, now[p]) = "Monitor" /\ ~now[p].context.terminal
    BY <1>2 DEF SafeGroup
  <2>3. table[p].uid = Me /\ now[p].context = Context(table[p])
    BY <1>1, <2>1
  <2>4. table[p].tty = "none" /\ table[p].cgroup.unit = b.group
    <3>1. table[p].tty # "unknown"
      BY <2>1, <2>3 DEF Context, UnknownContext
    <3>2. Context(table[p]).terminal = (table[p].tty # "none")
      BY <3>1, Zenon DEF Context
    <3>3. Context(table[p]).group = table[p].cgroup.unit
      BY <2>1, <2>3, <3>1 DEF Context
    <3> QED BY <2>1, <2>2, <2>3, <3>2, <3>3
  <2>5. ~IsProtected(protection, now[p])
    BY <2>2 DEF Disposition
  <2>6. ~IsProtected(protection, table[p])
    BY <1>1, <2>1, <2>5 DEF IsProtected, Names
  <2> QED BY <2>3, <2>4, <2>6
<1>5. \A id \in ToSet(w.order) : id.pid \in members
  BY <1>3 DEF IdOf
<1> QED
  <2> HIDE DEF w, members
  <2> QED BY <1>2, <1>4, <1>5 DEF now

LEMMA StopsAre ==
    ASSUME TableInv, SeenInv, TreesInv
    PROVE  StopsReported
<1>1. ASSUME NEW b, BackgroundFromRoot(Fresh(table), b, protection, bgPolicy) # NoWorkload
      PROVE  LET w == BackgroundFromRoot(Fresh(table), b, protection, bgPolicy)
             IN /\ w.root = b.root
                /\ \A id \in ToSet(w.order) :
                      /\ table[id.pid].uid = Me /\ table[id.pid].tty = "none"
                      /\ table[id.pid].cgroup.unit = b.group
                      /\ ~IsProtected(protection, table[id.pid])
  BY <1>1, AppIsReported
<1> QED
  BY <1>1, TreeIsReported DEF StopsReported

StopsInv == BooksInv /\ OrdersLeafFirst /\ SeenInv /\ TreesInv

LEMMA StopsHold ==
    Spec => []StopsInv
<1>1. MonitoringInit => StopsInv
  BY BooksInit, OrdersInit, StopsInit DEF StopsInv
<1>2. StopsInv /\ [Next]_vars => StopsInv'
  <2> SUFFICES ASSUME StopsInv, [Next]_vars
               PROVE  StopsInv'
    OBVIOUS
  <2>1. BooksInv /\ SettingsInv /\ TableInv /\ OrdersLeafFirst /\ SeenInv /\ TreesInv
    BY DEF StopsInv, BooksInv, IgnoresInv
  <2>2. BooksInv'
    BY <2>1, BooksStep
  <2>3. OrdersLeafFirst'
    BY <2>1, OrdersStep
  <2>4. SeenInv' /\ TreesInv'
    BY <2>1, StopsStep
  <2> QED BY <2>2, <2>3, <2>4 DEF StopsInv
<1> QED
  BY <1>1, <1>2, PTL DEF Spec

-----------------------------------------------------------------------------
(* What holds of every run.                                                *)

(* What the daemon keeps is about processes it has seen, and its counters  *)
(* and deadlines keep their ranges.                                        *)
THEOREM MonitoringTypes ==
    Spec => []MonitoringTypeOK
<1>1. BooksInv => MonitoringTypeOK
  BY DEF BooksInv, IgnoresInv, TableInv, IsTable, DeadlinesInv, FoundInv, ViolationsInv, Violation,
     MonitoringTypeOK
<1> QED
  BY <1>1, BooksHold, PTL

(* A process is reported when it was over a limit in as many polls in a    *)
(* row, and for as long, as the settings ask.                              *)
THEOREM ReportsAreSustained ==
    Spec => []EventsSustained
<1>1. BooksInv => EventsSustained
  BY DEF BooksInv
<1> QED
  BY <1>1, BooksHold, PTL

(* A stale tree or group is notified of when it was there, at a pressure   *)
(* that permits it, in as many polls in a row as the settings ask.         *)
THEOREM StaleNoticesAreSustained ==
    Spec => []StaleSustained
<1>1. BooksInv => StaleSustained
  BY DEF BooksInv
<1> QED
  BY <1>1, BooksHold, PTL

(* What the user ignores stays quiet for the hour, or for ever.            *)
THEOREM IgnoresAreKept ==
    Spec => []IgnoredStaysQuiet
<1>1. BooksInv => IgnoredStaysQuiet
  BY DEF BooksInv, IgnoresInv
<1> QED
  BY <1>1, BooksHold, PTL

(* No application is published that the rules in force exempt.             *)
THEOREM IgnoredAppsAreGone ==
    Spec => []IgnoredAppsGone
<1>1. BooksInv => IgnoredAppsGone
  BY DEF BooksInv
<1> QED
  BY <1>1, BooksHold, PTL

(* A published group has enough trees, all of them published themselves.   *)
THEOREM GroupsAreTrees ==
    Spec => []GroupsHoldTrees
<1>1. BooksInv => GroupsHoldTrees
  BY DEF BooksInv
<1> QED
  BY <1>1, BooksHold, PTL

(* Nothing is notified of twice within its cooldown, unless it was gone    *)
(* meanwhile: when no hour of ignoring ends before the next poll, as it    *)
(* starts the counts and the cooldown again.                               *)
THEOREM NoticesAreSpaced ==
    ASSUME PollsWithinTheHour
    PROVE  Spec => []NoticesSpaced
<1>1. SpacedInv => NoticesSpaced
  BY DEF SpacedInv, BooksInv, EventsSpaced, StaleSpaced, AppsSpaced, NoticesSpaced
<1> QED
  BY <1>1, SpacedHolds, PTL

(* A process that stays over a limit is reported again and again.          *)
THEOREM BreachesAreReported ==
    ASSUME PollsWithinTheHour
    PROVE  Spec => []BreachReported
<1>1. SpacedInv => BreachReported
  BY BreachIsReported DEF SpacedInv, BooksInv, IgnoresInv
<1> QED
  BY <1>1, SpacedHolds, PTL

(* The daemon's books are about what the last poll saw; histories are no   *)
(* more than the cap, and as long as the growth window is.                 *)
THEOREM BooksAreBounded ==
    Spec => []BookkeepingBounded
<1>1. HistoriesInv => BookkeepingBounded
  <2> SUFFICES ASSUME HistoriesInv PROVE BookkeepingBounded
    OBVIOUS
  <2>1. SettingsInv /\ FoundInv /\ HistoryInv
    BY DEF HistoriesInv, BooksInv, IgnoresInv
  <2>2. trackedIds \subseteq {seen[p].id : p \in DOMAIN seen}
    BY <2>1 DEF FoundInv
  <2>3. \A r \in DOMAIN history : Len(history[r]) <= 2 + bgPolicy.window \div bgPolicy.interval
    BY <2>1, HistoriesAreShort
  <2> QED BY <2>1, <2>2, <2>3 DEF FoundInv, HistoryInv, BookkeepingBounded
<1> QED
  BY <1>1, HistoriesHold, PTL

(* An application is offered when its root was safe to stop in every       *)
(* sample of a whole growth window.                                        *)
THEOREM WindowsAreObserved ==
    Spec => []WindowObserved
<1>1. HistoriesInv => WindowObserved
  BY WindowIsObserved DEF HistoriesInv, BooksInv, IgnoresInv
<1> QED
  BY <1>1, HistoriesHold, PTL

(* Nobody is signalled before a descendant: in no tree, no group of trees  *)
(* as the report shows it, no application below its root.                  *)
THEOREM OrdersAreLeafFirst ==
    Spec => []OrdersLeafFirst
<1>1. StopsInv => OrdersLeafFirst
  BY DEF StopsInv
<1> QED
  BY <1>1, StopsHold, PTL

(* What stop-tree and stop-background would signal now has the very root   *)
(* that was reported, and besides new processes nobody who was neither     *)
(* reported nor hidden.                                                    *)
THEOREM StopsAreReported ==
    Spec => []StopsReported
<1>1. StopsInv => StopsReported
  BY StopsAre DEF StopsInv, BooksInv, IgnoresInv
<1> QED
  BY <1>1, StopsHold, PTL
=============================================================================
