------------------------ MODULE NotificationsProofs ------------------------
(*****************************************************************************)
(* For every server, every user and every capacity: an action is performed *)
(* on what was clicked and only once, the daemon knows what is on the      *)
(* screen, and its bindings stay bounded.                                  *)
(*                                                                         *)
(* The argument.  A server session gives an id to one subject: it hands out *)
(* a fresh id, or the one a navigation replaces, and a navigation keeps the *)
(* subject of its binding.  So every click on its way that was made in the *)
(* session of a binding is about the binding's subject (BoundInv).  An old *)
(* binding whose id a restarted server gives out again is replaced before  *)
(* the loop looks at another event: what has been served and not yet       *)
(* recorded is the one exception (JustServed), and it ends with Remember or *)
(* with all bindings forgotten.  The pairs acted on belong to ids that are *)
(* used up in their session, so no binding is made for them again (Fresh). *)
(*****************************************************************************)
EXTENDS Notifications, FiniteSetTheorems, TLAPS

-----------------------------------------------------------------------------
(* Sequences                                                               *)

(* Taking the first element off.                                           *)
LEMMA TailMembers ==
    ASSUME NEW S, NEW s \in Seq(S), s # <<>>
    PROVE  /\ Head(s) \in S /\ Head(s) = s[1] /\ 1 \in DOMAIN s
           /\ Tail(s) \in Seq(S) /\ Len(Tail(s)) <= Len(s)
           /\ \A k \in DOMAIN Tail(s) : k + 1 \in DOMAIN s /\ Tail(s)[k] = s[k + 1]
OBVIOUS

(* Adding one at the end.                                                  *)
LEMMA AppendMembers ==
    ASSUME NEW S, NEW s \in Seq(S), NEW x \in S
    PROVE  /\ Append(s, x) \in Seq(S) /\ Len(Append(s, x)) = Len(s) + 1
           /\ \A k \in DOMAIN Append(s, x) :
                Append(s, x)[k] = x \/ (k \in DOMAIN s /\ Append(s, x)[k] = s[k])
OBVIOUS

OneEach(s) == \A j, k \in DOMAIN s : s[j] = s[k] => j = k
Members(s) == {s[k] : k \in DOMAIN s}

(* As many as the sequence is long.                                        *)
LEMMA MembersCount ==
    ASSUME NEW S, NEW s \in Seq(S), OneEach(s)
    PROVE  Cardinality(Members(s)) = Len(s)
<1>1. Len(s) \in Nat /\ DOMAIN s = 1..Len(s) /\ s \in [1..Len(s) -> Members(s)]
  BY DEF Members
<1>2. s \in Bijection(1..Len(s), Members(s))
  BY <1>1 DEF OneEach, Members, Bijection, Injection, Surjection, IsInjective
<1>3. ExistsBijection(1..Len(s), Members(s))
  BY <1>2 DEF ExistsBijection
<1> QED BY <1>1, <1>3, FS_CountingElements

(* retain drops an id and keeps the others in order.                       *)
LEMMA RetainedMembers ==
    ASSUME NEW S, NEW from \in Seq(S), NEW id, OneEach(from)
    PROVE  /\ Retained(from, id) \in Seq(S)
           /\ Len(Retained(from, id)) <= Len(from)
           /\ OneEach(Retained(from, id))
           /\ Members(Retained(from, id)) = Members(from) \ {id}
<1>1. /\ Len(from) \in Nat /\ DOMAIN from = 1..Len(from)
      /\ \A k \in 1..Len(from) : from[k] \in S
  OBVIOUS
<1>2. CASE \E k \in DOMAIN from : from[k] = id
  <2> DEFINE at == Position(from, id)
             old(n) == IF n < at THEN n ELSE n + 1
             out == [n \in 1..(Len(from) - 1) |-> from[old(n)]]
  <2>1. at \in 1..Len(from) /\ from[at] = id
    BY <1>1, <1>2 DEF Position
  <2>2. Retained(from, id) = out
    BY <1>2 DEF Retained
  <2> HIDE DEF at
  <2>3. /\ \A n \in 1..(Len(from) - 1) : old(n) \in 1..Len(from) /\ old(n) # at
        /\ \A m, n \in 1..(Len(from) - 1) : old(m) = old(n) => m = n
        /\ \A k \in 1..Len(from) : k # at => \E n \in 1..(Len(from) - 1) : old(n) = k
    <3>1. ASSUME NEW k \in 1..Len(from), k # at
          PROVE  \E n \in 1..(Len(from) - 1) : old(n) = k
      <4>1. CASE k < at
        <5>1. k \in 1..(Len(from) - 1) /\ old(k) = k BY <1>1, <2>1, <4>1
        <5> QED BY <5>1
      <4>2. CASE ~(k < at)
        <5>1. k - 1 \in 1..(Len(from) - 1) /\ old(k - 1) = k BY <1>1, <2>1, <3>1, <4>2
        <5> QED BY <5>1
      <4> QED BY <4>1, <4>2
    <3> QED BY <1>1, <2>1, <3>1
  <2> HIDE DEF old
  <2>4. out \in Seq(S) /\ Len(out) = Len(from) - 1 /\ DOMAIN out = 1..(Len(from) - 1)
    <3>1. \A n \in 1..(Len(from) - 1) : from[old(n)] \in S BY <1>1, <2>3
    <3>2. Len(from) - 1 \in Nat BY <1>1, <2>1
    <3> QED BY <3>1, <3>2
  <2>5. OneEach(out)
    BY <1>1, <2>3, <2>4 DEF OneEach
  <2>6. Members(out) = Members(from) \ {id}
    <3>1. ASSUME NEW n \in 1..(Len(from) - 1)
          PROVE  out[n] \in Members(from) /\ out[n] # id
      <4>1. out[n] = from[old(n)] BY <2>4
      <4>2. from[old(n)] # id BY <1>1, <2>1, <2>3 DEF OneEach
      <4> QED BY <1>1, <2>3, <4>1, <4>2 DEF Members
    <3>2. ASSUME NEW b \in Members(from), b # id
          PROVE  b \in Members(out)
      <4>1. PICK k \in 1..Len(from) : from[k] = b BY <1>1 DEF Members
      <4>2. k # at BY <2>1, <3>2, <4>1
      <4>3. PICK n \in 1..(Len(from) - 1) : old(n) = k BY <2>3, <4>2
      <4>4. out[n] = b BY <4>1, <4>3
      <4> QED BY <2>4, <4>4 DEF Members
    <3> HIDE DEF out
    <3> QED BY <2>4, <3>1, <3>2 DEF Members
  <2>7. Len(from) - 1 <= Len(from) BY <1>1
  <2> HIDE DEF out
  <2> QED BY <2>2, <2>4, <2>5, <2>6, <2>7
<1>3. CASE ~\E k \in DOMAIN from : from[k] = id
  <2>1. Retained(from, id) = from BY <1>3 DEF Retained
  <2> QED BY <1>1, <1>3, <2>1 DEF Members
<1> QED BY <1>2, <1>3

(* Dropping the first n.                                                   *)
LEMMA SuffixMembers ==
    ASSUME NEW S, NEW s \in Seq(S), NEW n \in Nat, n <= Len(s)
    PROVE  /\ SubSeq(s, n + 1, Len(s)) \in Seq(S)
           /\ Len(SubSeq(s, n + 1, Len(s))) = Len(s) - n
           /\ \A k \in 1..(Len(s) - n) : SubSeq(s, n + 1, Len(s))[k] = s[k + n]
<1>1. Len(s) \in Nat OBVIOUS
<1>2. SubSeq(s, n + 1, Len(s)) = [k \in 1..(Len(s) - n) |-> s[k + n]]
  <2>1. (1 + Len(s)) - (n + 1) = Len(s) - n BY <1>1
  <2>2. \A k \in 1..(Len(s) - n) : (n + 1) + k - 1 = k + n BY <1>1
  <2> QED BY <1>1, <2>1, <2>2
<1>3. \A k \in 1..(Len(s) - n) : s[k + n] \in S BY <1>1
<1>4. Len(s) - n \in Nat BY <1>1
<1> QED BY <1>2, <1>3, <1>4

(* What is left when each is there once.                                   *)
LEMMA SuffixRest ==
    ASSUME NEW S, NEW s \in Seq(S), NEW n \in Nat, n <= Len(s), OneEach(s)
    PROVE  LET rest == SubSeq(s, n + 1, Len(s))
           IN OneEach(rest) /\ Members(rest) = Members(s) \ {s[k] : k \in 1..n}
<1> DEFINE rest == SubSeq(s, n + 1, Len(s))
<1>1. /\ Len(s) \in Nat /\ DOMAIN s = 1..Len(s)
      /\ rest \in Seq(S) /\ Len(rest) = Len(s) - n
      /\ \A k \in 1..(Len(s) - n) : rest[k] = s[k + n]
  BY SuffixMembers
<1> HIDE DEF rest
<1>2. DOMAIN rest = 1..(Len(s) - n) BY <1>1
<1>3. OneEach(rest)
  <2> SUFFICES ASSUME NEW j \in 1..(Len(s) - n), NEW k \in 1..(Len(s) - n), rest[j] = rest[k]
               PROVE  j = k
    BY <1>2 DEF OneEach
  <2>1. j + n \in 1..Len(s) /\ k + n \in 1..Len(s) /\ s[j + n] = s[k + n] BY <1>1
  <2>2. j + n = k + n BY <1>1, <2>1 DEF OneEach
  <2> QED BY <2>2
<1>4. Members(rest) \subseteq Members(s) \ {s[k] : k \in 1..n}
  <2>1. ASSUME NEW j \in 1..(Len(s) - n)
        PROVE  rest[j] \in Members(s) /\ \A k \in 1..n : rest[j] # s[k]
    <3>1. j + n \in 1..Len(s) /\ rest[j] = s[j + n] BY <1>1
    <3>2. \A k \in 1..n : k \in 1..Len(s) /\ j + n # k BY <1>1
    <3> QED BY <1>1, <3>1, <3>2 DEF OneEach, Members
  <2>2. \A x \in Members(rest) : \E j \in 1..(Len(s) - n) : x = rest[j]
    BY <1>2 DEF Members
  <2> QED BY <2>1, <2>2
<1>5. ASSUME NEW x \in Members(s), x \notin {s[k] : k \in 1..n}
      PROVE  x \in Members(rest)
  <2>1. PICK k \in 1..Len(s) : s[k] = x BY <1>1 DEF Members
  <2>2. k \notin 1..n BY <1>5, <2>1
  <2>3. k - n \in 1..(Len(s) - n) /\ (k - n) + n = k BY <1>1, <2>2
  <2>4. rest[k - n] = x BY <1>1, <2>1, <2>3
  <2> QED BY <1>2, <2>3, <2>4 DEF Members
<1>6. Members(rest) = Members(s) \ {s[k] : k \in 1..n}
  BY <1>4, <1>5
<1> QED BY <1>3, <1>6 DEF rest

-----------------------------------------------------------------------------
(* The bindings: a map and an order that name the same ids.                *)

Values(b) == {b.known[i] : i \in DOMAIN b.known}

BindingsOK(b) ==
    /\ DOMAIN b = {"capacity", "known", "order"} /\ b.capacity \in Capacities
    /\ b.known \in [DOMAIN b.known -> Binding]
    /\ \A i \in DOMAIN b.known : b.known[i].id = i
    /\ b.order \in Seq(Ids) /\ OneEach(b.order) /\ Members(b.order) = DOMAIN b.known

LEMMA BindingsNumbers ==
    ASSUME NEW b, BindingsOK(b)
    PROVE  b.capacity \in Nat \ {0} /\ Len(b.order) \in Nat
<1>1. b.capacity \in Capacities /\ b.order \in Seq(Ids)
  BY DEF BindingsOK
<1>2. \A c \in Capacities : c \in Nat \ {0}
  BY NotificationsAssumption
<1> QED BY <1>1, <1>2

LEMMA KnownCount ==
    ASSUME NEW b, BindingsOK(b)
    PROVE  Cardinality(DOMAIN b.known) = Len(b.order)
BY MembersCount DEF BindingsOK

LEMMA EmptyOK ==
    ASSUME NEW capacity \in Capacities
    PROVE  /\ BindingsOK(Empty(capacity))
           /\ Len(Empty(capacity).order) <= Empty(capacity).capacity
           /\ Values(Empty(capacity)) = {}
<1> DEFINE b == Empty(capacity)
<1>1. /\ b.known = <<>> /\ b.order = <<>> /\ b.capacity = capacity
      /\ DOMAIN b = {"capacity", "known", "order"}
      /\ DOMAIN <<>> = {} /\ <<>> \in Seq(Ids) /\ Len(<<>>) = 0
  BY DEF Empty
<1>2. capacity \in Nat \ {0} BY NotificationsAssumption
<1> HIDE DEF b
<1>3. BindingsOK(b) /\ Len(b.order) <= b.capacity /\ Values(b) = {}
  BY <1>1, <1>2 DEF BindingsOK, OneEach, Members, Values
<1> QED BY <1>3 DEF b

(* remove forgets one id and leaves the rest.                              *)
LEMMA RemovedOK ==
    ASSUME NEW b, BindingsOK(b), NEW id
    PROVE  /\ BindingsOK(Removed(b, id)) /\ Removed(b, id).capacity = b.capacity
           /\ Len(Removed(b, id).order) <= Len(b.order)
           /\ DOMAIN Removed(b, id).known = DOMAIN b.known \ {id}
           /\ Values(Removed(b, id)) = {v \in Values(b) : v.id # id}
<1>1. CASE id \in DOMAIN b.known
  <2> DEFINE known == [i \in DOMAIN b.known \ {id} |-> b.known[i]]
             order == Retained(b.order, id)
  <2>1. /\ Removed(b, id).known = known /\ Removed(b, id).order = order
        /\ Removed(b, id).capacity = b.capacity /\ DOMAIN Removed(b, id) = DOMAIN b
    BY <1>1 DEF Removed, BindingsOK
  <2>2. order \in Seq(Ids) /\ Len(order) <= Len(b.order) /\ OneEach(order)
        /\ Members(order) = DOMAIN b.known \ {id}
    BY RetainedMembers DEF BindingsOK
  <2>3. /\ DOMAIN known = DOMAIN b.known \ {id}
        /\ \A i \in DOMAIN known : known[i] = b.known[i] /\ known[i] \in Binding /\ known[i].id = i
    BY DEF BindingsOK
  <2>4. known \in [DOMAIN known -> Binding]
    BY <2>3
  <2>5. {known[i] : i \in DOMAIN known} = {v \in Values(b) : v.id # id}
    <3>1. \A i \in DOMAIN known : known[i] \in Values(b) /\ known[i].id # id
      BY <2>3 DEF Values
    <3>2. ASSUME NEW v \in Values(b), v.id # id
          PROVE  \E i \in DOMAIN known : v = known[i]
      <4>1. PICK i \in DOMAIN b.known : v = b.known[i] BY DEF Values
      <4>2. i # id BY <3>2, <4>1 DEF BindingsOK
      <4> QED BY <2>3, <4>1, <4>2
    <3> HIDE DEF known
    <3> QED BY <3>1, <3>2
  <2> HIDE DEF known, order
  <2> QED BY <2>1, <2>2, <2>3, <2>4, <2>5 DEF BindingsOK, Values
<1>2. CASE id \notin DOMAIN b.known
  <2>1. Removed(b, id) = b BY <1>2 DEF Removed
  <2>2. Len(b.order) \in Nat BY DEF BindingsOK
  <2> QED BY <1>2, <2>1, <2>2 DEF BindingsOK, Values
<1> QED BY <1>1, <1>2

(* The first n of the order go.                                            *)
LEMMA PoppedOK ==
    ASSUME NEW b, BindingsOK(b), NEW n \in 0..Len(b.order)
    PROVE  /\ BindingsOK(Popped(b, n)) /\ Popped(b, n).capacity = b.capacity
           /\ Len(Popped(b, n).order) = Len(b.order) - n
           /\ DOMAIN Popped(b, n).known \subseteq DOMAIN b.known
           /\ Values(Popped(b, n)) \subseteq Values(b)
<1> DEFINE gone == {b.order[k] : k \in 1..n}
           known == [i \in DOMAIN b.known \ gone |-> b.known[i]]
           order == SubSeq(b.order, n + 1, Len(b.order))
<1>1. /\ Popped(b, n).known = known /\ Popped(b, n).order = order
      /\ Popped(b, n).capacity = b.capacity /\ DOMAIN Popped(b, n) = DOMAIN b
  BY DEF Popped, BindingsOK
<1>2. b.order \in Seq(Ids) /\ OneEach(b.order) /\ n \in Nat /\ n <= Len(b.order)
  BY DEF BindingsOK
<1>3. order \in Seq(Ids) /\ Len(order) = Len(b.order) - n
  BY <1>2, SuffixMembers
<1>4. OneEach(order) /\ Members(order) = Members(b.order) \ gone
  BY <1>2, SuffixRest
<1>5. /\ DOMAIN known = DOMAIN b.known \ gone
      /\ \A i \in DOMAIN known : known[i] = b.known[i] /\ known[i] \in Binding /\ known[i].id = i
  BY DEF BindingsOK
<1>6. known \in [DOMAIN known -> Binding]
  BY <1>5
<1>7. Members(order) = DOMAIN known
  BY <1>4, <1>5 DEF BindingsOK
<1>8. {known[i] : i \in DOMAIN known} \subseteq Values(b)
  BY <1>5 DEF Values
<1> HIDE DEF known, order, gone
<1> QED BY <1>1, <1>3, <1>4, <1>5, <1>6, <1>7, <1>8 DEF BindingsOK, Values

(* The loop of remember: no more than one has to go.                       *)
LEMMA WithRoomOK ==
    ASSUME NEW b, BindingsOK(b), Len(b.order) <= b.capacity
    PROVE  /\ BindingsOK(WithRoom(b)) /\ WithRoom(b).capacity = b.capacity
           /\ Len(WithRoom(b).order) < b.capacity
           /\ DOMAIN WithRoom(b).known \subseteq DOMAIN b.known
           /\ Values(WithRoom(b)) \subseteq Values(b)
<1> DEFINE all == Len(b.order)
           enough == {n \in 0..all : n = all \/ Fits(Popped(b, n))}
           m == IF all < b.capacity THEN 0 ELSE 1
<1>1. all \in Nat /\ b.capacity \in Nat \ {0} /\ all <= b.capacity
  BY BindingsNumbers
<1>2. \A n \in 0..all : Fits(Popped(b, n)) <=> all - n < b.capacity
  BY PoppedOK, KnownCount DEF Fits
<1> HIDE DEF all
<1>3. m \in enough /\ \A n \in enough : m <= n
  BY <1>1, <1>2
<1>4. Min(enough) = m
  <2>1. enough \subseteq Nat
    BY <1>1
  <2>2. \A x \in enough : (\A y \in enough : x <= y) => x = m
    BY <1>3, <2>1
  <2> HIDE DEF enough, m
  <2> QED BY <1>3, <2>2 DEF Min
<1>5. WithRoom(b) = Popped(b, m)
  BY <1>4 DEF WithRoom, all
<1>6. m \in 0..all /\ all - m < b.capacity
  BY <1>1
<1> HIDE DEF m
<1>7. m \in 0..Len(b.order) /\ Len(b.order) - m < b.capacity
  BY <1>6 DEF all
<1> QED BY <1>5, <1>7, PoppedOK

(* insert and push_back.                                                   *)
LEMMA InsertedOK ==
    ASSUME NEW b, BindingsOK(b), NEW v \in Binding, v.id \notin DOMAIN b.known
    PROVE  /\ BindingsOK(Inserted(b, v)) /\ Inserted(b, v).capacity = b.capacity
           /\ Len(Inserted(b, v).order) = Len(b.order) + 1
           /\ Values(Inserted(b, v)) \subseteq Values(b) \cup {v}
<1> DEFINE known == [i \in DOMAIN b.known \cup {v.id} |-> IF i = v.id THEN v ELSE b.known[i]]
           order == Append(b.order, v.id)
<1>1. /\ Inserted(b, v).known = known /\ Inserted(b, v).order = order
      /\ Inserted(b, v).capacity = b.capacity /\ DOMAIN Inserted(b, v) = DOMAIN b
  BY DEF Inserted, BindingsOK
<1>2. /\ b.order \in Seq(Ids) /\ OneEach(b.order) /\ Members(b.order) = DOMAIN b.known
      /\ v.id \in Ids
  BY DEF BindingsOK, Binding
<1>3. /\ order \in Seq(Ids) /\ Len(order) = Len(b.order) + 1 /\ Len(b.order) \in Nat
      /\ DOMAIN order = 1..(Len(b.order) + 1) /\ DOMAIN b.order = 1..Len(b.order)
      /\ \A k \in DOMAIN b.order : order[k] = b.order[k]
      /\ order[Len(b.order) + 1] = v.id
  BY <1>2
<1>4. \A k \in DOMAIN b.order : b.order[k] # v.id
  BY <1>2 DEF Members
<1>5. /\ DOMAIN known = DOMAIN b.known \cup {v.id}
      /\ \A i \in DOMAIN known : known[i] \in Binding /\ known[i].id = i
      /\ \A i \in DOMAIN known : known[i] = v \/ (i \in DOMAIN b.known /\ known[i] = b.known[i])
  BY DEF BindingsOK
<1>6. known \in [DOMAIN known -> Binding]
  BY <1>5
<1>7. {known[i] : i \in DOMAIN known} \subseteq Values(b) \cup {v}
  BY <1>5 DEF Values
<1> HIDE DEF known, order
<1>8. OneEach(order)
  <2> SUFFICES ASSUME NEW j \in 1..(Len(b.order) + 1), NEW k \in 1..(Len(b.order) + 1),
                      order[j] = order[k]
               PROVE  j = k
    BY <1>3 DEF OneEach
  <2>1. \A i \in 1..(Len(b.order) + 1) : i \in 1..Len(b.order) \/ i = Len(b.order) + 1
    BY <1>3
  <2>2. CASE j \in 1..Len(b.order) /\ k \in 1..Len(b.order)
    BY <1>2, <1>3, <2>2 DEF OneEach
  <2>3. CASE j = Len(b.order) + 1 \/ k = Len(b.order) + 1
    BY <1>3, <1>4, <2>1, <2>3
  <2> QED BY <2>1, <2>2, <2>3
<1>9. Members(order) = DOMAIN known
  <2>1. Members(order) = Members(b.order) \cup {v.id}
    BY <1>3 DEF Members
  <2> QED BY <1>2, <1>5, <2>1
<1> QED BY <1>1, <1>3, <1>5, <1>6, <1>7, <1>8, <1>9 DEF BindingsOK, Values

(* remember adds a binding, drops the one its id had and, beyond the       *)
(* capacity, the oldest.                                                   *)
LEMMA RememberedOK ==
    ASSUME NEW b, BindingsOK(b), Len(b.order) <= b.capacity, NEW v \in Binding
    PROVE  /\ BindingsOK(Remembered(b, v)) /\ Len(Remembered(b, v).order) <= b.capacity
           /\ Remembered(b, v).capacity = b.capacity
           /\ \A c \in Values(Remembered(b, v)) : c = v \/ (c \in Values(b) /\ c.id # v.id)
<1> DEFINE others == Removed(b, v.id)
           rest == WithRoom(others)
<1>1. /\ BindingsOK(others) /\ others.capacity = b.capacity /\ Len(others.order) <= Len(b.order)
      /\ DOMAIN others.known = DOMAIN b.known \ {v.id}
      /\ Values(others) = {c \in Values(b) : c.id # v.id}
  BY RemovedOK
<1>2. Remembered(b, v) = Inserted(rest, v)
  BY DEF Remembered
<1> HIDE DEF others
<1>3. Len(others.order) <= others.capacity /\ b.capacity \in Nat
  <2>1. Len(others.order) \in Nat /\ Len(b.order) \in Nat /\ b.capacity \in Nat
    BY <1>1, BindingsNumbers
  <2> QED BY <1>1, <2>1
<1>4. /\ BindingsOK(rest) /\ Len(rest.order) < b.capacity /\ rest.capacity = b.capacity
      /\ DOMAIN rest.known \subseteq DOMAIN others.known
      /\ Values(rest) \subseteq Values(others)
  BY <1>1, <1>3, WithRoomOK
<1> HIDE DEF rest
<1>5. /\ BindingsOK(Inserted(rest, v)) /\ Inserted(rest, v).capacity = rest.capacity
      /\ Len(Inserted(rest, v).order) = Len(rest.order) + 1
      /\ Values(Inserted(rest, v)) \subseteq Values(rest) \cup {v}
  BY <1>1, <1>4, InsertedOK
<1>6. Len(rest.order) \in Nat
  BY <1>4 DEF BindingsOK
<1> QED BY <1>1, <1>2, <1>3, <1>4, <1>5, <1>6

-----------------------------------------------------------------------------
(* Types and bounds                                                        *)

Event == ActionEvent \cup ClosedEvent \cup {FailedEvent}

ServerOK ==
    /\ resident \in BOOLEAN
    /\ DOMAIN shown \subseteq used /\ used \subseteq Ids
    /\ \A id \in DOMAIN shown : shown[id] \in Content
    /\ session \in 0..MaxRestarts
    /\ clicks \in 0..MaxClicks /\ failures \in 0..MaxFailures

ListenerOK ==
    /\ listening \in BOOLEAN
    /\ actions \in Seq(ActionEvent) /\ closures \in Seq(ClosedEvent)
    /\ channel \in Seq(Event) /\ Len(channel) <= ChannelSize

LoopOK ==
    /\ notifier \in BOOLEAN
    /\ phase \in Phases
    /\ batch \in Seq(Subjects)
    /\ call \in Call /\ reply \in Reply
    /\ work = NoWork \/ work \in [event : ActionEvent, binding : Binding]
    /\ acted \subseteq (0..MaxRestarts) \X Ids
    /\ BindingsOK(bindings) /\ Len(bindings.order) <= bindings.capacity
    /\ phase \in {"close", "act"} => work # NoWork
    /\ phase = "reply" => reply.id \in Ids

TInv == ServerOK /\ ListenerOK /\ LoopOK

(* The three parts say what the modules' invariants say.                   *)
LEMMA TypesFollow == TInv => NotificationsTypeOK /\ BindingsBounded
<1> SUFFICES ASSUME TInv PROVE NotificationsTypeOK /\ BindingsBounded
  OBVIOUS
<1>1. BindingsOK(bindings) /\ Len(bindings.order) <= bindings.capacity
  BY DEF TInv, LoopOK
<1>2. /\ \A id \in DOMAIN bindings.known :
           bindings.known[id] \in Binding /\ bindings.known[id].id = id
      /\ bindings.order \in Seq(Ids) /\ bindings.capacity \in Capacities
  BY <1>1 DEF BindingsOK
<1>3. NotificationsTypeOK
  BY <1>2 DEF TInv, ServerOK, ListenerOK, LoopOK, NotificationsTypeOK, Event
<1>4. BindingsBounded
  BY <1>1, KnownCount DEF BindingsOK, BindingsBounded, OneEach, Members
<1> QED BY <1>3, <1>4

LEMMA SameServer == ASSUME ServerOK, UNCHANGED serverVars PROVE ServerOK'
BY DEF ServerOK, serverVars

LEMMA SameListener == ASSUME ListenerOK, UNCHANGED listenerVars PROVE ListenerOK'
BY DEF ListenerOK, listenerVars

LEMMA SameLoop == ASSUME LoopOK, UNCHANGED loopVars PROVE LoopOK'
BY DEF LoopOK, loopVars

(* The signals of the server.                                              *)
LEMMA ClosedTypes ==
    ASSUME TInv, NEW id \in Ids
    PROVE  Emit(closures, Closed(id)) \in Seq(ClosedEvent)
<1>1. Closed(id) \in ClosedEvent BY DEF Closed, ClosedEvent
<1>2. closures \in Seq(ClosedEvent) BY DEF TInv, ListenerOK
<1>3. Append(closures, Closed(id)) \in Seq(ClosedEvent) BY <1>1, <1>2, AppendMembers
<1> QED BY <1>2, <1>3 DEF Emit

(* Taking a notification off the screen shows nothing new.                 *)
LEMMA ShownTypes ==
    ASSUME TInv, NEW id
    PROVE  /\ DOMAIN Without(id) = DOMAIN shown \ {id}
           /\ \A i \in DOMAIN Without(id) : Without(id)[i] = shown[i]
BY DEF Without

(* The steps of the server and its user.                                   *)
LEMMA TInvClick ==
    ASSUME TInv, NEW id \in Ids, NEW key \in Keys, Click(id, key)
    PROVE  TInv'
<1> DEFINE event == [type |-> "action", id |-> id, key |-> key, about |-> shown[id],
                     session |-> session]
<1>1. event \in ActionEvent
  BY DEF Click, TInv, ServerOK, ActionEvent
<1>2. actions \in Seq(ActionEvent)
  BY DEF TInv, ListenerOK
<1>3. actions' \in Seq(ActionEvent)
  <2> HIDE DEF event
  <2>1. Append(actions, event) \in Seq(ActionEvent) BY <1>1, <1>2, AppendMembers
  <2>2. actions' = Emit(actions, event) BY DEF Click, event
  <2> QED BY <1>2, <2>1, <2>2 DEF Emit
<1>4. ListenerOK'
  BY <1>3, ClosedTypes DEF Click, TInv, ListenerOK
<1>5. ServerOK'
  <2>1. clicks' \in 0..MaxClicks /\ UNCHANGED <<resident, used, session, failures>>
    BY NotificationsAssumption DEF Click, TInv, ServerOK
  <2>2. shown' = shown \/ shown' = Without(id)
    BY DEF Click
  <2> QED BY <2>1, <2>2, ShownTypes DEF TInv, ServerOK
<1>6. LoopOK' BY SameLoop DEF Click, TInv
<1> QED BY <1>4, <1>5, <1>6 DEF TInv

LEMMA TInvDismiss == ASSUME TInv, NEW id \in Ids, Dismiss(id) PROVE TInv'
<1>1. ListenerOK'
  BY ClosedTypes DEF Dismiss, TInv, ListenerOK
<1>2. ServerOK'
  <2>1. UNCHANGED <<resident, used, session, clicks, failures>> /\ shown' = Without(id)
    BY DEF Dismiss
  <2> QED BY <2>1, ShownTypes DEF TInv, ServerOK
<1>3. LoopOK' BY SameLoop DEF Dismiss, TInv
<1> QED BY <1>1, <1>2, <1>3 DEF TInv

LEMMA TInvRestart == ASSUME TInv, Restart PROVE TInv'
<1>1. ServerOK'
  BY NotificationsAssumption DEF Restart, TInv, ServerOK
<1> QED BY <1>1, SameListener, SameLoop DEF Restart, TInv

LEMMA TInvServe == ASSUME TInv, Serve PROVE TInv'
<1>1. PICK id \in Ids :
         /\ shown' = With(id, call.content)
         /\ used' = used \cup {id}
         /\ reply' = [id |-> id, session |-> session]
  BY DEF Serve
<1>2. call.content \in Content
  BY DEF TInv, LoopOK, Call
<1>3. ServerOK'
  BY <1>1, <1>2 DEF Serve, With, TInv, ServerOK
<1>4. ListenerOK' BY SameListener DEF Serve, TInv
<1>5. reply' \in Reply
  BY <1>1 DEF Reply, TInv, ServerOK
<1>6. LoopOK'
  BY <1>5 DEF Serve, TInv, LoopOK, Phases
<1> QED BY <1>3, <1>4, <1>6 DEF TInv

LEMMA TInvForward == ASSUME TInv, Forward PROVE TInv'
<1>1. /\ actions \in Seq(ActionEvent) /\ closures \in Seq(ClosedEvent)
      /\ channel \in Seq(Event) /\ Len(channel) < ChannelSize /\ ChannelSize \in Nat
  BY NotificationsAssumption DEF TInv, ListenerOK, Forward, HasRoom
<1>2. CASE /\ actions # <<>>
           /\ channel' = Append(channel, Head(actions))
           /\ actions' = Tail(actions) /\ UNCHANGED closures
  <2>1. Head(actions) \in Event /\ Tail(actions) \in Seq(ActionEvent)
    BY <1>1, <1>2, TailMembers DEF Event
  <2>2. channel' \in Seq(Event) /\ Len(channel') = Len(channel) + 1
    BY <1>1, <1>2, <2>1, AppendMembers
  <2>3. Len(channel') <= ChannelSize BY <1>1, <2>2
  <2>4. ListenerOK'
    BY <1>1, <1>2, <2>1, <2>2, <2>3 DEF Forward, TInv, ListenerOK
  <2> QED BY <2>4, SameServer, SameLoop DEF Forward, TInv
<1>3. CASE /\ closures # <<>>
           /\ channel' = Append(channel, Head(closures))
           /\ closures' = Tail(closures) /\ UNCHANGED actions
  <2>1. Head(closures) \in Event /\ Tail(closures) \in Seq(ClosedEvent)
    BY <1>1, <1>3, TailMembers DEF Event
  <2>2. channel' \in Seq(Event) /\ Len(channel') = Len(channel) + 1
    BY <1>1, <1>3, <2>1, AppendMembers
  <2>3. Len(channel') <= ChannelSize BY <1>1, <2>2
  <2>4. ListenerOK'
    BY <1>1, <1>3, <2>1, <2>2, <2>3 DEF Forward, TInv, ListenerOK
  <2> QED BY <2>4, SameServer, SameLoop DEF Forward, TInv
<1> QED BY <1>2, <1>3 DEF Forward

LEMMA TInvStreamFails == ASSUME TInv, StreamFails PROVE TInv'
<1>1. channel \in Seq(Event) /\ Len(channel) < ChannelSize /\ ChannelSize \in Nat
  BY NotificationsAssumption DEF TInv, ListenerOK, StreamFails, HasRoom
<1>2. FailedEvent \in Event BY DEF Event
<1>3. channel' \in Seq(Event) /\ Len(channel') = Len(channel) + 1
  BY <1>1, <1>2, AppendMembers DEF StreamFails
<1>4. Len(channel') <= ChannelSize BY <1>1, <1>3
<1>5. ListenerOK'
  <2>1. <<>> \in Seq(ActionEvent) /\ <<>> \in Seq(ClosedEvent) OBVIOUS
  <2> QED BY <1>3, <1>4, <2>1 DEF StreamFails, ListenerOK
<1>6. ServerOK'
  BY NotificationsAssumption DEF StreamFails, TInv, ServerOK
<1> QED BY <1>5, <1>6, SameLoop DEF StreamFails, TInv

(* The loop takes an event, and a lost listener leaves its streams.        *)
LEMMA TInvDisconnect ==
    ASSUME TInv, listening' \in BOOLEAN, actions' \in {actions, <<>>},
           closures' \in {closures, <<>>},
           channel' = channel \/ (channel # <<>> /\ channel' = Tail(channel))
    PROVE  ListenerOK'
<1>1. channel' \in Seq(Event) /\ Len(channel') <= ChannelSize
  <2>1. channel \in Seq(Event) /\ Len(channel) <= ChannelSize /\ ChannelSize \in Nat
    BY NotificationsAssumption DEF TInv, ListenerOK
  <2> QED BY <2>1, TailMembers
<1>2. <<>> \in Seq(ActionEvent) /\ <<>> \in Seq(ClosedEvent) OBVIOUS
<1> QED BY <1>1, <1>2 DEF TInv, ListenerOK

(* The loop's records when nothing is under way.                           *)
LEMMA NoCallTypes == NoCall \in Call /\ NoReply \in Reply
BY NotificationsAssumption DEF NoCall, NoReply, Call, Reply, Content, Views

(* The steps of the loop that leave the bindings alone.                    *)
LEMMA TInvReports ==
    ASSUME TInv, \/ \E subjects \in Batches : Report(subjects)
                 \/ ReportNext \/ NotifyPressure \/ Retry
    PROVE  TInv'
<1>1. ServerOK'
  BY SameServer DEF TInv, Report, ReportNext, NotifyPressure, Retry
<1>2. ListenerOK'
  BY SameListener, TInvDisconnect DEF TInv, Report, ReportNext, NotifyPressure, Retry
<1>3. phase' \in {"idle", "report", "notify"}
  BY DEF Report, ReportNext, NotifyPressure, Retry, Ask, Phases
<1>4. batch' \in Seq(Subjects)
  <2>1. batch \in Seq(Subjects) /\ Batches \subseteq Seq(Subjects)
    BY NotificationsAssumption DEF TInv, LoopOK
  <2>2. batch # <<>> => Tail(batch) \in Seq(Subjects)
    BY <2>1, TailMembers
  <2>3. <<>> \in Seq(Subjects) OBVIOUS
  <2> QED BY <2>1, <2>2, <2>3 DEF Report, ReportNext, NotifyPressure, Retry
<1>5. call' \in Call
  <2>1. call \in Call /\ (batch # <<>> => Head(batch) \in Subjects)
    BY TailMembers DEF TInv, LoopOK
  <2>2. \A s \in Subjects \cup {Pressure} :
          [content |-> [subject |-> s, view |-> "summary"], replaces |-> 0] \in Call
    BY DEF Call, Content, Views
  <2> QED BY <2>1, <2>2 DEF Report, ReportNext, NotifyPressure, Retry, Ask
<1>6. UNCHANGED <<bindings, reply, work, acted>> /\ notifier' \in BOOLEAN
  BY DEF Report, ReportNext, NotifyPressure, Retry, TInv, LoopOK
<1>7. LoopOK'
  BY <1>3, <1>4, <1>5, <1>6 DEF TInv, LoopOK, Phases
<1> QED BY <1>1, <1>2, <1>7 DEF TInv

(* What remove leaves of the loop's bindings.                              *)
LEMMA TInvRemoved ==
    ASSUME TInv, NEW id
    PROVE  /\ BindingsOK(Removed(bindings, id))
           /\ Removed(bindings, id).capacity = bindings.capacity
           /\ Len(Removed(bindings, id).order) <= bindings.capacity
           /\ Values(Removed(bindings, id)) = {b \in Values(bindings) : b.id # id}
<1>1. BindingsOK(bindings) /\ Len(bindings.order) <= bindings.capacity
  BY DEF TInv, LoopOK
<1>2. /\ BindingsOK(Removed(bindings, id)) /\ Removed(bindings, id).capacity = bindings.capacity
      /\ Len(Removed(bindings, id).order) <= Len(bindings.order)
      /\ Values(Removed(bindings, id)) = {b \in Values(bindings) : b.id # id}
  BY <1>1, RemovedOK
<1>3. Len(bindings.order) \in Nat /\ Len(Removed(bindings, id).order) \in Nat
      /\ bindings.capacity \in Nat
  BY <1>1, <1>2, BindingsNumbers
<1> QED BY <1>1, <1>2, <1>3

(* A bound id has a binding of its own.                                    *)
LEMMA BindingOfTypes ==
    ASSUME TInv, NEW id, Bound(id)
    PROVE  /\ BindingOf(id) \in Values(bindings) /\ BindingOf(id) \in Binding
           /\ BindingOf(id).id = id
<1>1. BindingsOK(bindings) BY DEF TInv, LoopOK
<1> QED BY <1>1 DEF BindingsOK, Bound, BindingOf, Values

(* What Remember makes of the bindings.                                    *)
NewBinding == [id |-> reply.id, content |-> call.content, session |-> reply.session]

LEMMA RememberBindings ==
    ASSUME TInv, Remember, call.content.subject # Pressure
    PROVE  /\ NewBinding \in Binding
           /\ BindingsOK(bindings') /\ Len(bindings'.order) <= bindings'.capacity
           /\ \A c \in Values(bindings') :
                 \/ c = NewBinding
                 \/ c \in Values(bindings) /\ c.id # reply.id /\ c.id # call.replaces
<1> DEFINE others == Removed(bindings, call.replaces)
<1>1. NewBinding \in Binding
  BY DEF NewBinding, Binding, Remember, TInv, LoopOK, Reply, Call
<1>2. /\ BindingsOK(others) /\ Len(others.order) <= others.capacity
      /\ Values(others) = {b \in Values(bindings) : b.id # call.replaces}
  BY TInvRemoved
<1>3. bindings' = Remembered(others, NewBinding)
  BY DEF Remember, NewBinding
<1>4. NewBinding.id = reply.id BY DEF NewBinding
<1> HIDE DEF others
<1>5. /\ BindingsOK(Remembered(others, NewBinding))
      /\ Len(Remembered(others, NewBinding).order) <= others.capacity
      /\ Remembered(others, NewBinding).capacity = others.capacity
      /\ \A c \in Values(Remembered(others, NewBinding)) :
            c = NewBinding \/ (c \in Values(others) /\ c.id # NewBinding.id)
  BY <1>1, <1>2, RememberedOK
<1> QED BY <1>1, <1>2, <1>3, <1>4, <1>5

LEMMA TInvRemember == ASSUME TInv, Remember PROVE TInv'
<1>1. BindingsOK(bindings') /\ Len(bindings'.order) <= bindings'.capacity
  <2>1. CASE call.content.subject = Pressure
    <3>1. bindings' = bindings BY <2>1 DEF Remember
    <3> QED BY <3>1 DEF TInv, LoopOK
  <2> QED BY <2>1, RememberBindings
<1>2. phase' \in {"idle", "report"} /\ call' = NoCall /\ reply' = NoReply
  BY DEF Remember
<1>3. UNCHANGED <<notifier, batch, work, acted>>
  BY DEF Remember
<1>4. LoopOK'
  BY <1>1, <1>2, <1>3, NoCallTypes DEF TInv, LoopOK, Phases
<1> QED BY <1>4, SameServer, SameListener DEF Remember, TInv

LEMMA TInvNotifyFails == ASSUME TInv, NotifyFails PROVE TInv'
<1>1. bindings' = bindings \/ bindings' = Empty(bindings.capacity)
  BY DEF NotifyFails, AfterFailure
<1>2. BindingsOK(bindings') /\ Len(bindings'.order) <= bindings'.capacity
  BY <1>1, EmptyOK DEF TInv, LoopOK, BindingsOK
<1>3. /\ phase' = "idle" /\ batch' = <<>> /\ call' = NoCall /\ reply' = NoReply
      /\ notifier' = FALSE /\ UNCHANGED <<work, acted>>
  BY DEF NotifyFails, Disconnect
<1>4. <<>> \in Seq(Subjects) OBVIOUS
<1>5. LoopOK'
  BY <1>2, <1>3, <1>4, NoCallTypes DEF TInv, LoopOK, Phases
<1>6. ListenerOK'
  BY TInvDisconnect DEF NotifyFails, Disconnect
<1>7. ServerOK'
  BY NotificationsAssumption DEF NotifyFails, TInv, ServerOK
<1> QED BY <1>5, <1>6, <1>7 DEF TInv

(* The event the loop handles next.                                        *)
LEMMA EventTypes ==
    ASSUME TInv, channel # <<>>
    PROVE  /\ Head(channel) \in Event /\ channel[1] = Head(channel) /\ 1 \in DOMAIN channel
           /\ Head(channel).type = "action" => Head(channel) \in ActionEvent
           /\ Head(channel).type = "closed" => Head(channel) \in ClosedEvent
<1>1. channel \in Seq(Event) BY DEF TInv, ListenerOK
<1>2. Head(channel) \in Event /\ channel[1] = Head(channel) /\ 1 \in DOMAIN channel
  BY <1>1, TailMembers
<1> QED BY <1>2 DEF Event, ActionEvent, ClosedEvent, FailedEvent

LEMMA TInvHandleAction == ASSUME TInv, HandleAction PROVE TInv'
<1> DEFINE event == Head(channel)
           id == event.id
<1>1. channel # <<>> /\ event.type = "action" /\ phase = "idle"
  BY DEF HandleAction
<1>2. event \in ActionEvent /\ id \in Ids
  BY <1>1, EventTypes DEF ActionEvent
<1>3. ListenerOK'
  BY <1>1, TInvDisconnect DEF HandleAction, TInv, ListenerOK
<1>4. ServerOK' BY SameServer DEF HandleAction, TInv
<1>5. UNCHANGED <<notifier, batch, reply, acted>>
  BY DEF HandleAction
<1>6. CASE UNCHANGED <<bindings, phase, call, work>>
  BY <1>3, <1>4, <1>5, <1>6, SameLoop DEF TInv, loopVars
<1>7. CASE /\ Plan(id, event.key) = "navigate"
           /\ Ask(NextContent(BindingOf(id).content), id)
           /\ UNCHANGED <<bindings, work>>
  <2>1. Bound(id) BY <1>7 DEF Plan
  <2>2. BindingOf(id).content \in Content BY <2>1, BindingOfTypes DEF Binding
  <2>3. NextContent(BindingOf(id).content) \in Content
    BY <2>2 DEF NextContent, Content, Views
  <2>4. phase' = "notify" /\ call' \in Call
    BY <1>2, <1>7, <2>3 DEF Ask, Call
  <2>5. LoopOK'
    BY <1>5, <1>7, <2>4 DEF TInv, LoopOK, Phases
  <2> QED BY <1>3, <1>4, <2>5 DEF TInv
<1>8. CASE bindings' = Removed(bindings, id) /\ UNCHANGED <<phase, call, work>>
  <2>1. LoopOK'
    BY <1>5, <1>8, TInvRemoved DEF TInv, LoopOK
  <2> QED BY <1>3, <1>4, <2>1 DEF TInv
<1>9. CASE Plan(id, event.key) = "execute" /\ Execute(event) /\ UNCHANGED call
  <2>1. Bound(id) BY <1>9 DEF Plan
  <2>2. work' \in [event : ActionEvent, binding : Binding] /\ work' # NoWork
    <3>1. work' = [event |-> event, binding |-> BindingOf(id)] BY <1>9 DEF Execute
    <3>2. BindingOf(id) \in Binding BY <2>1, BindingOfTypes
    <3>3. work' # <<>>
      <4>1. DOMAIN work' = {"event", "binding"} /\ DOMAIN <<>> = {} BY <3>1
      <4> QED BY <4>1
    <3> QED BY <1>2, <3>1, <3>2, <3>3 DEF NoWork
  <2>3. phase' \in {"close", "act"} /\ bindings' = Removed(bindings, id)
    BY <1>9 DEF Execute
  <2>4. LoopOK'
    BY <1>5, <1>9, <2>2, <2>3, TInvRemoved DEF TInv, LoopOK, Phases
  <2> QED BY <1>3, <1>4, <2>4 DEF TInv
<1> QED BY <1>6, <1>7, <1>8, <1>9 DEF HandleAction

LEMMA TInvHandleOthers == ASSUME TInv, HandleClosed \/ HandleFailed PROVE TInv'
<1>1. ServerOK' BY SameServer DEF HandleClosed, HandleFailed, TInv
<1>2. ListenerOK'
  BY TInvDisconnect DEF HandleClosed, HandleFailed, Disconnect, TInv, ListenerOK
<1>3. bindings' = Empty(bindings.capacity) \/ \E id \in Ids : bindings' = Removed(bindings, id)
  BY EventTypes DEF HandleClosed, HandleFailed, ClosedEvent
<1>4. BindingsOK(bindings') /\ Len(bindings'.order) <= bindings'.capacity
  <2>1. bindings.capacity \in Capacities BY DEF TInv, LoopOK, BindingsOK
  <2>2. CASE bindings' = Empty(bindings.capacity) BY <2>1, <2>2, EmptyOK
  <2>3. CASE \E id \in Ids : bindings' = Removed(bindings, id) BY <2>3, TInvRemoved
  <2> QED BY <1>3, <2>2, <2>3
<1>5. UNCHANGED <<phase, batch, call, reply, work, acted>> /\ notifier' \in BOOLEAN
  BY DEF HandleClosed, HandleFailed, Disconnect, TInv, LoopOK
<1>6. LoopOK'
  BY <1>4, <1>5 DEF TInv, LoopOK
<1> QED BY <1>1, <1>2, <1>6 DEF TInv

LEMMA TInvActing == ASSUME TInv, CloseHandled \/ Act PROVE TInv'
<1>1. work \in [event : ActionEvent, binding : Binding] /\ work # NoWork
      /\ work.event.id \in Ids /\ work.binding.session \in 0..MaxRestarts
  BY DEF CloseHandled, Act, TInv, LoopOK, ActionEvent, Binding
<1>2. CASE CloseHandled
  <2>1. ListenerOK'
    BY <1>1, <1>2, ClosedTypes DEF CloseHandled, TInv, ListenerOK
  <2>2. ServerOK'
    <3>1. shown' = shown \/ shown' = Without(work.event.id)
      BY <1>2 DEF CloseHandled
    <3>2. failures' \in 0..MaxFailures /\ UNCHANGED <<resident, used, session, clicks>>
      BY <1>2, NotificationsAssumption DEF CloseHandled, TInv, ServerOK
    <3> QED BY <3>1, <3>2, ShownTypes DEF TInv, ServerOK
  <2>3. LoopOK'
    BY <1>1, <1>2 DEF CloseHandled, TInv, LoopOK, Phases
  <2> QED BY <2>1, <2>2, <2>3 DEF TInv
<1>3. CASE Act
  <2>1. ServerOK' /\ ListenerOK'
    BY <1>3, SameServer, SameListener DEF Act, TInv
  <2>2. acted' \subseteq (0..MaxRestarts) \X Ids
    BY <1>1, <1>3 DEF Act, TInv, LoopOK
  <2>3. LoopOK'
    BY <1>3, <2>2 DEF Act, TInv, LoopOK, Phases
  <2> QED BY <2>1, <2>3 DEF TInv
<1> QED BY <1>2, <1>3

LEMMA TInvInit == NotificationsInit => TInv
<1> SUFFICES ASSUME NotificationsInit PROVE TInv
  OBVIOUS
<1>1. ServerOK
  BY NotificationsAssumption DEF NotificationsInit, ServerOK
<1>2. ListenerOK
  <2>1. <<>> \in Seq(ActionEvent) /\ <<>> \in Seq(ClosedEvent) /\ <<>> \in Seq(Event)
        /\ Len(<<>>) <= ChannelSize
    BY NotificationsAssumption
  <2> QED BY <2>1 DEF NotificationsInit, ListenerOK
<1>3. LoopOK
  <2>1. <<>> \in Seq(Subjects) OBVIOUS
  <2> QED BY <2>1, NoCallTypes, EmptyOK DEF NotificationsInit, LoopOK, Phases
<1> QED BY <1>1, <1>2, <1>3 DEF TInv

LEMMA TInvStep == TInv /\ [Next]_vars => TInv'
<1> SUFFICES ASSUME TInv, [Next]_vars PROVE TInv'
  OBVIOUS
<1>1. CASE UNCHANGED vars
  BY <1>1, SameServer, SameListener, SameLoop DEF vars, TInv
<1>2. CASE Next
  BY <1>2, TInvClick, TInvDismiss, TInvRestart, TInvServe, TInvForward, TInvStreamFails,
     TInvReports, TInvRemember, TInvNotifyFails, TInvHandleAction, TInvHandleOthers,
     TInvActing DEF Next
<1> QED BY <1>1, <1>2

-----------------------------------------------------------------------------
(* What the daemon may rely on                                             *)

Stored == Values(bindings)
Emitted == Members(actions) \cup {e \in Members(channel) : e.type = "action"}
Serving == phase = "reply"

(* Nothing was done yet for this notification, nor for an earlier one that *)
(* had its id; and the server will not give the id away in its session.    *)
Fresh(id, s) ==
    /\ s <= session /\ (s = session => id \in used)
    /\ \A pair \in acted : pair[2] = id => pair[1] < s

ActedInv == \A pair \in acted : pair[1] <= session /\ (pair[1] = session => pair[2] \in used)

EventInv == \A e \in Emitted :
    /\ e.key \in Buttons(e.about)
    /\ e.session <= session /\ (e.session = session => e.id \in used)

(* The notification the server has just shown and the loop has not         *)
(* recorded yet.                                                           *)
JustServed(id, s) == Serving /\ reply = [id |-> id, session |-> s]

(* Within a session an id keeps its subject; a binding from an earlier     *)
(* session has seen no click on its id since, but of what was just served. *)
BoundInv == \A b \in Stored :
    /\ Fresh(b.id, b.session) /\ b.content.subject # Pressure
    /\ \A e \in Emitted : e.id = b.id =>
          \/ e.session < b.session
          \/ e.session = b.session /\ e.about.subject = b.content.subject
          \/ JustServed(e.id, e.session)
    /\ b.id \in DOMAIN shown /\ shown[b.id].subject # Pressure =>
          \/ b.session = session /\ shown[b.id].subject = b.content.subject
          \/ JustServed(b.id, session)

ReplyInv == Serving =>
    /\ Fresh(reply.id, reply.session)
    /\ DOMAIN shown # {} => reply.session = session
    /\ reply.id \in DOMAIN shown => shown[reply.id] = call.content
    /\ \A e \in Emitted :
          /\ e.session <= reply.session
          /\ e.id = reply.id /\ e.session = reply.session =>
                e.about.subject = call.content.subject

ShownInv == \A b \in Stored :
    b.session = session /\ b.id \in DOMAIN shown /\ b.id # call.replaces =>
        shown[b.id] = b.content

(* A navigation keeps the subject of the binding it replaces.              *)
CallInv ==
    /\ phase \notin {"notify", "reply"} => call = NoCall
    /\ call.replaces # 0 => \E b \in Stored :
          b.id = call.replaces /\ b.content.subject = call.content.subject

Matches(event, content) ==
    /\ event.about.subject = content.subject
    /\ event.key = "stop_group" => event.about = content

WorkInv == phase \in {"close", "act"} =>
    /\ work.event.id = work.binding.id
    /\ \A b \in Stored : b.id # work.binding.id
    /\ Fresh(work.binding.id, work.binding.session)
    /\ work.event.session = work.binding.session => Matches(work.event, work.binding.content)

SafeInv == ActedInv /\ EventInv /\ BoundInv /\ ReplyInv /\ ShownInv /\ CallInv /\ WorkInv

(* What the types say of bindings, events and answers.                     *)
LEMMA MemberTypes ==
    ASSUME TInv
    PROVE  /\ Stored \subseteq Binding /\ Emitted \subseteq ActionEvent
           /\ session \in Nat
           /\ \A b \in Stored : b.id \in Ids /\ b.id # 0 /\ b.session \in Nat /\ b.content \in Content
           /\ \A e \in Emitted : e.id \in Ids /\ e.session \in Nat /\ e.about \in Content
           /\ \A pair \in acted : pair[1] \in Nat /\ pair[2] \in Ids
           /\ phase = "reply" => reply.id \in Ids /\ reply.session \in Nat
           /\ call.content \in Content
           /\ \A i \in DOMAIN shown : shown[i] \in Content
<1>0. MaxRestarts \in Nat /\ Ids \subseteq Nat \ {0} BY NotificationsAssumption
<1>1. Stored \subseteq Binding
  BY DEF TInv, LoopOK, BindingsOK, Stored, Values
<1>2. Emitted \subseteq ActionEvent
  <2>1. Members(actions) \subseteq ActionEvent /\ Members(channel) \subseteq Event
    BY DEF TInv, ListenerOK, Members
  <2>2. \A e \in Event : e.type = "action" => e \in ActionEvent
    BY DEF Event, ActionEvent, ClosedEvent, FailedEvent
  <2> QED BY <2>1, <2>2 DEF Emitted
<1>3. session \in Nat /\ \A i \in DOMAIN shown : shown[i] \in Content
  BY <1>0 DEF TInv, ServerOK
<1>4. \A b \in Binding : b.id \in Ids /\ b.id # 0 /\ b.session \in Nat /\ b.content \in Content
  BY <1>0 DEF Binding
<1>5. \A e \in ActionEvent : e.id \in Ids /\ e.session \in Nat /\ e.about \in Content
  BY <1>0 DEF ActionEvent
<1>6. /\ \A pair \in acted : pair[1] \in Nat /\ pair[2] \in Ids
      /\ phase = "reply" => reply.id \in Ids /\ reply.session \in Nat
      /\ call.content \in Content
  BY <1>0 DEF TInv, LoopOK, Reply, Call
<1> QED BY <1>1, <1>2, <1>3, <1>4, <1>5, <1>6

(* Steps that show, emit, bind and perform nothing new.                    *)
LEMMA NothingNew ==
    ASSUME TInv, SafeInv, UNCHANGED <<session, used, acted, reply>>,
           Emitted' \subseteq Emitted, Stored' \subseteq Stored,
           DOMAIN shown' \subseteq DOMAIN shown, \A i \in DOMAIN shown' : shown'[i] = shown[i],
           Serving' <=> Serving, Serving => call' = call,
           call.replaces \in {0, call'.replaces}
    PROVE  ActedInv' /\ EventInv' /\ BoundInv' /\ ReplyInv' /\ ShownInv'
<1>1. \A id, s : Fresh(id, s)' <=> Fresh(id, s)
  BY DEF Fresh
<1>2. \A id, s : JustServed(id, s)' <=> JustServed(id, s)
  BY DEF JustServed
<1>3. ActedInv' BY DEF SafeInv, ActedInv
<1>4. EventInv' BY DEF SafeInv, EventInv
<1>5. BoundInv'
  <2> SUFFICES ASSUME NEW b \in Stored'
               PROVE  /\ Fresh(b.id, b.session)' /\ b.content.subject # Pressure
                      /\ \A e \in Emitted' : e.id = b.id =>
                            \/ e.session < b.session
                            \/ e.session = b.session /\ e.about.subject = b.content.subject
                            \/ JustServed(e.id, e.session)'
                      /\ b.id \in DOMAIN shown' /\ shown'[b.id].subject # Pressure =>
                            \/ b.session = session /\ shown'[b.id].subject = b.content.subject
                            \/ JustServed(b.id, session)'
    BY DEF BoundInv
  <2>1. JustServed(b.id, session)' <=> JustServed(b.id, session)
    BY DEF JustServed
  <2>2. b \in Stored OBVIOUS
  <2>3. Fresh(b.id, b.session)' /\ b.content.subject # Pressure
    BY <1>1, <2>2 DEF SafeInv, BoundInv
  <2>4. ASSUME NEW e \in Emitted', e.id = b.id
        PROVE  \/ e.session < b.session
               \/ e.session = b.session /\ e.about.subject = b.content.subject
               \/ JustServed(e.id, e.session)'
    BY <1>2, <2>2, <2>4 DEF SafeInv, BoundInv
  <2>5. b.id \in DOMAIN shown' /\ shown'[b.id].subject # Pressure =>
          \/ b.session = session /\ shown'[b.id].subject = b.content.subject
          \/ JustServed(b.id, session)'
    BY <2>1, <2>2 DEF SafeInv, BoundInv
  <2> QED BY <2>3, <2>4, <2>5
<1>6. ReplyInv'
  <2> SUFFICES ASSUME Serving PROVE ReplyInv'
    BY DEF ReplyInv
  <2>1. Fresh(reply.id, reply.session)'
    BY DEF SafeInv, ReplyInv, Fresh
  <2> QED BY <2>1 DEF SafeInv, ReplyInv
<1>7. ShownInv'
  <2>1. \A b \in Stored : b.id # 0 BY MemberTypes
  <2> QED BY <2>1 DEF SafeInv, ShownInv
<1> QED BY <1>3, <1>4, <1>5, <1>6, <1>7

(* An event on its way is taken off the front, dropped or passed on.       *)
LEMMA TakenOff ==
    ASSUME TInv, actions' = actions \/ actions' = <<>>,
           channel' = channel \/ (channel # <<>> /\ channel' = Tail(channel))
    PROVE  Emitted' \subseteq Emitted
<1>1. Members(actions') \subseteq Members(actions)
  BY DEF Members
<1>2. Members(channel') \subseteq Members(channel)
  <2>1. channel \in Seq(Event) BY DEF TInv, ListenerOK
  <2>2. CASE channel # <<>> /\ channel' = Tail(channel)
    <3>1. \A k \in DOMAIN Tail(channel) :
             k + 1 \in DOMAIN channel /\ Tail(channel)[k] = channel[k + 1]
      BY <2>1, <2>2, TailMembers
    <3> QED BY <2>2, <3>1 DEF Members
  <2> QED BY <2>2 DEF Members
<1> QED BY <1>1, <1>2 DEF Emitted

LEMMA PassedOn == ASSUME TInv, Forward \/ StreamFails PROVE Emitted' \subseteq Emitted
<1>1. /\ actions \in Seq(ActionEvent) /\ closures \in Seq(ClosedEvent)
      /\ channel \in Seq(Event) /\ FailedEvent \in Event
  BY DEF TInv, ListenerOK, Event
<1>2. CASE Forward /\ actions # <<>> /\ channel' = Append(channel, Head(actions))
           /\ actions' = Tail(actions)
  <2>1. /\ Head(actions) \in Event /\ Head(actions) = actions[1] /\ 1 \in DOMAIN actions
        /\ \A k \in DOMAIN Tail(actions) :
             k + 1 \in DOMAIN actions /\ Tail(actions)[k] = actions[k + 1]
    BY <1>1, <1>2, TailMembers DEF Event
  <2>2. Members(actions') \subseteq Members(actions) /\ Head(actions) \in Members(actions)
    BY <1>2, <2>1 DEF Members
  <2>3. \A k \in DOMAIN channel' :
           channel'[k] = Head(actions) \/ (k \in DOMAIN channel /\ channel'[k] = channel[k])
    BY <1>1, <1>2, <2>1, AppendMembers
  <2>4. Members(channel') \subseteq Members(channel) \cup {Head(actions)}
    BY <2>3 DEF Members
  <2> QED BY <2>2, <2>4 DEF Emitted
<1>3. CASE Forward /\ closures # <<>> /\ channel' = Append(channel, Head(closures))
           /\ UNCHANGED actions
  <2>1. Head(closures) \in ClosedEvent /\ Head(closures) \in Event
    BY <1>1, <1>3, TailMembers DEF Event
  <2>2. \A k \in DOMAIN channel' :
           channel'[k] = Head(closures) \/ (k \in DOMAIN channel /\ channel'[k] = channel[k])
    BY <1>1, <1>3, <2>1, AppendMembers
  <2>3. Members(channel') \subseteq Members(channel) \cup {Head(closures)}
    BY <2>2 DEF Members
  <2>4. Head(closures).type # "action" BY <2>1 DEF ClosedEvent
  <2> QED BY <1>3, <2>3, <2>4 DEF Emitted
<1>4. CASE StreamFails
  <2>1. \A k \in DOMAIN channel' :
           channel'[k] = FailedEvent \/ (k \in DOMAIN channel /\ channel'[k] = channel[k])
    BY <1>1, <1>4, AppendMembers DEF StreamFails
  <2>2. Members(channel') \subseteq Members(channel) \cup {FailedEvent}
    BY <2>1 DEF Members
  <2>3. Members(actions') = {} BY <1>4 DEF StreamFails, Members
  <2> QED BY <2>2, <2>3 DEF Emitted, FailedEvent
<1> QED BY <1>2, <1>3, <1>4 DEF Forward

(* The loop's own call and work in steps of the others.                    *)
LEMMA LoopUntouched ==
    ASSUME SafeInv, UNCHANGED <<bindings, phase, call, work, acted, session, used>>
    PROVE  CallInv' /\ WorkInv'
<1>1. Stored' = Stored BY DEF Stored
<1>2. CallInv' BY <1>1 DEF SafeInv, CallInv
<1>3. WorkInv' BY <1>1 DEF SafeInv, WorkInv, Fresh
<1> QED BY <1>2, <1>3

(* One lemma per kind of step: the listener,                               *)
LEMMA SafeListener ==
    ASSUME TInv, SafeInv, Forward \/ StreamFails \/ Retry
    PROVE  SafeInv'
<1>1. Emitted' \subseteq Emitted
  BY PassedOn, TakenOff DEF Retry
<1>2. UNCHANGED <<shown, session, used, acted, reply, bindings, phase, call, work>>
  BY DEF Forward, StreamFails, Retry, serverVars, loopVars
<1>3. Stored' = Stored /\ (Serving' <=> Serving) BY <1>2 DEF Stored, Serving
<1>4. call.replaces \in {0, call'.replaces} BY <1>2
<1>5. ActedInv' /\ EventInv' /\ BoundInv' /\ ReplyInv' /\ ShownInv'
  BY <1>1, <1>2, <1>3, <1>4, NothingNew
<1> QED BY <1>2, <1>5, LoopUntouched DEF SafeInv

(* notifications that go away,                                             *)
LEMMA SafeClosing ==
    ASSUME TInv, SafeInv, CloseHandled \/ \E id \in Ids : Dismiss(id)
    PROVE  SafeInv'
<1>1. UNCHANGED <<session, used, acted, reply, bindings, call, work, actions, channel>>
  BY DEF CloseHandled, Dismiss, loopVars
<1>2. Emitted' \subseteq Emitted BY <1>1 DEF Emitted
<1>3. Stored' = Stored BY <1>1 DEF Stored
<1>4. /\ DOMAIN shown' \subseteq DOMAIN shown
      /\ \A i \in DOMAIN shown' : shown'[i] = shown[i]
  <2>1. shown' = shown \/ \E id : shown' = Without(id)
    BY DEF CloseHandled, Dismiss
  <2> QED BY <2>1, ShownTypes
<1>5. phase' = phase \/ (phase = "close" /\ phase' = "act")
  BY DEF CloseHandled, Dismiss, loopVars
<1>6. (Serving' <=> Serving) /\ call.replaces \in {0, call'.replaces}
  BY <1>1, <1>5 DEF Serving
<1>7. ActedInv' /\ EventInv' /\ BoundInv' /\ ReplyInv' /\ ShownInv'
  BY <1>1, <1>2, <1>3, <1>4, <1>6, NothingNew
<1>8. CallInv' BY <1>1, <1>3, <1>5 DEF SafeInv, CallInv
<1>9. WorkInv' BY <1>1, <1>3, <1>5 DEF SafeInv, WorkInv, Fresh
<1> QED BY <1>7, <1>8, <1>9 DEF SafeInv

(* reports the daemon begins to send,                                      *)
LEMMA SafeReports ==
    ASSUME TInv, SafeInv,
           (\E subjects \in Batches : Report(subjects)) \/ ReportNext \/ NotifyPressure
    PROVE  SafeInv'
<1>1. /\ UNCHANGED <<shown, session, used, acted, reply, bindings, actions, channel>>
      /\ phase \in {"idle", "report"} /\ phase' \in {"idle", "report", "notify"}
  BY DEF Report, ReportNext, NotifyPressure, Ask, serverVars, listenerVars
<1>2. Emitted' \subseteq Emitted /\ Stored' = Stored BY <1>1 DEF Emitted, Stored
<1>3. ~Serving /\ ~Serving' BY <1>1 DEF Serving
<1>4. call = NoCall /\ call.replaces = 0 BY <1>1 DEF SafeInv, CallInv, NoCall
<1>5. ActedInv' /\ EventInv' /\ BoundInv' /\ ReplyInv' /\ ShownInv'
  BY <1>1, <1>2, <1>3, <1>4, NothingNew
<1>6. CallInv'
  <2>1. call' = call \/ call'.replaces = 0
    BY DEF Report, ReportNext, NotifyPressure, Ask
  <2>2. phase' # "notify" => call' = call
    BY DEF Report, ReportNext, NotifyPressure, Ask
  <2> QED BY <1>1, <1>4, <2>1, <2>2 DEF CallInv
<1>7. WorkInv' BY <1>1 DEF WorkInv
<1> QED BY <1>5, <1>6, <1>7 DEF SafeInv

(* clicks, which are about what is shown,                                  *)
LEMMA SafeClick ==
    ASSUME TInv, SafeInv, NEW id \in Ids, NEW key \in Keys, Click(id, key)
    PROVE  SafeInv'
<1> DEFINE event == [type |-> "action", id |-> id, key |-> key, about |-> shown[id],
                     session |-> session]
<1>1. /\ UNCHANGED <<session, used, acted, reply, bindings, phase, call, work, channel>>
      /\ id \in DOMAIN shown /\ key \in Buttons(shown[id])
      /\ actions' = actions \/ actions' = Append(actions, event)
      /\ shown' = shown \/ shown' = Without(id)
  BY DEF Click, Emit, loopVars
<1>2. event.id = id /\ event.key = key /\ event.about = shown[id] /\ event.session = session
  OBVIOUS
<1>3. event \in ActionEvent
  BY <1>1 DEF TInv, ServerOK, ActionEvent
<1> HIDE DEF event
<1>4. Emitted' \subseteq Emitted \cup {event}
  <2>1. actions \in Seq(ActionEvent) BY DEF TInv, ListenerOK
  <2>2. \A k \in DOMAIN actions' :
          actions'[k] = event \/ (k \in DOMAIN actions /\ actions'[k] = actions[k])
    BY <1>1, <1>3, <2>1, AppendMembers
  <2> QED BY <1>1, <2>2 DEF Emitted, Members
<1>5. /\ DOMAIN shown' \subseteq DOMAIN shown
      /\ \A i \in DOMAIN shown' : shown'[i] = shown[i]
  BY <1>1, ShownTypes
<1>6. Stored' = Stored /\ (Serving' <=> Serving) BY <1>1 DEF Stored, Serving
<1>7. shown[id].subject # Pressure /\ id \in used
  BY <1>1 DEF Buttons, TInv, ServerOK
<1>8. ActedInv' BY <1>1 DEF SafeInv, ActedInv
<1>9. EventInv' BY <1>1, <1>2, <1>4, <1>7, MemberTypes DEF SafeInv, EventInv
<1>10. BoundInv'
  <2> SUFFICES ASSUME NEW b \in Stored
               PROVE  /\ Fresh(b.id, b.session)' /\ b.content.subject # Pressure
                      /\ \A e \in Emitted' : e.id = b.id =>
                            \/ e.session < b.session
                            \/ e.session = b.session /\ e.about.subject = b.content.subject
                            \/ JustServed(e.id, e.session)'
                      /\ b.id \in DOMAIN shown' /\ shown'[b.id].subject # Pressure =>
                            \/ b.session = session /\ shown'[b.id].subject = b.content.subject
                            \/ JustServed(b.id, session)'
    BY <1>1, <1>6 DEF BoundInv
  <2>1. \A i, s : (JustServed(i, s)' <=> JustServed(i, s)) /\ (Fresh(i, s)' <=> Fresh(i, s))
    BY <1>1, <1>6 DEF JustServed, Fresh
  <2>2. JustServed(b.id, session)' <=> JustServed(b.id, session)
    BY <1>1, <1>6 DEF JustServed
  <2>3. ASSUME NEW e \in Emitted', e.id = b.id
        PROVE  \/ e.session < b.session
               \/ e.session = b.session /\ e.about.subject = b.content.subject
               \/ JustServed(e.id, e.session)
    <3>1. CASE e \in Emitted BY <2>3, <3>1 DEF SafeInv, BoundInv
    <3>2. CASE e = event
      BY <1>1, <1>2, <1>7, <2>3, <3>2 DEF SafeInv, BoundInv
    <3> QED BY <1>4, <3>1, <3>2
  <2>4. Fresh(b.id, b.session) /\ b.content.subject # Pressure
    BY DEF SafeInv, BoundInv
  <2>5. b.id \in DOMAIN shown' /\ shown'[b.id].subject # Pressure =>
             \/ b.session = session /\ shown'[b.id].subject = b.content.subject
             \/ JustServed(b.id, session)
    BY <1>5 DEF SafeInv, BoundInv
  <2> QED BY <2>1, <2>2, <2>3, <2>4, <2>5
<1>11. ReplyInv'
  <2> SUFFICES ASSUME Serving PROVE ReplyInv'
    BY <1>6 DEF ReplyInv
  <2>1. Fresh(reply.id, reply.session)'
    BY <1>1 DEF SafeInv, ReplyInv, Fresh
  <2>2. reply.session = session /\ (reply.id = id => shown[id] = call.content)
    BY <1>1 DEF SafeInv, ReplyInv
  <2>3. \A e \in Emitted' :
          /\ e.session <= reply.session
          /\ e.id = reply.id /\ e.session = reply.session =>
                e.about.subject = call.content.subject
    BY <1>2, <1>4, <2>2, MemberTypes DEF SafeInv, ReplyInv
  <2>4. reply.id \in DOMAIN shown' => shown'[reply.id] = call.content
    BY <1>5 DEF SafeInv, ReplyInv
  <2> QED BY <1>1, <2>1, <2>2, <2>3, <2>4 DEF ReplyInv
<1>12. ShownInv' BY <1>1, <1>5, <1>6 DEF SafeInv, ShownInv
<1> QED BY <1>1, <1>8, <1>9, <1>10, <1>11, <1>12, LoopUntouched DEF SafeInv

(* a server that starts over,                                              *)
LEMMA SafeRestart == ASSUME TInv, SafeInv, Restart PROVE SafeInv'
<1>1. /\ session' = session + 1 /\ shown' = <<>> /\ used' = {}
      /\ UNCHANGED <<acted, reply, bindings, phase, call, work, actions, channel>>
  BY DEF Restart, listenerVars, loopVars
<1>2. Emitted' = Emitted /\ Stored' = Stored /\ (Serving' <=> Serving)
  BY <1>1 DEF Emitted, Stored, Serving
<1>3. session \in Nat /\ \A b \in Stored : b.session \in Nat /\ b.id \in Ids
  BY MemberTypes
<1>4. ASSUME NEW id, NEW s \in Nat, Fresh(id, s) PROVE Fresh(id, s)'
  BY <1>1, <1>3, <1>4 DEF Fresh
<1>5. DOMAIN shown' = {} BY <1>1
<1>6. \A i, s : JustServed(i, s)' <=> JustServed(i, s)
  BY <1>1, <1>2 DEF JustServed
<1>7. ActedInv' BY <1>1, <1>3, MemberTypes DEF SafeInv, ActedInv
<1>8. EventInv' BY <1>1, <1>2, <1>3, MemberTypes DEF SafeInv, EventInv
<1>9. BoundInv'
  BY <1>1, <1>2, <1>3, <1>4, <1>5, <1>6 DEF SafeInv, BoundInv
<1>10. ReplyInv'
  <2> SUFFICES ASSUME Serving PROVE ReplyInv'
    BY <1>2 DEF ReplyInv
  <2>1. reply.session \in Nat BY MemberTypes DEF Serving
  <2>2. Fresh(reply.id, reply.session)'
    BY <1>1, <1>3, <2>1 DEF SafeInv, ReplyInv, Fresh
  <2> QED BY <1>1, <1>2, <1>5, <2>2 DEF SafeInv, ReplyInv
<1>11. ShownInv' BY <1>5 DEF ShownInv
<1>12. CallInv' BY <1>1, <1>2 DEF SafeInv, CallInv
<1>13. WorkInv'
  <2> SUFFICES ASSUME phase \in {"close", "act"} PROVE WorkInv'
    BY <1>1 DEF WorkInv
  <2>1. work.binding.session \in Nat
    BY NotificationsAssumption DEF TInv, LoopOK, Binding
  <2>2. Fresh(work.binding.id, work.binding.session)'
    BY <1>1, <1>3, <2>1 DEF SafeInv, WorkInv, Fresh
  <2> QED BY <1>1, <1>2, <2>2 DEF SafeInv, WorkInv
<1> QED BY <1>7, <1>8, <1>9, <1>10, <1>11, <1>12, <1>13 DEF SafeInv

(* an id that is new or keeps its subject,                                 *)
LEMMA SafeServe == ASSUME TInv, SafeInv, Serve PROVE SafeInv'
<1>1. PICK id \in Ids :
         /\ id = call.replaces \/ id \notin used
         /\ shown' = With(id, call.content)
         /\ used' = used \cup {id}
         /\ reply' = [id |-> id, session |-> session]
  BY DEF Serve
<1>2. /\ UNCHANGED <<session, acted, bindings, call, work, actions, channel>>
      /\ phase = "notify" /\ phase' = "reply"
  BY DEF Serve, listenerVars
<1>3. Emitted' = Emitted /\ Stored' = Stored /\ ~Serving /\ Serving'
  BY <1>2 DEF Emitted, Stored, Serving
<1>4. /\ DOMAIN shown' = DOMAIN shown \cup {id} /\ shown'[id] = call.content
      /\ \A i \in DOMAIN shown : i # id => shown'[i] = shown[i]
  BY <1>1 DEF With
<1>5. id # 0 /\ session \in Nat
  BY MemberTypes, NotificationsAssumption
<1>6. ASSUME id \in used
      PROVE  \E b \in Stored : b.id = id /\ b.content.subject = call.content.subject
  BY <1>1, <1>5, <1>6 DEF SafeInv, CallInv
<1>7. Fresh(id, session)'
  <2>1. ASSUME NEW pair \in acted, pair[2] = id PROVE pair[1] < session
    <3>1. CASE id \notin used
      BY <1>5, <2>1, <3>1, MemberTypes DEF SafeInv, ActedInv
    <3>2. CASE id \in used
      <4>1. PICK b \in Stored : b.id = id BY <1>6, <3>2
      <4>2. pair[1] < b.session /\ b.session <= session
        BY <2>1, <4>1 DEF SafeInv, BoundInv, Fresh
      <4> QED BY <1>5, <4>1, <4>2, MemberTypes
    <3> QED BY <3>1, <3>2
  <2> QED BY <1>1, <1>2, <1>5, <2>1 DEF Fresh
<1>8. ActedInv' BY <1>1, <1>2 DEF SafeInv, ActedInv
<1>9. EventInv' BY <1>1, <1>2, <1>3 DEF SafeInv, EventInv
<1>10. \A b \in Stored : ~(b.id = id /\ b.session = session /\ id \notin used)
  BY DEF SafeInv, BoundInv, Fresh
<1>11. BoundInv'
  <2> SUFFICES ASSUME NEW b \in Stored
               PROVE  /\ Fresh(b.id, b.session)' /\ b.content.subject # Pressure
                      /\ \A e \in Emitted : e.id = b.id =>
                            \/ e.session < b.session
                            \/ e.session = b.session /\ e.about.subject = b.content.subject
                      /\ b.id \in DOMAIN shown' /\ shown'[b.id].subject # Pressure =>
                            \/ b.session = session /\ shown'[b.id].subject = b.content.subject
                            \/ JustServed(b.id, session)'
    BY <1>2, <1>3 DEF BoundInv
  <2>1. Fresh(b.id, b.session)'
    BY <1>1, <1>2 DEF SafeInv, BoundInv, Fresh
  <2>2. CASE b.id = id
    <3>1. JustServed(b.id, session)' BY <1>1, <1>2, <1>3, <2>2 DEF JustServed
    <3> QED BY <1>3, <2>1, <3>1 DEF SafeInv, BoundInv, JustServed
  <2>3. CASE b.id # id
    BY <1>3, <1>4, <2>1, <2>3 DEF SafeInv, BoundInv, JustServed
  <2> QED BY <2>2, <2>3
<1>12. ReplyInv'
  <2>1. ASSUME NEW e \in Emitted, e.id = id, e.session = session
        PROVE  e.about.subject = call.content.subject
    <3>1. id \in used BY <2>1 DEF SafeInv, EventInv
    <3>2. PICK b \in Stored : b.id = id /\ b.content.subject = call.content.subject
      BY <1>6, <3>1
    <3>3. ~(e.session < b.session)
      <4>1. b.session <= session /\ b.session \in Nat
        BY <3>2, MemberTypes DEF SafeInv, BoundInv, Fresh
      <4> QED BY <1>5, <2>1, <4>1
    <3> QED BY <1>3, <2>1, <3>2, <3>3 DEF SafeInv, BoundInv, JustServed
  <2>2. \A e \in Emitted : e.session <= session BY DEF SafeInv, EventInv
  <2>3. reply'.id = id /\ reply'.session = session BY <1>1
  <2>4. Fresh(reply.id, reply.session)' BY <1>2, <1>7, <2>3 DEF Fresh
  <2> QED BY <1>2, <1>3, <1>4, <2>1, <2>2, <2>3, <2>4 DEF ReplyInv
<1>13. ShownInv'
  <2> SUFFICES ASSUME NEW b \in Stored, b.session = session, b.id \in DOMAIN shown',
                      b.id # call.replaces
               PROVE  shown'[b.id] = b.content
    BY <1>2, <1>3 DEF ShownInv
  <2>1. b.id # id BY <1>1, <1>10
  <2> QED BY <1>4, <2>1 DEF SafeInv, ShownInv
<1>14. CallInv' BY <1>2, <1>3 DEF SafeInv, CallInv
<1>15. WorkInv' BY <1>2 DEF WorkInv
<1> QED BY <1>8, <1>9, <1>11, <1>12, <1>13, <1>14, <1>15 DEF SafeInv

(* A pressure notification leaves no trace in the bindings.                *)
LEMMA PressureEnds ==
    ASSUME TInv, SafeInv, call.content.subject = Pressure,
           UNCHANGED <<shown, session, used, acted>>, ~Serving', call' = NoCall,
           Emitted' \subseteq Emitted, Stored' = Stored
    PROVE  BoundInv' /\ ShownInv'
<1>1. ASSUME NEW e \in Emitted PROVE ~JustServed(e.id, e.session)
  <2>1. e.about.subject # Pressure BY DEF SafeInv, EventInv, Buttons
  <2> QED BY <2>1 DEF SafeInv, ReplyInv, JustServed
<1>2. ASSUME NEW b \in Stored, b.id \in DOMAIN shown, shown[b.id].subject # Pressure
      PROVE  ~JustServed(b.id, session)
  BY <1>2 DEF SafeInv, ReplyInv, JustServed
<1>3. BoundInv'
  <2>1. \A b \in Stored : Fresh(b.id, b.session)'
    BY DEF SafeInv, BoundInv, Fresh
  <2> QED BY <1>1, <1>2, <2>1 DEF SafeInv, BoundInv
<1>4. call.replaces = 0
  BY DEF SafeInv, CallInv, BoundInv
<1>5. ShownInv'
  <2>1. \A b \in Stored : b.id # 0 BY MemberTypes
  <2> QED BY <1>4, <2>1 DEF SafeInv, ShownInv
<1> QED BY <1>3, <1>5

(* its binding,                                                            *)
LEMMA SafeRemember == ASSUME TInv, SafeInv, Remember PROVE SafeInv'
<1>1. /\ UNCHANGED <<shown, session, used, acted, actions, channel>>
      /\ phase = "reply" /\ phase' \in {"idle", "report"} /\ call' = NoCall
  BY DEF Remember, serverVars, listenerVars
<1>2. Emitted' = Emitted /\ Serving /\ ~Serving'
  BY <1>1 DEF Emitted, Serving
<1>3. ActedInv' BY <1>1 DEF SafeInv, ActedInv
<1>4. EventInv' BY <1>1, <1>2 DEF SafeInv, EventInv
<1>5. ReplyInv' /\ WorkInv' /\ CallInv'
  BY <1>1, <1>2 DEF ReplyInv, WorkInv, CallInv, NoCall
<1>6. CASE call.content.subject = Pressure
  <2>1. Stored' = Stored BY <1>6 DEF Remember, Stored
  <2> QED BY <1>1, <1>2, <1>3, <1>4, <1>5, <1>6, <2>1, PressureEnds DEF SafeInv
<1>7. CASE call.content.subject # Pressure
  <2>1. \A c \in Stored' : \/ c = NewBinding
                           \/ c \in Stored /\ c.id # reply.id /\ c.id # call.replaces
    BY <1>7, RememberBindings DEF Stored
  <2>2. NewBinding.id = reply.id /\ NewBinding.content = call.content
        /\ NewBinding.session = reply.session
    BY DEF NewBinding
  <2>3. \A i, s : Fresh(i, s)' <=> Fresh(i, s) BY <1>1 DEF Fresh
  <2>4. BoundInv'
    <3> SUFFICES ASSUME NEW b \in Stored'
                 PROVE  /\ Fresh(b.id, b.session)' /\ b.content.subject # Pressure
                        /\ \A e \in Emitted : e.id = b.id =>
                              \/ e.session < b.session
                              \/ e.session = b.session /\ e.about.subject = b.content.subject
                        /\ b.id \in DOMAIN shown /\ shown[b.id].subject # Pressure =>
                              b.session = session /\ shown[b.id].subject = b.content.subject
      BY <1>1, <1>2 DEF BoundInv
    <3>1. CASE b = NewBinding
      <4>1. Fresh(b.id, b.session)' /\ b.content.subject # Pressure
        BY <1>2, <1>7, <2>2, <2>3, <3>1 DEF SafeInv, ReplyInv
      <4>2. ASSUME NEW e \in Emitted, e.id = b.id
            PROVE  \/ e.session < b.session
                   \/ e.session = b.session /\ e.about.subject = b.content.subject
        <5>1. e.session <= b.session /\ e.session \in Nat /\ b.session \in Nat
          BY <1>1, <1>2, <2>2, <3>1, MemberTypes DEF SafeInv, ReplyInv
        <5>2. e.session = b.session => e.about.subject = b.content.subject
          BY <1>2, <2>2, <3>1, <4>2 DEF SafeInv, ReplyInv
        <5> QED BY <5>1, <5>2
      <4>3. b.id \in DOMAIN shown => b.session = session /\ shown[b.id] = b.content
        BY <1>2, <2>2, <3>1 DEF SafeInv, ReplyInv
      <4> QED BY <4>1, <4>2, <4>3
    <3>2. CASE b \in Stored /\ b.id # reply.id
      <4>1. \A s : ~JustServed(b.id, s) BY <3>2 DEF JustServed
      <4> QED BY <2>3, <3>2, <4>1 DEF SafeInv, BoundInv
    <3> QED BY <2>1, <3>1, <3>2
  <2>5. ShownInv'
    BY <1>1, <1>2, <2>1, <2>2 DEF SafeInv, ShownInv, ReplyInv
  <2> QED BY <1>3, <1>4, <1>5, <2>4, <2>5 DEF SafeInv
<1> QED BY <1>6, <1>7

(* a Notify that fails,                                                    *)
LEMMA SafeNotifyFails == ASSUME TInv, SafeInv, NotifyFails PROVE SafeInv'
<1>1. /\ UNCHANGED <<shown, session, used, acted, channel>> /\ actions' = <<>>
      /\ phase' = "idle" /\ call' = NoCall
  BY DEF NotifyFails, Disconnect
<1>2. Emitted' \subseteq Emitted /\ ~Serving'
  BY <1>1, TakenOff DEF Serving
<1>3. ActedInv' BY <1>1 DEF SafeInv, ActedInv
<1>4. EventInv' BY <1>1, <1>2 DEF SafeInv, EventInv
<1>5. ReplyInv' /\ WorkInv' /\ CallInv'
  BY <1>1, <1>2 DEF ReplyInv, WorkInv, CallInv, NoCall
<1>6. BoundInv' /\ ShownInv'
  <2>1. CASE call.content.subject = Pressure
    <3>1. Stored' = Stored BY <2>1 DEF NotifyFails, AfterFailure, Stored
    <3> QED BY <1>1, <1>2, <2>1, <3>1, PressureEnds
  <2>2. CASE call.content.subject # Pressure
    <3>1. Stored' = {} BY <2>2, EmptyOK DEF NotifyFails, AfterFailure, Stored, TInv, LoopOK, BindingsOK
    <3> QED BY <3>1 DEF BoundInv, ShownInv
  <2> QED BY <2>1, <2>2
<1> QED BY <1>3, <1>4, <1>5, <1>6 DEF SafeInv

(* The handlers run while no call is under way.                            *)
LEMMA Handling ==
    ASSUME TInv, SafeInv, phase = "idle", phase' \in {"idle", "notify", "close", "act"},
           UNCHANGED <<shown, session, used, acted, reply>>,
           Emitted' \subseteq Emitted, Stored' \subseteq Stored
    PROVE  ActedInv' /\ EventInv' /\ BoundInv' /\ ReplyInv' /\ ShownInv'
<1>1. ~Serving /\ ~Serving' BY DEF Serving
<1>2. call.replaces = 0 BY DEF SafeInv, CallInv, NoCall
<1> QED BY <1>1, <1>2, NothingNew

(* The details of a group carry the only button that stops it.             *)
LEMMA ExecuteMatches ==
    ASSUME NEW event \in ActionEvent, NEW content \in Content,
           event.key \in Buttons(event.about), event.about.subject = content.subject,
           Permitted(content, event.key)
    PROVE  Matches(event, content)
<1> SUFFICES ASSUME event.key = "stop_group" PROVE event.about = content
  BY DEF Matches
<1>1. content.subject \in Groups /\ content.view = "details" BY DEF Permitted
<1>2. event.about \in Content BY DEF ActionEvent
<1>3. event.about.view # "summary" BY <1>1 DEF Buttons
<1>4. event.about.view = "details" BY <1>2, <1>3 DEF Content, Views
<1> QED BY <1>1, <1>2, <1>4 DEF Content

(* a click that is handled: the one way to an action,                      *)
LEMMA SafeHandleAction == ASSUME TInv, SafeInv, HandleAction PROVE SafeInv'
<1> DEFINE event == Head(channel)
           id == event.id
<1>1. /\ channel # <<>> /\ event.type = "action" /\ phase = "idle"
      /\ UNCHANGED <<shown, session, used, acted, reply, actions>> /\ channel' = Tail(channel)
      /\ call = NoCall
  BY DEF HandleAction, serverVars, SafeInv, CallInv
<1>2. Emitted' \subseteq Emitted BY <1>1, TakenOff
<1>3. event \in Emitted /\ event \in ActionEvent
  BY <1>1, EventTypes DEF Emitted, Members
<1>4. Stored' = Stored \/ Stored' = {b \in Stored : b.id # id}
  BY TInvRemoved DEF HandleAction, Execute, Stored
<1>5. phase' \in {"idle", "notify", "close", "act"}
  BY <1>1 DEF HandleAction, Ask, Execute
<1>6. ActedInv' /\ EventInv' /\ BoundInv' /\ ReplyInv' /\ ShownInv'
  BY <1>1, <1>2, <1>4, <1>5, Handling
<1>7. CASE phase' = "idle" /\ call' = NoCall
  <2>1. CallInv' /\ WorkInv' BY <1>7 DEF CallInv, WorkInv, NoCall
  <2> QED BY <1>6, <2>1 DEF SafeInv
<1>8. CASE /\ Plan(id, event.key) = "navigate"
           /\ Ask(NextContent(BindingOf(id).content), id)
           /\ UNCHANGED <<bindings, work>>
  <2>1. Bound(id) BY <1>8 DEF Plan
  <2>2. BindingOf(id) \in Stored /\ BindingOf(id).id = id /\ BindingOf(id).content \in Content
    BY <2>1, BindingOfTypes DEF Stored, Binding
  <2>3. NextContent(BindingOf(id).content).subject = BindingOf(id).content.subject
    BY <2>2 DEF NextContent, Content
  <2>4. Stored' = Stored BY <1>8 DEF Stored
  <2>5. phase' = "notify" /\ call'.replaces = id
        /\ call'.content = NextContent(BindingOf(id).content)
    BY <1>8 DEF Ask
  <2>6. CallInv' /\ WorkInv'
    BY <2>2, <2>3, <2>4, <2>5 DEF CallInv, WorkInv
  <2> QED BY <1>6, <2>6 DEF SafeInv
<1>9. CASE Plan(id, event.key) = "execute" /\ Execute(event) /\ UNCHANGED call
  <2> DEFINE b == BindingOf(id)
  <2>1. Bound(id) /\ Permitted(b.content, event.key) BY <1>9 DEF Plan
  <2>2. b \in Stored /\ b.id = id /\ b.content \in Content
    BY <2>1, BindingOfTypes DEF Stored, Binding
  <2>3. work'.event = event /\ work'.binding = b /\ phase' \in {"close", "act"}
    BY <1>9 DEF Execute
  <2>4. Stored' = {c \in Stored : c.id # id}
    BY <1>9, TInvRemoved DEF Execute, Stored
  <2> HIDE DEF b
  <2>5. event.session = b.session => Matches(event, b.content)
    <3> SUFFICES ASSUME event.session = b.session PROVE Matches(event, b.content)
      OBVIOUS
    <3>1. event.about.subject = b.content.subject
      <4>1. ~JustServed(event.id, event.session) BY <1>1 DEF JustServed, Serving
      <4>2. ~(event.session < b.session) BY <2>2, MemberTypes
      <4> QED BY <1>3, <2>2, <4>1, <4>2 DEF SafeInv, BoundInv
    <3>2. event.key \in Buttons(event.about) BY <1>3 DEF SafeInv, EventInv
    <3> QED BY <1>3, <2>1, <2>2, <3>1, <3>2, ExecuteMatches
  <2>6. Fresh(b.id, b.session) BY <2>2 DEF SafeInv, BoundInv
  <2>7. WorkInv'
    BY <1>1, <2>2, <2>3, <2>4, <2>5, <2>6 DEF WorkInv, Fresh
  <2>8. CallInv' BY <1>1, <1>9 DEF CallInv, NoCall
  <2> QED BY <1>6, <2>7, <2>8 DEF SafeInv
<1> QED BY <1>1, <1>7, <1>8, <1>9 DEF HandleAction

(* the other events,                                                       *)
LEMMA SafeHandleOthers == ASSUME TInv, SafeInv, HandleClosed \/ HandleFailed PROVE SafeInv'
<1>1. /\ phase = "idle" /\ UNCHANGED <<shown, session, used, acted, reply, phase, call>>
      /\ channel # <<>> /\ channel' = Tail(channel)
      /\ actions' = actions \/ actions' = <<>>
      /\ call = NoCall
  BY DEF HandleClosed, HandleFailed, Disconnect, serverVars, SafeInv, CallInv
<1>2. Emitted' \subseteq Emitted BY <1>1, TakenOff
<1>3. Stored' \subseteq Stored
  <2>1. bindings' = Empty(bindings.capacity) \/ \E id : bindings' = Removed(bindings, id)
    BY DEF HandleClosed, HandleFailed
  <2>2. bindings.capacity \in Capacities BY DEF TInv, LoopOK, BindingsOK
  <2> QED BY <2>1, <2>2, EmptyOK, TInvRemoved DEF Stored
<1>4. CallInv' /\ WorkInv' BY <1>1 DEF CallInv, WorkInv, NoCall
<1> QED BY <1>1, <1>2, <1>3, <1>4, Handling DEF SafeInv

(* and the action itself.                                                  *)
LEMMA SafeAct == ASSUME TInv, SafeInv, Act PROVE SafeInv'
<1> DEFINE pair == <<work.binding.session, work.event.id>>
<1>1. /\ UNCHANGED <<shown, session, used, reply, bindings, call, actions, channel>>
      /\ phase = "act" /\ phase' = "idle" /\ acted' = acted \cup {pair}
  BY DEF Act, serverVars, listenerVars
<1>2. /\ Fresh(work.binding.id, work.binding.session) /\ work.event.id = work.binding.id
      /\ \A b \in Stored : b.id # work.event.id
  BY <1>1 DEF SafeInv, WorkInv
<1>3. Emitted' = Emitted /\ Stored' = Stored /\ ~Serving /\ ~Serving'
  BY <1>1 DEF Emitted, Stored, Serving
<1>4. ActedInv' BY <1>1, <1>2 DEF SafeInv, ActedInv, Fresh
<1>5. EventInv' BY <1>1, <1>3 DEF SafeInv, EventInv
<1>6. \A b \in Stored : Fresh(b.id, b.session)'
  BY <1>1, <1>2 DEF SafeInv, BoundInv, Fresh
<1>7. BoundInv' BY <1>1, <1>3, <1>6 DEF SafeInv, BoundInv, JustServed
<1>8. ReplyInv' /\ WorkInv' BY <1>1, <1>3 DEF ReplyInv, WorkInv
<1>9. ShownInv' /\ CallInv' BY <1>1, <1>3 DEF SafeInv, ShownInv, CallInv
<1> QED BY <1>4, <1>5, <1>7, <1>8, <1>9 DEF SafeInv

LEMMA SafeInit == NotificationsInit => SafeInv
<1> SUFFICES ASSUME NotificationsInit PROVE SafeInv
  OBVIOUS
<1>1. Emitted = {} /\ Stored = {} /\ acted = {} /\ phase = "idle" /\ call = NoCall
  BY EmptyOK DEF NotificationsInit, Emitted, Stored, Members
<1> QED BY <1>1 DEF SafeInv, ActedInv, EventInv, BoundInv, ReplyInv, ShownInv, CallInv,
     WorkInv, Serving, NoCall

LEMMA SafeStep == TInv /\ SafeInv /\ [Next]_vars => SafeInv'
<1> SUFFICES ASSUME TInv, SafeInv, [Next]_vars PROVE SafeInv'
  OBVIOUS
<1>1. CASE UNCHANGED vars
  <2>1. UNCHANGED <<shown, session, used, acted, reply, bindings, phase, call, work,
                    actions, channel>>
    BY <1>1 DEF vars, serverVars, listenerVars, loopVars
  <2>2. Emitted' = Emitted /\ Stored' = Stored /\ (Serving' <=> Serving)
    BY <2>1 DEF Emitted, Stored, Serving
  <2>3. call.replaces \in {0, call'.replaces} BY <2>1
  <2> QED BY <2>1, <2>2, <2>3, NothingNew, LoopUntouched DEF SafeInv
<1>2. CASE Next
  BY <1>2, SafeClick, SafeClosing, SafeRestart, SafeServe, SafeListener, SafeReports,
     SafeRemember, SafeNotifyFails, SafeHandleAction, SafeHandleOthers, SafeAct DEF Next
<1> QED BY <1>1, <1>2

-----------------------------------------------------------------------------
(* The types hold throughout, and the channel never exceeds its capacity.  *)
THEOREM NotificationsTypes == NotificationsSpec => []NotificationsTypeOK
BY TInvInit, TInvStep, TypesFollow, PTL DEF NotificationsSpec

(* However ids are reused and buttons pressed, the map of bindings and the *)
(* order they would be evicted in name the same ids, the order each once,  *)
(* and they are never more than the capacity.                              *)
THEOREM BindingsStayBounded == NotificationsSpec => []BindingsBounded
BY TInvInit, TInvStep, TypesFollow, PTL DEF NotificationsSpec

(* An action is performed on the subject that was clicked, a group's stop  *)
(* only from the details the click was made in.                            *)
THEOREM ActsRightly == NotificationsSpec => []ActsOnShown
<1>1. SafeInv => ActsOnShown BY DEF SafeInv, WorkInv, Matches, ActsOnShown
<1> QED BY TInvInit, TInvStep, SafeInit, SafeStep, <1>1, PTL DEF NotificationsSpec

(* A notification is acted on once, however the clicks on it are delayed.  *)
THEOREM ActsNoMore == NotificationsSpec => []ActsOnce
<1>1. TInv /\ SafeInv => ActsOnce
  <2> SUFFICES ASSUME TInv, SafeInv, phase = "act",
                      <<work.binding.session, work.event.id>> \in acted
               PROVE  FALSE
    BY DEF ActsOnce
  <2>1. Fresh(work.event.id, work.binding.session)
    BY DEF SafeInv, WorkInv
  <2>2. work.binding.session < work.binding.session
    BY <2>1 DEF Fresh
  <2>3. work.binding.session \in Nat
    BY NotificationsAssumption DEF TInv, LoopOK, Binding
  <2> QED BY <2>2, <2>3
<1> QED BY TInvInit, TInvStep, SafeInit, SafeStep, <1>1, PTL DEF NotificationsSpec

(* A binding of the running session says what its notification shows.      *)
THEOREM BindingsShown == NotificationsSpec => []BindingIsShown
<1>1. TInv /\ SafeInv => BindingIsShown
  BY DEF TInv, LoopOK, BindingsOK, SafeInv, ShownInv, BindingIsShown, BindingOf, Stored, Values
<1> QED BY TInvInit, TInvStep, SafeInit, SafeStep, <1>1, PTL DEF NotificationsSpec
=============================================================================
