----------------------------- MODULE CldpProofs -----------------------------
(***************************************************************************)
(* Proofs about Cldp, for any servers, any memory and any number of        *)
(* requests: the lists of the client stay well-formed.                     *)
(*                                                                         *)
(* What Without computes is proved by induction over a set of numbers; its *)
(* principle follows from the library's theorem that < is well-founded.    *)
(***************************************************************************)
EXTENDS Cldp, SequenceTheorems, WellFoundedInduction, TLAPS

-----------------------------------------------------------------------------
(* Induction *)

LEMMA LeastNat ==
    ASSUME NEW T \in SUBSET Nat, T # {}
    PROVE  \E m \in T : \A k \in T : ~ (k < m)
<1> DEFINE R == OpToRel(<, Nat)
<1>1. IsWellFoundedOn(R, Nat)
  BY NatLessThanWellFounded
<1>2. \A i, j \in Nat : <<i, j>> \in R <=> i < j
  BY DEF OpToRel
<1> HIDE DEF R
<1>3. PICK m \in T : \A k \in T : ~ (<<k, m>> \in R)
  BY <1>1, WFMin
<1> QED BY <1>2, <1>3

\* A set that has 0, and with every number the next, has them all.
LEMMA SetInduction ==
    ASSUME NEW S, 0 \in S, \A n \in Nat : n \in S => n + 1 \in S
    PROVE  Nat \subseteq S
<1> SUFFICES ASSUME {n \in Nat : n \notin S} # {} PROVE FALSE
  OBVIOUS
<1>1. PICK m \in {n \in Nat : n \notin S} : \A k \in {n \in Nat : n \notin S} : ~(k < m)
  BY LeastNat
<1>2. m # 0 /\ m - 1 \in Nat /\ m - 1 < m
  BY <1>1
<1> QED BY <1>1, <1>2

-----------------------------------------------------------------------------
(* A list without some of its nodes *)

\* What Without builds from the first k elements of the list.
Step(list, nodes, from, k) ==
    IF k = 0 THEN <<>>
    ELSE IF list[k] \in nodes THEN from[k - 1] ELSE Append(from[k - 1], list[k])

Builds(list, nodes, n, from) == from = [k \in 0 .. n |-> Step(list, nodes, from, k)]

LEMMA BuildExists ==
    ASSUME NEW list, NEW nodes
    PROVE  \A n \in Nat : \E from : Builds(list, nodes, n, from)
<1> DEFINE S == {n \in Nat : \E from : Builds(list, nodes, n, from)}
<1>1. 0 \in S
  <2>1. Builds(list, nodes, 0, [k \in 0 .. 0 |-> <<>>])
    BY DEF Builds, Step
  <2> QED BY <2>1
<1>2. ASSUME NEW n \in Nat, n \in S
      PROVE  n + 1 \in S
  <2>1. PICK from : Builds(list, nodes, n, from)
    BY <1>2
  <2> DEFINE next == [k \in 0 .. n + 1 |->
                        IF k \in 0 .. n THEN from[k] ELSE Step(list, nodes, from, n + 1)]
  <2>2. ASSUME NEW k \in 0 .. n + 1
        PROVE  next[k] = Step(list, nodes, next, k)
    <3>1. k # 0 => next[k - 1] = from[k - 1]
      OBVIOUS
    <3>2. k \in 0 .. n => from[k] = Step(list, nodes, from, k)
      BY <2>1 DEF Builds
    <3>3. k \notin 0 .. n => k = n + 1
      OBVIOUS
    <3> QED BY <3>1, <3>2, <3>3 DEF Step
  <2>3. Builds(list, nodes, n + 1, next)
    BY <2>2 DEF Builds
  <2> QED BY <2>3
<1> HIDE DEF S
<1>3. Nat \subseteq S
  BY <1>1, <1>2, SetInduction
<1> QED BY <1>3 DEF S

LEMMA WithoutBuilds ==
    ASSUME NEW H, NEW list \in Seq(H), NEW nodes
    PROVE  \E from : Builds(list, nodes, Len(list), from) /\ Without(list, nodes) = from[Len(list)]
<1> DEFINE f == CHOOSE f : f = [k \in 0 .. Len(list) |-> Step(list, nodes, f, k)]
<1>1. Len(list) \in Nat
  BY LenProperties
<1>2. PICK from : Builds(list, nodes, Len(list), from)
  BY <1>1, BuildExists
<1>3. f = [k \in 0 .. Len(list) |-> Step(list, nodes, f, k)]
  BY <1>2 DEF Builds
<1>4. Without(list, nodes) = f[Len(list)]
  BY DEF Without, Step
<1> QED BY <1>3, <1>4 DEF Builds

\* w is list without nodes, as far as k: at position a it has that of list at h[a].
Embeds(list, nodes, k, w, h) ==
    /\ h \in [1 .. Len(w) -> 1 .. k]
    /\ \A a, b \in 1 .. Len(w) : a < b => h[a] < h[b]
    /\ \A a \in 1 .. Len(w) : w[a] = list[h[a]] /\ w[a] \notin nodes
    /\ \A j \in 1 .. k : list[j] \notin nodes => \E a \in 1 .. Len(w) : h[a] = j

LEMMA BuiltEmbeds ==
    ASSUME NEW H, NEW list \in Seq(H), NEW nodes,
           NEW from, Builds(list, nodes, Len(list), from)
    PROVE  \A k \in 0 .. Len(list) :
              from[k] \in Seq(H) /\ \E h : Embeds(list, nodes, k, from[k], h)
<1>1. /\ Len(list) \in Nat /\ DOMAIN list = 1 .. Len(list)
      /\ \A k \in 1 .. Len(list) : list[k] \in H
  BY LenProperties, ElementOfSeq
<1>2. \A k \in 0 .. Len(list) : from[k] = Step(list, nodes, from, k)
  BY DEF Builds
<1> DEFINE Good(k) == from[k] \in Seq(H) /\ \E h : Embeds(list, nodes, k, from[k], h)
           S == {k \in Nat : k <= Len(list) => Good(k)}
<1>3. 0 \in S
  <2>1. from[0] = <<>> /\ <<>> \in Seq(H) /\ Len(<<>>) = 0
    BY <1>1, <1>2, EmptySeq DEF Step
  <2>2. Embeds(list, nodes, 0, <<>>, [a \in 1 .. 0 |-> 0])
    BY <2>1 DEF Embeds
  <2> QED BY <2>1, <2>2
<1>4. ASSUME NEW k \in Nat, k \in S
      PROVE  k + 1 \in S
  <2> SUFFICES ASSUME k + 1 <= Len(list) PROVE Good(k + 1)
    OBVIOUS
  <2>0. PICK w \in Seq(H) : w = from[k] /\ \E h : Embeds(list, nodes, k, w, h)
    BY <1>1, <1>4
  <2>1. PICK h : w = from[k] /\ Embeds(list, nodes, k, w, h)
    BY <2>0
  <2>2. from[k + 1] = IF list[k + 1] \in nodes THEN w ELSE Append(w, list[k + 1])
    BY <1>1, <1>2, <2>1 DEF Step
  <2>3. Len(w) \in Nat
    BY LenProperties
  <2>4. CASE list[k + 1] \in nodes
    <3>1. Embeds(list, nodes, k + 1, w, h)
      <4>1. PICK n \in Nat : n = Len(w)
        BY <2>3
      <4>2. /\ h \in [1 .. n -> 1 .. k]
            /\ \A i, j \in 1 .. n : i < j => h[i] < h[j]
            /\ \A i \in 1 .. n : w[i] = list[h[i]] /\ w[i] \notin nodes
            /\ \A j \in 1 .. k : list[j] \notin nodes => \E i \in 1 .. n : h[i] = j
        BY <2>1, <4>1 DEF Embeds
      <4>3. 1 .. k \subseteq 1 .. k + 1
        OBVIOUS
      <4>4. h \in [1 .. n -> 1 .. k + 1]
        BY <4>2, <4>3
      <4>5. \A j \in 1 .. k + 1 : j \in 1 .. k \/ j = k + 1
        OBVIOUS
      <4>6. \A j \in 1 .. k + 1 : list[j] \notin nodes => \E i \in 1 .. n : h[i] = j
        BY <2>4, <4>2, <4>5
      <4> QED BY <4>1, <4>2, <4>4, <4>6 DEF Embeds
    <3> QED BY <2>2, <2>4, <3>1
  <2>5. CASE list[k + 1] \notin nodes
    <3> DEFINE g == [a \in 1 .. Len(w) + 1 |-> IF a <= Len(w) THEN h[a] ELSE k + 1]
    <3>1. PICK x \in H : x = list[k + 1]
      BY <1>1
    <3>2. PICK v \in Seq(H) :
            /\ v = Append(w, x) /\ Len(v) = Len(w) + 1
            /\ \A a \in 1 .. Len(w) : v[a] = w[a]
            /\ v[Len(w) + 1] = x
      BY AppendProperties
    <3>3. g \in [1 .. Len(v) -> 1 .. k + 1]
      BY <2>1, <2>3, <3>2 DEF Embeds
    <3>4. ASSUME NEW a \in 1 .. Len(v), NEW b \in 1 .. Len(v), a < b
          PROVE  g[a] < g[b]
      <4>1. PICK n \in Nat : n = Len(w) /\ a \in 1 .. n + 1 /\ b \in 1 .. n + 1
        BY <2>3, <3>2
      <4>2. a \in 1 .. n /\ (b \in 1 .. n \/ b = n + 1)
        BY <3>4, <4>1
      <4>3. h \in [1 .. n -> 1 .. k] /\ (b \in 1 .. n => h[a] < h[b])
        BY <2>1, <3>4, <4>1, <4>2 DEF Embeds
      <4>4. g[a] = h[a] /\ g[b] = IF b \in 1 .. n THEN h[b] ELSE k + 1
        BY <4>1, <4>2
      <4>5. h[a] \in 1 .. k
        BY <4>2, <4>3
      <4> HIDE DEF g
      <4> QED BY <4>2, <4>3, <4>4, <4>5
    <3>5. \A a \in 1 .. Len(v) : v[a] = list[g[a]] /\ v[a] \notin nodes
      BY <2>1, <2>3, <2>5, <3>1, <3>2 DEF Embeds
    <3>6. \A j \in 1 .. k + 1 : list[j] \notin nodes => \E a \in 1 .. Len(v) : g[a] = j
      <4>1. g[Len(v)] = k + 1 /\ Len(v) \in 1 .. Len(v)
        BY <2>3, <3>2
      <4>2. ASSUME NEW j \in 1 .. k, list[j] \notin nodes
            PROVE  \E a \in 1 .. Len(v) : g[a] = j
        <5>1. PICK a \in 1 .. Len(w) : h[a] = j
          BY <2>1, <4>2 DEF Embeds
        <5> QED BY <2>3, <3>2, <5>1
      <4>3. \A j \in 1 .. k + 1 : j \in 1 .. k \/ j = k + 1
        OBVIOUS
      <4> QED BY <4>1, <4>2, <4>3
    <3>7. Embeds(list, nodes, k + 1, v, g)
      BY <3>3, <3>4, <3>5, <3>6 DEF Embeds
    <3>8. from[k + 1] = v
      BY <2>2, <2>5, <3>1, <3>2
    <3> HIDE DEF g
    <3> QED BY <3>7, <3>8
  <2> QED BY <2>4, <2>5
<1>5. Nat \subseteq S
  <2> HIDE DEF S
  <2> QED BY <1>3, <1>4, SetInduction
<1> QED BY <1>1, <1>5

LEMMA WithoutEmbeds ==
    ASSUME NEW H, NEW list \in Seq(H), NEW nodes
    PROVE  /\ Without(list, nodes) \in Seq(H)
           /\ \E h : Embeds(list, nodes, Len(list), Without(list, nodes), h)
<1>1. PICK from : /\ Builds(list, nodes, Len(list), from)
                  /\ Without(list, nodes) = from[Len(list)]
  BY WithoutBuilds
<1>2. Len(list) \in 0 .. Len(list)
  BY LenProperties
<1> QED BY <1>1, <1>2, BuiltEmbeds

\* What is left is in the old order, each once, and is what was there without nodes.
IsLeft(list, nodes, w) ==
    /\ w \in Seq(Heap)
    /\ ToSet(w) = ToSet(list) \ nodes
    /\ IsInjective(list) => IsInjective(w)
    /\ \A a, b \in DOMAIN w : a < b =>
          \E i, j \in DOMAIN list : i < j /\ w[a] = list[i] /\ w[b] = list[j]

LEMMA WithoutProperties ==
    ASSUME NEW list \in Seq(Heap), NEW nodes, NEW w, w = Without(list, nodes)
    PROVE  IsLeft(list, nodes, w)
<1>1. PICK h : w \in Seq(Heap) /\ Embeds(list, nodes, Len(list), w, h)
  BY WithoutEmbeds
<1>2. /\ DOMAIN w = 1 .. Len(w) /\ Len(w) \in Nat
      /\ DOMAIN list = 1 .. Len(list) /\ Len(list) \in Nat
  BY <1>1, LenProperties
<1>3. \A a \in DOMAIN w : h[a] \in DOMAIN list /\ w[a] = list[h[a]] /\ w[a] \notin nodes
  BY <1>1, <1>2 DEF Embeds
<1>4. \A a, b \in DOMAIN w : a < b => h[a] < h[b]
  BY <1>1, <1>2 DEF Embeds
<1>5. ToSet(w) \subseteq ToSet(list) \ nodes
  BY <1>3 DEF ToSet
<1>6. ToSet(list) \ nodes \subseteq ToSet(w)
  <2> SUFFICES ASSUME NEW j \in DOMAIN list, list[j] \notin nodes
               PROVE  \E a \in DOMAIN w : w[a] = list[j]
    BY DEF ToSet
  <2>1. PICK a \in DOMAIN w : h[a] = j
    BY <1>1, <1>2 DEF Embeds
  <2> QED BY <1>3, <2>1
<1>7. IsInjective(list) => IsInjective(w)
  <2> SUFFICES ASSUME IsInjective(list), NEW a \in DOMAIN w, NEW b \in DOMAIN w,
                      w[a] = w[b], a # b
               PROVE  FALSE
    BY DEF IsInjective
  <2>1. h[a] = h[b]
    BY <1>3 DEF IsInjective
  <2>2. h[a] # h[b]
    <3>1. a < b \/ b < a
      BY <1>2
    <3>2. h[a] \in Nat /\ h[b] \in Nat
      BY <1>2, <1>3
    <3> QED BY <1>4, <3>1, <3>2
  <2> QED BY <2>1, <2>2
<1> QED BY <1>1, <1>3, <1>4, <1>5, <1>6, <1>7 DEF IsLeft

-----------------------------------------------------------------------------
(* Lists that grow at an end *)

HasFirst(list, n, w) ==
    /\ w \in Seq(Heap) /\ ToSet(w) = ToSet(list) \cup {n}
    /\ DOMAIN w = 1 .. Len(list) + 1 /\ w[1] = n
    /\ \A i \in 2 .. Len(list) + 1 : i - 1 \in DOMAIN list /\ w[i] = list[i - 1]
    /\ n \notin ToSet(list) /\ IsInjective(list) => IsInjective(w)

LEMMA Prepended ==
    ASSUME NEW list \in Seq(Heap), NEW n \in Heap, NEW w, w = <<n>> \o list
    PROVE  HasFirst(list, n, w)
<1>1. DOMAIN list = 1 .. Len(list) /\ Len(list) \in Nat
  BY LenProperties
<1>2. /\ w \in Seq(Heap) /\ DOMAIN w = 1 .. Len(list) + 1 /\ w[1] = n
      /\ \A i \in 2 .. Len(list) + 1 : w[i] = list[i - 1]
  <2>1. <<n>> \in Seq(Heap) /\ Len(<<n>>) = 1 /\ <<n>>[1] = n
    OBVIOUS
  <2>2. /\ w \in Seq(Heap) /\ Len(w) = 1 + Len(list)
        /\ \A i \in 1 .. 1 + Len(list) : w[i] = IF i <= 1 THEN <<n>>[i] ELSE list[i - 1]
    BY <2>1, ConcatProperties
  <2>3. DOMAIN w = 1 .. Len(w)
    BY <2>2, LenProperties
  <2> QED BY <1>1, <2>1, <2>2, <2>3
<1>3. \A i \in 2 .. Len(list) + 1 : i - 1 \in DOMAIN list
  BY <1>1
<1>4. \A i \in DOMAIN w : i = 1 \/ i \in 2 .. Len(list) + 1
  BY <1>1, <1>2
<1>5. \A i \in DOMAIN list : i + 1 \in DOMAIN w /\ w[i + 1] = list[i]
  <2> TAKE i \in DOMAIN list
  <2>1. i + 1 \in 2 .. Len(list) + 1 /\ (i + 1) - 1 = i /\ i + 1 \in 1 .. Len(list) + 1
    BY <1>1
  <2> QED BY <1>2, <2>1
<1>6. ToSet(w) = ToSet(list) \cup {n}
  <2>1. ToSet(w) \subseteq ToSet(list) \cup {n}
    BY <1>2, <1>3, <1>4 DEF ToSet
  <2>2. n \in ToSet(w)
    <3>1. 1 \in DOMAIN w
      BY <1>1, <1>2
    <3> QED BY <1>2, <3>1 DEF ToSet
  <2>3. ToSet(list) \subseteq ToSet(w)
    BY <1>5 DEF ToSet
  <2> QED BY <2>1, <2>2, <2>3
<1>7. n \notin ToSet(list) /\ IsInjective(list) => IsInjective(w)
  <2> SUFFICES ASSUME n \notin ToSet(list), IsInjective(list),
                      NEW i \in DOMAIN w, NEW j \in DOMAIN w, w[i] = w[j]
               PROVE  i = j
    BY DEF IsInjective
  <2>1. \A k \in 2 .. Len(list) + 1 : w[k] \in ToSet(list)
    BY <1>2, <1>3 DEF ToSet
  <2>2. CASE i = 1 \/ j = 1
    BY <1>2, <1>4, <2>1, <2>2
  <2>3. CASE i # 1 /\ j # 1
    <3>1. i \in 2 .. Len(list) + 1 /\ j \in 2 .. Len(list) + 1
      BY <1>4, <2>3
    <3>2. i - 1 = j - 1
      BY <1>2, <1>3, <3>1 DEF IsInjective
    <3> QED BY <1>1, <3>1, <3>2
  <2> QED BY <2>2, <2>3
<1> QED BY <1>2, <1>3, <1>6, <1>7 DEF HasFirst

HasLast(list, n, w) ==
    /\ w \in Seq(Heap) /\ ToSet(w) = ToSet(list) \cup {n}
    /\ DOMAIN w = 1 .. Len(list) + 1 /\ w[Len(list) + 1] = n
    /\ \A i \in DOMAIN list : i \in DOMAIN w /\ w[i] = list[i]
    /\ \A i \in DOMAIN w : i = Len(list) + 1 \/ i \in DOMAIN list
    /\ n \notin ToSet(list) /\ IsInjective(list) => IsInjective(w)

LEMMA Appended ==
    ASSUME NEW list \in Seq(Heap), NEW n \in Heap, NEW w, w = Append(list, n)
    PROVE  HasLast(list, n, w)
<1>1. DOMAIN list = 1 .. Len(list) /\ Len(list) \in Nat
  BY LenProperties
<1>2. /\ w \in Seq(Heap) /\ DOMAIN w = 1 .. Len(list) + 1 /\ w[Len(list) + 1] = n
      /\ \A i \in 1 .. Len(list) : w[i] = list[i]
  <2>1. /\ w \in Seq(Heap) /\ Len(w) = Len(list) + 1 /\ w[Len(list) + 1] = n
        /\ \A i \in 1 .. Len(list) : w[i] = list[i]
    BY AppendProperties
  <2>2. DOMAIN w = 1 .. Len(w)
    BY <2>1, LenProperties
  <2> QED BY <2>1, <2>2
<1>3. \A i \in DOMAIN list : i \in DOMAIN w /\ w[i] = list[i]
  BY <1>1, <1>2
<1>4. \A i \in DOMAIN w : i = Len(list) + 1 \/ i \in DOMAIN list
  BY <1>1, <1>2
<1>5. Len(list) + 1 \in DOMAIN w
  BY <1>1, <1>2
<1>6. ToSet(w) = ToSet(list) \cup {n}
  <2>1. ToSet(w) \subseteq ToSet(list) \cup {n}
    BY <1>2, <1>3, <1>4 DEF ToSet
  <2>2. n \in ToSet(w) /\ ToSet(list) \subseteq ToSet(w)
    BY <1>2, <1>3, <1>5 DEF ToSet
  <2> QED BY <2>1, <2>2
<1>7. n \notin ToSet(list) /\ IsInjective(list) => IsInjective(w)
  <2> SUFFICES ASSUME n \notin ToSet(list), IsInjective(list),
                      NEW i \in DOMAIN w, NEW j \in DOMAIN w, w[i] = w[j]
               PROVE  i = j
    BY DEF IsInjective
  <2>1. \A k \in DOMAIN list : w[k] \in ToSet(list)
    BY <1>3 DEF ToSet
  <2>2. CASE i \in DOMAIN list /\ j \in DOMAIN list
    BY <1>3, <2>2 DEF IsInjective
  <2>3. CASE i \notin DOMAIN list \/ j \notin DOMAIN list
    BY <1>2, <1>4, <2>1, <2>3
  <2> QED BY <2>2, <2>3
<1> QED BY <1>2, <1>3, <1>4, <1>6, <1>7 DEF HasLast

-----------------------------------------------------------------------------
(* The inductive invariant *)

\* No request has a number that has not been given out.
NumbersInv == \A n \in ToSet(idll_head) : mem[n].trans_id <= trans_id

\* Main works on a RESPONSE, and on a node; Query sends a request to a server.
ThreadsInv ==
    /\ m_pc \in {"check", "delete"} => packet \in Exchange
    /\ m_pc = "delete" => idNode \in Heap
    /\ q_pc = "send" => temp # NULL /\ request \in Heap

IInv == TypeOK /\ NodesLinked /\ OneEach /\ NumbersInv /\ ThreadsInv

LEMMA NodeKinds ==
    ASSUME TypeOK, NEW n \in Heap
    PROVE  /\ mem[n].kind = "free" <=> mem[n] = FreeNode
           /\ mem[n].kind = "server" => mem[n] \in ServerNodes
           /\ mem[n].kind = "id" => mem[n] \in IdNodes
BY DEF TypeOK, FreeNode, ServerNodes, IdNodes

LEMMA ListTypes ==
    ASSUME TypeOK
    PROVE  /\ ToSet(server_head) \subseteq Heap /\ ToSet(idll_head) \subseteq Heap
           /\ \A i \in DOMAIN server_head : server_head[i] \in ToSet(server_head)
           /\ \A i \in DOMAIN idll_head : idll_head[i] \in ToSet(idll_head)
<1>1. ASSUME NEW s \in Seq(Heap)
      PROVE  ToSet(s) \subseteq Heap /\ \A i \in DOMAIN s : s[i] \in ToSet(s)
  <2>1. DOMAIN s = 1 .. Len(s) /\ \A i \in 1 .. Len(s) : s[i] \in Heap
    BY LenProperties, ElementOfSeq
  <2> QED BY <2>1 DEF ToSet
<1> QED BY <1>1 DEF TypeOK

LEMMA InitHolds == Init => IInv
<1> SUFFICES ASSUME Init PROVE IInv
  OBVIOUS
<1>1. ToSet(<<>>) = {} /\ <<>> \in Seq(Heap) /\ IsInjective(<<>>) /\ DOMAIN <<>> = {}
  BY EmptySeq DEF ToSet, IsInjective
<1>2. TypeOK
  BY <1>1 DEF Init, TypeOK, Ids
<1>3. NodesLinked
  BY <1>1 DEF Init, NodesLinked, FreeNode
<1>4. OneEach /\ NumbersInv /\ ThreadsInv
  BY <1>1 DEF Init, OneEach, NumbersInv, ThreadsInv
<1> QED BY <1>2, <1>3, <1>4 DEF IInv

-----------------------------------------------------------------------------
(* Steps that leave the lists alone *)

LEMMA ListsKept ==
    ASSUME IInv, UNCHANGED <<server_head, idll_head, trans_id>>, TypeOK',
           \A n \in Heap : /\ mem'[n].kind = mem[n].kind
                           /\ mem[n].kind = "server" => mem'[n].addr = mem[n].addr
                           /\ mem[n].kind = "id" => mem'[n] = mem[n],
           temp' # NULL => temp' \in ToSet(server_head)
    PROVE  NodesLinked' /\ OneEach' /\ NumbersInv'
<1>1. TypeOK /\ NodesLinked /\ OneEach /\ NumbersInv
  BY DEF IInv
<1>2. /\ ToSet(server_head) \subseteq Heap /\ ToSet(idll_head) \subseteq Heap
      /\ \A i \in DOMAIN server_head : server_head[i] \in ToSet(server_head)
      /\ \A i \in DOMAIN idll_head : idll_head[i] \in ToSet(idll_head)
  BY <1>1, ListTypes
<1>3. NodesLinked'
  BY <1>1, <1>2 DEF NodesLinked
<1>4. OneEach'
  BY <1>1, <1>2 DEF NodesLinked, OneEach
<1>5. NumbersInv'
  BY <1>1, <1>2 DEF NodesLinked, NumbersInv
<1> QED BY <1>3, <1>4, <1>5

LEMMA QuietStep ==
    ASSUME IInv, UNCHANGED lists, temp' = temp
    PROVE  NodesLinked' /\ OneEach' /\ NumbersInv'
BY DEF IInv, lists, NodesLinked, OneEach, NumbersInv

LEMMA ServerStep ==
    ASSUME IInv, NEW s \in Servers, Server(s)
    PROVE  IInv'
<1>1. TypeOK /\ ThreadsInv
  BY DEF IInv
<1>2. UNCHANGED <<lists, main, query>> /\ (network' \subseteq Packets) /\ up' \subseteq Servers
  <2>1. CASE StartOrStop(s)
    BY <1>1, <2>1 DEF StartOrStop, TypeOK
  <2>2. CASE Broadcast(s)
    BY <1>1, <2>2 DEF Broadcast, TypeOK, Packets
  <2>3. CASE Respond(s)
    <3>1. PICK p \in network :
            /\ p.type = "QUERY"
            /\ network' = (network \ {p}) \cup {[p EXCEPT !.type = "RESPONSE"]}
      BY <2>3 DEF Respond
    <3>2. p \in Exchange
      BY <1>1, <3>1 DEF TypeOK, Packets, HELLO
    <3>3. [p EXCEPT !.type = "RESPONSE"] \in Exchange
      BY <3>2 DEF Exchange
    <3> QED BY <1>1, <2>3, <3>1, <3>3 DEF Respond, TypeOK, Packets
  <2> QED BY <2>1, <2>2, <2>3 DEF Server
<1>3. TypeOK' /\ ThreadsInv'
  BY <1>1, <1>2 DEF TypeOK, ThreadsInv, lists, main, query
<1> QED BY <1>2, <1>3, QuietStep DEF IInv, query

LEMMA LoseStep ==
    ASSUME IInv, Lose
    PROVE  IInv'
<1>1. UNCHANGED <<up, lists, main, query>> /\ network' \subseteq network
  BY DEF Lose
<1>2. TypeOK' /\ ThreadsInv'
  BY <1>1 DEF IInv, TypeOK, ThreadsInv, lists, main, query
<1> QED BY <1>1, <1>2, QuietStep DEF IInv, query

LEMMA AgeStep ==
    ASSUME IInv, NEW s \in Servers, Age(s)
    PROVE  IInv'
<1>1. TypeOK /\ NodesLinked /\ ThreadsInv
  BY DEF IInv
<1>2. PICK n \in Heap : mem[n].kind = "server" /\ mem' = [mem EXCEPT ![n].stale = TRUE]
  BY <1>1, ListTypes DEF Age, Listed, NodesLinked
<1>3. UNCHANGED <<up, network, server_head, idll_head, trans_id, main, query>>
  BY DEF Age
<1>4. PICK v \in ServerNodes : v = mem[n]
  BY <1>1, <1>2, NodeKinds
<1>5. PICK u \in ServerNodes : u = [v EXCEPT !.stale = TRUE] /\ u.addr = v.addr
  <2>1. [v EXCEPT !.stale = TRUE] \in ServerNodes
    BY DEF ServerNodes
  <2>2. [v EXCEPT !.stale = TRUE].addr = v.addr
    BY DEF ServerNodes
  <2> QED BY <2>1, <2>2
<1>6. mem' = [mem EXCEPT ![n] = u]
  BY <1>1, <1>2, <1>4, <1>5 DEF TypeOK
<1>7. TypeOK' /\ ThreadsInv'
  BY <1>1, <1>3, <1>6 DEF TypeOK, ThreadsInv, main, query
<1>8. \A k \in Heap : mem'[k] = IF k = n THEN u ELSE mem[k]
  BY <1>1, <1>6 DEF TypeOK
<1>9. NodesLinked' /\ OneEach' /\ NumbersInv'
  <2>1. \A k \in Heap : /\ mem'[k].kind = mem[k].kind
                        /\ mem[k].kind = "server" => mem'[k].addr = mem[k].addr
                        /\ mem[k].kind = "id" => mem'[k] = mem[k]
    BY <1>2, <1>4, <1>5, <1>8 DEF ServerNodes
  <2>2. temp' # NULL => temp' \in ToSet(server_head)
    BY <1>1, <1>3 DEF NodesLinked, query
  <2> QED BY <1>3, <1>7, <2>1, <2>2, ListsKept
<1> QED BY <1>7, <1>9 DEF IInv

-----------------------------------------------------------------------------
(* Steps of main *)

LEMMA ResponseStep ==
    ASSUME IInv, ReceiveResponse
    PROVE  IInv'
<1>1. TypeOK /\ ThreadsInv
  BY DEF IInv
<1>2. PICK p \in network :
        /\ p.type = "RESPONSE" /\ network' = network \ {p} /\ packet' = p
        /\ idNode' = NULL \/ idNode' \in ToSet(idll_head)
  BY DEF ReceiveResponse
<1>3. m_pc' = "check" /\ UNCHANGED <<up, lists, query>>
  BY DEF ReceiveResponse
<1>4. p \in Exchange
  BY <1>1, <1>2 DEF TypeOK, Packets, HELLO
<1>5. TypeOK' /\ ThreadsInv'
  BY <1>1, <1>2, <1>3, <1>4, ListTypes DEF TypeOK, ThreadsInv, lists, query
<1> QED BY <1>3, <1>5, QuietStep DEF IInv, query

LEMMA CheckStep ==
    ASSUME IInv, Check
    PROVE  IInv'
<1>1. TypeOK /\ ThreadsInv
  BY DEF IInv
<1>2. /\ m_pc = "check" /\ UNCHANGED <<up, network, lists, query>>
      /\ \/ m_pc' = "receive" /\ packet' = NoPacket /\ idNode' = NULL
         \/ m_pc' \in {"crashed", "delete"} /\ idNode # NULL
            /\ UNCHANGED <<packet, idNode>>
  BY DEF Check, Malformed
<1>3. TypeOK' /\ ThreadsInv'
  BY <1>1, <1>2 DEF TypeOK, ThreadsInv, lists, query
<1> QED BY <1>2, <1>3, QuietStep DEF IInv, query

LEMMA HelloStep ==
    ASSUME IInv, NEW s \in Servers, ReceiveHello(s)
    PROVE  IInv'
<1>1. TypeOK /\ NodesLinked /\ OneEach /\ NumbersInv /\ ThreadsInv
  BY DEF IInv
<1>2. /\ network' \subseteq network
      /\ UNCHANGED <<up, idll_head, trans_id, main, query>>
  BY DEF ReceiveHello
<1>3. /\ ToSet(server_head) \subseteq Heap /\ ToSet(idll_head) \subseteq Heap
      /\ \A i \in DOMAIN server_head : server_head[i] \in ToSet(server_head)
      /\ \A i \in DOMAIN idll_head : idll_head[i] \in ToSet(idll_head)
  BY <1>1, ListTypes
<1>4. ThreadsInv'
  BY <1>1, <1>2 DEF ThreadsInv, main, query
<1>5. CASE /\ mem' = [n \in Heap |-> IF n \in Listed(s) THEN [mem[n] EXCEPT !.stale = FALSE]
                                     ELSE mem[n]]
           /\ UNCHANGED server_head
  <2>1. \A n \in Listed(s) : n \in Heap /\ mem[n].kind = "server" /\ mem[n] \in ServerNodes
    BY <1>1, <1>3, NodeKinds DEF Listed, NodesLinked
  <2>2. \A v \in ServerNodes : LET u == [v EXCEPT !.stale = FALSE]
                               IN  u \in ServerNodes /\ u.addr = v.addr /\ u.kind = "server"
    BY DEF ServerNodes
  <2>3. \A n \in Heap : /\ mem'[n] \in {FreeNode} \cup ServerNodes \cup IdNodes
                        /\ mem'[n].kind = mem[n].kind
                        /\ mem[n].kind = "server" => mem'[n].addr = mem[n].addr
                        /\ mem[n].kind = "id" => mem'[n] = mem[n]
    <3> TAKE n \in Heap
    <3>1. CASE n \in Listed(s)
      <4>1. mem'[n] = [mem[n] EXCEPT !.stale = FALSE]
        BY <1>5, <3>1
      <4> QED BY <2>1, <2>2, <3>1, <4>1
    <3>2. CASE n \notin Listed(s)
      BY <1>1, <1>5, <3>2 DEF TypeOK
    <3> QED BY <3>1, <3>2
  <2>4. mem' \in [Heap -> {FreeNode} \cup ServerNodes \cup IdNodes]
    BY <1>5, <2>3
  <2>5. TypeOK'
    BY <1>1, <1>2, <1>5, <2>4 DEF TypeOK, main, query
  <2>6. temp' # NULL => temp' \in ToSet(server_head)
    BY <1>1, <1>2 DEF NodesLinked, query
  <2>7. NodesLinked' /\ OneEach' /\ NumbersInv'
    BY <1>2, <1>5, <2>3, <2>5, <2>6, ListsKept
  <2> QED BY <1>4, <2>5, <2>7 DEF IInv
<1>6. CASE /\ Listed(s) = {}
           /\ \E n \in FreeNodes :
                /\ mem' = [mem EXCEPT ![n] =
                             [kind |-> "server", addr |-> s, stale |-> FALSE]]
                /\ server_head' = <<n>> \o server_head
  <2>1. PICK n \in Heap, v \in ServerNodes :
          /\ mem[n] = FreeNode /\ v.kind = "server" /\ v.addr = s
          /\ mem' = [mem EXCEPT ![n] = v]
          /\ server_head' = <<n>> \o server_head
    BY <1>6 DEF FreeNodes, ServerNodes
  <2>2. \A k \in Heap : mem'[k] = IF k = n THEN v ELSE mem[k]
    BY <1>1, <2>1 DEF TypeOK
  <2>3. n \notin ToSet(server_head) /\ n \notin ToSet(idll_head)
    BY <1>1, <2>1 DEF NodesLinked, FreeNode
  <2>4. PICK w : w = server_head'
    OBVIOUS
  <2>5. /\ w \in Seq(Heap) /\ ToSet(w) = ToSet(server_head) \cup {n}
        /\ DOMAIN w = 1 .. Len(server_head) + 1 /\ w[1] = n
        /\ \A i \in 2 .. Len(server_head) + 1 :
              i - 1 \in DOMAIN server_head /\ w[i] = server_head[i - 1]
        /\ IsInjective(w)
    <3>1. server_head \in Seq(Heap) /\ IsInjective(server_head)
      BY <1>1 DEF TypeOK, NodesLinked
    <3>2. w = <<n>> \o server_head
      BY <2>1, <2>4
    <3>3. HasFirst(server_head, n, w)
      BY <3>1, <3>2, Prepended
    <3> QED BY <2>3, <3>1, <3>3 DEF HasFirst
  <2>6. TypeOK'
    BY <1>1, <1>2, <2>1, <2>4, <2>5 DEF TypeOK, main, query
  <2>7. NodesLinked'
    <3>1. ToSet(server_head)' = {k \in Heap : mem'[k].kind = "server"}
      BY <1>1, <2>1, <2>2, <2>4, <2>5 DEF NodesLinked
    <3>2. ToSet(idll_head)' = {k \in Heap : mem'[k].kind = "id"}
      BY <1>1, <1>2, <2>1, <2>2, <2>3 DEF NodesLinked
    <3>3. \A k \in ToSet(idll_head) : mem'[k] = mem[k]
      BY <1>3, <2>2, <2>3
    <3> QED BY <1>1, <1>2, <2>4, <2>5, <3>1, <3>2, <3>3 DEF NodesLinked, query
  <2>8. OneEach'
    <3>1. \A i \in DOMAIN idll_head : mem'[idll_head[i]] = mem[idll_head[i]]
      BY <1>3, <2>2, <2>3
    <3>2. \A k \in ToSet(server_head) : mem'[k] = mem[k] /\ mem[k].addr # s
      BY <1>3, <1>6, <2>2, <2>3 DEF Listed
    <3>3. ASSUME NEW i \in DOMAIN w, NEW j \in DOMAIN w, mem'[w[i]].addr = mem'[w[j]].addr
          PROVE  i = j
      <4>1. Len(server_head) \in Nat
        BY <1>1, LenProperties DEF TypeOK
      <4>2. \A k \in DOMAIN w : k = 1 \/ k \in 2 .. Len(server_head) + 1
        BY <2>5, <4>1
      <4>3. mem'[w[1]].addr = s
        BY <2>1, <2>2, <2>5
      <4>4. \A k \in 2 .. Len(server_head) + 1 :
               w[k] \in ToSet(server_head) /\ mem'[w[k]].addr # s
        BY <1>3, <2>5, <3>2
      <4>5. CASE i = 1 \/ j = 1
        BY <3>3, <4>2, <4>3, <4>4, <4>5
      <4>6. CASE i # 1 /\ j # 1
        <5>1. i \in 2 .. Len(server_head) + 1 /\ j \in 2 .. Len(server_head) + 1
          BY <4>2, <4>6
        <5>2. mem[server_head[i - 1]].addr = mem[server_head[j - 1]].addr
          BY <2>5, <3>2, <3>3, <4>4, <5>1
        <5>3. i - 1 = j - 1
          BY <1>1, <2>5, <5>1, <5>2 DEF OneEach
        <5> QED BY <4>1, <5>1, <5>3
      <4> QED BY <4>5, <4>6
    <3> QED BY <1>1, <1>2, <2>4, <3>1, <3>3 DEF OneEach
  <2>9. NumbersInv'
    BY <1>1, <1>2, <1>3, <2>2, <2>3 DEF NumbersInv
  <2> QED BY <1>4, <2>6, <2>7, <2>8, <2>9 DEF IInv
<1> QED BY <1>5, <1>6 DEF ReceiveHello

-----------------------------------------------------------------------------
(* Steps that shorten the lists *)

\* Nodes leave the lists and are freed; no request stays whose server goes.
LEMMA Shortened ==
    ASSUME IInv, NEW gone, NEW over,
           gone \subseteq ToSet(server_head), over \subseteq ToSet(idll_head),
           IsLeft(server_head, gone, server_head'), IsLeft(idll_head, over, idll_head'),
           mem' = [n \in Heap |-> IF n \in gone \cup over THEN FreeNode ELSE mem[n]],
           trans_id' = trans_id,
           \A n \in ToSet(idll_head) \ over : mem[n].server \notin gone,
           temp' # NULL => temp' \in ToSet(server_head) \ gone
    PROVE  /\ server_head' \in Seq(Heap) /\ idll_head' \in Seq(Heap)
           /\ mem' \in [Heap -> {FreeNode} \cup ServerNodes \cup IdNodes]
           /\ NodesLinked' /\ OneEach' /\ NumbersInv'
<1>1. TypeOK /\ NodesLinked /\ OneEach /\ NumbersInv
  BY DEF IInv
<1>2. /\ ToSet(server_head) \subseteq Heap /\ ToSet(idll_head) \subseteq Heap
      /\ \A i \in DOMAIN server_head : server_head[i] \in ToSet(server_head)
      /\ \A i \in DOMAIN idll_head : idll_head[i] \in ToSet(idll_head)
  BY <1>1, ListTypes
<1>3. PICK s, d : s = server_head' /\ d = idll_head'
  OBVIOUS
<1>4. /\ s \in Seq(Heap) /\ ToSet(s) = ToSet(server_head) \ gone /\ IsInjective(s)
      /\ d \in Seq(Heap) /\ ToSet(d) = ToSet(idll_head) \ over /\ IsInjective(d)
  BY <1>1, <1>3 DEF IsLeft, NodesLinked
<1>5. \A n \in Heap : mem'[n] = IF n \in gone \cup over THEN FreeNode ELSE mem[n]
  OBVIOUS
<1>6. mem' \in [Heap -> {FreeNode} \cup ServerNodes \cup IdNodes]
  BY <1>1 DEF TypeOK
<1>7. \A n \in ToSet(server_head) : n \notin over
  BY <1>1, <1>2 DEF NodesLinked
<1>8. \A n \in ToSet(idll_head) : n \notin gone
  BY <1>1, <1>2 DEF NodesLinked
<1>9. /\ \A n \in ToSet(s) : n \in Heap /\ mem'[n] = mem[n]
      /\ \A n \in ToSet(d) : n \in Heap /\ mem'[n] = mem[n]
  BY <1>2, <1>4, <1>5, <1>7, <1>8
<1>10. NodesLinked'
  <2>1. ToSet(s) = {n \in Heap : mem'[n].kind = "server"}
    BY <1>1, <1>2, <1>4, <1>5, <1>7 DEF NodesLinked, FreeNode
  <2>2. ToSet(d) = {n \in Heap : mem'[n].kind = "id"}
    BY <1>1, <1>2, <1>4, <1>5, <1>8 DEF NodesLinked, FreeNode
  <2>3. \A n \in ToSet(d) : mem'[n].server \in ToSet(s)
    BY <1>1, <1>4, <1>9 DEF NodesLinked
  <2> QED BY <1>3, <1>4, <2>1, <2>2, <2>3 DEF NodesLinked
<1>11. OneEach'
  <2>1. /\ \A a \in DOMAIN s : s[a] \in ToSet(s)
        /\ \A a \in DOMAIN d : d[a] \in ToSet(d)
    BY DEF ToSet
  <2>2. ASSUME NEW a \in DOMAIN s, NEW b \in DOMAIN s, mem'[s[a]].addr = mem'[s[b]].addr
        PROVE  a = b
    <3>1. mem[s[a]].addr = mem[s[b]].addr
      BY <1>9, <2>1, <2>2
    <3>2. PICK i \in DOMAIN server_head, j \in DOMAIN server_head :
             s[a] = server_head[i] /\ s[b] = server_head[j]
      <4>1. s[a] \in ToSet(server_head) /\ s[b] \in ToSet(server_head)
        BY <1>4, <2>1
      <4> QED BY <4>1 DEF ToSet
    <3>3. s[a] = s[b]
      BY <1>1, <3>1, <3>2 DEF OneEach
    <3> QED BY <1>4, <3>3 DEF IsInjective
  <2>3. ASSUME NEW a \in DOMAIN d, NEW b \in DOMAIN d, a < b
        PROVE  mem'[d[a]].trans_id < mem'[d[b]].trans_id
    <3>1. PICK i \in DOMAIN idll_head, j \in DOMAIN idll_head :
             i < j /\ d[a] = idll_head[i] /\ d[b] = idll_head[j]
      BY <1>3, <2>3 DEF IsLeft
    <3>2. mem[d[a]].trans_id < mem[d[b]].trans_id
      BY <1>1, <3>1 DEF OneEach
    <3> QED BY <1>9, <2>1, <3>2
  <2> QED BY <1>3, <2>2, <2>3 DEF OneEach
<1>12. NumbersInv'
  BY <1>1, <1>3, <1>4, <1>9 DEF NumbersInv
<1> QED BY <1>3, <1>4, <1>6, <1>10, <1>11, <1>12

LEMMA LeftAlone ==
    ASSUME NEW list \in Seq(Heap)
    PROVE  IsLeft(list, {}, list)
BY DEF IsLeft

LEMMA DeleteStep ==
    ASSUME IInv, Delete
    PROVE  IInv'
<1>1. TypeOK /\ NodesLinked /\ ThreadsInv
  BY DEF IInv
<1>2. PICK found \in SUBSET ToSet(idll_head) :
         /\ idll_head' = Without(idll_head, found)
         /\ mem' = [n \in Heap |-> IF n \in found THEN FreeNode ELSE mem[n]]
  BY DEF Delete
<1>3. /\ m_pc' = "receive" /\ packet' = NoPacket /\ idNode' = NULL
      /\ UNCHANGED <<up, network, server_head, trans_id, query>>
  BY DEF Delete
<1>4. server_head \in Seq(Heap) /\ idll_head \in Seq(Heap)
  BY <1>1 DEF TypeOK
<1>5. IsLeft(server_head, {}, server_head')
  BY <1>3, <1>4, LeftAlone
<1>6. IsLeft(idll_head, found, idll_head')
  BY <1>2, <1>4, WithoutProperties
<1>7. temp' # NULL => temp' \in ToSet(server_head) \ {}
  BY <1>1, <1>3 DEF NodesLinked, query
<1>8. mem' = [n \in Heap |-> IF n \in {} \cup found THEN FreeNode ELSE mem[n]]
  BY <1>2
<1>9. /\ server_head' \in Seq(Heap) /\ idll_head' \in Seq(Heap)
      /\ mem' \in [Heap -> {FreeNode} \cup ServerNodes \cup IdNodes]
      /\ NodesLinked' /\ OneEach' /\ NumbersInv'
  BY <1>3, <1>5, <1>6, <1>7, <1>8, Shortened
<1>10. TypeOK' /\ ThreadsInv'
  BY <1>1, <1>3, <1>9 DEF TypeOK, ThreadsInv, query
<1> QED BY <1>9, <1>10 DEF IInv

LEMMA RemoveStep ==
    ASSUME IInv, removeInactiveServers
    PROVE  IInv'
<1>1. TypeOK /\ NodesLinked /\ ThreadsInv
  BY DEF IInv
<1>2. Inactive \subseteq ToSet(server_head)
  BY DEF Inactive, ToSet
<1>3. PICK addrs, removed :
         /\ addrs = {mem[n].addr : n \in Inactive}
         /\ removed = {n \in ToSet(idll_head) : mem[mem[n].server].addr \in addrs}
         /\ server_head' = Without(server_head, Inactive)
         /\ idll_head' = Without(idll_head, removed)
         /\ mem' = [n \in Heap |-> IF n \in Inactive \cup removed
                                   THEN FreeNode ELSE mem[n]]
  BY DEF removeInactiveServers
<1>4. q_pc' = "start" /\ temp' = NULL /\ UNCHANGED <<up, network, trans_id, main, request>>
  BY DEF removeInactiveServers
<1>5. server_head \in Seq(Heap) /\ idll_head \in Seq(Heap)
  BY <1>1 DEF TypeOK
<1>6. IsLeft(server_head, Inactive, server_head')
  BY <1>3, <1>5, WithoutProperties
<1>7. IsLeft(idll_head, removed, idll_head')
  BY <1>3, <1>5, WithoutProperties
<1>8. removed \subseteq ToSet(idll_head)
  BY <1>3
<1>9. ASSUME NEW n \in ToSet(idll_head) \ removed
      PROVE  mem[n].server \notin Inactive
  <2>1. SUFFICES ASSUME mem[n].server \in Inactive PROVE FALSE
    OBVIOUS
  <2>2. /\ addrs = {mem[s].addr : s \in Inactive}
        /\ removed = {m \in ToSet(idll_head) : mem[mem[m].server].addr \in addrs}
    BY <1>3
  <2>3. mem[mem[n].server].addr \in addrs
    BY <2>1, <2>2
  <2>4. n \in removed
    BY <2>2, <2>3
  <2> QED BY <2>4
<1>10. /\ server_head' \in Seq(Heap) /\ idll_head' \in Seq(Heap)
       /\ mem' \in [Heap -> {FreeNode} \cup ServerNodes \cup IdNodes]
       /\ NodesLinked' /\ OneEach' /\ NumbersInv'
  BY <1>2, <1>3, <1>4, <1>6, <1>7, <1>8, <1>9, Shortened
<1>11. TypeOK' /\ ThreadsInv'
  BY <1>1, <1>4, <1>10 DEF TypeOK, ThreadsInv, main
<1> QED BY <1>10, <1>11 DEF IInv

-----------------------------------------------------------------------------
(* The other steps of Query *)

LEMMA HeadStep ==
    ASSUME IInv, Wake \/ Start \/ Sleep
    PROVE  IInv'
<1>1. TypeOK /\ NodesLinked /\ OneEach /\ NumbersInv /\ ThreadsInv
  BY DEF IInv
<1>2. FirstServer # NULL => FirstServer \in ToSet(server_head)
  <2>1. PICK s \in Seq(Heap) : s = server_head
    BY <1>1 DEF TypeOK
  <2>2. s # <<>> => Head(s) = s[1] /\ 1 \in DOMAIN s
    BY HeadTailProperties, LenProperties
  <2> QED BY <2>1, <2>2 DEF FirstServer, ToSet
<1>3. /\ temp' = NULL \/ temp' = FirstServer
      /\ q_pc' \in {"asleep", "remove", "start", "query"}
      /\ UNCHANGED <<up, network, lists, main, request>>
  BY DEF Wake, Start, Sleep
<1>4. temp' # NULL => temp' \in ToSet(server_head)
  BY <1>2, <1>3
<1>5. TypeOK' /\ ThreadsInv'
  BY <1>1, <1>3, <1>4, ListTypes DEF TypeOK, ThreadsInv, lists, main
<1>6. NodesLinked' /\ OneEach' /\ NumbersInv'
  BY <1>1, <1>3, <1>4 DEF lists, NodesLinked, OneEach, NumbersInv
<1> QED BY <1>5, <1>6 DEF IInv

LEMMA AddStep ==
    ASSUME IInv, AddRequest
    PROVE  IInv'
<1>1. TypeOK /\ NodesLinked /\ OneEach /\ NumbersInv /\ ThreadsInv
  BY DEF IInv
<1>2. /\ ToSet(server_head) \subseteq Heap /\ ToSet(idll_head) \subseteq Heap
      /\ \A i \in DOMAIN server_head : server_head[i] \in ToSet(server_head)
      /\ \A i \in DOMAIN idll_head : idll_head[i] \in ToSet(idll_head)
  BY <1>1, ListTypes
<1>3. /\ temp # NULL /\ temp \in ToSet(server_head)
      /\ q_pc' = "send" /\ request' \in Heap
      /\ UNCHANGED <<up, network, server_head, temp, main>>
  BY <1>1 DEF AddRequest, NodesLinked, FreeNodes
<1>4. PICK t \in Ids : t = trans_id + 1 /\ trans_id' = t
  BY <1>1, CldpAssumption DEF AddRequest, TypeOK, Ids
<1>5. PICK n \in Heap, v \in IdNodes :
         /\ mem[n] = FreeNode /\ v.kind = "id" /\ v.trans_id = t /\ v.server = temp
         /\ mem' = [mem EXCEPT ![n] = v]
         /\ idll_head' = Append(idll_head, n)
  BY <1>2, <1>3, <1>4 DEF AddRequest, FreeNodes, IdNodes
<1>6. \A k \in Heap : mem'[k] = IF k = n THEN v ELSE mem[k]
  BY <1>1, <1>5 DEF TypeOK
<1>7. n \notin ToSet(server_head) /\ n \notin ToSet(idll_head)
  BY <1>1, <1>5 DEF NodesLinked, FreeNode
<1>8. PICK w : w = idll_head'
  OBVIOUS
<1>9. /\ w \in Seq(Heap) /\ ToSet(w) = ToSet(idll_head) \cup {n}
      /\ DOMAIN w = 1 .. Len(idll_head) + 1 /\ w[Len(idll_head) + 1] = n
      /\ \A i \in DOMAIN idll_head : i \in DOMAIN w /\ w[i] = idll_head[i]
      /\ \A i \in DOMAIN w : i = Len(idll_head) + 1 \/ i \in DOMAIN idll_head
      /\ IsInjective(w)
  <2>1. idll_head \in Seq(Heap) /\ IsInjective(idll_head)
    BY <1>1 DEF TypeOK, NodesLinked
  <2>2. HasLast(idll_head, n, w)
    BY <1>5, <1>8, <2>1, Appended
  <2> QED BY <1>7, <2>1, <2>2 DEF HasLast
<1>10. temp' \in ToSet(server_head)
  BY <1>3
<1>11. TypeOK'
  <2>1. mem' \in [Heap -> {FreeNode} \cup ServerNodes \cup IdNodes]
    BY <1>1, <1>5 DEF TypeOK
  <2> QED BY <1>1, <1>3, <1>4, <1>8, <1>9, <2>1 DEF TypeOK, main
<1>12. NodesLinked'
  <2>1. ToSet(server_head) = {k \in Heap : mem'[k].kind = "server"}
    BY <1>1, <1>2, <1>5, <1>6, <1>7 DEF NodesLinked
  <2>2. ToSet(w) = {k \in Heap : mem'[k].kind = "id"}
    BY <1>1, <1>5, <1>6, <1>9 DEF NodesLinked
  <2>3. \A k \in ToSet(w) : mem'[k].server \in ToSet(server_head)
    BY <1>1, <1>2, <1>3, <1>5, <1>6, <1>9 DEF NodesLinked
  <2> QED BY <1>1, <1>3, <1>8, <1>9, <1>10, <2>1, <2>2, <2>3 DEF NodesLinked
<1>13. OneEach'
  <2>1. \A i \in DOMAIN server_head : mem'[server_head[i]] = mem[server_head[i]]
    BY <1>2, <1>6, <1>7
  <2>2. ASSUME NEW i \in DOMAIN w, NEW j \in DOMAIN w, i < j
        PROVE  mem'[w[i]].trans_id < mem'[w[j]].trans_id
    <3>1. DOMAIN idll_head = 1 .. Len(idll_head) /\ Len(idll_head) \in Nat
      BY <1>1, LenProperties DEF TypeOK
    <3>2. i \in DOMAIN idll_head
      BY <1>9, <2>2, <3>1
    <3>3. \A k \in DOMAIN idll_head : mem'[w[k]] = mem[idll_head[k]]
      BY <1>2, <1>6, <1>7, <1>9
    <3>4. CASE j \in DOMAIN idll_head
      BY <1>1, <2>2, <3>2, <3>3, <3>4 DEF OneEach
    <3>5. CASE j = Len(idll_head) + 1
      <4>1. mem'[w[j]].trans_id = t
        BY <1>5, <1>6, <1>9, <3>5
      <4>2. mem[idll_head[i]] \in IdNodes /\ mem[idll_head[i]].trans_id <= trans_id
        BY <1>1, <1>2, <3>2, NodeKinds DEF NodesLinked, NumbersInv
      <4>3. mem[idll_head[i]].trans_id \in Nat /\ trans_id \in Nat
        BY <1>1, <4>2 DEF TypeOK, IdNodes, Ids
      <4> QED BY <1>4, <3>2, <3>3, <4>1, <4>2, <4>3
    <3> QED BY <1>9, <3>4, <3>5
  <2> QED BY <1>1, <1>3, <1>8, <2>1, <2>2 DEF OneEach
<1>14. NumbersInv'
  <2>1. ASSUME NEW k \in ToSet(w)
        PROVE  mem'[k].trans_id <= t
    <3>1. CASE k = n
      BY <1>5, <1>6, <3>1 DEF Ids
    <3>2. CASE k \in ToSet(idll_head)
      <4>1. mem'[k] = mem[k] /\ mem[k] \in IdNodes /\ mem[k].trans_id <= trans_id
        BY <1>1, <1>2, <1>6, <1>7, <3>2, NodeKinds DEF NodesLinked, NumbersInv
      <4>2. mem[k].trans_id \in Nat /\ trans_id \in Nat
        BY <1>1, <4>1 DEF TypeOK, IdNodes, Ids
      <4> QED BY <1>4, <4>1, <4>2
    <3> QED BY <1>9, <3>1, <3>2
  <2> QED BY <1>4, <1>8, <2>1 DEF NumbersInv
<1>15. ThreadsInv'
  BY <1>1, <1>3 DEF ThreadsInv, main
<1> QED BY <1>11, <1>12, <1>13, <1>14, <1>15 DEF IInv

LEMMA SendStep ==
    ASSUME IInv, SendQuery
    PROVE  IInv'
<1>1. TypeOK /\ NodesLinked /\ ThreadsInv
  BY DEF IInv
<1>2. /\ ToSet(server_head) \subseteq Heap
      /\ \A i \in DOMAIN server_head : server_head[i] \in ToSet(server_head)
  BY <1>1, ListTypes
<1>3. /\ temp \in ToSet(server_head) /\ request \in Heap \cup {NULL}
      /\ temp' = NextServer /\ request' = NULL /\ q_pc' = "query"
      /\ UNCHANGED <<up, lists, main>>
  BY <1>1 DEF SendQuery, NodesLinked, ThreadsInv, TypeOK
<1>4. temp' # NULL => temp' \in ToSet(server_head)
  <2>1. DOMAIN server_head = 1 .. Len(server_head) /\ Len(server_head) \in Nat
    BY <1>1, LenProperties DEF TypeOK
  <2>2. PICK k \in DOMAIN server_head :
           NextServer = IF k = Len(server_head) THEN NULL ELSE server_head[k + 1]
    BY <1>3 DEF NextServer, ToSet
  <2>3. k # Len(server_head) => k + 1 \in DOMAIN server_head
    BY <2>1
  <2> QED BY <1>2, <1>3, <2>2, <2>3
<1>5. network' \subseteq Packets
  <2>1. mem[temp] \in ServerNodes
    BY <1>1, <1>2, <1>3, NodeKinds DEF NodesLinked
  <2>2. TransIdAt(request) \in Ids \cup {Garbage}
    <3>1. request \in Heap
      BY <1>1 DEF ThreadsInv, SendQuery
    <3> QED BY <1>1, <3>1, NodeKinds DEF TransIdAt, IdNodes
  <2>3. PICK t \in Ids \cup {Garbage} : t = TransIdAt(request)
    BY <2>2
  <2>4. [type |-> "QUERY", server |-> mem[temp].addr, trans_id |-> t] \in Exchange
    BY <2>1 DEF Exchange, ServerNodes
  <2> QED BY <1>1, <2>3, <2>4 DEF SendQuery, TypeOK, Packets
<1>6. TypeOK' /\ ThreadsInv'
  BY <1>1, <1>2, <1>3, <1>4, <1>5 DEF TypeOK, ThreadsInv, lists, main
<1>7. NodesLinked' /\ OneEach' /\ NumbersInv'
  BY <1>3, <1>4 DEF IInv, lists, NodesLinked, OneEach, NumbersInv
<1> QED BY <1>6, <1>7 DEF IInv

-----------------------------------------------------------------------------
(* The theorems *)

LEMMA NextKeeps == IInv /\ [Next]_vars => IInv'
<1> SUFFICES ASSUME IInv, [Next]_vars PROVE IInv'
  OBVIOUS
<1>1. ASSUME NEW s \in Servers, Server(s) \/ Age(s)
      PROVE  IInv'
  BY <1>1, ServerStep, AgeStep
<1>2. CASE Lose
  BY <1>2, LoseStep
<1>3. CASE Main
  BY <1>3, HelloStep, ResponseStep, CheckStep, DeleteStep DEF Main
<1>4. CASE Query
  BY <1>4, HeadStep, RemoveStep, AddStep, SendStep DEF Query
<1>5. CASE UNCHANGED vars
  <2>1. TypeOK' /\ ThreadsInv'
    BY <1>5 DEF IInv, vars, lists, main, query, TypeOK, ThreadsInv
  <2> QED BY <1>5, <2>1, QuietStep DEF IInv, vars, query
<1> QED BY <1>1, <1>2, <1>3, <1>4, <1>5 DEF Next

THEOREM Invariance == Spec => []IInv
BY InitHolds, NextKeeps, PTL DEF Spec

\* The packets, nodes and lists have their types, and main and Query are where they
\* can be.
THEOREM TypeCorrectness == Spec => []TypeOK
<1>1. IInv => TypeOK
  BY DEF IInv
<1> QED BY <1>1, Invariance, PTL

\* However main and Query interleave, also when main works on a request that has been
\* freed meanwhile: the lists hold the nodes in use, each once, and point to no other.
THEOREM NoNodeIsLost == Spec => []NodesLinked
<1>1. IInv => NodesLinked
  BY DEF IInv
<1> QED BY <1>1, Invariance, PTL

\* No server is on the list twice, and the requests are there in the order of their
\* numbers, which are all different.
THEOREM ListedOnce == Spec => []OneEach
<1>1. IInv => OneEach
  BY DEF IInv
<1> QED BY <1>1, Invariance, PTL
=============================================================================
