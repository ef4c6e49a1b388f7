--------------------------- MODULE EventListProofs ---------------------------
(****************************************************************************)
(* The list of timed events: for any number of nodes and requests, what its *)
(* links lead to is a queue by time (EventQueue), no event in use is        *)
(* missing from it, and a request for automatic network selection is in one *)
(* place.                                                                   *)
(*                                                                          *)
(* The argument is about a sequence s of nodes that the links describe      *)
(* (IsOrder). That the recursive Nth, and so Order and InList, are what s   *)
(* says follows by induction along s, in the form of a least               *)
(* counterexample.                                                          *)
(****************************************************************************)
EXTENDS EventList, FiniteSetTheorems, SequenceTheorems, WellFoundedInduction, TLAPS

-----------------------------------------------------------------------------
(* Numbers and sequences. *)

(* A set of natural numbers that is not empty has a least element. *)
LEMMA LeastNumber ==
    ASSUME NEW T \in SUBSET Nat, T # {}
    PROVE  \E n \in T : \A m \in T : n <= m
  <1>1. PICK n \in T : \A m \in T : ~ (<<m, n>> \in OpToRel(<, Nat))
    BY WFMin, NatLessThanWellFounded, Zenon
  <1>2. ASSUME NEW m \in T PROVE n <= m
    <2>1. <<m, n>> \notin {ss \in Nat \X Nat : ss[1] < ss[2]}
      BY <1>1, <1>2 DEF OpToRel
    <2> QED
      BY <2>1
  <1> QED
    BY <1>2

(* A number that fits is chosen when there is one, and it is the least.     *)
LEMMA LeastChosen ==
    ASSUME NEW T \in SUBSET Nat, T # {}
    PROVE  LET n == CHOOSE i \in T : \A j \in T : i <= j
           IN  n \in T /\ \A j \in T : n <= j
  BY LeastNumber, Zenon

LEMMA AtMostOne == ASSUME NEW n \in Nat, n # 0, n <= 1 PROVE n = 1
  OBVIOUS

(* s with e after its first k elements. *)
Spliced(s, k, e) ==
    [i \in 1 .. Len(s) + 1 |-> IF i <= k THEN s[i] ELSE IF i = k + 1 THEN e ELSE s[i - 1]]

LEMMA SplicedSeq ==
    ASSUME NEW S, NEW s \in Seq(S), NEW e \in S, NEW k \in 0 .. Len(s)
    PROVE  /\ Spliced(s, k, e) \in Seq(S)
           /\ Len(Spliced(s, k, e)) = Len(s) + 1
  <1>1. Len(s) \in Nat /\ DOMAIN s = 1 .. Len(s) /\ \A i \in 1 .. Len(s) : s[i] \in S
    BY ElementOfSeq, LenProperties
  <1>2. \A i \in 1 .. Len(s) + 1 :
           (IF i <= k THEN s[i] ELSE IF i = k + 1 THEN e ELSE s[i - 1]) \in S
    BY <1>1
  <1> DEFINE f(i) == IF i <= k THEN s[i] ELSE IF i = k + 1 THEN e ELSE s[i - 1]
  <1>3. \A i \in 1 .. Len(s) + 1 : f(i) \in S
    BY <1>2
  <1>4. Len(s) + 1 \in Nat
    BY <1>1
  <1>5. [i \in 1 .. Len(s) + 1 |-> f(i)] \in Seq(S)
    <2> HIDE DEF f
    <2> QED
      BY <1>3, <1>4, IsASeq
  <1>6. Spliced(s, k, e) = [i \in 1 .. Len(s) + 1 |-> f(i)]
    BY DEF Spliced
  <1>7. DOMAIN Spliced(s, k, e) = 1 .. Len(s) + 1
    BY DEF Spliced
  <1> QED
    BY <1>4, <1>5, <1>6, <1>7, LenProperties

LEMMA SplicedConcat ==
    ASSUME NEW S, NEW s \in Seq(S), NEW e \in S, NEW k \in 0 .. Len(s)
    PROVE  SubSeq(s, 1, k) \o <<e>> \o SubSeq(s, k + 1, Len(s)) = Spliced(s, k, e)
  <1> DEFINE a == SubSeq(s, 1, k)
             b == SubSeq(s, k + 1, Len(s))
  <1>1. Len(s) \in Nat /\ \A i \in 1 .. Len(s) : s[i] \in S
    BY ElementOfSeq, LenProperties
  <1>2. a \in Seq(S) /\ Len(a) = k /\ \A i \in 1 .. k : a[i] = s[i]
    BY <1>1, SubSeqProperties
  <1>3. b \in Seq(S) /\ Len(b) = Len(s) - k /\ \A i \in 1 .. Len(s) - k : b[i] = s[k + i]
    BY <1>1, SubSeqProperties
  <1>4. <<e>> \in Seq(S) /\ Len(<<e>>) = 1 /\ <<e>>[1] = e
    OBVIOUS
  <1> HIDE DEF a, b
  <1>5. /\ a \o <<e>> \in Seq(S) /\ Len(a \o <<e>>) = k + 1
        /\ \A i \in 1 .. k : (a \o <<e>>)[i] = s[i]
        /\ (a \o <<e>>)[k + 1] = e
    BY <1>2, <1>4, ConcatProperties
  <1>6. /\ (a \o <<e>>) \o b \in Seq(S)
        /\ Len((a \o <<e>>) \o b) = Len(s) + 1
        /\ \A i \in 1 .. k + 1 : ((a \o <<e>>) \o b)[i] = (a \o <<e>>)[i]
        /\ \A i \in k + 2 .. Len(s) + 1 : ((a \o <<e>>) \o b)[i] = b[i - (k + 1)]
    BY <1>1, <1>3, <1>5, ConcatProperties
  <1>7. \A i \in k + 2 .. Len(s) + 1 : b[i - (k + 1)] = s[i - 1]
    BY <1>1, <1>3
  <1> DEFINE c == (a \o <<e>>) \o b
  <1>8. /\ c \in Seq(S) /\ Len(c) = Len(s) + 1
        /\ \A i \in 1 .. k : c[i] = s[i]
        /\ c[k + 1] = e
        /\ \A i \in k + 2 .. Len(s) + 1 : c[i] = s[i - 1]
    <2>1. /\ c \in Seq(S) /\ Len(c) = Len(s) + 1
          /\ \A i \in k + 2 .. Len(s) + 1 : c[i] = b[i - (k + 1)]
      BY <1>6
    <2>2. \A i \in 1 .. k + 1 : c[i] = (a \o <<e>>)[i]
      BY <1>6
    <2>3. \A i \in 1 .. k : c[i] = s[i]
      <3> HIDE DEF c
      <3> QED
        BY <1>5, <2>2
    <2>4. c[k + 1] = e
      <3> HIDE DEF c
      <3> QED
        BY <1>5, <2>2
    <2> HIDE DEF c
    <2> QED
      BY <1>7, <2>1, <2>3, <2>4
  <1> HIDE DEF c
  <1>9. c = Spliced(s, k, e)
    <2>1. \A i \in 1 .. Len(s) + 1 : c[i] = Spliced(s, k, e)[i]
      BY <1>1, <1>8 DEF Spliced
    <2>2. Spliced(s, k, e) \in Seq(S) /\ Len(Spliced(s, k, e)) = Len(s) + 1
      BY SplicedSeq
    <2> QED
      BY <1>8, <2>1, <2>2, SeqEqual
  <1> QED
    BY <1>9 DEF a, b, c

-----------------------------------------------------------------------------
(* The links. *)

(* The links describe the sequence s. *)
IsOrder(s) ==
    /\ \A i, j \in 1 .. Len(s) : s[i] = s[j] => i = j
    /\ eventList = IF Len(s) = 0 THEN 0 ELSE s[1]
    /\ \A i \in 1 .. Len(s) : next[s[i]] = IF i = Len(s) THEN 0 ELSE s[i + 1]
    /\ \A i \in 2 .. Len(s) : prev[s[i]] = s[i - 1]

(* What Nth, InList and Order are then. *)
OrderIs ==
    \A s \in Seq(Nodes) :
        IsOrder(s) =>
            /\ Len(s) \in 0 .. MaxNodes
            /\ Nth = [i \in 0 .. MaxNodes |-> IF i < Len(s) THEN s[i + 1] ELSE 0]
            /\ InList = {s[i] : i \in 1 .. Len(s)}
            /\ Order = s

(* The recursive definition of Nth has a solution.                          *)
Walk(g) ==
    [i \in 0 .. MaxNodes |->
        IF i = 0 THEN eventList
        ELSE LET before == g[i - 1] IN IF before = 0 THEN 0 ELSE next[before]]

LEMMA NthStep ==
    ASSUME NEW g, g = Walk(g)
    PROVE  Nth = Walk(Nth)
  BY DEF Nth, Walk

LEMMA OrderLemma == OrderIs
  <1> SUFFICES ASSUME NEW s \in Seq(Nodes), IsOrder(s)
               PROVE  /\ Len(s) \in 0 .. MaxNodes
                      /\ Nth = [i \in 0 .. MaxNodes |-> IF i < Len(s) THEN s[i + 1] ELSE 0]
                      /\ InList = {s[i] : i \in 1 .. Len(s)}
                      /\ Order = s
    BY DEF OrderIs
  <1> DEFINE T == {s[i] : i \in 1 .. Len(s)}
  <1>0. /\ Len(s) \in Nat /\ DOMAIN s = 1 .. Len(s) /\ MaxNodes \in Nat
        /\ \A i \in 1 .. Len(s) : s[i] \in Nodes /\ s[i] # 0
        /\ s = [i \in 1 .. Len(s) |-> s[i]]
    BY ElementOfSeq, LenProperties, EventAssumption DEF Nodes
  <1>1. Cardinality(T) = Len(s)
    <2>1. s \in Bijection(1 .. Len(s), T)
      <3>1. s \in [1 .. Len(s) -> T]
        BY <1>0
      <3>2. IsInjective(s)
        BY <1>0 DEF IsOrder, IsInjective
      <3>3. \A t \in T : \E i \in 1 .. Len(s) : s[i] = t
        OBVIOUS
      <3> QED
        BY <3>1, <3>2, <3>3, Zenon DEF Bijection, Injection, Surjection
    <2> QED
      BY <1>0, <2>1, FS_CountingElements DEF ExistsBijection
  <1>2. Len(s) <= MaxNodes
    <2>1. T \in SUBSET Nodes
      BY <1>0
    <2>2. IsFiniteSet(Nodes) /\ Cardinality(Nodes) = MaxNodes
      BY EventAssumption, FS_Interval DEF Nodes
    <2> QED
      BY <1>1, <2>1, <2>2, FS_Subset
  <1>3. PICK g : /\ g = [i \in 0 .. MaxNodes |-> IF i < Len(s) THEN s[i + 1] ELSE 0]
                 /\ g = Walk(g)
    <2> DEFINE f == [i \in 0 .. MaxNodes |-> IF i < Len(s) THEN s[i + 1] ELSE 0]
    <2>1. ASSUME NEW i \in 0 .. MaxNodes
          PROVE  f[i] = IF i = 0 THEN eventList
                        ELSE IF f[i - 1] = 0 THEN 0 ELSE next[f[i - 1]]
      <3>1. CASE i = 0
        BY <1>0, <3>1 DEF IsOrder
      <3>2. CASE i > 0 /\ i - 1 < Len(s)
        <4>1. f[i - 1] = s[i] /\ s[i] # 0 /\ i \in 1 .. Len(s)
          BY <1>0, <3>2
        <4>2. next[s[i]] = IF i = Len(s) THEN 0 ELSE s[i + 1]
          BY <4>1 DEF IsOrder
        <4> QED
          BY <1>0, <3>2, <4>1, <4>2
      <3>3. CASE i > 0 /\ i - 1 >= Len(s)
        BY <1>0, <3>3
      <3> QED
        BY <1>0, <3>1, <3>2, <3>3
    <2>2. f = Walk(f)
      BY <2>1 DEF Walk
    <2> QED
      BY <2>2
  <1>4. Nth = Walk(Nth)
    BY <1>3, NthStep
  <1>5. \A i \in 0 .. MaxNodes : Nth[i] = g[i]
    <2> DEFINE Wrong == {i \in 0 .. MaxNodes : Nth[i] # g[i]}
    <2>1. SUFFICES ASSUME Wrong # {} PROVE FALSE
      OBVIOUS
    <2>0. Wrong \in SUBSET Nat
      BY <1>0
    <2>2. PICK n \in Wrong : \A m \in Wrong : n <= m
      <3> HIDE DEF Wrong
      <3> QED
        BY <2>0, <2>1, LeastNumber
    <2>3. n # 0
      BY <1>0, <1>3, <1>4, <2>2 DEF Walk
    <2>4. n \in 1 .. MaxNodes /\ n - 1 \in 0 .. MaxNodes
      BY <1>0, <2>2, <2>3
    <2>5. n - 1 \notin Wrong
      <3> HIDE DEF Wrong
      <3> QED
        BY <1>0, <2>2, <2>4
    <2>6. Nth[n - 1] = g[n - 1]
      BY <2>4, <2>5
    <2>7. Nth[n] = IF Nth[n - 1] = 0 THEN 0 ELSE next[Nth[n - 1]]
      BY <1>0, <1>4, <2>4 DEF Walk
    <2>8. g[n] = IF g[n - 1] = 0 THEN 0 ELSE next[g[n - 1]]
      BY <1>0, <1>3, <2>4 DEF Walk
    <2> QED
      BY <2>2, <2>6, <2>7, <2>8
  <1>6. Nth = g
    <2>1. Nth = [i \in 0 .. MaxNodes |-> Nth[i]]
      BY <1>4 DEF Walk
    <2>2. g = [i \in 0 .. MaxNodes |-> g[i]]
      BY <1>3
    <2> QED
      BY <1>5, <2>1, <2>2
  <1>7. InList = T
    <2>1. ASSUME NEW n \in InList PROVE n \in T
      <3>1. PICK i \in 0 .. MaxNodes : n = g[i] /\ n # 0
        BY <1>6, <2>1 DEF InList
      <3>2. i < Len(s) /\ n = s[i + 1]
        BY <1>0, <1>3, <3>1
      <3> QED
        BY <1>0, <3>1, <3>2
    <2>2. ASSUME NEW i \in 1 .. Len(s) PROVE s[i] \in InList
      <3>1. i - 1 \in 0 .. MaxNodes /\ i - 1 < Len(s) /\ (i - 1) + 1 = i
        BY <1>0, <1>2
      <3>2. Nth[i - 1] = s[i] /\ s[i] # 0
        BY <1>0, <1>3, <1>6, <3>1
      <3> QED
        BY <3>1, <3>2 DEF InList
    <2> QED
      BY <2>1, <2>2
  <1>8. Order = s
    <2>1. Order = [i \in 1 .. Len(s) |-> Nth[i - 1]]
      BY <1>1, <1>7 DEF Order
    <2>2. \A i \in 1 .. Len(s) : Nth[i - 1] = s[i]
      BY <1>0, <1>2, <1>3, <1>6
    <2> QED
      BY <1>0, <2>1, <2>2
  <1>9. Len(s) \in 0 .. MaxNodes
    BY <1>0, <1>2
  <1>10. Nth = [i \in 0 .. MaxNodes |-> IF i < Len(s) THEN s[i + 1] ELSE 0]
    BY <1>3, <1>6
  <1> QED
    BY <1>7, <1>8, <1>9, <1>10

-----------------------------------------------------------------------------
(* The invariant of the list. *)

(* n is an event that waits in the list for its time. *)
Waiting(n) == n \in live /\ n # running /\ \A h \in Threads : n # adding[h]

(* s is the list, in the order of the times. *)
ListInv(s) ==
    /\ IsOrder(s)
    /\ \A n \in Nodes : Waiting(n) <=> \E i \in 1 .. Len(s) : s[i] = n
    /\ \A i, j \in 1 .. Len(s) : i <= j => abstime[s[i]] <= abstime[s[j]]

(* The node a thread is about to put in is its own. *)
OwnInv ==
    /\ \A h \in Threads :
          adding[h] # 0 => adding[h] \in live /\ adding[h] # running /\ next[adding[h]] = 0
    /\ adding["runner"] # 0 => adding["runner"] # adding["reader"]
    /\ running # 0 => running \in live /\ adding["runner"] = 0

EInv ==
    /\ EventTypeOK /\ OwnInv
    /\ \E s \in Seq(Nodes) : ListInv(s)

(* What EventQueue sees of s. *)
EventsAre ==
    \A s \in Seq(Nodes) :
        IsOrder(s) => Events = [i \in 1 .. Len(s) |-> [id |-> s[i], due |-> abstime[s[i]]]]

LEMMA EventsLemma == EventsAre
  <1> SUFFICES ASSUME NEW s \in Seq(Nodes), IsOrder(s)
               PROVE  Events = [i \in 1 .. Len(s) |-> [id |-> s[i], due |-> abstime[s[i]]]]
    BY DEF EventsAre
  <1>1. Order = s
    BY OrderLemma DEF OrderIs
  <1>2. DOMAIN s = 1 .. Len(s)
    BY LenProperties
  <1> QED
    BY <1>1, <1>2 DEF Events

(* The steps that leave the waiting events as they are. *)
LEMMA ListSame ==
    ASSUME NEW s \in Seq(Nodes), ListInv(s), eventList' = eventList,
           \A i \in 1 .. Len(s) :
               /\ next'[s[i]] = next[s[i]] /\ prev'[s[i]] = prev[s[i]]
               /\ abstime'[s[i]] = abstime[s[i]],
           \A n \in Nodes : Waiting(n)' <=> Waiting(n)
    PROVE  ListInv(s)' /\ Events' = Events
  <1>1. Len(s) \in Nat
    BY LenProperties
  <1>2. IsOrder(s)'
    BY <1>1 DEF ListInv, IsOrder
  <1>3. ListInv(s)'
    BY <1>1, <1>2 DEF ListInv
  <1>4. EventsAre /\ EventsAre'
    BY EventsLemma, PTL
  <1>5. Events = [i \in 1 .. Len(s) |-> [id |-> s[i], due |-> abstime[s[i]]]]
    BY <1>4 DEF EventsAre, ListInv
  <1>6. Events' = [i \in 1 .. Len(s) |-> [id |-> s[i], due |-> abstime'[s[i]]]]
    BY <1>2, <1>4 DEF EventsAre
  <1>7. Events' = Events
    BY <1>5, <1>6
  <1> QED
    BY <1>3, <1>7

-----------------------------------------------------------------------------
(* Insert. *)

(* Where enqueueRILEvent() finds the place for e. *)
LEMMA LaterIs ==
    ASSUME EventTypeOK, NEW s \in Seq(Nodes), ListInv(s), NEW e \in Nodes
    PROVE  \E k \in 0 .. Len(s) :
              /\ Later(e) = IF k = Len(s) THEN 0 ELSE s[k + 1]
              /\ \A i \in 1 .. k : abstime[s[i]] <= abstime[e]
              /\ \A i \in k + 1 .. Len(s) : abstime[s[i]] > abstime[e]
  <1> DEFINE L == {i \in DOMAIN Order : abstime[Order[i]] > abstime[e]}
  <1>1. Order = s
    BY OrderLemma DEF OrderIs, ListInv
  <1>2. Len(s) \in Nat /\ DOMAIN s = 1 .. Len(s) /\ \A i \in 1 .. Len(s) : s[i] \in Nodes
    BY LenProperties, ElementOfSeq
  <1>3. abstime[e] \in Int /\ \A i \in 1 .. Len(s) : abstime[s[i]] \in Int
    BY <1>2, EventAssumption DEF EventTypeOK
  <1>4. Later(e) = IF L = {} THEN 0 ELSE Order[CHOOSE i \in L : \A j \in L : i <= j]
    BY Zenon DEF Later
  <1>5. CASE L = {}
    <2>1. \A i \in 1 .. Len(s) : ~ (abstime[s[i]] > abstime[e])
      BY <1>1, <1>2, <1>5
    <2>2. \A i \in 1 .. Len(s) : abstime[s[i]] <= abstime[e]
      BY <1>3, <2>1
    <2>3. Later(e) = 0
      BY <1>4, <1>5
    <2>4. Len(s) \in 0 .. Len(s) /\ \A i \in Len(s) + 1 .. Len(s) : FALSE
      BY <1>2
    <2> QED
      BY <2>2, <2>3, <2>4
  <1>6. CASE L # {}
    <2>1. L \in SUBSET Nat
      BY <1>1, <1>2
    <2> DEFINE n == CHOOSE i \in L : \A j \in L : i <= j
    <2>2. n \in L /\ \A j \in L : n <= j
      <3> HIDE DEF L
      <3> QED
        BY <1>6, <2>1, LeastChosen
    <2>3. Later(e) = Order[n]
      BY <1>4, <1>6
    <2> HIDE DEF n
    <2>4. n \in 1 .. Len(s) /\ abstime[s[n]] > abstime[e] /\ Later(e) = s[n]
      BY <1>1, <1>2, <2>2, <2>3
    <2>5. \A i \in 1 .. n - 1 : abstime[s[i]] <= abstime[e]
      <3>1. ASSUME NEW i \in 1 .. n - 1 PROVE abstime[s[i]] <= abstime[e]
        <4>1. i \in 1 .. Len(s) /\ ~(n <= i)
          BY <1>2, <2>4
        <4>2. i \notin L
          BY <2>2, <4>1
        <4> QED
          BY <1>1, <1>2, <1>3, <4>1, <4>2
      <3> QED
        BY <3>1
    <2>6. \A i \in n .. Len(s) : abstime[s[i]] > abstime[e]
      <3>1. ASSUME NEW i \in n .. Len(s) PROVE abstime[s[i]] > abstime[e]
        <4>1. i \in 1 .. Len(s) /\ n <= i
          BY <1>2, <2>4
        <4>2. abstime[s[n]] <= abstime[s[i]]
          BY <2>4, <4>1 DEF ListInv
        <4> QED
          BY <1>3, <2>4, <4>1, <4>2
      <3> QED
        BY <3>1
    <2>7. n - 1 \in 0 .. Len(s) /\ n - 1 # Len(s) /\ (n - 1) + 1 = n
      BY <1>2, <2>4
    <2> QED
      BY <2>4, <2>5, <2>6, <2>7
  <1> QED
    BY <1>5, <1>6

(* The links that make e a node of the list make s with e the list.         *)
LEMMA OrderSpliced ==
    ASSUME NEW s \in Seq(Nodes), IsOrder(s), NEW e \in Nodes, NEW k \in 0 .. Len(s),
           \A i \in 1 .. Len(s) : s[i] # e,
           eventList' = IF k = 0 THEN e ELSE eventList,
           next'[e] = IF k = Len(s) THEN 0 ELSE s[k + 1],
           k > 0 => next'[s[k]] = e,
           \A i \in 1 .. Len(s) : i # k => next'[s[i]] = next[s[i]],
           k > 0 => prev'[e] = s[k],
           k < Len(s) => prev'[s[k + 1]] = e,
           \A i \in 1 .. Len(s) : i # k + 1 => prev'[s[i]] = prev[s[i]]
    PROVE  IsOrder(Spliced(s, k, e))'
  <1> DEFINE z == Spliced(s, k, e)
  <1>1. Len(s) \in Nat /\ \A i \in 1 .. Len(s) : s[i] \in Nodes
    BY LenProperties, ElementOfSeq
  <1>2. Len(z) = Len(s) + 1
    BY SplicedSeq
  <1>3. /\ \A i \in 1 .. k : z[i] = s[i]
        /\ z[k + 1] = e
        /\ \A i \in k + 2 .. Len(s) + 1 : z[i] = s[i - 1]
    BY <1>1 DEF Spliced
  <1> HIDE DEF z
  <1>4. \A i, j \in 1 .. Len(z) : z[i] = z[j] => i = j
    <2>1. \A i \in 1 .. Len(z) :
             \/ i <= k /\ i \in 1 .. Len(s) /\ z[i] = s[i]
             \/ i = k + 1 /\ z[i] = e
             \/ i > k + 1 /\ i - 1 \in 1 .. Len(s) /\ z[i] = s[i - 1]
      BY <1>1, <1>2, <1>3
    <2> SUFFICES ASSUME NEW i \in 1 .. Len(z), NEW j \in 1 .. Len(z), z[i] = z[j]
                 PROVE  i = j
      OBVIOUS
    <2>2. /\ \A a, b \in 1 .. Len(s) : s[a] = s[b] => a = b
          /\ \A a \in 1 .. Len(s) : s[a] # e
      BY DEF IsOrder
    <2>3. CASE i <= k
      BY <1>1, <1>2, <2>1, <2>2, <2>3
    <2>4. CASE i = k + 1
      BY <1>1, <1>2, <2>1, <2>2, <2>4
    <2>5. CASE i > k + 1
      BY <1>1, <1>2, <2>1, <2>2, <2>5
    <2> QED
      BY <1>1, <1>2, <2>3, <2>4, <2>5
  <1>5. eventList' = IF Len(z) = 0 THEN 0 ELSE z[1]
    BY <1>1, <1>2, <1>3 DEF IsOrder
  <1>6. ASSUME NEW i \in 1 .. Len(z) PROVE next'[z[i]] = IF i = Len(z) THEN 0 ELSE z[i + 1]
    <2>1. CASE i < k
      <3>0. i \in 1 .. Len(s) /\ i # Len(s)
        BY <1>1, <1>2, <2>1
      <3>1. next[s[i]] = s[i + 1]
        BY <3>0 DEF IsOrder
      <3> QED
        BY <1>1, <1>2, <1>3, <2>1, <3>1
    <2>2. CASE i = k
      BY <1>1, <1>2, <1>3, <2>2
    <2>3. CASE i = k + 1
      BY <1>1, <1>2, <1>3, <2>3
    <2>4. CASE i > k + 1
      <3>1. i - 1 \in 1 .. Len(s) /\ next[s[i - 1]] = IF i - 1 = Len(s) THEN 0 ELSE s[(i - 1) + 1]
        BY <1>1, <1>2, <2>4 DEF IsOrder
      <3> QED
        <4>1. next'[s[i - 1]] = next[s[i - 1]]
          BY <1>1, <1>2, <2>4, <3>1
        <4>2. z[i] = s[i - 1]
          BY <1>1, <1>2, <1>3, <2>4
        <4>3. i # Len(z) => z[i + 1] = s[i]
          <5>1. i # Len(z) => i + 1 \in k + 2 .. Len(s) + 1 /\ (i + 1) - 1 = i
            BY <1>1, <1>2, <2>4
          <5> QED
            BY <1>3, <5>1
        <4> QED
          BY <1>1, <1>2, <2>4, <3>1, <4>1, <4>2, <4>3
    <2> QED
      BY <1>1, <1>2, <2>1, <2>2, <2>3, <2>4
  <1>7. ASSUME NEW i \in 2 .. Len(z) PROVE prev'[z[i]] = z[i - 1]
    <2>1. CASE i <= k
      <3>1. prev[s[i]] = s[i - 1]
        BY <1>1, <2>1 DEF IsOrder
      <3> QED
        BY <1>1, <1>2, <1>3, <2>1, <3>1
    <2>2. CASE i = k + 1
      BY <1>1, <1>2, <1>3, <2>2
    <2>3. CASE i = k + 2
      BY <1>1, <1>2, <1>3, <2>3
    <2>4. CASE i > k + 2
      <3>1. i - 1 \in 2 .. Len(s) /\ prev[s[i - 1]] = s[(i - 1) - 1]
        BY <1>1, <1>2, <2>4 DEF IsOrder
      <3>2. prev'[s[i - 1]] = prev[s[i - 1]]
        BY <1>1, <2>4, <3>1
      <3>3. i \in k + 2 .. Len(s) + 1 /\ i - 1 \in k + 2 .. Len(s) + 1
        BY <1>1, <1>2, <2>4
      <3>4. z[i] = s[i - 1] /\ z[i - 1] = s[(i - 1) - 1]
        BY <1>3, <3>3
      <3> QED
        BY <3>1, <3>2, <3>4
    <2> QED
      BY <1>1, <1>2, <2>1, <2>2, <2>3, <2>4
  <1>8. IsOrder(z)'
    BY <1>4, <1>5, <1>6, <1>7 DEF IsOrder
  <1> QED
    BY <1>8 DEF z

(* The four ways enqueueRILEvent() sets the links are the same one.         *)
LEMMA InsertLinks ==
    ASSUME EventTypeOK, NEW s \in Seq(Nodes), ListInv(s), NEW h \in Threads, NEW e \in Nodes,
           e = adding[h], next[e] = 0, \A i \in 1 .. Len(s) : s[i] # e, Insert(h)
    PROVE  \E k \in 0 .. Len(s) :
              /\ \A i \in 1 .. k : abstime[s[i]] <= abstime[e]
              /\ \A i \in k + 1 .. Len(s) : abstime[s[i]] > abstime[e]
              /\ IsOrder(Spliced(s, k, e))'
              /\ \A n \in Nodes : n # e /\ (\A i \in 1 .. Len(s) : s[i] # n) => next'[n] = next[n]
              /\ eventList' \in Nodes \cup {0}
              /\ next' \in [Nodes -> Nodes \cup {0}] /\ prev' \in [Nodes -> Nodes \cup {0}]
  <1>1. /\ Len(s) \in Nat /\ \A i \in 1 .. Len(s) : s[i] \in Nodes /\ s[i] # 0
        /\ e # 0 /\ 0 \notin Nodes
    <2>1. Len(s) \in Nat /\ \A i \in 1 .. Len(s) : s[i] \in Nodes
      BY LenProperties, ElementOfSeq
    <2>2. 0 \notin Nodes
      BY EventAssumption DEF Nodes
    <2> QED
      BY <2>1, <2>2
  <1>2. PICK k \in 0 .. Len(s) :
           /\ Later(e) = IF k = Len(s) THEN 0 ELSE s[k + 1]
           /\ \A i \in 1 .. k : abstime[s[i]] <= abstime[e]
           /\ \A i \in k + 1 .. Len(s) : abstime[s[i]] > abstime[e]
    BY LaterIs
  <1>3. /\ IsOrder(s) /\ Order = s
        /\ \A i, j \in 1 .. Len(s) : s[i] = s[j] => i = j
        /\ eventList = IF Len(s) = 0 THEN 0 ELSE s[1]
        /\ \A i \in 1 .. Len(s) : next[s[i]] = IF i = Len(s) THEN 0 ELSE s[i + 1]
        /\ \A i \in 2 .. Len(s) : prev[s[i]] = s[i - 1]
    BY OrderLemma DEF ListInv, IsOrder, OrderIs
  <1>4. eventList \in Nodes \cup {0} /\ next \in [Nodes -> Nodes \cup {0}] /\ prev \in [Nodes -> Nodes \cup {0}]
    BY DEF EventTypeOK
  <1> DEFINE Links ==
        /\ eventList' = IF k = 0 THEN e ELSE eventList
        /\ next'[e] = IF k = Len(s) THEN 0 ELSE s[k + 1]
        /\ k > 0 => next'[s[k]] = e
        /\ \A i \in 1 .. Len(s) : i # k => next'[s[i]] = next[s[i]]
        /\ k > 0 => prev'[e] = s[k]
        /\ k < Len(s) => prev'[s[k + 1]] = e
        /\ \A i \in 1 .. Len(s) : i # k + 1 => prev'[s[i]] = prev[s[i]]
        /\ \A n \in Nodes : n # e /\ (\A i \in 1 .. Len(s) : s[i] # n) => next'[n] = next[n]
        /\ eventList' \in Nodes \cup {0}
        /\ next' \in [Nodes -> Nodes \cup {0}] /\ prev' \in [Nodes -> Nodes \cup {0}]
  <1>5. Links
    <2>1. CASE eventList = 0 /\ eventList' = e /\ UNCHANGED <<next, prev>>
      <3>1. Len(s) = 0 /\ k = 0
        BY <1>1, <1>3, <2>1
      <3> QED
        BY <1>1, <1>4, <2>1, <3>1
    <2>2. CASE eventList # 0 /\ Later(e) = eventList /\ InsertFirst(e)
      <3>1. Len(s) # 0 /\ k = 0 /\ eventList = s[1]
        BY <1>1, <1>2, <1>3, <2>2
      <3>2. /\ next' = [next EXCEPT ![e] = s[1]] /\ prev' = [prev EXCEPT ![s[1]] = e]
            /\ eventList' = e
        BY <2>2, <3>1 DEF InsertFirst
      <3> QED
        BY <1>1, <1>3, <1>4, <3>1, <3>2
    <2>3. CASE eventList # 0 /\ Later(e) \notin {0, eventList} /\ InsertBefore(e, Later(e))
      <3>1. k # 0 /\ k # Len(s) /\ Later(e) = s[k + 1] /\ k + 1 \in 2 .. Len(s) /\ k \in 1 .. Len(s)
        BY <1>1, <1>2, <1>3, <2>3
      <3>2. prev[s[k + 1]] = s[k]
        BY <1>1, <1>3, <3>1
      <3>3. /\ next' = [next EXCEPT ![s[k]] = e, ![e] = s[k + 1]]
            /\ prev' = [prev EXCEPT ![e] = s[k], ![s[k + 1]] = e]
            /\ eventList' = eventList
        BY <2>3, <3>1, <3>2 DEF InsertBefore
      <3>4. s[k] \in Nodes /\ s[k + 1] \in Nodes /\ s[k] # e /\ s[k + 1] # e
        BY <1>1, <3>1
      <3>5. /\ next'[e] = s[k + 1] /\ next'[s[k]] = e
            /\ \A n \in Nodes : n # e /\ n # s[k] => next'[n] = next[n]
            /\ prev'[e] = s[k] /\ prev'[s[k + 1]] = e
            /\ \A n \in Nodes : n # e /\ n # s[k + 1] => prev'[n] = prev[n]
            /\ next' \in [Nodes -> Nodes \cup {0}] /\ prev' \in [Nodes -> Nodes \cup {0}]
        BY <1>4, <3>3, <3>4
      <3>6. \A i \in 1 .. Len(s) : i # k => next'[s[i]] = next[s[i]]
        BY <1>1, <1>3, <3>1, <3>5
      <3>7. \A i \in 1 .. Len(s) : i # k + 1 => prev'[s[i]] = prev[s[i]]
        BY <1>1, <1>3, <3>1, <3>5
      <3> QED
        BY <1>4, <3>1, <3>3, <3>5, <3>6, <3>7
    <2>4. CASE eventList # 0 /\ Later(e) = 0 /\ InsertLast(e, Order[Len(Order)])
      <3>1. k = Len(s) /\ Len(s) \in 1 .. Len(s)
        BY <1>1, <1>2, <1>3, <2>4
      <3>2. /\ next' = [next EXCEPT ![s[Len(s)]] = e] /\ prev' = [prev EXCEPT ![e] = s[Len(s)]]
            /\ eventList' = eventList
        BY <1>3, <2>4 DEF InsertLast
      <3>3. s[Len(s)] \in Nodes /\ s[Len(s)] # e
        BY <1>1, <3>1
      <3>5. /\ next'[e] = 0 /\ next'[s[Len(s)]] = e
            /\ \A n \in Nodes : n # s[Len(s)] => next'[n] = next[n]
            /\ prev'[e] = s[Len(s)] /\ \A n \in Nodes : n # e => prev'[n] = prev[n]
            /\ next' \in [Nodes -> Nodes \cup {0}] /\ prev' \in [Nodes -> Nodes \cup {0}]
        BY <1>4, <3>2, <3>3
      <3>6. \A i \in 1 .. Len(s) : i # Len(s) => next'[s[i]] = next[s[i]]
        BY <1>1, <1>3, <3>1, <3>5
      <3> QED
        BY <1>1, <1>4, <3>1, <3>2, <3>5, <3>6
    <2> QED
      BY <2>1, <2>2, <2>3, <2>4 DEF Insert
  <1>6. IsOrder(Spliced(s, k, e))'
    BY <1>3, <1>5, OrderSpliced, ZenonT(60)
  <1> QED
    BY <1>2, <1>5, <1>6, SMTT(30)

LEMMA InsertStep ==
    ASSUME EInv, NEW h \in Threads, Insert(h)
    PROVE  EInv' /\ Queue!EnqueueSome
  <1>1. PICK s \in Seq(Nodes) : ListInv(s)
    BY DEF EInv
  <1>2. PICK e : e = adding[h]
    OBVIOUS
  <1>3. /\ e \in Nodes /\ e \in live /\ e # running /\ next[e] = 0
        /\ adding' = [adding EXCEPT ![h] = 0]
        /\ UNCHANGED <<nodes, live, running, request, requests>>
    BY <1>2 DEF EInv, OwnInv, EventTypeOK, Insert
  <1>4. \A i \in 1 .. Len(s) : s[i] # e
    BY <1>1, <1>2, <1>3 DEF ListInv, Waiting
  <1>5. PICK k \in 0 .. Len(s) :
           /\ \A i \in 1 .. k : abstime[s[i]] <= abstime[e]
           /\ \A i \in k + 1 .. Len(s) : abstime[s[i]] > abstime[e]
           /\ IsOrder(Spliced(s, k, e))'
           /\ \A n \in Nodes : n # e /\ (\A i \in 1 .. Len(s) : s[i] # n) => next'[n] = next[n]
           /\ eventList' \in Nodes \cup {0}
           /\ next' \in [Nodes -> Nodes \cup {0}] /\ prev' \in [Nodes -> Nodes \cup {0}]
    BY <1>1, <1>2, <1>3, <1>4, InsertLinks DEF EInv
  <1> DEFINE z == Spliced(s, k, e)
  <1>6. /\ Len(s) \in Nat /\ \A i \in 1 .. Len(s) : s[i] \in Nodes
        /\ z \in Seq(Nodes) /\ Len(z) = Len(s) + 1
        /\ \A i \in 1 .. k : z[i] = s[i]
        /\ z[k + 1] = e
        /\ \A i \in k + 2 .. Len(s) + 1 : z[i] = s[i - 1]
    <2>1. Len(s) \in Nat /\ \A i \in 1 .. Len(s) : s[i] \in Nodes
      BY LenProperties, ElementOfSeq
    <2> QED
      BY <1>3, <2>1, SplicedSeq DEF Spliced
  <1>7. EventTypeOK'
    BY <1>3, <1>5 DEF EInv, EventTypeOK, nodes, requests
  <1>8. OwnInv'
    <2>1. ASSUME NEW r \in Threads, adding'[r] # 0
          PROVE  adding'[r] \in live' /\ adding'[r] # running' /\ next'[adding'[r]] = 0
      <3>1. r # h /\ adding'[r] = adding[r]
        BY <1>3, <2>1 DEF EInv, EventTypeOK
      <3>2. adding[r] \in live /\ adding[r] # running /\ next[adding[r]] = 0 /\ adding[r] \in Nodes
        BY <2>1, <3>1 DEF EInv, OwnInv, EventTypeOK
      <3>3. adding[r] # e
        BY <1>2, <1>3, <2>1, <3>1 DEF EInv, OwnInv, Threads, Nodes
      <3>4. \A i \in 1 .. Len(s) : s[i] # adding[r]
        BY <1>1, <3>2 DEF ListInv, Waiting
      <3> QED
        BY <1>3, <1>5, <3>1, <3>2, <3>3, <3>4
    <2>2. adding'["runner"] # 0 => adding'["runner"] # adding'["reader"]
      BY <1>3 DEF EInv, OwnInv, EventTypeOK, Threads
    <2>3. running' # 0 => running' \in live' /\ adding'["runner"] = 0
      BY <1>3 DEF EInv, OwnInv, EventTypeOK, Threads
    <2> QED
      BY <2>1, <2>2, <2>3 DEF OwnInv
  <1>9. \A n \in Nodes : Waiting(n)' <=> Waiting(n) \/ n = e
    <2>1. \A r \in Threads : r # h => adding[r] # e
      BY <1>2, <1>3 DEF EInv, OwnInv, Threads, Nodes
    <2>2. adding'[h] = 0 /\ \A r \in Threads : r # h => adding'[r] = adding[r]
      BY <1>3 DEF EInv, EventTypeOK
    <2> QED
      BY <1>2, <1>3, <2>1, <2>2 DEF Waiting, Nodes
  <1>10. abstime' = abstime /\ \A n \in Nodes : abstime[n] \in Int
    BY <1>3, EventAssumption DEF EInv, EventTypeOK, nodes
  <1>11. ListInv(z)'
    <2>1. \A i, j \in 1 .. Len(s) : i <= j => abstime[s[i]] <= abstime[s[j]]
      BY <1>1 DEF ListInv
    <2> HIDE DEF z
    <2>2. \A n \in Nodes : (\E i \in 1 .. Len(z) : z[i] = n) <=> (\E i \in 1 .. Len(s) : s[i] = n) \/ n = e
      <3>1. ASSUME NEW i \in 1 .. Len(z) PROVE (\E j \in 1 .. Len(s) : s[j] = z[i]) \/ z[i] = e
        <4>1. CASE i <= k
          BY <1>6, <4>1
        <4>2. CASE i = k + 1
          BY <1>6, <4>2
        <4>3. CASE i > k + 1
          <5>1. i \in k + 2 .. Len(s) + 1 /\ i - 1 \in 1 .. Len(s)
            BY <1>6, <4>3
          <5>2. z[i] = s[i - 1]
            BY <1>6, <5>1
          <5> QED
            BY <5>1, <5>2
        <4> QED
          BY <1>6, <4>1, <4>2, <4>3
      <3>2. ASSUME NEW i \in 1 .. Len(s) PROVE \E j \in 1 .. Len(z) : z[j] = s[i]
        <4>1. CASE i <= k
          BY <1>6, <4>1
        <4>2. CASE i > k
          <5>1. i + 1 \in k + 2 .. Len(s) + 1 /\ (i + 1) - 1 = i
            BY <1>6, <4>2
          <5>2. z[i + 1] = s[i] /\ i + 1 \in 1 .. Len(z)
            BY <1>6, <5>1
          <5> QED
            BY <5>2
        <4> QED
          BY <1>6, <4>1, <4>2
      <3>3. k + 1 \in 1 .. Len(z) /\ z[k + 1] = e
        BY <1>6
      <3> QED
        BY <3>1, <3>2, <3>3
    <2>3. \A n \in Nodes : Waiting(n)' <=> \E i \in 1 .. Len(z) : z[i] = n
      BY <1>1, <1>9, <2>2 DEF ListInv
    <2>4. ASSUME NEW i \in 1 .. Len(z), NEW j \in 1 .. Len(z), i <= j
          PROVE  abstime[z[i]] <= abstime[z[j]]
      <3>1. CASE j <= k
        <4>1. i \in 1 .. k /\ j \in 1 .. k /\ i \in 1 .. Len(s) /\ j \in 1 .. Len(s)
          BY <1>6, <2>4, <3>1
        <4>2. z[i] = s[i] /\ z[j] = s[j]
          BY <1>6, <4>1
        <4> QED
          BY <2>1, <2>4, <4>1, <4>2
      <3>2. CASE i <= k /\ j = k + 1
        BY <1>5, <1>6, <3>2
      <3>3. CASE i <= k /\ j > k + 1
        <4>1. z[j] = s[j - 1] /\ j - 1 \in 1 .. Len(s) /\ z[i] = s[i] /\ i \in 1 .. Len(s) /\ i <= j - 1
          BY <1>6, <3>3
        <4> QED
          BY <2>1, <4>1
      <3>4. CASE i = k + 1 /\ j = k + 1
        BY <1>3, <1>6, <1>10, <3>4
      <3>5. CASE i = k + 1 /\ j > k + 1
        <4>1. z[j] = s[j - 1] /\ j - 1 \in k + 1 .. Len(s) /\ s[j - 1] \in Nodes /\ z[i] = e
          BY <1>6, <3>5
        <4>2. abstime[s[j - 1]] > abstime[e]
          BY <1>5, <4>1
        <4>3. abstime[s[j - 1]] \in Int /\ abstime[e] \in Int
          BY <1>3, <1>10, <4>1
        <4> QED
          BY <4>1, <4>2, <4>3
      <3>6. CASE i > k + 1
        <4>1. /\ z[j] = s[j - 1] /\ j - 1 \in 1 .. Len(s)
              /\ z[i] = s[i - 1] /\ i - 1 \in 1 .. Len(s) /\ i - 1 <= j - 1
          BY <1>6, <2>4, <3>6
        <4> QED
          BY <2>1, <4>1
      <3> QED
        BY <1>6, <2>4, <3>1, <3>2, <3>3, <3>4, <3>5, <3>6
    <2>5. IsOrder(z)'
      BY <1>5 DEF z
    <2> QED
      BY <1>10, <2>3, <2>4, <2>5 DEF ListInv
  <1>12. Queue!EnqueueSome
    <2> DEFINE D == -MaxLate .. 3
               R == [id : Nodes, due : D]
               q == [i \in 1 .. Len(s) |-> [id |-> s[i], due |-> abstime[s[i]]]]
               d == [id |-> e, due |-> abstime[e]]
    <2>1. EventsAre /\ EventsAre'
      BY EventsLemma, PTL
    <2>2. Events = q
      BY <1>1, <2>1 DEF EventsAre, ListInv
    <2>3. Events' = [i \in 1 .. Len(z) |-> [id |-> z[i], due |-> abstime[z[i]]]]
      <3>1. Events' = [i \in 1 .. Len(z) |-> [id |-> z[i], due |-> abstime'[z[i]]]]
        BY <1>5, <1>6, <2>1 DEF EventsAre
      <3> QED
        BY <1>10, <3>1
    <2>4. \A n \in Nodes : abstime[n] \in D
      BY DEF EInv, EventTypeOK
    <2>5. q \in Seq(R) /\ Len(q) = Len(s) /\ d \in R /\ abstime[e] \in D
      <3>1. \A i \in 1 .. Len(s) : [id |-> s[i], due |-> abstime[s[i]]] \in R
        BY <1>6, <2>4
      <3>2. q \in Seq(R)
        <4> HIDE DEF R
        <4> QED
          BY <1>6, <3>1, IsASeq
      <3>3. Len(q) = Len(s)
        <4>1. DOMAIN q = 1 .. Len(s)
          OBVIOUS
        <4> HIDE DEF q, R
        <4> QED
          BY <1>6, <3>2, <4>1, LenProperties
      <3> QED
        BY <1>3, <2>4, <3>2, <3>3
    <2>6. Events' = Spliced(q, k, d)
      <3>1. ASSUME NEW i \in 1 .. Len(s) + 1
            PROVE  [id |-> z[i], due |-> abstime[z[i]]] =
                      IF i <= k THEN q[i] ELSE IF i = k + 1 THEN d ELSE q[i - 1]
        <4>1. CASE i <= k
          BY <1>6, <4>1
        <4>2. CASE i = k + 1
          BY <1>6, <4>2
        <4>3. CASE i > k + 1
          <5>1. z[i] = s[i - 1] /\ i - 1 \in 1 .. Len(s)
            BY <1>6, <4>3
          <5> QED
            BY <1>6, <4>3, <5>1
        <4> QED
          BY <1>6, <4>1, <4>2, <4>3
      <3>2. Spliced(q, k, d) = [i \in 1 .. Len(s) + 1 |-> IF i <= k THEN q[i] ELSE IF i = k + 1 THEN d ELSE q[i - 1]]
        BY <2>5 DEF Spliced
      <3> HIDE DEF z, q, d
      <3> QED
        BY <1>6, <2>3, <3>1, <3>2
    <2>7. /\ \A i \in 1 .. k : q[i].due <= d.due
          /\ \A i \in k + 1 .. Len(q) : q[i].due > d.due
      BY <1>5, <1>6, <2>5
    <2>8. Len(Spliced(q, k, d)) = Len(q) + 1
      <3> HIDE DEF q, d, R
      <3> QED
        BY <2>5, SplicedSeq
    <2>9. SubSeq(q, 1, k) \o <<d>> \o SubSeq(q, k + 1, Len(q)) = Spliced(q, k, d)
      <3> HIDE DEF q, d, R
      <3> QED
        BY <2>5, SplicedConcat
    <2>10. Queue!Enqueue(d)
      <3> HIDE DEF q, d, R
      <3> QED
        BY <2>2, <2>5, <2>6, <2>7, <2>9 DEF Queue!Enqueue
    <2>11. Len(Events') > Len(Events)
      <3> HIDE DEF q, d, R
      <3> QED
        BY <1>6, <2>2, <2>5, <2>6, <2>8
    <2> QED
      BY <1>3, <2>5, <2>10, <2>11 DEF Queue!EnqueueSome
  <1> QED
    BY <1>6, <1>7, <1>8, <1>11, <1>12 DEF EInv

-----------------------------------------------------------------------------
(* The other steps. *)

RequestsTypeOK ==
    /\ request \in Seq(Tokens) /\ requestList \in Seq(Tokens)
    /\ submitted \subseteq Tokens /\ completed \in [Tokens -> Nat]

PollParams == [t : Tokens \cup {NoToken}, loopcount : 0 .. Repoll]

(* Nothing happens to the nodes. *)
LEMMA StillStep ==
    ASSUME EInv, RequestsTypeOK', UNCHANGED <<list, nodes, live, adding, running>>
    PROVE  EInv' /\ Events' = Events
  <1>1. PICK s \in Seq(Nodes) : ListInv(s)
    BY DEF EInv
  <1>2. ListInv(s)' /\ Events' = Events
    <2>1. \A n \in Nodes : Waiting(n)' <=> Waiting(n)
      BY DEF Waiting
    <2> QED
      BY <1>1, <2>1, ListSame DEF list, nodes
  <1>3. EventTypeOK' /\ OwnInv'
    BY DEF EInv, EventTypeOK, OwnInv, RequestsTypeOK, list, nodes
  <1> QED
    BY <1>1, <1>2, <1>3 DEF EInv

(* A thread fills in a node that was not in use. *)
LEMMA NewEventStep ==
    ASSUME EInv, RequestsTypeOK', NEW h \in Threads, adding[h] = 0,
           NEW callback \in Callbacks, NEW params \in PollParams, NEW delay \in 0 .. 3,
           NewEvent(h, callback, params, delay), UNCHANGED running, h = "runner" => running = 0
    PROVE  EInv' /\ Events' = Events
  <1>1. PICK s \in Seq(Nodes) : ListInv(s)
    BY DEF EInv
  <1>2. PICK n \in Nodes \ live :
           /\ live' = live \cup {n}
           /\ eventCallback' = [eventCallback EXCEPT ![n] = callback]
           /\ poll' = [poll EXCEPT ![n] = params]
           /\ abstime' = [abstime EXCEPT ![n] = delay]
           /\ next' = [next EXCEPT ![n] = 0] /\ prev' = [prev EXCEPT ![n] = 0]
           /\ adding' = [adding EXCEPT ![h] = n]
           /\ UNCHANGED eventList
    BY DEF NewEvent
  <1>3. n # 0 /\ EventTypeOK /\ OwnInv /\ MaxLate \in Nat
    BY EventAssumption DEF EInv, Nodes
  <1>4. /\ adding'[h] = n /\ \A r \in Threads : r # h => adding'[r] = adding[r]
        /\ next'[n] = 0 /\ \A m \in Nodes : m # n => next'[m] = next[m]
        /\ \A m \in Nodes : m # n => prev'[m] = prev[m] /\ abstime'[m] = abstime[m]
    BY <1>2, <1>3 DEF EventTypeOK
  <1>5. EventTypeOK'
    <2>1. delay \in -MaxLate .. 3
      BY <1>3
    <2>2. abstime' \in [Nodes -> -MaxLate .. 3]
      BY <1>2, <1>3, <2>1 DEF EventTypeOK
    <2>3. poll' \in [Nodes -> PollParams]
      BY <1>2, <1>3 DEF EventTypeOK, PollParams
    <2> QED
      BY <1>2, <1>3, <2>2, <2>3 DEF EventTypeOK, RequestsTypeOK, PollParams
  <1>6. \A m \in live : m \in Nodes /\ m # n
    BY <1>2, <1>3 DEF EventTypeOK
  <1>7. OwnInv'
    <2>1. ASSUME NEW r \in Threads, adding'[r] # 0
          PROVE  adding'[r] \in live' /\ adding'[r] # running' /\ next'[adding'[r]] = 0
      <3>1. CASE r = h
        BY <1>2, <1>3, <1>4, <3>1 DEF OwnInv
      <3>2. CASE r # h
        BY <1>2, <1>3, <1>4, <1>6, <2>1, <3>2 DEF OwnInv
      <3> QED
        BY <3>1, <3>2
    <2>2. adding'["runner"] # 0 => adding'["runner"] # adding'["reader"]
      BY <1>2, <1>3, <1>4, <1>6 DEF OwnInv, Threads
    <2>3. running' # 0 => running' \in live' /\ adding'["runner"] = 0
      BY <1>2, <1>3, <1>4 DEF OwnInv, Threads
    <2> QED
      BY <2>1, <2>2, <2>3 DEF OwnInv
  <1>8. ListInv(s)' /\ Events' = Events
    <2>1. \A m \in Nodes : Waiting(m)' <=> Waiting(m)
      BY <1>2, <1>3, <1>4, <1>6 DEF Waiting, Nodes
    <2>2. \A i \in 1 .. Len(s) : s[i] \in Nodes
      BY ElementOfSeq
    <2>3. \A i \in 1 .. Len(s) : s[i] \in Nodes /\ s[i] # n
      BY <1>1, <1>2, <2>2 DEF ListInv, Waiting
    <2> QED
      BY <1>1, <1>2, <1>4, <2>1, <2>3, ListSame
  <1> QED
    BY <1>1, <1>5, <1>7, <1>8 DEF EInv

(* The event that was handled is freed. *)
LEMMA ReturnStep ==
    ASSUME EInv, RequestsTypeOK', running # 0, Return, UNCHANGED adding
    PROVE  EInv' /\ Events' = Events
  <1>1. PICK s \in Seq(Nodes) : ListInv(s)
    BY DEF EInv
  <1>2. PICK n \in Nodes : n = running
    BY DEF EInv, EventTypeOK
  <1>3. /\ EventTypeOK /\ OwnInv /\ MaxLate \in Nat /\ 0 \in -MaxLate .. 3 /\ NoPoll \in PollParams
        /\ n # 0 /\ n \in live /\ OnUrc \in Callbacks
    BY <1>2, EventAssumption DEF EInv, OwnInv, NoPoll, PollParams, Callbacks
  <1>4. /\ running' = 0 /\ live' = live \ {n} /\ UNCHANGED <<eventList, adding>>
        /\ abstime' = [abstime EXCEPT ![n] = 0]
        /\ eventCallback' = [eventCallback EXCEPT ![n] = OnUrc]
        /\ poll' = [poll EXCEPT ![n] = NoPoll]
        /\ next' = [next EXCEPT ![n] = 0] /\ prev' = [prev EXCEPT ![n] = 0]
    BY <1>2 DEF Return
  <1>5. EventTypeOK'
    BY <1>3, <1>4 DEF EventTypeOK, RequestsTypeOK, PollParams
  <1>6. OwnInv'
    BY <1>2, <1>3, <1>4 DEF OwnInv, EventTypeOK
  <1>7. ListInv(s)' /\ Events' = Events
    <2>1. \A m \in Nodes : Waiting(m)' <=> Waiting(m)
      BY <1>2, <1>3, <1>4 DEF Waiting, Nodes
    <2>2. \A i \in 1 .. Len(s) : s[i] \in Nodes
      BY ElementOfSeq
    <2>3. \A i \in 1 .. Len(s) : s[i] \in Nodes /\ s[i] # n
      BY <1>1, <1>2, <2>2 DEF ListInv, Waiting
    <2>4. \A m \in Nodes : m # n => next'[m] = next[m] /\ prev'[m] = prev[m] /\ abstime'[m] = abstime[m]
      BY <1>3, <1>4 DEF EventTypeOK
    <2> QED
      BY <1>1, <1>4, <2>1, <2>3, <2>4, ListSame
  <1> QED
    BY <1>1, <1>5, <1>6, <1>7 DEF EInv

(* The event that was handled is freed, and a new one will go into the list. *)
LEMMA AgainStep ==
    ASSUME EInv, RequestsTypeOK', running # 0,
           NEW callback \in Callbacks, NEW params \in PollParams, NEW delay \in 0 .. 3,
           Again(callback, params, delay)
    PROVE  EInv' /\ Events' = Events
  <1>1. PICK s \in Seq(Nodes) : ListInv(s)
    BY DEF EInv
  <1>2. PICK c \in Nodes : c = running
    BY DEF EInv, EventTypeOK
  <1>3. /\ EventTypeOK /\ OwnInv /\ MaxLate \in Nat /\ 0 \in -MaxLate .. 3 /\ NoPoll \in PollParams
        /\ c # 0 /\ c \in live /\ OnUrc \in Callbacks /\ adding["runner"] = 0 /\ "runner" \in Threads
        /\ delay \in -MaxLate .. 3 /\ 0 \notin Nodes
    <2>1. MaxLate \in Nat /\ NoPoll \in PollParams /\ 0 \notin Nodes
      BY EventAssumption DEF NoPoll, PollParams, Nodes
    <2>2. 0 \in -MaxLate .. 3 /\ delay \in -MaxLate .. 3
      BY <2>1
    <2> QED
      BY <1>2, <2>1, <2>2 DEF EInv, OwnInv, Callbacks, Threads
  <1>4. PICK n \in Nodes \ live :
           /\ live' = (live \ {c}) \cup {n}
           /\ eventCallback' = [eventCallback EXCEPT ![n] = callback, ![c] = OnUrc]
           /\ poll' = [poll EXCEPT ![n] = params, ![c] = NoPoll]
           /\ abstime' = [abstime EXCEPT ![n] = delay, ![c] = 0]
           /\ next' = [next EXCEPT ![n] = 0, ![c] = 0]
           /\ prev' = [prev EXCEPT ![n] = 0, ![c] = 0]
           /\ adding' = [adding EXCEPT !["runner"] = n]
    BY <1>2 DEF Again
  <1>5. running' = 0 /\ UNCHANGED eventList /\ n # c /\ n # 0
    BY <1>3, <1>4 DEF Again
  <1>6. /\ adding'["runner"] = n /\ \A r \in Threads : r # "runner" => adding'[r] = adding[r]
        /\ next'[n] = 0
        /\ \A m \in Nodes : m # n /\ m # c =>
              next'[m] = next[m] /\ prev'[m] = prev[m] /\ abstime'[m] = abstime[m]
    BY <1>3, <1>4, <1>5 DEF EventTypeOK
  <1>7. EventTypeOK'
    <2>1. poll' \in [Nodes -> PollParams]
      BY <1>3, <1>4 DEF EventTypeOK, PollParams
    <2>2. abstime' \in [Nodes -> -MaxLate .. 3] /\ eventCallback' \in [Nodes -> Callbacks]
      BY <1>3, <1>4 DEF EventTypeOK
    <2>3. /\ next' \in [Nodes -> Nodes \cup {0}] /\ prev' \in [Nodes -> Nodes \cup {0}]
          /\ adding' \in [Threads -> Nodes \cup {0}] /\ live' \subseteq Nodes
      BY <1>3, <1>4 DEF EventTypeOK
    <2> QED
      BY <1>3, <1>5, <2>1, <2>2, <2>3 DEF EventTypeOK, RequestsTypeOK, PollParams
  <1>8. OwnInv'
    <2>1. ASSUME NEW r \in Threads, adding'[r] # 0
          PROVE  adding'[r] \in live' /\ adding'[r] # running' /\ next'[adding'[r]] = 0
      <3>1. CASE r = "runner"
        BY <1>4, <1>5, <1>6, <3>1
      <3>2. CASE r # "runner"
        <4>1. adding'[r] = adding[r] /\ adding[r] \in live /\ adding[r] # c /\ next[adding[r]] = 0
          BY <1>2, <1>3, <1>6, <2>1, <3>2 DEF OwnInv
        <4>2. adding[r] \in Nodes /\ adding[r] # n
          BY <1>3, <1>4, <4>1 DEF EventTypeOK
        <4>3. adding[r] \in live'
          BY <1>4, <4>1
        <4>4. next'[adding[r]] = next[adding[r]]
          BY <1>6, <4>1, <4>2
        <4> QED
          BY <1>5, <2>1, <4>1, <4>3, <4>4
      <3> QED
        BY <3>1, <3>2
    <2>2. adding'["runner"] # adding'["reader"]
      <3>1. "reader" \in Threads /\ "reader" # "runner"
        BY DEF Threads
      <3> QED
        BY <1>3, <1>4, <1>5, <1>6, <3>1 DEF OwnInv, EventTypeOK
    <2> QED
      BY <1>5, <2>1, <2>2 DEF OwnInv
  <1>9. ListInv(s)' /\ Events' = Events
    <2>1. ASSUME NEW m \in Nodes PROVE Waiting(m)' <=> Waiting(m)
      <3>1. CASE m = n
        BY <1>3, <1>4, <1>6, <3>1 DEF Waiting
      <3>2. CASE m = c
        BY <1>2, <1>4, <1>5, <3>2 DEF Waiting
      <3>3. CASE m # n /\ m # c
        BY <1>2, <1>3, <1>4, <1>5, <1>6, <3>3 DEF Waiting
      <3> QED
        BY <3>1, <3>2, <3>3
    <2>2. \A i \in 1 .. Len(s) : s[i] \in Nodes
      BY ElementOfSeq
    <2>3. \A i \in 1 .. Len(s) : s[i] \in Nodes /\ s[i] # n /\ s[i] # c
      BY <1>1, <1>2, <1>4, <2>2 DEF ListInv, Waiting
    <2> QED
      BY <1>1, <1>5, <1>6, <2>1, <2>3, ListSame
  <1> QED
    BY <1>1, <1>7, <1>8, <1>9 DEF EInv

(* A second passes. *)
LEMMA TickStep ==
    ASSUME EInv, Tick, RequestsTypeOK'
    PROVE  EInv' /\ Queue!Tick
  <1>1. PICK s \in Seq(Nodes) : ListInv(s)
    BY DEF EInv
  <1>2. EventTypeOK /\ OwnInv /\ MaxLate \in Nat
    BY EventAssumption DEF EInv
  <1>3. /\ \A n \in live : n # running => abstime[n] > -MaxLate
        /\ abstime' = [n \in Nodes |-> IF n \in live \ {running} THEN abstime[n] - 1 ELSE abstime[n]]
        /\ UNCHANGED <<eventList, next, prev, eventCallback, poll, live, adding, running>>
    BY DEF Tick, list
  <1>4. Len(s) \in Nat /\ \A i \in 1 .. Len(s) : s[i] \in Nodes /\ s[i] \in live /\ s[i] # running
    <2>1. Len(s) \in Nat /\ \A i \in 1 .. Len(s) : s[i] \in Nodes
      BY LenProperties, ElementOfSeq
    <2> QED
      BY <1>1, <2>1 DEF ListInv, Waiting
  <1>5. \A n \in Nodes : abstime[n] \in Int
    BY <1>2 DEF EventTypeOK
  <1>6. \A i \in 1 .. Len(s) : abstime'[s[i]] = abstime[s[i]] - 1
    BY <1>3, <1>4
  <1>7. EventTypeOK'
    <2>1. ASSUME NEW n \in Nodes PROVE abstime'[n] \in -MaxLate .. 3
      <3>1. abstime[n] \in -MaxLate .. 3 /\ abstime[n] \in Int
        BY <1>2, <1>5 DEF EventTypeOK
      <3>2. CASE n \in live \ {running}
        <4>1. abstime'[n] = abstime[n] - 1 /\ abstime[n] > -MaxLate
          BY <1>3, <3>2
        <4> QED
          BY <1>2, <3>1, <4>1
      <3>3. CASE n \notin live \ {running}
        BY <1>3, <3>1, <3>3
      <3> QED
        BY <3>2, <3>3
    <2>2. abstime' \in [Nodes -> -MaxLate .. 3]
      BY <1>3, <2>1
    <2> QED
      BY <1>2, <1>3, <2>2 DEF EventTypeOK, RequestsTypeOK
  <1>8. OwnInv'
    BY <1>2, <1>3 DEF OwnInv
  <1>9. IsOrder(s)'
    BY <1>1, <1>3 DEF ListInv, IsOrder
  <1>10. ListInv(s)'
    <2>1. ASSUME NEW i \in 1 .. Len(s), NEW j \in 1 .. Len(s), i <= j
          PROVE  abstime'[s[i]] <= abstime'[s[j]]
      <3>1. abstime[s[i]] <= abstime[s[j]] /\ abstime[s[i]] \in Int /\ abstime[s[j]] \in Int
        BY <1>1, <1>4, <1>5, <2>1 DEF ListInv
      <3>2. abstime'[s[i]] = abstime[s[i]] - 1 /\ abstime'[s[j]] = abstime[s[j]] - 1
        BY <1>6
      <3> QED
        BY <3>1, <3>2
    <2>2. \A n \in Nodes : Waiting(n)' <=> Waiting(n)
      BY <1>3 DEF Waiting
    <2> QED
      BY <1>1, <1>9, <2>1, <2>2 DEF ListInv
  <1>11. Queue!Tick
    <2>1. EventsAre /\ EventsAre'
      BY EventsLemma, PTL
    <2>2. Events = [i \in 1 .. Len(s) |-> [id |-> s[i], due |-> abstime[s[i]]]]
      BY <1>1, <2>1 DEF EventsAre, ListInv
    <2>3. Events' = [i \in 1 .. Len(s) |-> [id |-> s[i], due |-> abstime'[s[i]]]]
      BY <1>9, <2>1 DEF EventsAre
    <2>4. Events' = [i \in DOMAIN Events |-> [Events[i] EXCEPT !.due = @ - 1]]
      BY <1>6, <2>2, <2>3
    <2> QED
      BY <2>4 DEF Queue!Tick
  <1> QED
    BY <1>1, <1>7, <1>8, <1>10, <1>11 DEF EInv

(* One turn of queueRunner(). *)
LEMMA TurnStep ==
    ASSUME EInv, Turn, RequestsTypeOK'
    PROVE  EInv' /\ (Events' = Events \/ Queue!Dequeue)
  <1>1. PICK s \in Seq(Nodes) : ListInv(s)
    BY DEF EInv
  <1>2. EventTypeOK /\ OwnInv
    BY DEF EInv
  <1>3. /\ running = 0 /\ adding["runner"] = 0
        /\ UNCHANGED <<next, prev, abstime, eventCallback, poll, live, adding>>
    BY DEF Turn, RunnerIdle, nodes
  <1>4. CASE UNCHANGED <<running, eventList>>
    <2>1. UNCHANGED <<list, nodes, live, adding, running>>
      BY <1>3, <1>4 DEF list, nodes
    <2> QED
      BY <2>1, StillStep
  <1>5. CASE eventList # 0 /\ abstime[eventList] < 0 /\ running' = eventList /\ eventList' = next[eventList]
    <2>1. Len(s) \in Nat /\ \A i \in 1 .. Len(s) : s[i] \in Nodes
      BY LenProperties, ElementOfSeq
    <2>2. /\ \A i, j \in 1 .. Len(s) : s[i] = s[j] => i = j
          /\ eventList = IF Len(s) = 0 THEN 0 ELSE s[1]
          /\ \A i \in 1 .. Len(s) : next[s[i]] = IF i = Len(s) THEN 0 ELSE s[i + 1]
          /\ \A i \in 2 .. Len(s) : prev[s[i]] = s[i - 1]
          /\ \A i, j \in 1 .. Len(s) : i <= j => abstime[s[i]] <= abstime[s[j]]
      BY <1>1 DEF ListInv, IsOrder
    <2>3. Len(s) \in Nat \ {0} /\ eventList = s[1] /\ 1 \in 1 .. Len(s) /\ s # <<>>
      BY <1>5, <2>1, <2>2
    <2> DEFINE z == Tail(s)
    <2>4. /\ z \in Seq(Nodes) /\ Len(z) = Len(s) - 1
          /\ \A i \in 1 .. Len(s) - 1 : z[i] = s[i + 1]
      BY <2>3, HeadTailProperties
    <2> HIDE DEF z
    <2>5. IsOrder(z)'
      <3>1. ASSUME NEW i \in 1 .. Len(z), NEW j \in 1 .. Len(z), z[i] = z[j] PROVE i = j
        <4>1. i + 1 \in 1 .. Len(s) /\ j + 1 \in 1 .. Len(s) /\ z[i] = s[i + 1] /\ z[j] = s[j + 1]
          BY <2>1, <2>4
        <4>2. i + 1 = j + 1
          BY <2>2, <3>1, <4>1
        <4> QED
          BY <4>2
      <3>2. eventList' = IF Len(z) = 0 THEN 0 ELSE z[1]
        <4>1. next[s[1]] = IF 1 = Len(s) THEN 0 ELSE s[1 + 1]
          BY <2>2, <2>3
        <4> QED
          BY <1>5, <2>3, <2>4, <4>1
      <3>3. ASSUME NEW i \in 1 .. Len(z) PROVE next[z[i]] = IF i = Len(z) THEN 0 ELSE z[i + 1]
        <4>1. i + 1 \in 1 .. Len(s) /\ z[i] = s[i + 1]
          BY <2>1, <2>4
        <4>2. next[s[i + 1]] = IF i + 1 = Len(s) THEN 0 ELSE s[(i + 1) + 1]
          BY <2>2, <4>1
        <4>3. i # Len(z) => z[i + 1] = s[(i + 1) + 1]
          BY <2>1, <2>4
        <4>4. i = Len(z) <=> i + 1 = Len(s)
          BY <2>1, <2>4
        <4> QED
          BY <4>1, <4>2, <4>3, <4>4
      <3>4. ASSUME NEW i \in 2 .. Len(z) PROVE prev[z[i]] = z[i - 1]
        <4>1. i + 1 \in 2 .. Len(s) /\ z[i] = s[i + 1] /\ i - 1 \in 1 .. Len(s) - 1 /\ (i - 1) + 1 = i
          BY <2>1, <2>4
        <4>2. prev[s[i + 1]] = s[(i + 1) - 1] /\ (i + 1) - 1 = i
          BY <2>2, <4>1
        <4>3. z[i - 1] = s[i]
          BY <2>4, <4>1
        <4> QED
          BY <4>1, <4>2, <4>3
      <3> QED
        BY <1>3, <3>1, <3>2, <3>3, <3>4 DEF IsOrder
    <2>6. ASSUME NEW n \in Nodes
          PROVE  Waiting(n)' <=> \E i \in 1 .. Len(z) : z[i] = n
      <3>1. Waiting(n)' <=> Waiting(n) /\ n # s[1]
        BY <1>3, <1>5, <2>3 DEF Waiting, Nodes
      <3>2. Waiting(n) <=> \E i \in 1 .. Len(s) : s[i] = n
        BY <1>1 DEF ListInv
      <3>3. ASSUME NEW i \in 1 .. Len(s), s[i] = n, n # s[1]
            PROVE  \E j \in 1 .. Len(z) : z[j] = n
        <4>1. i - 1 \in 1 .. Len(z) /\ (i - 1) + 1 = i
          BY <2>1, <2>4, <3>3
        <4> QED
          BY <2>4, <3>3, <4>1
      <3>4. ASSUME NEW i \in 1 .. Len(z), z[i] = n
            PROVE  n # s[1] /\ \E j \in 1 .. Len(s) : s[j] = n
        <4>1. i + 1 \in 1 .. Len(s) /\ s[i + 1] = n /\ i + 1 # 1
          BY <2>1, <2>4, <3>4
        <4> QED
          BY <2>2, <2>3, <4>1
      <3> QED
        BY <3>1, <3>2, <3>3, <3>4
    <2>7. ASSUME NEW i \in 1 .. Len(z), NEW j \in 1 .. Len(z), i <= j
          PROVE  abstime[z[i]] <= abstime[z[j]]
      <3>1. i + 1 \in 1 .. Len(s) /\ j + 1 \in 1 .. Len(s) /\ z[i] = s[i + 1] /\ z[j] = s[j + 1] /\ i + 1 <= j + 1
        BY <2>1, <2>4, <2>7
      <3> QED
        BY <2>2, <3>1
    <2>8. ListInv(z)'
      BY <1>3, <2>5, <2>6, <2>7 DEF ListInv
    <2>9. s[1] \in Nodes /\ s[1] \in live /\ \A h \in Threads : adding[h] # s[1]
      <3>1. Waiting(s[1])
        BY <1>1, <2>1, <2>3 DEF ListInv
      <3> QED
        BY <2>1, <2>3, <3>1 DEF Waiting
    <2>10. eventList' \in Nodes \cup {0}
      BY <1>2, <1>5, <2>3, <2>9 DEF EventTypeOK
    <2>11. EventTypeOK'
      BY <1>2, <1>3, <1>5, <2>3, <2>9, <2>10 DEF EventTypeOK, RequestsTypeOK
    <2>12. OwnInv'
      BY <1>2, <1>3, <1>5, <2>3, <2>9 DEF OwnInv
    <2>13. Queue!Dequeue
      <3> DEFINE Timed(n) == [id |-> n, due |-> abstime[n]]
                 q == [i \in 1 .. Len(s) |-> Timed(s[i])]
      <3>1. EventsAre /\ EventsAre'
        BY EventsLemma, PTL
      <3>2. Events = q
        BY <1>1, <3>1 DEF EventsAre, ListInv
      <3>3. Events' = [i \in 1 .. Len(z) |-> Timed(z[i])]
        <4>1. Events' = [i \in 1 .. Len(z) |-> [id |-> z[i], due |-> abstime'[z[i]]]]
          BY <2>4, <2>5, <3>1 DEF EventsAre
        <4> QED
          BY <1>3, <4>1
      <3> DEFINE R == {Timed(n) : n \in Nodes}
      <3>4. q \in Seq(R) /\ DOMAIN q = 1 .. Len(s)
        <4>1. \A i \in 1 .. Len(s) : Timed(s[i]) \in R
          BY <2>1
        <4> HIDE DEF R, Timed
        <4> QED
          BY <2>1, <4>1, IsASeq
      <3>5. Len(q) = Len(s) /\ q # <<>> /\ Head(q) = q[1] /\ q[1] = Timed(s[1])
        <4> HIDE DEF R, Timed
        <4>1. q[1] = Timed(s[1])
          BY <2>3
        <4> HIDE DEF q
        <4> QED
          BY <2>3, <3>4, <4>1, LenProperties, HeadTailProperties
      <3>6. Timed(s[1]).due < 0
        BY <1>5, <2>3
      <3>7. Tail(q) = [i \in 1 .. Len(z) |-> Timed(z[i])]
        <4>1. /\ Tail(q) \in Seq(R) /\ Len(Tail(q)) = Len(s) - 1
              /\ \A i \in 1 .. Len(s) - 1 : Tail(q)[i] = q[i + 1]
          <5> HIDE DEF q, R
          <5> QED
            BY <2>3, <3>4, <3>5, HeadTailProperties
        <4>2. Tail(q) = [i \in 1 .. Len(s) - 1 |-> Tail(q)[i]]
          <5> HIDE DEF q, R
          <5> QED
            BY <2>1, <4>1, LenProperties
        <4>3. \A i \in 1 .. Len(s) - 1 : q[i + 1] = Timed(z[i])
          <5> HIDE DEF Timed
          <5> QED
            BY <2>1, <2>4
        <4> HIDE DEF q, R, Timed
        <4> QED
          BY <2>4, <4>1, <4>2, <4>3
      <3> HIDE DEF q, R, Timed
      <3>8. Head(q).due < 0
        BY <3>5, <3>6
      <3> QED
        BY <3>2, <3>3, <3>5, <3>7, <3>8 DEF Queue!Dequeue
    <2> QED
      BY <2>4, <2>8, <2>11, <2>12, <2>13 DEF EInv
  <1> QED
    BY <1>4, <1>5 DEF Turn

-----------------------------------------------------------------------------
(* The tokens. *)

(* A poll of the operator, and no other event, has a request, its own.      *)
PollInv ==
    /\ \A n \in live :
          IF eventCallback[n] = PollOperator THEN poll[n].t \in Tokens ELSE poll[n].t = NoToken
    /\ \A m, n \in live : poll[m].t \in Tokens /\ poll[m].t = poll[n].t => m = n

(* Where a token is. *)
Waits(t)  == \E i \in 1 .. Len(requestList) : requestList[i] = t
Handled(t)  == \E i \in 1 .. Len(request) : request[i] = t
Polled(t)   == \E n \in live : poll[n].t = t
WasAnswered(t) == completed[t] = 1

OnePlace(t) ==
    /\ t \in submitted <=> Waits(t) \/ Handled(t) \/ Polled(t) \/ WasAnswered(t)
    /\ Waits(t) => ~Handled(t) /\ ~Polled(t) /\ ~WasAnswered(t)
    /\ Handled(t) => ~Polled(t) /\ ~WasAnswered(t)
    /\ Polled(t) => ~WasAnswered(t)

TokenInv ==
    /\ PollInv
    /\ \A i, j \in 1 .. Len(requestList) : requestList[i] = requestList[j] => i = j
    /\ Len(request) <= 1
    /\ \A t \in Tokens : completed[t] \in {0, 1} /\ OnePlace(t)

LEMMA PollsNew ==
    ASSUME EInv, PollInv, NEW h \in Threads,
           NEW callback \in Callbacks, NEW params \in PollParams, NEW delay \in 0 .. 3,
           NewEvent(h, callback, params, delay),
           IF callback = PollOperator THEN params.t \in Tokens /\ ~Polled(params.t)
                                      ELSE params.t = NoToken
    PROVE  PollInv' /\ \A t \in Tokens : Polled(t)' <=> Polled(t) \/ t = params.t
  <1>1. PICK n \in Nodes \ live :
           /\ live' = live \cup {n}
           /\ eventCallback' = [eventCallback EXCEPT ![n] = callback]
           /\ poll' = [poll EXCEPT ![n] = params]
    BY DEF NewEvent
  <1>2. /\ NoToken \notin Tokens /\ live \subseteq Nodes
        /\ eventCallback \in [Nodes -> Callbacks] /\ poll \in [Nodes -> PollParams]
    BY EventAssumption DEF EInv, EventTypeOK, PollParams
  <1>3. /\ eventCallback'[n] = callback /\ poll'[n] = params
        /\ \A m \in live : m # n /\ eventCallback'[m] = eventCallback[m] /\ poll'[m] = poll[m]
    BY <1>1, <1>2
  <1>4. \A t \in Tokens : Polled(t)' <=> Polled(t) \/ t = params.t
    BY <1>1, <1>3 DEF Polled
  <1>5. PollInv'
    <2>1. ASSUME NEW m \in live'
          PROVE  IF eventCallback'[m] = PollOperator THEN poll'[m].t \in Tokens ELSE poll'[m].t = NoToken
      <3>1. CASE m = n
        BY <1>3, <3>1
      <3>2. CASE m \in live
        BY <1>3, <3>2 DEF PollInv
      <3> QED
        BY <1>1, <2>1, <3>1, <3>2
    <2>2. ASSUME NEW m \in live', NEW k \in live', poll'[m].t \in Tokens, poll'[m].t = poll'[k].t
          PROVE  m = k
      <3>1. params.t \in Tokens => ~Polled(params.t)
        BY <1>2
      <3>2. CASE m \in live /\ k \in live
        BY <1>3, <2>2, <3>2 DEF PollInv
      <3>3. CASE m = n /\ k \in live
        BY <1>3, <2>2, <3>1, <3>3 DEF Polled
      <3>4. CASE m \in live /\ k = n
        BY <1>3, <2>2, <3>1, <3>4 DEF Polled
      <3> QED
        BY <1>1, <2>2, <3>2, <3>3, <3>4
    <2> QED
      BY <2>1, <2>2 DEF PollInv
  <1> QED
    BY <1>4, <1>5

LEMMA PollsReturn ==
    ASSUME EInv, PollInv, running # 0, Return
    PROVE  PollInv' /\ \A t \in Tokens : Polled(t)' <=> Polled(t) /\ t # poll[running].t
  <1>1. /\ live' = live \ {running}
        /\ eventCallback' = [eventCallback EXCEPT ![running] = OnUrc]
        /\ poll' = [poll EXCEPT ![running] = NoPoll]
    BY DEF Return
  <1>2. /\ running \in live /\ live \subseteq Nodes
        /\ eventCallback \in [Nodes -> Callbacks] /\ poll \in [Nodes -> PollParams]
    BY DEF EInv, EventTypeOK, OwnInv, PollParams
  <1>3. \A m \in live' : m \in live /\ eventCallback'[m] = eventCallback[m] /\ poll'[m] = poll[m]
    BY <1>1, <1>2
  <1>4. PollInv'
    BY <1>3 DEF PollInv
  <1>5. ASSUME NEW t \in Tokens PROVE Polled(t)' <=> Polled(t) /\ t # poll[running].t
    BY <1>1, <1>2, <1>3 DEF Polled, PollInv
  <1> QED
    BY <1>4, <1>5

LEMMA PollsAgain ==
    ASSUME EInv, PollInv, running # 0, NEW callback \in Callbacks, NEW params \in PollParams,
           NEW delay \in 0 .. 3, Again(callback, params, delay),
           callback = eventCallback[running], params.t = poll[running].t
    PROVE  PollInv' /\ \A t \in Tokens : Polled(t)' <=> Polled(t)
  <1>1. PICK n \in Nodes \ live :
           /\ live' = (live \ {running}) \cup {n}
           /\ eventCallback' = [eventCallback EXCEPT ![n] = callback, ![running] = OnUrc]
           /\ poll' = [poll EXCEPT ![n] = params, ![running] = NoPoll]
    BY DEF Again
  <1>2. /\ running \in live /\ live \subseteq Nodes
        /\ eventCallback \in [Nodes -> Callbacks] /\ poll \in [Nodes -> PollParams]
    BY DEF EInv, EventTypeOK, OwnInv, PollParams
  <1>3. /\ eventCallback'[n] = eventCallback[running] /\ poll'[n] = params /\ poll'[n].t = poll[running].t
        /\ \A m \in live \ {running} :
              m # n /\ eventCallback'[m] = eventCallback[m] /\ poll'[m] = poll[m]
    BY <1>1, <1>2
  <1>4. PollInv'
    <2>1. ASSUME NEW m \in live'
          PROVE  IF eventCallback'[m] = PollOperator THEN poll'[m].t \in Tokens ELSE poll'[m].t = NoToken
      <3>1. CASE m = n
        BY <1>2, <1>3, <3>1 DEF PollInv
      <3>2. CASE m \in live \ {running}
        BY <1>3, <3>2 DEF PollInv
      <3> QED
        BY <1>1, <2>1, <3>1, <3>2
    <2>2. ASSUME NEW m \in live', NEW k \in live', poll'[m].t \in Tokens, poll'[m].t = poll'[k].t
          PROVE  m = k
      <3>1. CASE m \in live \ {running} /\ k \in live \ {running}
        BY <1>3, <2>2, <3>1 DEF PollInv
      <3>2. CASE m = n /\ k \in live \ {running}
        BY <1>2, <1>3, <2>2, <3>2 DEF PollInv
      <3>3. CASE m \in live \ {running} /\ k = n
        BY <1>2, <1>3, <2>2, <3>3 DEF PollInv
      <3> QED
        BY <1>1, <2>2, <3>1, <3>2, <3>3
    <2> QED
      BY <2>1, <2>2 DEF PollInv
  <1>5. ASSUME NEW t \in Tokens PROVE Polled(t)' <=> Polled(t)
    <2>1. ASSUME NEW m \in live, poll[m].t = t PROVE Polled(t)'
      <3>1. CASE m = running
        BY <1>1, <1>3, <2>1, <3>1 DEF Polled
      <3>2. CASE m # running
        BY <1>1, <1>3, <2>1, <3>2 DEF Polled
      <3> QED
        BY <3>1, <3>2
    <2>2. ASSUME NEW m \in live', poll'[m].t = t PROVE Polled(t)
      <3>1. CASE m = n
        BY <1>2, <1>3, <2>2, <3>1 DEF Polled
      <3>2. CASE m \in live \ {running}
        BY <1>3, <2>2, <3>2 DEF Polled
      <3> QED
        BY <1>1, <2>2, <3>1, <3>2
    <2> QED
      BY <2>1, <2>2 DEF Polled
  <1> QED
    BY <1>4, <1>5

-----------------------------------------------------------------------------
(* All steps. *)

(* The requests and the tokens in them. *)
LEMMA RequestsStep ==
    ASSUME EInv, TokenInv, EventNext
    PROVE  RequestsTypeOK'
  <1>0. /\ request \in Seq(Tokens) /\ requestList \in Seq(Tokens)
        /\ submitted \subseteq Tokens /\ completed \in [Tokens -> Nat]
    BY DEF EInv, EventTypeOK
  <1>1. CASE UNCHANGED <<request, requests>>
    BY <1>0, <1>1 DEF RequestsTypeOK, requests
  <1>2. ASSUME NEW t \in Tokens, Submit(t) PROVE RequestsTypeOK'
    BY <1>0, <1>2 DEF Submit, RequestsTypeOK
  <1>3. CASE Turn
    <2>1. PICK r \in 0 .. Len(requestList) :
             /\ r = IF requestList = <<>> THEN 0 ELSE 1
             /\ request' = SubSeq(requestList, 1, r)
             /\ requestList' = SubSeq(requestList, r + 1, Len(requestList))
      BY <1>3 DEF Turn
    <2>2. /\ Len(requestList) \in Nat
          /\ \A i \in 1 .. Len(requestList) : requestList[i] \in Tokens
      BY <1>0, LenProperties, ElementOfSeq
    <2>3. request' \in Seq(Tokens)
      <3>1. \A i \in 1 .. r : requestList[i] \in Tokens
        BY <2>1, <2>2
      <3> QED
        BY <1>0, <2>1, <2>2, <3>1, SubSeqProperties
    <2>4. requestList' \in Seq(Tokens)
      BY <1>0, <2>1, <2>2, SubSeqProperties
    <2> QED
      BY <1>0, <1>3, <2>3, <2>4 DEF Turn, RequestsTypeOK
  <1>4. CASE RunPollOperator
    <2>1. UNCHANGED <<request, requestList, submitted>>
          /\ (completed' = completed \/ completed' = [completed EXCEPT ![poll[running].t] = @ + 1])
      BY <1>4 DEF RunPollOperator, Complete
    <2>2. \A t \in Tokens : completed[t] + 1 \in Nat
      BY <1>0
    <2>3. completed' \in [Tokens -> Nat]
      BY <1>0, <2>1, <2>2
    <2> QED
      BY <1>0, <2>1, <2>3 DEF RequestsTypeOK
  <1>5. CASE ProcessRequest
    <2>1. request' = <<>> /\ UNCHANGED <<requestList, submitted>>
          /\ (completed' = completed \/ completed' = [completed EXCEPT ![Head(request)] = @ + 1])
      BY <1>5 DEF ProcessRequest, Complete
    <2>2. \A t \in Tokens : completed[t] + 1 \in Nat
      BY <1>0
    <2>3. completed' \in [Tokens -> Nat]
      BY <1>0, <2>1, <2>2
    <2>4. request' \in Seq(Tokens)
      BY <2>1
    <2> QED
      BY <1>0, <2>1, <2>3, <2>4 DEF RequestsTypeOK
  <1>6. CASE OnUnsolicited
    BY <1>1, <1>6 DEF OnUnsolicited
  <1>7. CASE Tick
    BY <1>1, <1>7 DEF Tick
  <1>8. ASSUME NEW h \in Threads, Insert(h) PROVE RequestsTypeOK'
    BY <1>1, <1>8 DEF Insert
  <1>9. CASE RunUrc \/ RunCheckMessageStorage
    BY <1>1, <1>9 DEF RunUrc, RunCheckMessageStorage
  <1> QED
    BY <1>2, <1>3, <1>4, <1>5, <1>6, <1>7, <1>8, <1>9 DEF EventNext, EventRunnerStep, Threads

(* What the list does is what a queue by time does.                         *)
LEMMA ListStep ==
    ASSUME EInv, TokenInv, [EventNext]_eventVars
    PROVE  EInv' /\ [Queue!Next]_Events
  <1>1. CASE UNCHANGED eventVars
    <2>1. RequestsTypeOK' /\ UNCHANGED <<list, nodes, live, adding, running>>
      BY <1>1 DEF eventVars, requests, EInv, EventTypeOK, RequestsTypeOK
    <2> QED
      BY <2>1, StillStep
  <1>2. CASE EventNext
    <2>0. RequestsTypeOK'
      BY <1>2, RequestsStep
    <2>a. NoPoll \in PollParams /\ {CheckMessageStorage, PollOperator, OnUrc} \subseteq Callbacks
          /\ {0, 2, 3} \subseteq 0 .. 3 /\ {"reader", "runner"} \subseteq Threads
      BY EventAssumption DEF NoPoll, PollParams, Callbacks, Threads
    <2>1. CASE OnUnsolicited
      <3>1. PICK callback \in {OnUrc, CheckMessageStorage} : NewEvent("reader", callback, NoPoll, 0)
        BY <2>1 DEF OnUnsolicited
      <3>2. adding["reader"] = 0 /\ UNCHANGED running /\ "reader" # "runner"
        BY <2>1 DEF OnUnsolicited
      <3> QED
        BY <2>0, <2>a, <3>1, <3>2, NewEventStep
    <2>2. ASSUME NEW h \in Threads, Insert(h) PROVE EInv' /\ [Queue!Next]_Events
      BY <2>2, InsertStep DEF Queue!Next
    <2>3. CASE Tick
      BY <2>0, <2>3, TickStep DEF Queue!Next
    <2>4. ASSUME NEW t \in Tokens, Submit(t) PROVE EInv' /\ [Queue!Next]_Events
      BY <2>0, <2>4, StillStep DEF Submit
    <2>5. CASE Turn
      BY <2>0, <2>5, TurnStep DEF Queue!Next
    <2>6. CASE RunUrc
      BY <2>0, <2>6, ReturnStep DEF RunUrc
    <2>7. CASE RunCheckMessageStorage
      <3>1. running # 0
        BY <2>7 DEF RunCheckMessageStorage
      <3>2. CASE Return /\ UNCHANGED adding
        BY <2>0, <3>1, <3>2, ReturnStep
      <3>3. CASE Again(CheckMessageStorage, NoPoll, 3)
        BY <2>0, <2>a, <3>1, <3>3, AgainStep
      <3> QED
        BY <2>7, <3>2, <3>3 DEF RunCheckMessageStorage
    <2>8. CASE RunPollOperator
      <3>1. running # 0
        BY <2>8 DEF RunPollOperator
      <3>2. CASE Return /\ UNCHANGED adding
        BY <2>0, <3>1, <3>2, ReturnStep
      <3>3. CASE /\ poll[running].loopcount < Repoll
                 /\ Again(PollOperator, [poll[running] EXCEPT !.loopcount = @ + 1], 2)
        <4>1. poll[running] \in PollParams
          BY <3>1 DEF EInv, EventTypeOK, PollParams
        <4>2. [poll[running] EXCEPT !.loopcount = @ + 1] \in PollParams
          BY <3>3, <4>1, EventAssumption DEF PollParams
        <4> QED
          BY <2>0, <2>a, <3>1, <3>3, <4>2, AgainStep
      <3> QED
        BY <2>8, <3>2, <3>3 DEF RunPollOperator
    <2>9. CASE ProcessRequest
      <3>1. running = 0 /\ adding["runner"] = 0 /\ request # <<>> /\ UNCHANGED running
        BY <2>9 DEF ProcessRequest
      <3>2. CASE UNCHANGED <<list, nodes, live, adding>>
        BY <2>0, <3>1, <3>2, StillStep
      <3>3. CASE NewEvent("runner", PollOperator, [t |-> Head(request), loopcount |-> 0], 2)
        <4>1. Head(request) \in Tokens
          BY <3>1, HeadTailProperties DEF EInv, EventTypeOK
        <4>2. [t |-> Head(request), loopcount |-> 0] \in PollParams
          BY <4>1, EventAssumption DEF PollParams
        <4> QED
          BY <2>0, <2>a, <3>1, <3>3, <4>2, NewEventStep
      <3> QED
        BY <2>9, <3>2, <3>3 DEF ProcessRequest
    <2> QED
      BY <1>2, <2>a, <2>1, <2>2, <2>3, <2>4, <2>5, <2>6, <2>7, <2>8, <2>9 DEF EventNext, EventRunnerStep
  <1> QED
    BY <1>1, <1>2

LEMMA TokenStep ==
    ASSUME EInv, TokenInv, [EventNext]_eventVars
    PROVE  TokenInv'
  <1>0. /\ request \in Seq(Tokens) /\ requestList \in Seq(Tokens)
        /\ submitted \subseteq Tokens /\ completed \in [Tokens -> Nat]
        /\ Len(request) \in Nat /\ Len(requestList) \in Nat
    BY LenProperties DEF EInv, EventTypeOK
  <1>a. /\ NoPoll \in PollParams /\ {CheckMessageStorage, PollOperator, OnUrc} \subseteq Callbacks
        /\ {0, 2, 3} \subseteq 0 .. 3 /\ {"reader", "runner"} \subseteq Threads
        /\ NoToken \notin Tokens /\ NoPoll.t = NoToken
        /\ OnUrc # PollOperator /\ CheckMessageStorage # PollOperator
    BY EventAssumption
       DEF NoPoll, PollParams, Callbacks, Threads, OnUrc, CheckMessageStorage, PollOperator
  <1>1. ASSUME PollInv', \A t \in Tokens : Polled(t)' <=> Polled(t), UNCHANGED <<request, requests>>
        PROVE  TokenInv'
    <2>1. \A t \in Tokens : OnePlace(t)'
      BY <1>1 DEF TokenInv, OnePlace, Waits, Handled, WasAnswered, requests
    <2> QED
      BY <1>1, <2>1 DEF TokenInv, requests
  <1>2. CASE UNCHANGED eventVars
    <2>1. PollInv' /\ \A t \in Tokens : Polled(t)' <=> Polled(t)
      BY <1>2 DEF TokenInv, PollInv, Polled, eventVars, nodes
    <2> QED
      BY <1>1, <1>2, <2>1 DEF eventVars
  <1>3. CASE OnUnsolicited
    <2>1. PICK callback \in {OnUrc, CheckMessageStorage} : NewEvent("reader", callback, NoPoll, 0)
      BY <1>3 DEF OnUnsolicited
    <2>2. PollInv' /\ \A t \in Tokens : Polled(t)' <=> Polled(t) \/ t = NoPoll.t
      BY <1>a, <2>1, PollsNew DEF TokenInv
    <2> QED
      BY <1>1, <1>3, <1>a, <2>2 DEF OnUnsolicited
  <1>4. CASE Tick \/ (\E h \in Threads : Insert(h))
    <2>1. UNCHANGED <<live, eventCallback, poll, request, requests>>
      BY <1>4 DEF Tick, Insert, nodes
    <2>2. PollInv' /\ \A t \in Tokens : Polled(t)' <=> Polled(t)
      BY <2>1 DEF TokenInv, PollInv, Polled
    <2> QED
      BY <1>1, <2>1, <2>2
  <1>5. ASSUME NEW t \in Tokens, Submit(t) PROVE TokenInv'
    <2>1. /\ t \notin submitted /\ submitted' = submitted \cup {t}
          /\ requestList' = Append(requestList, t)
          /\ UNCHANGED <<live, eventCallback, poll, request, completed>>
      BY <1>5 DEF Submit, nodes
    <2>2. /\ Len(requestList') = Len(requestList) + 1
          /\ requestList'[Len(requestList) + 1] = t
          /\ \A i \in 1 .. Len(requestList) : requestList'[i] = requestList[i]
      BY <1>0, <2>1, AppendProperties
    <2>3. ASSUME NEW u \in Tokens PROVE Waits(u)' <=> Waits(u) \/ u = t
      <3>1. ASSUME NEW i \in 1 .. Len(requestList'), requestList'[i] = u PROVE Waits(u) \/ u = t
        <4>1. i \in 1 .. Len(requestList) \/ i = Len(requestList) + 1
          BY <1>0, <2>2
        <4> QED
          BY <2>2, <3>1, <4>1 DEF Waits
      <3>2. ASSUME NEW i \in 1 .. Len(requestList), requestList[i] = u PROVE Waits(u)'
        <4>1. i \in 1 .. Len(requestList')
          BY <1>0, <2>2
        <4> QED
          BY <2>2, <3>2, <4>1 DEF Waits
      <3>3. Len(requestList) + 1 \in 1 .. Len(requestList')
        BY <1>0, <2>2
      <3> QED
        BY <2>2, <3>1, <3>2, <3>3 DEF Waits
    <2>4. ~Waits(t) /\ ~Handled(t) /\ ~Polled(t) /\ ~WasAnswered(t)
      BY <2>1 DEF TokenInv, OnePlace
    <2>5. \A u \in Tokens :
             (Polled(u)' <=> Polled(u)) /\ (Handled(u)' <=> Handled(u)) /\ (WasAnswered(u)' <=> WasAnswered(u))
      BY <2>1 DEF Polled, Handled, WasAnswered
    <2>6. \A u \in Tokens : OnePlace(u)'
      BY <2>1, <2>3, <2>4, <2>5 DEF TokenInv, OnePlace
    <2>7. ASSUME NEW i \in 1 .. Len(requestList'), NEW j \in 1 .. Len(requestList'),
                 requestList'[i] = requestList'[j]
          PROVE  i = j
      <3>1. \A k \in 1 .. Len(requestList') :
               (k \in 1 .. Len(requestList) /\ requestList'[k] = requestList[k] /\ requestList[k] # t)
               \/ (k = Len(requestList) + 1 /\ requestList'[k] = t)
        BY <1>0, <2>2, <2>4, SMTT(30) DEF Waits
      <3> QED
        BY <2>7, <3>1 DEF TokenInv
    <2>8. PollInv'
      BY <2>1 DEF TokenInv, PollInv
    <2> QED
      BY <2>1, <2>6, <2>7, <2>8 DEF TokenInv
  <1>6. CASE Turn
    <2>1. PICK r \in 0 .. Len(requestList) :
             /\ r = IF requestList = <<>> THEN 0 ELSE 1
             /\ request' = SubSeq(requestList, 1, r)
             /\ requestList' = SubSeq(requestList, r + 1, Len(requestList))
      BY <1>6 DEF Turn
    <2>2. request = <<>> /\ UNCHANGED <<live, eventCallback, poll, submitted, completed>>
      BY <1>6 DEF Turn, RunnerIdle, nodes
    <2>3. /\ Len(request') = r /\ \A i \in 1 .. r : request'[i] = requestList[i]
          /\ Len(requestList') = Len(requestList) - r
          /\ \A i \in 1 .. Len(requestList) - r : requestList'[i] = requestList[i + r]
      <3>1. \A i \in 1 .. Len(requestList) : requestList[i] \in Tokens
        BY <1>0, ElementOfSeq
      <3>2. /\ Len(SubSeq(requestList, 1, r)) = r
            /\ \A i \in 1 .. r : SubSeq(requestList, 1, r)[i] = requestList[i]
        BY <1>0, <3>1, SubSeqProperties
      <3>3. /\ Len(SubSeq(requestList, r + 1, Len(requestList))) = Len(requestList) - r
            /\ \A i \in 1 .. Len(requestList) - r :
                  SubSeq(requestList, r + 1, Len(requestList))[i] = requestList[i + r]
        <4> DEFINE l == Len(requestList)  rest == SubSeq(requestList, r + 1, l)
        <4>1. l \in Nat /\ r \in Nat /\ r <= l
          BY <1>0
        <4>2. \A i \in r + 1 .. l : requestList[i] \in Tokens
          BY <3>1, <4>1
        <4> HIDE DEF l
        <4>3. /\ Len(rest) = IF r + 1 <= l THEN l - (r + 1) + 1 ELSE 0
              /\ \A i \in 1 .. l - (r + 1) + 1 : rest[i] = requestList[r + 1 + i - 1]
          BY <4>1, <4>2, SubSeqProperties
        <4> HIDE DEF rest
        <4>4. Len(rest) = l - r /\ \A i \in 1 .. l - r : rest[i] = requestList[i + r]
          BY <4>1, <4>3
        <4> QED
          BY <4>4 DEF l, rest
      <3> QED
        BY <2>1, <3>2, <3>3
    <2>4. r \in 0 .. 1 /\ (r = 0 => Len(requestList) = 0)
      BY <1>0, <2>1
    <2>5. ASSUME NEW u \in Tokens
          PROVE  /\ Waits(u) <=> Waits(u)' \/ Handled(u)'
                 /\ ~(Waits(u)' /\ Handled(u)')
                 /\ ~Handled(u)
      <3>1. ASSUME NEW i \in 1 .. Len(requestList), requestList[i] = u
            PROVE  Waits(u)' \/ Handled(u)'
        <4>1. CASE i <= r
          <5>1. i \in 1 .. Len(request') /\ request'[i] = u
            BY <1>0, <2>3, <2>4, <3>1, <4>1
          <5> QED
            BY <5>1 DEF Handled
        <4>2. CASE i > r
          <5>1. i - r \in 1 .. Len(requestList) - r /\ (i - r) + r = i
            BY <1>0, <2>4, <4>2
          <5>2. requestList'[i - r] = u /\ i - r \in 1 .. Len(requestList')
            BY <2>3, <3>1, <5>1
          <5> QED
            BY <5>2 DEF Waits
        <4> QED
          BY <1>0, <2>4, <4>1, <4>2
      <3>2. ASSUME NEW i \in 1 .. Len(requestList'), requestList'[i] = u
            PROVE  i + r \in r + 1 .. Len(requestList) /\ requestList[i + r] = u
        BY <1>0, <2>3, <2>4, <3>2
      <3>3. ASSUME NEW i \in 1 .. Len(request'), request'[i] = u
            PROVE  i \in 1 .. r /\ i \in 1 .. Len(requestList) /\ requestList[i] = u
        <4>1. i \in 1 .. r /\ r <= Len(requestList)
          BY <1>0, <2>3, <3>3
        <4>2. i \in 1 .. Len(requestList)
          BY <1>0, <4>1
        <4> QED
          BY <2>3, <3>3, <4>1, <4>2
      <3>4. Waits(u)' => Waits(u)
        <4>1. ASSUME NEW i \in 1 .. Len(requestList'), requestList'[i] = u PROVE Waits(u)
          <5>1. i + r \in 1 .. Len(requestList)
            BY <1>0, <2>4, <3>2, <4>1
          <5> QED
            BY <3>2, <4>1, <5>1 DEF Waits
        <4> QED
          BY <4>1 DEF Waits
      <3>5. Handled(u)' => Waits(u)
        BY <3>3 DEF Waits, Handled
      <3>6. ~(Waits(u)' /\ Handled(u)')
        <4>1. ASSUME NEW i \in 1 .. Len(requestList'), requestList'[i] = u,
                     NEW j \in 1 .. Len(request'), request'[j] = u
              PROVE  FALSE
          <5>1. i + r \in 1 .. Len(requestList) /\ j \in 1 .. Len(requestList) /\ i + r > j
            BY <1>0, <2>4, <3>2, <3>3, <4>1
          <5>2. requestList[i + r] = requestList[j]
            BY <3>2, <3>3, <4>1
          <5>3. i + r = j
            BY <5>1, <5>2 DEF TokenInv
          <5> QED
            BY <1>0, <2>3, <2>4, <5>1, <5>3
        <4> QED
          BY <4>1 DEF Waits, Handled
      <3>7. ~Handled(u)
        BY <2>2 DEF Handled
      <3> QED
        BY <3>1, <3>4, <3>5, <3>6, <3>7 DEF Waits
    <2>6. \A u \in Tokens : (Polled(u)' <=> Polled(u)) /\ (WasAnswered(u)' <=> WasAnswered(u))
      BY <2>2 DEF Polled, WasAnswered
    <2>7. \A u \in Tokens : OnePlace(u)'
      BY <2>2, <2>5, <2>6 DEF TokenInv, OnePlace
    <2>8. ASSUME NEW i \in 1 .. Len(requestList'), NEW j \in 1 .. Len(requestList'),
                 requestList'[i] = requestList'[j]
          PROVE  i = j
      <3>1. /\ i + r \in 1 .. Len(requestList) /\ j + r \in 1 .. Len(requestList)
            /\ requestList'[i] = requestList[i + r] /\ requestList'[j] = requestList[j + r]
        BY <1>0, <2>3, <2>4
      <3>2. i + r = j + r
        BY <2>8, <3>1 DEF TokenInv
      <3> QED
        BY <1>0, <2>3, <2>4, <3>2
    <2>9. PollInv'
      BY <2>2 DEF TokenInv, PollInv
    <2>10. Len(request') <= 1
      BY <2>3, <2>4
    <2> QED
      BY <2>2, <2>7, <2>8, <2>9, <2>10 DEF TokenInv
  <1>7. CASE RunUrc
    <2>1. /\ running # 0 /\ Return /\ eventCallback[running] # PollOperator
          /\ UNCHANGED <<request, requests>> /\ running \in live
      BY <1>7, <1>a DEF RunUrc, EInv, OwnInv
    <2>2. poll[running].t = NoToken
      BY <2>1 DEF TokenInv, PollInv
    <2>3. PollInv' /\ \A t \in Tokens : Polled(t)' <=> Polled(t)
      BY <1>a, <2>1, <2>2, PollsReturn DEF TokenInv
    <2> QED
      BY <1>1, <2>1, <2>3
  <1>8. CASE RunCheckMessageStorage
    <2>1. /\ running # 0 /\ eventCallback[running] = CheckMessageStorage
          /\ UNCHANGED <<request, requests>> /\ running \in live
      BY <1>8 DEF RunCheckMessageStorage, EInv, OwnInv
    <2>2. poll[running].t = NoToken
      BY <1>a, <2>1 DEF TokenInv, PollInv
    <2>3. CASE Return
      <3>1. PollInv' /\ \A t \in Tokens : Polled(t)' <=> Polled(t)
        BY <1>a, <2>1, <2>2, <2>3, PollsReturn DEF TokenInv
      <3> QED
        BY <1>1, <2>1, <3>1
    <2>4. CASE Again(CheckMessageStorage, NoPoll, 3)
      <3>1. PollInv' /\ \A t \in Tokens : Polled(t)' <=> Polled(t)
        BY <1>a, <2>1, <2>2, <2>4, PollsAgain DEF TokenInv
      <3> QED
        BY <1>1, <2>1, <3>1
    <2> QED
      BY <1>8, <2>3, <2>4 DEF RunCheckMessageStorage
  <1>9. CASE RunPollOperator
    <2>1. PICK p : p = poll[running]
      OBVIOUS
    <2>2. /\ running # 0 /\ eventCallback[running] = PollOperator /\ running \in live /\ running \in Nodes
          /\ UNCHANGED <<request, requestList, submitted>>
      BY <1>9 DEF RunPollOperator, EInv, OwnInv, EventTypeOK
    <2>3. p \in PollParams /\ p.t \in Tokens
      BY <2>1, <2>2 DEF TokenInv, PollInv, EInv, EventTypeOK, PollParams
    <2>4. Polled(p.t)
      BY <2>1, <2>2 DEF Polled
    <2>5. CASE Return /\ Complete(p.t)
      <3>1. PollInv' /\ \A t \in Tokens : Polled(t)' <=> Polled(t) /\ t # p.t
        BY <2>1, <2>2, <2>5, PollsReturn DEF TokenInv
      <3>2. completed[p.t] = 0
        BY <2>3, <2>4 DEF TokenInv, OnePlace, WasAnswered
      <3>3. completed'[p.t] = 1 /\ \A t \in Tokens : t # p.t => completed'[t] = completed[t]
        BY <1>0, <2>3, <2>5, <3>2 DEF Complete
      <3>4. \A t \in Tokens : WasAnswered(t)' <=> WasAnswered(t) \/ t = p.t
        BY <3>3 DEF WasAnswered
      <3>5. \A t \in Tokens : OnePlace(t)'
        BY <2>2, <2>4, <3>1, <3>4 DEF TokenInv, OnePlace, Waits, Handled
      <3>6. \A t \in Tokens : completed'[t] \in {0, 1}
        BY <3>3 DEF TokenInv
      <3> QED
        BY <2>2, <3>1, <3>5, <3>6 DEF TokenInv
    <2>6. CASE /\ p.loopcount < Repoll
               /\ Again(PollOperator, [p EXCEPT !.loopcount = @ + 1], 2)
               /\ UNCHANGED completed
      <3>1. [p EXCEPT !.loopcount = @ + 1] \in PollParams /\ [p EXCEPT !.loopcount = @ + 1].t = p.t
        BY <2>3, <2>6, EventAssumption DEF PollParams
      <3>2. PollInv' /\ \A t \in Tokens : Polled(t)' <=> Polled(t)
        BY <1>a, <2>1, <2>2, <2>6, <3>1, PollsAgain DEF TokenInv
      <3> QED
        BY <1>1, <2>2, <2>6, <3>2 DEF requests
    <2> QED
      BY <1>9, <2>1, <2>5, <2>6 DEF RunPollOperator
  <1>10. CASE ProcessRequest
    <2>1. /\ request # <<>> /\ request' = <<>>
          /\ UNCHANGED <<requestList, submitted>>
      BY <1>10 DEF ProcessRequest
    <2>2. PICK u \in Tokens : u = Head(request) /\ u = request[1]
      BY <1>0, <2>1, HeadTailProperties
    <2>3. \A t \in Tokens : (Handled(t) <=> t = u) /\ ~Handled(t)'
      <3>1. Len(request) = 1
        <4>1. Len(request) # 0
          BY <1>0, <2>1, EmptySeq
        <4>2. Len(request) <= 1
          BY DEF TokenInv
        <4>3. Len(request) \in Nat
          BY <1>0
        <4> QED
          BY <4>1, <4>2, <4>3, AtMostOne
      <3>2. 1 .. Len(request) = {1}
        BY <3>1
      <3>3. Len(request') = 0
        BY <2>1
      <3> QED
        BY <2>2, <3>2, <3>3 DEF Handled
    <2>4. ~Waits(u) /\ ~Polled(u) /\ ~WasAnswered(u) /\ u \in submitted
      BY <2>3 DEF TokenInv, OnePlace
    <2>5. CASE Complete(u) /\ UNCHANGED nodes /\ UNCHANGED live
      <3>1. completed[u] = 0
        BY <2>4 DEF TokenInv, WasAnswered
      <3>2. completed'[u] = 1 /\ \A t \in Tokens : t # u => completed'[t] = completed[t]
        BY <1>0, <2>5, <3>1 DEF Complete
      <3>3. PollInv' /\ \A t \in Tokens : (Polled(t)' <=> Polled(t)) /\ (WasAnswered(t)' <=> WasAnswered(t) \/ t = u)
        BY <2>5, <3>2 DEF TokenInv, PollInv, Polled, WasAnswered, nodes
      <3>4. \A t \in Tokens : OnePlace(t)'
        BY <2>1, <2>3, <2>4, <3>3 DEF TokenInv, OnePlace, Waits
      <3>5. \A t \in Tokens : completed'[t] \in {0, 1}
        BY <3>2 DEF TokenInv
      <3>6. Len(request') <= 1
        BY <2>1
      <3> QED
        BY <2>1, <3>3, <3>4, <3>5, <3>6 DEF TokenInv
    <2>6. CASE NewEvent("runner", PollOperator, [t |-> u, loopcount |-> 0], 2) /\ UNCHANGED completed
      <3>1. [t |-> u, loopcount |-> 0] \in PollParams
        BY EventAssumption DEF PollParams
      <3>2. PollInv' /\ \A t \in Tokens : Polled(t)' <=> Polled(t) \/ t = u
        BY <1>a, <2>4, <2>6, <3>1, PollsNew DEF TokenInv
      <3>3. \A t \in Tokens : OnePlace(t)'
        BY <2>1, <2>3, <2>4, <2>6, <3>2 DEF TokenInv, OnePlace, Waits, WasAnswered
      <3>4. Len(request') <= 1
        BY <2>1
      <3> QED
        BY <2>1, <2>6, <3>2, <3>3, <3>4 DEF TokenInv
    <2> QED
      BY <1>10, <2>2, <2>5, <2>6 DEF ProcessRequest
  <1> QED
    BY <1>2, <1>3, <1>4, <1>5, <1>6, <1>7, <1>8, <1>9, <1>10, <1>a DEF EventNext, EventRunnerStep

-----------------------------------------------------------------------------
(* The theorems. *)

LEMMA EventInitInv == EventInit => EInv /\ TokenInv /\ Queue!Init
  <1> SUFFICES ASSUME EventInit PROVE EInv /\ TokenInv /\ Queue!Init
    OBVIOUS
  <1>0. /\ Repoll \in Nat /\ MaxLate \in Nat /\ NoToken \notin Tokens /\ 0 \notin Nodes
        /\ <<>> \in Seq(Nodes) /\ Len(<<>>) = 0 /\ <<>> \in Seq(Tokens)
    BY EventAssumption DEF Nodes
  <1>1. ListInv(<<>>)
    <2>1. IsOrder(<<>>)
      BY <1>0 DEF IsOrder, EventInit
    <2>2. \A n \in Nodes : ~Waiting(n)
      BY DEF Waiting, EventInit
    <2> QED
      BY <1>0, <2>1, <2>2 DEF ListInv
  <1>2. EventTypeOK
    <2>1. 0 \in -MaxLate .. 3 /\ OnUrc \in Callbacks /\ NoPoll \in PollParams
      BY <1>0 DEF Callbacks, NoPoll, PollParams
    <2> QED
      BY <1>0, <2>1 DEF EventInit, EventTypeOK, PollParams
  <1>3. OwnInv
    BY DEF OwnInv, EventInit, Threads
  <1>4. TokenInv
    <2>1. \A t \in Tokens : completed[t] = 0
      BY DEF EventInit
    <2>2. Len(requestList) = 0 /\ Len(request) = 0 /\ live = {} /\ submitted = {}
      BY <1>0 DEF EventInit
    <2> QED
      BY <2>1, <2>2 DEF TokenInv, PollInv, OnePlace, Waits, Handled, Polled, WasAnswered
  <1>5. Queue!Init
    <2>1. Events = [i \in 1 .. Len(<<>>) |-> [id |-> <<>>[i], due |-> abstime[<<>>[i]]]]
      BY <1>0, <1>1, EventsLemma DEF EventsAre, ListInv
    <2>2. Events = <<>>
      BY <1>0, <2>1
    <2> QED
      BY <2>2 DEF Queue!Init
  <1> QED
    BY <1>0, <1>1, <1>2, <1>3, <1>4, <1>5 DEF EInv

THEOREM EventInvariant == EventSpec => [](EInv /\ TokenInv)
  <1>1. EventInit => EInv /\ TokenInv
    BY EventInitInv
  <1>2. EInv /\ TokenInv /\ [EventNext]_eventVars => (EInv /\ TokenInv)'
    BY ListStep, TokenStep
  <1> QED
    BY <1>1, <1>2, PTL DEF EventSpec

(* However events come and go, the list of timed events leads to every      *)
(* event that waits, to none that was freed or is not inserted yet, and the *)
(* links back that enqueueRILEvent() follows agree with the links forward.  *)
THEOREM ListNeverDangles == EventSpec => []ListSound
  <1>1. EInv => ListSound
    <2> SUFFICES ASSUME EInv PROVE ListSound
      OBVIOUS
    <2>1. PICK s \in Seq(Nodes) : ListInv(s)
      BY DEF EInv
    <2>2. /\ Len(s) \in 0 .. MaxNodes
          /\ Nth = [i \in 0 .. MaxNodes |-> IF i < Len(s) THEN s[i + 1] ELSE 0]
          /\ InList = {s[i] : i \in 1 .. Len(s)}
          /\ Order = s
      BY <2>1, OrderLemma DEF OrderIs, ListInv
    <2>3. Nth[MaxNodes] = 0
      BY <2>2, EventAssumption
    <2>4. InList = live \ ({running} \cup {adding[h] : h \in Threads})
      <3>1. live \subseteq Nodes /\ InList \subseteq Nodes
        <4>1. \A i \in 1 .. Len(s) : s[i] \in Nodes
          BY ElementOfSeq
        <4> QED
          BY <2>2, <4>1 DEF EInv, EventTypeOK
      <3>2. \A n \in Nodes : n \in InList <=> Waiting(n)
        BY <2>1, <2>2 DEF ListInv
      <3>3. \A n : n \in live \ ({running} \cup {adding[h] : h \in Threads}) <=> Waiting(n)
        BY DEF Waiting
      <3>4. \A n : Waiting(n) => n \in live
        BY DEF Waiting
      <3> QED
        BY <3>1, <3>2, <3>3, <3>4
    <2>5. \A i \in 2 .. Len(Order) : prev[Order[i]] = Order[i - 1]
      BY <2>1, <2>2 DEF ListInv, IsOrder
    <2> QED
      BY <2>3, <2>4, <2>5 DEF ListSound
  <1> QED
    BY <1>1, EventInvariant, PTL

(* enqueueRILEvent() and the runner's turn make of the doubly linked list a *)
(* queue by time, first in first out for equal times: the refinement of     *)
(* EventQueue, for any number of events and any delay of the runner.        *)
THEOREM ListImplementsQueue == EventSpec => ListIsQueue
  <1>1. EventInit => Queue!Init
    BY EventInitInv
  <1>2. EInv /\ TokenInv /\ [EventNext]_eventVars => [Queue!Next]_Events
    BY ListStep
  <1> QED
    BY <1>1, <1>2, EventInvariant, PTL DEF EventSpec, ListIsQueue, Queue!Spec

(* Whatever the polls find, and whatever else the runner has to do: a       *)
(* request for automatic network selection waits, is handled, is polled for *)
(* by one event, or was completed once, and it is never lost.               *)
THEOREM PollsKeepTokens == EventSpec => []TokenInOnePlace
  <1>1. EInv /\ TokenInv => TokenInOnePlace
    <2> SUFFICES ASSUME EInv, TokenInv, NEW t \in Tokens
                 PROVE  Places(t) = IF t \in submitted THEN 1 ELSE 0
      BY DEF TokenInOnePlace
    <2>0. /\ request \in Seq(Tokens) /\ requestList \in Seq(Tokens)
          /\ DOMAIN request = 1 .. Len(request) /\ DOMAIN requestList = 1 .. Len(requestList)
          /\ Len(request) \in Nat /\ completed[t] \in {0, 1}
      BY LenProperties DEF EInv, EventTypeOK, TokenInv
    <2>1. OnePlace(t)
      BY DEF TokenInv
    <2> DEFINE A == {i \in DOMAIN requestList : requestList[i] = t}
               B == {i \in DOMAIN request : request[i] = t}
               C == {n \in live : poll[n].t = t}
    <2>2. Cardinality(A) = IF Waits(t) THEN 1 ELSE 0
      <3>1. CASE Waits(t)
        <4>1. PICK i \in 1 .. Len(requestList) : requestList[i] = t
          BY <3>1 DEF Waits
        <4>2. A = {i}
          BY <2>0, <4>1 DEF TokenInv
        <4> QED
          BY <3>1, <4>2, FS_Singleton
      <3>2. CASE ~Waits(t)
        <4>1. A = {}
          BY <2>0, <3>2 DEF Waits
        <4> QED
          BY <3>2, <4>1, FS_EmptySet
      <3> QED
        BY <3>1, <3>2
    <2>3. Cardinality(B) = IF Handled(t) THEN 1 ELSE 0
      <3>1. CASE Handled(t)
        <4>1. PICK i \in 1 .. Len(request) : request[i] = t
          BY <3>1 DEF Handled
        <4>2. B = {i}
          BY <2>0, <4>1 DEF TokenInv
        <4> QED
          BY <3>1, <4>2, FS_Singleton
      <3>2. CASE ~Handled(t)
        <4>1. B = {}
          BY <2>0, <3>2 DEF Handled
        <4> QED
          BY <3>2, <4>1, FS_EmptySet
      <3> QED
        BY <3>1, <3>2
    <2>4. Cardinality(C) = IF Polled(t) THEN 1 ELSE 0
      <3>1. CASE Polled(t)
        <4>1. PICK n \in live : poll[n].t = t
          BY <3>1 DEF Polled
        <4>2. C = {n}
          BY <4>1 DEF TokenInv, PollInv
        <4> QED
          BY <3>1, <4>2, FS_Singleton
      <3>2. CASE ~Polled(t)
        <4>1. C = {}
          BY <3>2 DEF Polled
        <4> QED
          BY <3>2, <4>1, FS_EmptySet
      <3> QED
        BY <3>1, <3>2
    <2>5. Places(t) = Cardinality(A) + Cardinality(B) + Cardinality(C) + completed[t]
      BY DEF Places
    <2> HIDE DEF A, B, C
    <2> QED
      BY <2>0, <2>1, <2>2, <2>3, <2>4, <2>5 DEF OnePlace, WasAnswered
  <1> QED
    BY <1>1, EventInvariant, PTL
=============================================================================
