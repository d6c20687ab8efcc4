----------------------------- MODULE CallsProofs -----------------------------
(***************************************************************************)
(* Theorems about the services of Calls, for any calls, caps, addresses,   *)
(* lookups, requests, sinks, candidate trees and numbers of watchdogs and  *)
(* processes.  Each component has an invariant of its own, over its        *)
(* variables alone; that the others leave these alone is what SqlApart and *)
(* its like say.                                                           *)
(*                                                                         *)
(* The recursive functions of the components (Distinct, Bytes, Hashed,     *)
(* Depth, TargetOf, Reached) are reasoned about with Inductive, Along and  *)
(* Recursion, which are about sets and functions: the library's induction  *)
(* theorems are about operators, which none of the provers used here can   *)
(* be given.                                                               *)
(***************************************************************************)
EXTENDS Calls, SequenceTheorems, FiniteSetTheorems, TLAPS

-----------------------------------------------------------------------------
(* Induction and recursion over the numbers up to N. *)

\* Any set of naturals that is not empty has a least member.
LEMMA Least ==
    ASSUME NEW T \in SUBSET Nat, T # {}
    PROVE  \E m \in T : \A k \in T : m <= k
<1>1. \A k, m \in Nat : k < m => <<k, m>> \in OpToRel(<, Nat)
  BY DEF OpToRel
<1>2. PICK m \in T : \A k \in T : ~(<<k, m>> \in OpToRel(<, Nat))
  BY WFMin, NatLessThanWellFounded
<1>3. \A k \in T : ~(k < m)
  BY <1>1, <1>2, Zenon
<1> QED BY <1>3

\* Induction, for the members of a set.
LEMMA Inductive ==
    ASSUME NEW N \in Nat, NEW T, 0 \in T, \A n \in 0..(N - 1) : n \in T => n + 1 \in T
    PROVE  0..N \subseteq T
<1> DEFINE Rest == (0..N) \ T
<1> SUFFICES ASSUME Rest # {} PROVE FALSE
  OBVIOUS
<1>1. Rest \in SUBSET Nat
  OBVIOUS
<1> HIDE DEF Rest
<1>2. PICK m \in Rest : \A k \in Rest : m <= k
  BY <1>1, Least
<1> USE DEF Rest
<1>3. m # 0 /\ m - 1 \in 0..(N - 1)
  BY <1>2
<1>4. m - 1 \in T
  BY <1>2, <1>3
<1> QED BY <1>2, <1>3, <1>4

\* A function over 0..N may be defined by its first value and by how each value follows
\* from the one before it.
Iterates(f, N, X, base, G) ==
    /\ f \in [0..N -> X] /\ f[0] = base
    /\ \A n \in 1..N : f[n] = G[n][f[n - 1]]

LEMMA Recursion ==
    ASSUME NEW N \in Nat, NEW X, NEW base \in X, NEW G \in [1..N -> [X -> X]]
    PROVE  \E f : Iterates(f, N, X, base, G)
<1> DEFINE Good(m, f) == /\ f \in [0..m -> X] /\ f[0] = base
                         /\ \A n \in 1..m : f[n] = G[n][f[n - 1]]
           T == {m \in 0..N : \E f : Good(m, f)}
<1>1. \E f : Good(0, f)
  <2> DEFINE f == [n \in 0..0 |-> base]
  <2>1. Good(0, f)
    OBVIOUS
  <2> HIDE DEF f, Good
  <2> QED BY <2>1
<1>2. ASSUME NEW m \in 0..(N - 1), NEW f, Good(m, f) PROVE \E g : Good(m + 1, g)
  <2> DEFINE g == [n \in 0..(m + 1) |-> IF n = m + 1 THEN G[m + 1][f[m]] ELSE f[n]]
  <2>1. g \in [0..(m + 1) -> X] /\ g[0] = base
    BY <1>2
  <2>2. ASSUME NEW n \in 1..(m + 1) PROVE g[n] = G[n][g[n - 1]]
    <3>1. g[n - 1] = f[n - 1]
      OBVIOUS
    <3>2. CASE n = m + 1
      BY <3>1, <3>2
    <3>3. CASE n # m + 1
      <4>1. n \in 1..m /\ g[n] = f[n]
        BY <3>3
      <4> HIDE DEF g
      <4> QED BY <1>2, <3>1, <4>1
    <3> QED BY <3>2, <3>3
  <2> HIDE DEF g
  <2>3. Good(m + 1, g)
    BY <2>1, <2>2
  <2> HIDE DEF Good
  <2> QED BY <2>3
<1> HIDE DEF Good
<1>3. 0 \in T /\ \A m \in 0..(N - 1) : m \in T => m + 1 \in T
  BY <1>1, <1>2
<1> HIDE DEF T
<1>4. N \in T
  <2>1. 0..N \subseteq T
    BY <1>3, Inductive
  <2> QED BY <2>1
<1> QED BY <1>4 DEF T, Good, Iterates

\* Induction, from a number on.
LEMMA InductiveFrom ==
    ASSUME NEW N \in Nat, NEW n \in 0..N, NEW T, n \in T, \A k \in n..(N - 1) : k \in T => k + 1 \in T
    PROVE  n..N \subseteq T
<1> DEFINE From == {k \in 0..N : k >= n => k \in T}
<1>1. 0 \in From
  OBVIOUS
<1>2. ASSUME NEW k \in 0..(N - 1), k \in From PROVE k + 1 \in From
  <2>1. CASE k + 1 < n
    BY <2>1
  <2>2. CASE k + 1 = n
    BY <2>2
  <2>3. CASE k + 1 > n
    BY <1>2, <2>3
  <2> QED BY <2>1, <2>2, <2>3
<1> HIDE DEF From
<1>3. 0..N \subseteq From
  BY <1>1, <1>2, Inductive
<1> QED BY <1>3 DEF From

\* What every value of a function over 0..N is, as each value follows from the one before it.
LEMMA Along ==
    ASSUME NEW N \in Nat, NEW f, NEW X, f[0] \in X,
           \A n \in 1..N : f[n - 1] \in X => f[n] \in X
    PROVE  \A n \in 0..N : f[n] \in X
<1> DEFINE T == {n \in 0..N : f[n] \in X}
<1>1. 0 \in T
  OBVIOUS
<1>2. ASSUME NEW n \in 0..(N - 1), n \in T PROVE n + 1 \in T
  <2>1. n + 1 \in 1..N /\ n + 1 - 1 = n
    OBVIOUS
  <2>2. f[n + 1] \in X
    BY <1>2, <2>1
  <2> QED BY <2>1, <2>2
<1> HIDE DEF T
<1>3. 0..N \subseteq T
  BY <1>1, <1>2, Inductive
<1> QED BY <1>3 DEF T

\* All but the last of a sequence.
LEMMA FrontProperties ==
    ASSUME NEW S, NEW s \in Seq(S), s # <<>>
    PROVE  /\ Front(s) \in Seq(S) /\ Len(Front(s)) = Len(s) - 1
           /\ \A i \in 1..Len(Front(s)) : Front(s)[i] = s[i] /\ i \in 1..Len(s)
<1> DEFINE m == Len(s) - 1
           start == SubSeq(s, 1, m)
<1>1. m \in Nat /\ Len(s) = m + 1 /\ \A i \in 1..m : i \in 1..Len(s) /\ s[i] \in S
  OBVIOUS
<1> HIDE DEF m
<1>2. /\ start \in Seq(S) /\ Len(start) = IF 1 <= m THEN m - 1 + 1 ELSE 0
      /\ \A i \in 1..(m - 1 + 1) : start[i] = s[1 + i - 1]
  BY <1>1, SubSeqProperties
<1> HIDE DEF start
<1>3. Len(start) = m /\ \A i \in 1..m : start[i] = s[i]
  BY <1>1, <1>2
<1>4. Front(s) = start
  BY DEF Front, start, m
<1> QED BY <1>1, <1>2, <1>3, <1>4

-----------------------------------------------------------------------------
(* Every step is one of a component, or leaves it alone. *)

SqlNext == SqlBegin \/ SqlStep \/ SqliteFails \/ (\E d \in Dogs : Watch(d)) \/ SqlReturn

LEMMA SqlApart == [Next]_vars => SqlNext \/ UNCHANGED sqlVars
  BY DEF Next, vars, Unknown, RouteReturn, Begin, Step, Watchdog, Return, Chance, Others,
         SqlNext, sqlVars

OutboundNext == OutboundBegin \/ OutboundStep \/ Network \/ OutboundReturn

LEMMA OutboundApart == [Next]_vars => OutboundNext \/ UNCHANGED outboundVars
  BY DEF Next, vars, Unknown, RouteReturn, Begin, Step, Watchdog, Return, Chance, Others,
         OutboundNext, outboundVars

IntakeNext ==
    IntakeBegin \/ IntakeStep \/ Ends \/ Push \/ StartFetch \/ Advertise \/ IntakeReturn

LEMMA IntakeApart == [Next]_vars => IntakeNext \/ UNCHANGED intakeVars
  BY DEF Next, vars, Unknown, RouteReturn, Begin, Step, Watchdog, Return, Chance, Others,
         IntakeNext, intakeVars

TokenNext ==
    \/ (\A p \in Procs : procs[p].at = "idle") /\ TokenBegin
    \/ TokenStep \/ TokenFault \/ TokenReturn

LEMMA TokenApart == [Next]_vars => TokenNext \/ UNCHANGED tokenVars
  BY DEF Next, vars, Unknown, RouteReturn, Begin, Free, Step, Watchdog, Return, Chance, Others,
         TokenNext, tokenVars

-----------------------------------------------------------------------------
(* Notify: the names of sinks. *)

\* What is named is named first somewhere, and not later.
LEMMA NamedFirst ==
    ASSUME NEW S, NEW names \in Seq(S), NEW k \in 1..Len(names)
    PROVE  /\ FirstNamed(names, names[k]) \in 1..k
           /\ names[FirstNamed(names, names[k])] = names[k]
           /\ \A j \in 1..(FirstNamed(names, names[k]) - 1) : names[j] # names[k]
<1> DEFINE T == {i \in 1..Len(names) : names[i] = names[k]}
<1>1. T \in SUBSET Nat /\ k \in T
  OBVIOUS
<1> HIDE DEF T
<1>2. PICK m \in T : \A i \in T : m <= i
  BY <1>1, Least
<1>3. m \in DOMAIN names /\ names[m] = names[k] /\ m <= k /\ \A j \in 1..(m - 1) : names[j] # names[k]
  BY <1>1, <1>2 DEF T
<1>4. \A i \in DOMAIN names :
         names[i] = names[k] /\ (\A j \in 1..(i - 1) : names[j] # names[k]) => i = m
  BY <1>2, <1>3 DEF T
<1>5. FirstNamed(names, names[k]) = m
  BY <1>3, <1>4 DEF FirstNamed
<1> QED BY <1>3, <1>5

\* Name by name, as SinkSet::select goes.
LEMMA DistinctGrows ==
    ASSUME NEW S, NEW names \in Seq(S)
    PROVE  \E f \in [0..Len(names) -> Seq(S)] :
              /\ f[0] = <<>>
              /\ \A n \in 1..Len(names) : f[n] = IF Contains(f[n - 1], names[n]) THEN f[n - 1]
                                                ELSE Append(f[n - 1], names[n])
              /\ Distinct(names) = f[Len(names)]
<1> DEFINE N == Len(names)
           After(n, seen) == IF Contains(seen, names[n]) THEN seen ELSE Append(seen, names[n])
           G == [n \in 1..N |-> [seen \in Seq(S) |-> After(n, seen)]]
           Def(f) == [n \in 0..N |-> IF n = 0 THEN <<>>
                                     ELSE IF Contains(f[n - 1], names[n]) THEN f[n - 1]
                                          ELSE Append(f[n - 1], names[n])]
           upTo == CHOOSE f : f = Def(f)
<1>0. Distinct(names) = upTo[N]
  BY Zenon DEF Distinct
<1>1. <<>> \in Seq(S) /\ N \in Nat
  OBVIOUS
<1>2. \A n \in 1..N, seen \in Seq(S) : After(n, seen) \in Seq(S)
  OBVIOUS
<1>3. \A f : Def(f) = [n \in 0..N |-> IF n = 0 THEN <<>> ELSE After(n, f[n - 1])]
  OBVIOUS
<1> HIDE DEF N, After
<1>4. G \in [1..N -> [Seq(S) -> Seq(S)]]
  BY <1>2
<1>5. \A n \in 1..N, seen \in Seq(S) : G[n][seen] = After(n, seen)
  OBVIOUS
<1> HIDE DEF G
<1>6. PICK f : Iterates(f, N, Seq(S), <<>>, G)
  BY <1>1, <1>4, Recursion
<1>6a. f \in [0..N -> Seq(S)] /\ f[0] = <<>> /\ \A n \in 1..N : f[n] = G[n][f[n - 1]]
  BY <1>6 DEF Iterates
<1>7. \A n \in 1..N : n - 1 \in 0..N
  BY <1>1
<1>8. \A n \in 1..N : f[n] = After(n, f[n - 1])
  BY <1>5, <1>6a, <1>7
<1> HIDE DEF Def
<1>9. f = Def(f)
  <2>1. f = [n \in 0..N |-> IF n = 0 THEN <<>> ELSE After(n, f[n - 1])]
    <3>1. \A n \in 0..N : f[n] = IF n = 0 THEN <<>> ELSE After(n, f[n - 1])
      BY <1>1, <1>6a, <1>8
    <3> QED BY <1>6a, <3>1
  <2> QED BY <1>3, <2>1
<1>10. upTo = Def(upTo)
  BY <1>9, Zenon
<1> HIDE DEF upTo
<1>11. upTo[0] = <<>> /\ \A n \in 1..N : upTo[n] = After(n, upTo[n - 1])
  BY <1>1, <1>3, <1>10
<1> DEFINE T == {n \in 0..N : upTo[n] \in Seq(S)}
<1>12. 0 \in T /\ \A n \in 0..(N - 1) : n \in T => n + 1 \in T
  <2>1. \A n \in 0..(N - 1) : n \in 0..N /\ n + 1 \in 1..N /\ n + 1 - 1 = n
    BY <1>1
  <2>2. \A n \in 0..(N - 1) : upTo[n + 1] = After(n + 1, upTo[n])
    BY <1>11, <2>1
  <2>3. \A n \in 0..(N - 1) : upTo[n] \in Seq(S) => upTo[n + 1] \in Seq(S)
    BY <1>2, <2>1, <2>2
  <2>4. upTo[0] \in Seq(S) /\ 0 \in 0..N
    BY <1>1, <1>11
  <2> QED BY <2>1, <2>3, <2>4
<1> HIDE DEF T
<1>13. 0..N \subseteq T
  BY <1>1, <1>12, Inductive
<1>14. upTo \in [0..N -> Seq(S)]
  BY <1>1, <1>3, <1>10, <1>13 DEF T
<1> QED BY <1>0, <1>11, <1>14 DEF N, After

\* Distinct lists what is named, in the order in which it is named first.
ListsFirst(names, n, list) ==
    /\ \A i \in 1..Len(list) : \E k \in 1..n : names[k] = list[i]
    /\ \A k \in 1..n : \E i \in 1..Len(list) : list[i] = names[k]
    /\ \A i, j \in 1..Len(list) : i < j => FirstNamed(names, list[i]) < FirstNamed(names, list[j])

LEMMA DistinctListsFirst ==
    ASSUME NEW S, NEW names \in Seq(S)
    PROVE  Distinct(names) \in Seq(S) /\ ListsFirst(names, Len(names), Distinct(names))
<1>1. PICK f \in [0..Len(names) -> Seq(S)] :
         /\ f[0] = <<>>
         /\ \A n \in 1..Len(names) : f[n] = IF Contains(f[n - 1], names[n]) THEN f[n - 1]
                                           ELSE Append(f[n - 1], names[n])
         /\ Distinct(names) = f[Len(names)]
  BY DistinctGrows
<1> DEFINE T == {n \in 0..Len(names) : ListsFirst(names, n, f[n])}
<1>2. 0 \in T
  BY <1>1 DEF ListsFirst
<1>3. ASSUME NEW n \in 0..(Len(names) - 1), ListsFirst(names, n, f[n])
      PROVE  ListsFirst(names, n + 1, f[n + 1])
  <2> DEFINE new == names[n + 1]
             list == f[n]
  <2>1. /\ list \in Seq(S) /\ new \in S /\ n + 1 \in 1..Len(names)
        /\ f[n + 1] = IF Contains(list, new) THEN list ELSE Append(list, new)
    BY <1>1
  <2>2. CASE Contains(list, new)
    <3>1. f[n + 1] = list /\ \E i \in 1..Len(list) : list[i] = new
      BY <2>1, <2>2 DEF Contains
    <3>2. ASSUME NEW k \in 1..(n + 1) PROVE \E i \in 1..Len(list) : list[i] = names[k]
      <4>1. CASE k \in 1..n
        BY <1>3, <4>1 DEF ListsFirst
      <4>2. CASE k = n + 1
        BY <3>1, <4>2
      <4> QED BY <4>1, <4>2
    <3>3. \A i \in 1..Len(list) : \E k \in 1..(n + 1) : names[k] = list[i]
      BY <1>3 DEF ListsFirst
    <3> QED BY <1>3, <3>1, <3>2, <3>3 DEF ListsFirst
  <2>3. CASE ~Contains(list, new)
    <3> DEFINE more == Append(list, new)
    <3>1. /\ f[n + 1] = more /\ Len(more) = Len(list) + 1 /\ more[Len(list) + 1] = new
          /\ \A i \in 1..Len(list) : more[i] = list[i] /\ list[i] # new
          /\ Len(list) \in Nat
      BY <2>1, <2>3 DEF Contains
    <3> HIDE DEF more, list, new
    <3>2. \A i \in 1..Len(more) : \E k \in 1..(n + 1) : names[k] = more[i]
      <4>1. ASSUME NEW i \in 1..Len(list) PROVE \E k \in 1..(n + 1) : names[k] = more[i]
        BY <1>3, <3>1 DEF ListsFirst, list
      <4>2. \E k \in 1..(n + 1) : names[k] = more[Len(list) + 1]
        BY <3>1 DEF new
      <4> QED BY <3>1, <4>1, <4>2
    <3>3. \A k \in 1..(n + 1) : \E i \in 1..Len(more) : more[i] = names[k]
      <4>1. ASSUME NEW k \in 1..n PROVE \E i \in 1..Len(more) : more[i] = names[k]
        <5>1. PICK i \in 1..Len(list) : list[i] = names[k]
          BY <1>3 DEF ListsFirst, list
        <5> QED BY <3>1, <5>1
      <4>2. \E i \in 1..Len(more) : more[i] = names[n + 1]
        <5>1. Len(list) + 1 \in 1..Len(more)
          BY <3>1
        <5> QED BY <3>1, <5>1 DEF new
      <4> QED BY <4>1, <4>2
    <3>4. ASSUME NEW i \in 1..Len(list)
          PROVE  FirstNamed(names, list[i]) < FirstNamed(names, new)
      <4>1. PICK k \in 1..n : names[k] = list[i]
        BY <1>3 DEF ListsFirst, list
      <4>2. FirstNamed(names, list[i]) \in 1..n
        BY <4>1, NamedFirst
      <4>3. FirstNamed(names, new) \in 1..(n + 1) /\ names[FirstNamed(names, new)] = new
        BY <2>1, NamedFirst DEF new
      <4>4. FirstNamed(names, new) \notin 1..n
        <5>1. \A k2 \in 1..n : names[k2] # new
          BY <1>3, <3>1 DEF ListsFirst, list
        <5> QED BY <4>3, <5>1
      <4> QED BY <4>2, <4>3, <4>4
    <3>5. ASSUME NEW i \in 1..Len(more), NEW j \in 1..Len(more), i < j
          PROVE  FirstNamed(names, more[i]) < FirstNamed(names, more[j])
      <4>1. i \in 1..Len(list) /\ more[i] = list[i]
        BY <3>1, <3>5
      <4>2. CASE j = Len(list) + 1
        BY <3>1, <3>4, <4>1, <4>2
      <4>3. CASE j # Len(list) + 1
        <5>1. j \in 1..Len(list)
          BY <3>1, <4>3
        <5>2. more[j] = list[j]
          BY <3>1, <5>1
        <5> QED BY <1>3, <3>5, <4>1, <5>1, <5>2 DEF ListsFirst, list
      <4> QED BY <4>2, <4>3
    <3> QED BY <3>1, <3>2, <3>3, <3>5 DEF ListsFirst
  <2> QED BY <2>2, <2>3
<1>4. \A n \in 0..(Len(names) - 1) : n \in T => n + 1 \in T
  BY <1>3
<1> HIDE DEF T
<1>5. 0..Len(names) \subseteq T
  <2>1. Len(names) \in Nat
    OBVIOUS
  <2> QED BY <1>2, <1>4, <2>1, Inductive
<1>6. Len(names) \in T
  BY <1>5
<1> QED BY <1>1, <1>6 DEF T

\* The same of the registered sinks, which are named once.
LEMMA OnceListsFirst ==
    ASSUME NEW S, NEW names \in Seq(S), IsInjective(names)
    PROVE  ListsFirst(names, Len(names), names)
<1>1. \A i \in 1..Len(names) : FirstNamed(names, names[i]) = i
  <2> SUFFICES ASSUME NEW i \in 1..Len(names) PROVE FirstNamed(names, names[i]) = i
    OBVIOUS
  <2>1. FirstNamed(names, names[i]) \in 1..i /\ names[FirstNamed(names, names[i])] = names[i]
    BY NamedFirst
  <2> QED BY <2>1 DEF IsInjective
<1> QED BY <1>1 DEF ListsFirst

LEMMA SameNames ==
    ASSUME NEW S, NEW names \in Seq(S), NEW list \in Seq(S), ListsFirst(names, Len(names), list)
    PROVE  ToSet(names) = ToSet(list) /\ ToSet(names) \subseteq S
<1>1. ToSet(names) \subseteq S
  BY DEF ToSet
<1>2. ASSUME NEW n \in ToSet(names) PROVE n \in ToSet(list)
  <2>1. PICK k \in 1..Len(names) : names[k] = n
    BY <1>2 DEF ToSet
  <2>2. PICK i \in 1..Len(list) : list[i] = names[k]
    BY <2>1 DEF ListsFirst
  <2> QED BY <2>1, <2>2 DEF ToSet
<1>3. ASSUME NEW n \in ToSet(list) PROVE n \in ToSet(names)
  <2>1. PICK i \in 1..Len(list) : list[i] = n
    BY <1>3 DEF ToSet
  <2>2. PICK k \in 1..Len(names) : names[k] = list[i]
    BY <2>1 DEF ListsFirst
  <2> QED BY <2>1, <2>2 DEF ToSet
<1> QED BY <1>1, <1>2, <1>3

-----------------------------------------------------------------------------
(* Notify: a request is delivered as a whole, or not at all. *)

NotifyNext == NotifyBegin \/ NotifyStep \/ NotifyReturn

LEMMA NotifyApart == [Next]_vars => NotifyNext \/ UNCHANGED notifyVars
  BY DEF Next, vars, Unknown, RouteReturn, Begin, Step, Watchdog, Return, Chance, Others,
         NotifyNext, notifyVars

\* The targets of the request.
Chosen == Select(request.sinks, sinks)

\* What sink s is to be told.
Told(q, s) == Encoded(s, Validated(VariantFor(q, s)))

Deliveries ==
    [to : Sinks, message : {Told(q, s) : q \in Requests, s \in Sinks}, ok : BOOLEAN]

\* The request is accepted.
Delivering == Sending /\ (notified = None \/ notified.code = "ok")

\* What was attempted and what is still to be attempted are the targets, in their order.
AttemptedInOrder ==
    /\ sent \in Seq(Deliveries) /\ targets \in Seq(Sinks) /\ Chosen \in Seq(Sinks)
    /\ Len(sent) + Len(targets) = Len(Chosen)
    /\ \A i \in 1..Len(sent) : sent[i].to = Chosen[i] /\ sent[i].message = Told(request, Chosen[i])
    /\ \A i \in 1..Len(targets) : targets[i] = Chosen[Len(sent) + i]

ReportedAsAttempted ==
    notified # None =>
        /\ targets = <<>>
        /\ notified.delivered = Outcomes(sent, TRUE) /\ notified.failed = Outcomes(sent, FALSE)

NotifyInv ==
    /\ ~Delivering => sent = <<>> /\ targets = <<>>
    /\ Delivering => /\ request \in Requests /\ sinks \in SinkSets
                     /\ request.sinks # None => request.sinks \in Seq(Sinks)
                     /\ AllValid(request, Chosen)
                     /\ AttemptedInOrder /\ ReportedAsAttempted

LEMMA NotifyStart == Init => NotifyInv
  BY DEF Init, NotifyInit, NotifyInv, Delivering, Sending

\* A request is accepted if its targets are registered and all of its variants are valid.
LEMMA SendKeeps ==
    ASSUME NotifyInv, NEW q \in Requests, NEW registered \in SinkSets, Send(q, registered)
    PROVE  NotifyInv'
<1> DEFINE verdict == Verdict(q, registered)
           to == Select(q.sinks, registered)
<1>1. /\ request' = q /\ sinks' = registered /\ sent' = <<>> /\ q.method = "send" /\ q # None
      /\ q.sinks \in SinkLists
  BY NotifyOK DEF Send, NotifyInv, Delivering, Sending, Requests
<1>2. CASE verdict # "deliver"
  <2>1. verdict \in {"bad_request", "unavailable"} /\ notified' = [code |-> verdict] /\ targets' = <<>>
    BY <1>2 DEF Send, Verdict
  <2>2. notified' # None /\ notified'.code # "ok"
    BY <2>1, NotifyOK
  <2> QED BY <1>1, <2>1, <2>2 DEF NotifyInv, Delivering
<1>3. CASE verdict = "deliver"
  <2>1. targets' = to /\ notified' = None
    BY <1>3 DEF Send
  <2>2. AllValid(q, to) /\ (q.sinks # None => ToSet(q.sinks) \subseteq ToSet(registered))
    BY <1>3 DEF Verdict
  <2>3. registered \in Seq(Sinks)
    BY NotifyOK
  <2>4. q.sinks # None => q.sinks \in Seq(Sinks)
    <3> SUFFICES ASSUME q.sinks # None PROVE q.sinks \in Seq(Sinks)
      OBVIOUS
    <3>1. q.sinks \in Seq(STRING)
      BY <1>1, NotifyOK
    <3>2. \A i \in 1..Len(q.sinks) : q.sinks[i] \in Sinks
      <4> SUFFICES ASSUME NEW i \in 1..Len(q.sinks) PROVE q.sinks[i] \in Sinks
        OBVIOUS
      <4>1. q.sinks[i] \in ToSet(registered)
        BY <2>2, <3>1 DEF ToSet
      <4> QED BY <2>3, <4>1 DEF ToSet
    <3> QED BY <3>1, <3>2
  <2>5. to \in Seq(Sinks)
    BY <2>3, <2>4, DistinctListsFirst DEF Select
  <2>6. Chosen' = to
    BY <1>1 DEF Chosen
  <2>7. AttemptedInOrder'
    <3>1. sent' = <<>> /\ targets' = to /\ Chosen' = to /\ Len(to) \in Nat
      BY <1>1, <2>1, <2>5, <2>6
    <3> QED BY <2>5, <3>1 DEF AttemptedInOrder
  <2>8. ReportedAsAttempted'
    BY <2>1 DEF ReportedAsAttempted
  <2>9. Delivering' /\ AllValid(request', Chosen')
    BY <1>1, <2>1, <2>2, <2>6 DEF Delivering, Sending
  <2> QED BY <1>1, <2>4, <2>7, <2>8, <2>9 DEF NotifyInv
<1> QED BY <1>2, <1>3

LEMMA DeliverKeeps ==
    ASSUME NotifyInv, NEW ok \in BOOLEAN, Deliver(ok)
    PROVE  NotifyInv'
<1> DEFINE s == Head(targets)
           o == [to |-> s, message |-> Told(request, s), ok |-> ok]
<1>1. /\ targets # <<>> /\ targets' = Tail(targets) /\ sent' = Append(sent, o)
      /\ UNCHANGED <<sinks, request, notified>>
  BY DEF Deliver, Attempt, Told
<1>2. /\ Delivering /\ AttemptedInOrder /\ notified = None
      /\ request \in Requests /\ sinks \in SinkSets /\ AllValid(request, Chosen)
      /\ request.sinks # None => request.sinks \in Seq(Sinks)
  BY <1>1 DEF NotifyInv, ReportedAsAttempted
<1>3. Delivering' /\ Chosen' = Chosen /\ AllValid(request', Chosen') /\ ReportedAsAttempted'
  BY <1>1, <1>2 DEF Delivering, Sending, Chosen, ReportedAsAttempted
<1>4. /\ s \in Sinks /\ s = targets[1] /\ Len(targets) \in Nat \ {0} /\ Len(sent) \in Nat
      /\ Len(Tail(targets)) = Len(targets) - 1 /\ Tail(targets) \in Seq(Sinks)
      /\ \A i \in 1..Len(Tail(targets)) : Tail(targets)[i] = targets[i + 1]
  BY <1>1, <1>2, EmptySeq, HeadTailProperties DEF AttemptedInOrder
<1>5. s = Chosen[Len(sent) + 1]
  BY <1>2, <1>4 DEF AttemptedInOrder
<1>6. o \in Deliveries
  BY <1>2, <1>4 DEF Deliveries
<1> HIDE DEF s
<1>7. o.to = s /\ o.message = Told(request, s)
  OBVIOUS
<1> HIDE DEF o
<1>8. /\ sent' \in Seq(Deliveries) /\ Len(sent') = Len(sent) + 1 /\ sent'[Len(sent) + 1] = o
      /\ \A i \in 1..Len(sent) : sent'[i] = sent[i]
  BY <1>1, <1>2, <1>6, AppendProperties DEF AttemptedInOrder
<1>9. /\ sent' \in Seq(Deliveries) /\ targets' \in Seq(Sinks) /\ Chosen' \in Seq(Sinks)
      /\ Len(sent') + Len(targets') = Len(Chosen')
  BY <1>1, <1>2, <1>3, <1>4, <1>8 DEF AttemptedInOrder
<1>10. \A i \in 1..Len(sent') : sent'[i].to = Chosen[i] /\ sent'[i].message = Told(request, Chosen[i])
  <2> SUFFICES ASSUME NEW i \in 1..Len(sent')
               PROVE  sent'[i].to = Chosen[i] /\ sent'[i].message = Told(request, Chosen[i])
    OBVIOUS
  <2>1. CASE i = Len(sent) + 1
    BY <1>5, <1>7, <1>8, <2>1
  <2>2. CASE i # Len(sent) + 1
    <3>1. i \in 1..Len(sent) /\ sent'[i] = sent[i]
      BY <1>4, <1>8, <2>2
    <3> QED BY <1>2, <3>1 DEF AttemptedInOrder
  <2> QED BY <2>1, <2>2
<1>11. \A i \in 1..Len(targets') : targets'[i] = Chosen[Len(sent') + i]
  <2> SUFFICES ASSUME NEW i \in 1..Len(targets') PROVE targets'[i] = Chosen[Len(sent') + i]
    OBVIOUS
  <2>1. targets'[i] = targets[i + 1] /\ i + 1 \in 1..Len(targets)
    BY <1>1, <1>4
  <2>2. Len(sent') + i = Len(sent) + (i + 1)
    BY <1>4, <1>8
  <2> QED BY <1>2, <2>1, <2>2 DEF AttemptedInOrder
<1>12. AttemptedInOrder'
  BY <1>1, <1>3, <1>9, <1>10, <1>11 DEF AttemptedInOrder
<1> QED BY <1>1, <1>2, <1>3, <1>12 DEF NotifyInv

LEMMA NotifyKept == NotifyInv /\ [Next]_vars => NotifyInv'
<1> SUFFICES ASSUME NotifyInv, [Next]_vars PROVE NotifyInv'
  OBVIOUS
<1>1. CASE UNCHANGED notifyVars
  BY <1>1 DEF notifyVars, NotifyInv, Delivering, Sending, Chosen, AttemptedInOrder, ReportedAsAttempted
<1>2. ASSUME NEW registered \in SinkSets, Targets(registered) PROVE NotifyInv'
  BY <1>2 DEF Targets, NotifyInv, Delivering, Sending
<1>3. CASE Report
  <2>1. CASE Delivering
    BY <1>3, <2>1 DEF Report, NotifyInv, Delivering, Sending, Chosen, AttemptedInOrder, ReportedAsAttempted
  <2>2. CASE ~Delivering
    BY <1>3, <2>2 DEF Report, NotifyInv, Delivering, Sending
  <2> QED BY <2>1, <2>2
<1>4. CASE NotifyReturn
  BY <1>4 DEF NotifyReturn, NotifyInv, Delivering, Sending
<1> QED BY <1>1, <1>2, <1>3, <1>4, SendKeeps, DeliverKeeps, NotifyApart
        DEF NotifyNext, NotifyBegin, NotifyStep

\* What the request has for a sink is what it wants for it.
LEMMA VariantIsWanted ==
    ASSUME request \in Requests, NEW s \in Sinks, NEW f \in Fields
    PROVE  VariantFor(request, s)[f] = Wanted(s, f)
  BY DEF VariantFor, Patched, Wanted, Requests

LEMMA ChosenListsFirst ==
    ASSUME NotifyInv, Delivering
    PROVE  Asked \in Seq(Sinks) /\ ListsFirst(Asked, Len(Asked), Chosen)
<1>1. sinks \in Seq(Sinks) /\ IsInjective(sinks)
  BY NotifyOK DEF NotifyInv
<1>2. request.sinks # None => request.sinks \in Seq(Sinks)
  BY DEF NotifyInv
<1> QED BY <1>1, <1>2, DistinctListsFirst, OnceListsFirst DEF Asked, Chosen, Select

(* Nothing of a request reaches any sink unless all of it is valid: its      *)
(* base and the variant of every target (proto.rs, resolve).                 *)
THEOREM AllValidOrNothing == Spec => []NothingUnlessAllValid
<1>1. NotifyInv => NothingUnlessAllValid
  <2> SUFFICES ASSUME NotifyInv, Sending, sent # <<>>
               PROVE  \A f \in Fields : /\ ~Refused(f, request.base[f])
                                        /\ \A s \in ToSet(Asked) : ~Refused(f, Wanted(s, f))
    BY DEF NothingUnlessAllValid
  <2>1. Delivering /\ request \in Requests /\ AllValid(request, Chosen)
    BY DEF NotifyInv
  <2>2. Valid(request.base) /\ \A s \in ToSet(Chosen) : Valid(VariantFor(request, s))
    BY <2>1 DEF AllValid
  <2>3. ToSet(Asked) \subseteq ToSet(Chosen) /\ ToSet(Asked) \subseteq Sinks
    <3>1. Asked \in Seq(Sinks) /\ Chosen \in Seq(Sinks) /\ ListsFirst(Asked, Len(Asked), Chosen)
      BY <2>1, ChosenListsFirst DEF NotifyInv, AttemptedInOrder
    <3> QED BY <3>1, SameNames
  <2> QED BY <2>1, <2>2, <2>3, VariantIsWanted DEF Valid
<1> QED BY <1>1, NotifyStart, NotifyKept, PTL DEF Spec

(* Each sink that was asked for was attempted once, in the order in which it *)
(* was named first, with the request's fields as patched for it, whatever    *)
(* became of the others, and the answer says which took it (dispatch.rs).    *)
THEOREM EachGetsItsOwn == Spec => []DeliversToEachItsOwn
<1>1. NotifyInv => DeliversToEachItsOwn
  <2> DEFINE to == [i \in DOMAIN sent |-> sent[i].to]
             Own(s) == [f \in Fields |-> Cleaned(f, Wanted(s, f))]
  <2> SUFFICES ASSUME NotifyInv, Sending, notified # None, notified.code = "ok"
               PROVE  /\ ToSet(to) = ToSet(Asked)
                      /\ \A i, j \in DOMAIN to :
                            i < j => FirstNamed(Asked, to[i]) < FirstNamed(Asked, to[j])
                      /\ \A o \in ToSet(sent) : o.message = Encoded(o.to, Own(o.to))
                      /\ \A s \in ToSet(Asked) :
                            LET ok == \E o \in ToSet(sent) : o.to = s /\ o.ok
                            IN  /\ ok <=> s \in notified.delivered
                                /\ ~ok <=> s \in notified.failed
    BY DEF DeliversToEachItsOwn
  <2>1. /\ Delivering /\ request \in Requests /\ AttemptedInOrder /\ targets = <<>>
        /\ notified.delivered = Outcomes(sent, TRUE) /\ notified.failed = Outcomes(sent, FALSE)
    BY DEF NotifyInv, Delivering, ReportedAsAttempted
  <2>2. Asked \in Seq(Sinks) /\ Chosen \in Seq(Sinks) /\ ListsFirst(Asked, Len(Asked), Chosen)
    BY <2>1, ChosenListsFirst DEF AttemptedInOrder
  <2>3. /\ sent \in Seq(Deliveries) /\ Len(sent) = Len(Chosen) /\ DOMAIN sent = 1..Len(Chosen)
        /\ \A i \in 1..Len(Chosen) : /\ sent[i].to = Chosen[i] /\ sent[i].ok \in BOOLEAN
                                     /\ sent[i].message = Told(request, Chosen[i])
                                     /\ Chosen[i] \in Sinks
    <3>1. /\ sent \in Seq(Deliveries) /\ Len(sent) = Len(Chosen) /\ DOMAIN sent = 1..Len(Chosen)
          /\ \A i \in 1..Len(Chosen) : /\ sent[i].to = Chosen[i]
                                       /\ sent[i].message = Told(request, Chosen[i])
      BY <2>1 DEF AttemptedInOrder
    <3>2. ASSUME NEW i \in 1..Len(Chosen) PROVE sent[i].ok \in BOOLEAN /\ Chosen[i] \in Sinks
      <4>1. sent[i] \in Deliveries /\ Chosen[i] \in Sinks
        BY <2>2, <3>1
      <4> QED BY <4>1 DEF Deliveries
    <3> QED BY <3>1, <3>2
  <2>4. DOMAIN to = 1..Len(Chosen) /\ \A i \in 1..Len(Chosen) : to[i] = Chosen[i]
    BY <2>3
  <2>5. ToSet(to) = ToSet(Asked)
    <3>1. ToSet(to) = ToSet(Chosen)
      <4>1. DOMAIN Chosen = 1..Len(Chosen)
        BY <2>2
      <4> HIDE DEF to
      <4> QED BY <2>4, <4>1, Zenon DEF ToSet
    <3>2. ToSet(Asked) = ToSet(Chosen)
      BY <2>2, SameNames
    <3> QED BY <3>1, <3>2, Zenon
  <2>6. \A i, j \in DOMAIN to : i < j => FirstNamed(Asked, to[i]) < FirstNamed(Asked, to[j])
    <3>1. \A i, j \in 1..Len(Chosen) :
             i < j => FirstNamed(Asked, Chosen[i]) < FirstNamed(Asked, Chosen[j])
      BY <2>2, Zenon DEF ListsFirst
    <3> HIDE DEF to
    <3> QED BY <2>4, <3>1
  <2>7. ASSUME NEW o \in ToSet(sent) PROVE o.message = Encoded(o.to, Own(o.to))
    <3>1. o.to \in Sinks /\ o.message = Told(request, o.to)
      BY <2>3 DEF ToSet
    <3>2. Validated(VariantFor(request, o.to)) = Own(o.to)
      BY <2>1, <3>1, VariantIsWanted DEF Validated
    <3> QED BY <3>1, <3>2 DEF Told
  <2>8. \A i, j \in 1..Len(Chosen) : Chosen[i] = Chosen[j] => i = j
    <3> SUFFICES ASSUME NEW i \in 1..Len(Chosen), NEW j \in 1..Len(Chosen), i < j,
                        Chosen[i] = Chosen[j]
                 PROVE  FALSE
      OBVIOUS
    <3>1. FirstNamed(Asked, Chosen[i]) < FirstNamed(Asked, Chosen[j])
      BY <2>2 DEF ListsFirst
    <3>2. PICK k \in 1..Len(Asked) : Asked[k] = Chosen[i]
      BY <2>2 DEF ListsFirst
    <3>3. FirstNamed(Asked, Chosen[i]) \in 1..k
      BY <2>2, <3>2, NamedFirst
    <3> QED BY <3>1, <3>3
  <2>9. ASSUME NEW s \in ToSet(Asked)
        PROVE  /\ (\E o \in ToSet(sent) : o.to = s /\ o.ok) <=> s \in Outcomes(sent, TRUE)
               /\ ~(\E o \in ToSet(sent) : o.to = s /\ o.ok) <=> s \in Outcomes(sent, FALSE)
    <3>1. PICK k \in 1..Len(Chosen) : Chosen[k] = s
      <4>1. s \in ToSet(Chosen)
        BY <2>2, SameNames
      <4> QED BY <2>2, <4>1 DEF ToSet
    <3>2. \A i \in 1..Len(Chosen) : sent[i].to = s <=> i = k
      BY <2>3, <2>8, <3>1
    <3>3. (\E o \in ToSet(sent) : o.to = s /\ o.ok) <=> sent[k].ok
      BY <2>3, <3>2 DEF ToSet
    <3>4. \A ok \in BOOLEAN : s \in Outcomes(sent, ok) <=> sent[k].ok = ok
      BY <2>3, <3>2 DEF Outcomes
    <3> QED BY <2>3, <3>3, <3>4
  <2> HIDE DEF to
  <2> QED BY <2>1, <2>5, <2>6, <2>7, <2>9
<1> QED BY <1>1, NotifyStart, NotifyKept, PTL DEF Spec

-----------------------------------------------------------------------------
(* Sql: a watchdog that is about to interrupt is that of the running call, *)
(* which then is late, or one of a call that has returned.                 *)

DueIsLate ==
    \A d \in Dogs : dogs[d] = "due" => d = dog /\ sqlAt = "step" /\ late

SqlInv ==
    /\ dogs \in [Dogs -> {"none", "watching", "due", "stray", "cancelled"}]
    /\ sqlAt \in {"prepare", "step"} => dog \in Dogs /\ dogs[dog] # "stray"
    /\ DueIsLate
    /\ interrupted => late
    /\ sqlAt # "answered" => queried = None
    /\ OwnDeadlineOnly

LEMMA SqlStart == Init => SqlInv
  BY DEF Init, SqlInit, SqlInv, DueIsLate, OwnDeadlineOnly, Answers

LEMMA AnsweredKeeps ==
    ASSUME SqlInv, NEW answer, Answered(answer), sqlAt \in {"prepare", "step"},
           answer.code = "interrupted" => late
    PROVE  SqlInv'
  BY DEF SqlInv, Answered, DueIsLate, OwnDeadlineOnly, Answers

LEMMA SqlKept == SqlInv /\ [Next]_vars => SqlInv'
<1> SUFFICES ASSUME SqlInv, [Next]_vars PROVE SqlInv'
  OBVIOUS
<1>1. CASE UNCHANGED sqlVars
  BY <1>1 DEF sqlVars, callOfSql, SqlInv, DueIsLate, OwnDeadlineOnly, Answers
<1>2. CASE SqlBegin
  <2>1. CASE Databases
    BY <2>1 DEF Databases, SqlInv, DueIsLate, OwnDeadlineOnly, Answers
  <2>2. ASSUME NEW q \in Queries, NEW file, Ask(q, file) PROVE SqlInv'
    <3>1. CASE Refusal(q, file) # "none"
      <4>1. Refusal(q, file) # "interrupted"
        BY DEF Refusal
      <4> QED
        BY <2>2, <3>1, <4>1 DEF Ask, SqlInv, DueIsLate, OwnDeadlineOnly, Answers
    <3>2. CASE Refusal(q, file) = "none"
      BY <2>2, <3>2 DEF Ask, SqlInv, DueIsLate, OwnDeadlineOnly, Answers
    <3> QED BY <3>1, <3>2
  <2> QED BY <1>2, <2>1, <2>2 DEF SqlBegin
<1>3. CASE SqlStep
  <2>1. CASE Prepare
    <3>1. CASE query.statement = "wrong" \/ ~query.bindable
      BY <2>1, <3>1, AnsweredKeeps DEF Prepare
    <3>2. CASE ~(query.statement = "wrong" \/ ~query.bindable)
      BY <2>1, <3>2 DEF Prepare, SqlInv, DueIsLate, OwnDeadlineOnly, Answers
    <3> QED BY <3>1, <3>2
  <2>2. CASE Row
    <3> DEFINE rows == Append(got, query.result[Len(got) + 1])
    <3>1. CASE OverCap(rows)
      BY <2>2, <3>1, AnsweredKeeps DEF Row, Stepping
    <3>2. CASE ~OverCap(rows)
      BY <2>2, <3>2 DEF Row, Stepping, SqlInv, DueIsLate, OwnDeadlineOnly, Answers
    <3> QED BY <3>1, <3>2
  <2>3. CASE Finish
    BY <2>3, AnsweredKeeps DEF Finish, Stepping
  <2>4. CASE RefuseWrite
    BY <2>4, AnsweredKeeps DEF RefuseWrite, Stepping
  <2>5. CASE StopInterrupted
    BY <2>5, AnsweredKeeps DEF StopInterrupted, SqlInv
  <2> QED BY <1>3, <2>1, <2>2, <2>3, <2>4, <2>5 DEF SqlStep
<1>4. CASE SqliteFails
  BY <1>4, AnsweredKeeps DEF SqliteFails
<1>5. ASSUME NEW d \in Dogs, Watch(d) PROVE SqlInv'
  <2>1. CASE ComeDue(d)
    BY <2>1 DEF ComeDue, SqlInv, DueIsLate, OwnDeadlineOnly, Answers
  <2>2. CASE Interrupt(d)
    BY <2>2 DEF Interrupt, Connection, SqlInv, DueIsLate, OwnDeadlineOnly, Answers
  <2>3. CASE StandDown(d)
    BY <2>3 DEF StandDown, callOfSql, SqlInv, DueIsLate, OwnDeadlineOnly, Answers
  <2> QED BY <1>5, <2>1, <2>2, <2>3 DEF Watch
<1>6. CASE SqlReturn
  BY <1>6 DEF SqlReturn, SqlInv, DueIsLate, OwnDeadlineOnly, Answers
<1> QED BY <1>1, <1>2, <1>3, <1>4, <1>5, <1>6, SqlApart DEF SqlNext

(* A call is told that its statement was interrupted only if that very      *)
(* statement ran into its deadline: no watchdog of an earlier call, however *)
(* late it fires, stops the statement of another (sql.rs, Watchdog, open).  *)
THEOREM InterruptsOwnCallOnly == Spec => []OwnDeadlineOnly
<1>1. SqlInv => OwnDeadlineOnly
  BY DEF SqlInv
<1> QED BY SqlStart, SqlKept, <1>1, PTL DEF Spec

(* A statement never runs without its watchdog: from before it is prepared   *)
(* until it has ended, its thread waits for the deadline, is about to        *)
(* interrupt it or has done so, and does not stand down; and no thread waits *)
(* for a call that has returned (sql.rs, Watchdog).  So no statement keeps a *)
(* thread of the pool past its deadline, nor a watchdog one for nothing.     *)
Watches(d) == dogs[d] \in {"watching", "due"}

EachStatementWatched ==
    /\ sqlAt \in {"prepare", "step"} => Watches(dog) \/ (sqlAt = "step" /\ interrupted)
    /\ \A d \in Dogs : Watches(d) => sqlAt \in {"prepare", "step"} /\ d = dog

LEMMA AnsweredLeavesNone ==
    ASSUME SqlInv, EachStatementWatched, NEW answer, Answered(answer), sqlAt \in {"prepare", "step"}
    PROVE  EachStatementWatched'
  BY DEF SqlInv, Answered, EachStatementWatched, Watches

LEMMA WatchKept == SqlInv /\ EachStatementWatched /\ [Next]_vars => EachStatementWatched'
<1> SUFFICES ASSUME SqlInv, EachStatementWatched, [Next]_vars PROVE EachStatementWatched'
  OBVIOUS
<1>1. CASE UNCHANGED sqlVars
  BY <1>1 DEF sqlVars, callOfSql, EachStatementWatched, Watches
<1>2. CASE SqlBegin
  <2>1. CASE Databases
    BY <2>1 DEF Databases, EachStatementWatched, Watches
  <2>2. ASSUME NEW q \in Queries, NEW file, Ask(q, file) PROVE EachStatementWatched'
    <3>1. CASE Refusal(q, file) # "none"
      BY <2>2, <3>1 DEF Ask, EachStatementWatched, Watches
    <3>2. CASE Refusal(q, file) = "none"
      <4>1. PICK d \in Dogs : dog' = d /\ dogs' = [dogs EXCEPT ![d] = "watching"] /\ sqlAt' = "prepare"
        BY <2>2, <3>2 DEF Ask
      <4>2. \A c \in Dogs : ~Watches(c)
        BY <2>2 DEF Ask, EachStatementWatched
      <4> QED BY <4>1, <4>2 DEF SqlInv, EachStatementWatched, Watches
    <3> QED BY <3>1, <3>2
  <2> QED BY <1>2, <2>1, <2>2 DEF SqlBegin
<1>3. CASE SqlStep \/ SqliteFails
  <2>1. CASE Prepare
    <3>1. CASE query.statement = "wrong" \/ ~query.bindable
      BY <2>1, <3>1, AnsweredLeavesNone DEF Prepare
    <3>2. CASE ~(query.statement = "wrong" \/ ~query.bindable)
      BY <2>1, <3>2 DEF Prepare, EachStatementWatched, Watches
    <3> QED BY <3>1, <3>2
  <2>2. CASE Row
    <3> DEFINE rows == Append(got, query.result[Len(got) + 1])
    <3>1. CASE OverCap(rows)
      BY <2>2, <3>1, AnsweredLeavesNone DEF Row, Stepping
    <3>2. CASE ~OverCap(rows)
      BY <2>2, <3>2 DEF Row, Stepping, EachStatementWatched, Watches
    <3> QED BY <3>1, <3>2
  <2>3. CASE Finish \/ RefuseWrite
    BY <2>3, AnsweredLeavesNone DEF Finish, RefuseWrite, Stepping
  <2>4. CASE StopInterrupted \/ SqliteFails
    BY <2>4, AnsweredLeavesNone DEF StopInterrupted, SqliteFails
  <2> QED BY <1>3, <2>1, <2>2, <2>3, <2>4 DEF SqlStep
<1>4. ASSUME NEW d \in Dogs, Watch(d) PROVE EachStatementWatched'
  <2>1. CASE ComeDue(d)
    BY <2>1 DEF ComeDue, SqlInv, EachStatementWatched, Watches
  <2>2. CASE Interrupt(d)
    BY <2>2 DEF Interrupt, Connection, SqlInv, DueIsLate, EachStatementWatched, Watches
  <2>3. CASE StandDown(d)
    BY <2>3 DEF StandDown, callOfSql, SqlInv, EachStatementWatched, Watches
  <2> QED BY <1>4, <2>1, <2>2, <2>3 DEF Watch
<1>5. CASE SqlReturn
  BY <1>5 DEF SqlReturn, EachStatementWatched, Watches
<1> QED BY <1>1, <1>2, <1>3, <1>4, <1>5, SqlApart DEF SqlNext

THEOREM NoStatementUnwatched == Spec => []EachStatementWatched
<1>1. Init => EachStatementWatched
  BY DEF Init, SqlInit, EachStatementWatched, Watches
<1> QED BY <1>1, SqlStart, SqlKept, WatchKept, PTL DEF Spec

-----------------------------------------------------------------------------
(* Sql: the rows that were read are the first of the result, within the caps. *)

LEMMA BytesOfRows ==
    ASSUME NEW rows \in Seq(Nat)
    PROVE  Bytes(rows) \in Nat /\ (rows = <<>> => Bytes(rows) = 0)
<1> DEFINE N == Len(rows)
           G == [n \in 1..N |-> [sum \in Nat |-> sum + rows[n]]]
           Def(f) == [n \in 0..N |-> IF n = 0 THEN 0 ELSE f[n - 1] + rows[n]]
           upTo == CHOOSE f : f = Def(f)
<1>1. Bytes(rows) = upTo[N]
  BY Zenon DEF Bytes
<1>2. N \in Nat /\ \A n \in 1..N : rows[n] \in Nat /\ n - 1 \in 0..N
  OBVIOUS
<1>3. G \in [1..N -> [Nat -> Nat]] /\ \A n \in 1..N, sum \in Nat : G[n][sum] = sum + rows[n]
  BY <1>2
<1>4. rows = <<>> => N = 0
  OBVIOUS
<1> HIDE DEF N, G
<1>5. PICK f : Iterates(f, N, Nat, 0, G)
  BY <1>2, <1>3, Recursion
<1>6. f \in [0..N -> Nat] /\ f[0] = 0 /\ \A n \in 1..N : f[n] = f[n - 1] + rows[n]
  BY <1>2, <1>3, <1>5 DEF Iterates
<1>7. f = Def(f)
  BY <1>2, <1>6
<1> HIDE DEF Def
<1>8. upTo = Def(upTo)
  BY <1>7, Zenon
<1> HIDE DEF upTo
<1>9. upTo[0] = 0 /\ \A n \in 1..N : upTo[n] = upTo[n - 1] + rows[n]
  BY <1>2, <1>8 DEF Def
<1> DEFINE T == {n \in 0..N : upTo[n] \in Nat}
<1>10. 0 \in T /\ \A n \in 0..(N - 1) : n \in T => n + 1 \in T
  <2>1. \A n \in 0..(N - 1) : n \in 0..N /\ n + 1 \in 1..N /\ upTo[n + 1] = upTo[n] + rows[n + 1]
    BY <1>2, <1>9
  <2> QED BY <1>2, <1>9, <2>1
<1> HIDE DEF T
<1>11. 0..N \subseteq T
  BY <1>2, <1>10, Inductive
<1>12. N \in T
  BY <1>2, <1>11
<1> QED BY <1>1, <1>4, <1>9, <1>12 DEF T

ReadSoFar ==
    /\ query \in Queries
    /\ got \in Seq(Nat) /\ Len(got) <= Len(query.result)
    /\ \A i \in 1..Len(got) : got[i] = query.result[i]
    /\ Len(got) <= MaxRows /\ Bytes(got) <= MaxBytes

RowsInv ==
    /\ sqlAt \in {"prepare", "step"} => ReadSoFar
    /\ sqlAt # "answered" => queried = None
    /\ RowsWhole

LEMMA RowsStart == Init => RowsInv
  BY DEF Init, SqlInit, RowsInv, RowsWhole, Answers

\* An answer that has no rows.
LEMMA RefusalKeeps ==
    ASSUME RowsInv, NEW answer, Answered(answer), answer.code # "ok"
    PROVE  RowsInv'
  BY DEF RowsInv, Answered, RowsWhole, Answers

LEMMA RowsKept == RowsInv /\ [Next]_vars => RowsInv'
<1> SUFFICES ASSUME RowsInv, [Next]_vars PROVE RowsInv'
  OBVIOUS
<1>1. CASE UNCHANGED callOfSql
  BY <1>1 DEF callOfSql, RowsInv, ReadSoFar, RowsWhole, Answers
<1>2. CASE SqlBegin
  <2>1. CASE Databases
    BY <2>1 DEF Databases, RowsInv, RowsWhole, Answers
  <2>2. ASSUME NEW q \in Queries, NEW file, Ask(q, file) PROVE RowsInv'
    <3>1. CASE Refusal(q, file) # "none"
      <4>1. Refusal(q, file) # "ok"
        BY DEF Refusal
      <4> QED BY <2>2, <3>1, <4>1 DEF Ask, RowsInv, RowsWhole, Answers
    <3>2. CASE Refusal(q, file) = "none"
      <4>1. query' = q /\ got' = <<>> /\ sqlAt' = "prepare" /\ queried' = None
        BY <2>2, <3>2 DEF Ask
      <4>2. q.result \in Seq(Nat) /\ Bytes(<<>>) = 0 /\ <<>> \in Seq(Nat) /\ Len(<<>>) = 0
        BY SqlOK, BytesOfRows, EmptySeq
      <4>3. ReadSoFar'
        BY <4>1, <4>2, SqlOK DEF ReadSoFar
      <4> QED BY <4>1, <4>3 DEF RowsInv, RowsWhole, Answers
    <3> QED BY <3>1, <3>2
  <2> QED BY <1>2, <2>1, <2>2 DEF SqlBegin
<1>3. CASE Prepare
  BY <1>3, RefusalKeeps DEF Prepare, RowsInv, ReadSoFar, RowsWhole, Answers
<1>4. CASE Row
  <2> DEFINE k == Len(got) + 1
             rows == Append(got, query.result[k])
  <2>1. /\ ReadSoFar /\ sqlAt = "step" /\ Len(got) < Len(query.result)
        /\ query.result \in Seq(Nat) /\ Len(got) \in Nat
    BY <1>4, SqlOK DEF Row, Stepping, More, RowsInv, ReadSoFar
  <2>2. CASE OverCap(rows)
    BY <1>4, <2>2, RefusalKeeps DEF Row
  <2>3. CASE ~OverCap(rows)
    <3>1. got' = rows /\ UNCHANGED <<query, sqlAt, queried>>
      BY <1>4, <2>3 DEF Row
    <3>2. query.result[k] \in Nat /\ k \in 1..Len(query.result)
      BY <2>1
    <3>3. /\ rows \in Seq(Nat) /\ Len(rows) = k /\ rows[k] = query.result[k]
          /\ \A i \in 1..Len(got) : rows[i] = query.result[i]
      BY <2>1, <3>2, AppendProperties DEF ReadSoFar
    <3>4. Bytes(rows) \in Nat
      BY <3>3, BytesOfRows
    <3> HIDE DEF rows
    <3>5. Len(rows) <= MaxRows /\ Bytes(rows) <= MaxBytes
      BY <2>1, <2>3, <3>3, <3>4, SqlOK DEF OverCap
    <3>6. ReadSoFar'
      <4>1. \A i \in 1..k : rows[i] = query.result[i]
        <5>1. \A i \in 1..k : i \in 1..Len(got) \/ i = k
          BY <2>1
        <5> QED BY <3>3, <5>1
      <4>2. query \in Queries /\ k <= Len(query.result)
        BY <2>1, <3>2 DEF ReadSoFar
      <4> QED BY <3>1, <3>3, <3>5, <4>1, <4>2 DEF ReadSoFar
    <3> QED BY <2>1, <3>1, <3>6 DEF RowsInv, RowsWhole, Answers
  <2> QED BY <2>2, <2>3
<1>5. CASE Finish
  <2>1. ReadSoFar /\ ~(Len(got) < Len(query.result)) /\ query.result \in Seq(Nat)
    BY <1>5, SqlOK DEF Finish, Stepping, More, RowsInv, ReadSoFar
  <2>2. got = query.result
    <3>1. got \in Seq(Nat) /\ Len(got) = Len(query.result)
      BY <2>1 DEF ReadSoFar
    <3>2. \A i \in 1..Len(got) : got[i] = query.result[i]
      BY <2>1 DEF ReadSoFar
    <3> QED BY <2>1, <3>1, <3>2, SeqEqual
  <2> QED BY <1>5, <2>1, <2>2 DEF Finish, Answered, RowsInv, RowsWhole, Answers, ReadSoFar
<1>6. CASE RefuseWrite \/ StopInterrupted \/ SqliteFails
  BY <1>6, RefusalKeeps DEF RefuseWrite, StopInterrupted, SqliteFails
<1>7. ASSUME NEW d \in Dogs, Watch(d) PROVE RowsInv'
  BY <1>7 DEF Watch, ComeDue, Interrupt, StandDown, callOfSql, RowsInv, ReadSoFar, RowsWhole, Answers
<1>8. CASE SqlReturn
  BY <1>8 DEF SqlReturn, RowsInv, RowsWhole, Answers
<1>9. CASE UNCHANGED sqlVars
  BY <1>1, <1>9 DEF sqlVars
<1> QED BY <1>2, <1>3, <1>4, <1>5, <1>6, <1>7, <1>8, <1>9, SqlApart DEF SqlNext, SqlStep

-----------------------------------------------------------------------------
(* Outbound *)

\* Whatever is not in the way of a connection was checked.
OutboundInv ==
    /\ fetchAt \notin {"idle", "answered"} =>
          fetch.host = None \/ (fetch.host \in Addresses /\ IsPublic(fetch.host))
    /\ \A a \in candidates : a \in Addresses /\ IsPublic(a)
    /\ ConnectsOnlyToPublic

(* The masks that the code tests are the ranges it means: of a segment, *)
LEMMA Segments ==
    ASSUME NEW n \in Segment, IsPublicV6(n)
    PROVE  n \notin PrivateV6
<1>1. n \in 64512..65023 => n - (n % 512) = 64512
  BY SMTT(60)
<1>2. n \in 65152..65215 => n - (n % 64) = 65152
  BY SMTT(60)
<1>3. n \in 65280..65535 => n - (n % 256) = 65280
  BY SMTT(60)
<1> QED BY <1>1, <1>2, <1>3 DEF IsPublicV6, Masked, PrivateV6

(* and of two bytes. *)
LEMMA FirstBytes ==
    ASSUME NEW f \in Octet, NEW s \in Octet, IsPublicV4(f, s), NEW r \in PrivateV4
    PROVE  ~WithinV4(f, s, r)
<1>1. f \notin {0, 10, 127} /\ ~(f = 172 /\ s - (s % 16) = 16) /\ ~(f = 192 /\ s = 168)
      /\ ~(f = 169 /\ s = 254) /\ f - (f % 16) # 224 /\ f < 240
      /\ ~(f = 100 /\ s - (s % 64) = 64)
  BY SMT DEF IsPublicV4, Masked, Octet
<1>2. f < 224 /\ ~(f = 172 /\ s \in 16..31) /\ ~(f = 100 /\ s \in 64..127)
  BY <1>1, SMTT(60) DEF Octet
<1> QED BY <1>1, <1>2, SMTT(60) DEF PrivateV4, WithinV4, Octet

LEMMA MasksAreRanges ==
    ASSUME NEW a \in Addresses, IsPublic(a)
    PROVE  OnTheInternet(a)
<1>1. /\ a.form \in Embedding \cup {"v6"}
      /\ a.form = "v6" => a.first \in Segment
      /\ a.form # "v6" => a.first \in Octet /\ a.second \in Octet
  BY OutboundOK
<1>2. "v6" \notin Embedding
  BY DEF Embedding
<1>3. CASE a.form = "v6"
  BY <1>1, <1>2, <1>3, Segments DEF IsPublic, OnTheInternet
<1>4. CASE a.form \in Embedding
  BY <1>1, <1>2, <1>4, FirstBytes DEF IsPublic, OnTheInternet
<1> QED BY <1>1, <1>3, <1>4

LEMMA OutboundStart == Init => OutboundInv
  BY DEF Init, OutboundInit, OutboundInv, ConnectsOnlyToPublic

LEMMA OutboundKept == OutboundInv /\ [Next]_vars => OutboundInv'
<1> SUFFICES ASSUME OutboundInv, [Next]_vars PROVE OutboundInv'
  OBVIOUS
<1> USE DEF OutboundInv, ConnectsOnlyToPublic, FetchEnds, FetchAnswers
<1>1. CASE UNCHANGED outboundVars
  BY <1>1 DEF outboundVars, callOfFetch
<1>2. CASE OutboundBegin
  <2> PICK h \in Addresses \cup {None}, fault \in {"none", "url"}, hs \in HeaderLists :
           Fetch([host |-> h, fault |-> fault, headers |-> hs])
    BY <1>2 DEF OutboundBegin
  <2> QED BY DEF Fetch, Malformed
<1>3. CASE OutboundStep
  <2>1. ASSUME NEW built, Client(built) PROVE OutboundInv'
    BY <2>1 DEF Client
  <2>2. CASE FetchFails
    BY <2>2 DEF FetchFails
  <2> QED BY <1>3, <2>1, <2>2 DEF OutboundStep
<1>4. CASE Network
  <2>1. ASSUME NEW found \in Lookups, Resolve(found) PROVE OutboundInv'
    <3>1. found \subseteq Addresses
      BY OutboundOK
    <3> QED BY <2>1, <3>1 DEF Resolve, Resolved
  <2>2. ASSUME NEW a \in candidates, NEW r, Connect(a, r) PROVE OutboundInv'
    <3>1. OnTheInternet(a)
      BY MasksAreRanges
    <3> QED BY <2>2, <3>1 DEF Connect
  <2>3. CASE Read
    BY <2>3 DEF Read
  <2>4. CASE EndRead
    BY <2>4 DEF EndRead
  <2> QED BY <1>4, <2>1, <2>2, <2>3, <2>4 DEF Network
<1>5. CASE OutboundReturn
  BY <1>5 DEF OutboundReturn
<1> QED BY <1>1, <1>2, <1>3, <1>4, <1>5, OutboundApart DEF OutboundNext

\* What decides is looked at when the reading ends: no more than numbers need be known.
BodyInv ==
    /\ body \in Nat
    /\ fetchAt = "read" => response.size \in Nat /\ response.declared \in Nat
    /\ fetchAt # "answered" => fetched = None
    /\ BodyIsWhole

LEMMA BodyStart == Init => BodyInv
  BY DEF Init, OutboundInit, BodyInv, BodyIsWhole

LEMMA BodyKept == BodyInv /\ [Next]_vars => BodyInv'
<1> SUFFICES ASSUME BodyInv, [Next]_vars PROVE BodyInv'
  OBVIOUS
<1> USE DEF BodyInv, BodyIsWhole, FetchEnds, FetchAnswers
<1>1. CASE UNCHANGED outboundVars
  BY <1>1 DEF outboundVars, callOfFetch
<1>2. CASE OutboundBegin
  BY <1>2 DEF OutboundBegin, Fetch
<1>3. CASE OutboundStep
  <2>1. ASSUME NEW built, Client(built) PROVE BodyInv'
    BY <2>1 DEF Client
  <2>2. CASE FetchFails
    BY <2>2 DEF FetchFails
  <2> QED BY <1>3, <2>1, <2>2 DEF OutboundStep
<1>4. CASE Network
  <2>1. ASSUME NEW found \in Lookups, Resolve(found) PROVE BodyInv'
    BY <2>1 DEF Resolve
  <2>2. ASSUME NEW a \in candidates, NEW r \in Responses \cup {None}, Connect(a, r)
        PROVE  BodyInv'
    <3>1. r # None => r.size \in Nat /\ r.declared \in Nat
      BY OutboundOK DEF Responses
    <3> QED BY <2>2, <3>1 DEF Connect
  <2>3. CASE Read
    BY <2>3 DEF Read
  <2>4. CASE EndRead
    <3>1. CASE /\ ~(body < response.declared /\ body < ReadLimit)
               /\ ~(body > MaxBody \/ ~response.text)
      BY <2>4, <3>1, OutboundOK DEF EndRead, ReadLimit
    <3>2. CASE ~ /\ ~(body < response.declared /\ body < ReadLimit)
                 /\ ~(body > MaxBody \/ ~response.text)
      BY <2>4, <3>2 DEF EndRead
    <3> QED BY <3>1, <3>2
  <2> QED BY <1>4, <2>1, <2>2, <2>3, <2>4 DEF Network
<1>5. CASE OutboundReturn
  BY <1>5 DEF OutboundReturn
<1> QED BY <1>1, <1>2, <1>3, <1>4, <1>5, OutboundApart DEF OutboundNext

(* No call ever connects to an address outside the public internet, for any *)
(* addresses and whatever a name resolves to (outbound.rs, is_public,       *)
(* PublicResolver and parse_url).                                           *)
THEOREM PublicHostsOnly == Spec => []ConnectsOnlyToPublic
<1>1. OutboundInv => ConnectsOnlyToPublic
  BY DEF OutboundInv
<1> QED BY OutboundStart, OutboundKept, <1>1, PTL DEF Spec

(* A query is answered with all of its rows and a request with the whole    *)
(* body, or with a refusal, for any caps, rows and responses: whatever is   *)
(* cut off at a cap is not passed for an answer (sql.rs, run; outbound.rs,  *)
(* read_response and read_capped).                                          *)
THEOREM WholeAnswers == Spec => []AnswersAreWhole
<1>1. RowsInv /\ BodyInv => AnswersAreWhole
  BY DEF RowsInv, BodyInv, AnswersAreWhole
<1>2. Init => RowsInv /\ BodyInv
  BY RowsStart, BodyStart
<1>3. RowsInv /\ BodyInv /\ [Next]_vars => (RowsInv /\ BodyInv)'
  BY RowsKept, BodyKept
<1> QED BY <1>1, <1>2, <1>3, PTL DEF Spec

-----------------------------------------------------------------------------
(* Intake *)

\* What is behind the operation's place, and what a fetch has been told.
Placed ==
    /\ tip \in DOMAIN History \cup {None} /\ head \in DOMAIN History \cup {None}
    /\ intakeAt # "idle" => remote \in Trees
    /\ intakeAt = "idle" => head = None /\ taken = "none" /\ status = None
    /\ intakeAt = "clone" => taken = "none" /\ tip # None /\ (op # "ok" => head = None)
    /\ intakeAt = "clone" /\ op = "ok" => dir = "whole" /\ head # None
    /\ intakeAt = "validate" => taken = "none" /\ dir = "whole" /\ head # None
    /\ taken = "accepted" => dir = "whole" /\ head # None
    /\ intakeAt \in {"idle", "answered", "validate"} => op = "none"
    /\ intakeAt # "answered" => status = None
    /\ intakeAt = "fetch" =>
          /\ taken = "accepted" /\ tip \in tips
          /\ advertised # None => advertised \in tips /\ advertised \in DOMAIN History
          /\ op = "ok" => advertised # None

IntakeInv == Placed /\ FinishedCloneStands /\ UpdatesAreReal

(* A walk that is told to hide the clone's head, and some of those before   *)
(* it, stops where the head is, if it comes there.                          *)
LEMMA WalkedIsNewest ==
    ASSUME head \in DOMAIN History, NEW latest \in DOMAIN History,
           NEW n \in 0..Len(History[latest]), Walked(latest, n),
           NEW j \in DOMAIN History[latest], History[latest][j] = head
    PROVE  n = IF j - 1 < LogLimit THEN j - 1 ELSE LogLimit
<1> DEFINE theirs == History[latest]
           own == History[head]
<1>1. LogLimit \in Nat
  BY IntakeOK
<1>2. \A c \in DOMAIN History :
         /\ History[c] \in Seq(DOMAIN History) /\ Len(History[c]) >= 1 /\ History[c][1] = c
         /\ \A i \in 1..Len(History[c]) :
               /\ History[c][i] \in DOMAIN History
               /\ History[History[c][i]] = SubSeq(History[c], i, Len(History[c]))
               /\ Len(History[History[c][i]]) = Len(History[c]) - i + 1
  <2> SUFFICES ASSUME NEW c \in DOMAIN History
               PROVE  /\ History[c] \in Seq(DOMAIN History) /\ Len(History[c]) >= 1 /\ History[c][1] = c
                      /\ \A i \in 1..Len(History[c]) :
                            /\ History[c][i] \in DOMAIN History
                            /\ History[History[c][i]] = SubSeq(History[c], i, Len(History[c]))
                            /\ Len(History[History[c][i]]) = Len(History[c]) - i + 1
    OBVIOUS
  <2> DEFINE h == History[c]
  <2>1. /\ h \in Seq(DOMAIN History) /\ h # <<>> /\ h[1] = c
        /\ \A i \in DOMAIN h : History[h[i]] = SubSeq(h, i, Len(h))
    BY IntakeOK
  <2> HIDE DEF h
  <2>2. DOMAIN h = 1..Len(h) /\ Len(h) >= 1 /\ \A i \in 1..Len(h) : h[i] \in DOMAIN History
    BY <2>1
  <2>3. ASSUME NEW i \in 1..Len(h) PROVE Len(SubSeq(h, i, Len(h))) = Len(h) - i + 1
    BY <2>1
  <2> QED BY <2>1, <2>2, <2>3 DEF h
<1>3. PICK known \in DOMAIN own :
        LET hidden == {own[i] : i \in 1..known}
        IN  /\ n <= LogLimit
            /\ \A i \in 1..n : theirs[i] \notin hidden
            /\ ~(n < LogLimit /\ n < Len(theirs) /\ theirs[n + 1] \notin hidden)
  BY DEF Walked
<1>4. /\ theirs \in Seq(DOMAIN History) /\ own \in Seq(DOMAIN History)
      /\ j \in 1..Len(theirs) /\ known \in 1..Len(own) /\ own[1] = head /\ theirs[j] = head
  <2>1. theirs \in Seq(DOMAIN History) /\ own \in Seq(DOMAIN History) /\ own[1] = head
    BY <1>2
  <2>2. DOMAIN theirs = 1..Len(theirs) /\ DOMAIN own = 1..Len(own)
    BY <2>1
  <2> QED BY <1>3, <2>1, <2>2
<1>5. Len(own) = Len(theirs) - j + 1
  BY <1>2, <1>4
<1>6. n <= j - 1
  <2>1. head \in {own[i] : i \in 1..known}
    BY <1>4
  <2> QED BY <1>3, <1>4, <2>1
<1>7. ~(n < LogLimit /\ n < j - 1)
  <2> SUFFICES ASSUME n < LogLimit, n < j - 1 PROVE FALSE
    OBVIOUS
  <2>1. n + 1 \in 1..Len(theirs) /\ n < Len(theirs)
    BY <1>4
  <2>2. theirs[n + 1] \in {own[i] : i \in 1..known}
    BY <1>3, <2>1
  <2>3. PICK i \in 1..known : theirs[n + 1] = own[i]
    BY <2>2
  <2>4. Len(History[theirs[n + 1]]) = Len(theirs) - (n + 1) + 1
    BY <1>2, <2>1
  <2>5. Len(History[own[i]]) = Len(own) - i + 1
    BY <1>2, <1>4
  <2>6. Len(theirs) \in Nat /\ Len(own) \in Nat /\ j \in Nat /\ n \in Nat /\ i \in Nat /\ i >= 1
    BY <1>4
  <2>7. Len(theirs) - (n + 1) + 1 = Len(own) - i + 1
    BY <2>3, <2>4, <2>5, Zenon
  <2> HIDE DEF theirs, own
  <2> QED BY <1>5, <2>6, <2>7
<1> QED BY <1>1, <1>3, <1>4, <1>6, <1>7

LEMMA IntakeStart == Init => IntakeInv
  BY DEF Init, IntakeInit, IntakeInv, Placed, FinishedCloneStands, UpdatesAreReal

LEMMA FetchedKeeps ==
    ASSUME Placed, Fetched
    PROVE  UpdatesAreReal'
<1>1. UNCHANGED <<head, tips>> /\ intakeAt = "fetch" /\ op # "none"
  BY DEF Fetched
<1>2. CASE Outcome = "ok"
  <2>1. advertised \in tips /\ advertised \in DOMAIN History /\ head \in DOMAIN History
    BY <1>1, <1>2 DEF Outcome, Placed
  <2>2. PICK n \in 0..Len(History[advertised]) :
           /\ Walked(advertised, n)
           /\ status' = [code |-> "ok", behind |-> advertised # head, latest |-> advertised,
                         changelog |-> SubSeq(History[advertised], 1, n)]
    BY <1>2 DEF Fetched, RemoteTip
  <2> DEFINE theirs == History[advertised]
  <2>3. theirs \in Seq(DOMAIN History)
    BY <2>1, IntakeOK
  <2>4. Len(SubSeq(theirs, 1, n)) = n
    BY <2>3
  <2>5. \A j \in DOMAIN theirs : theirs[j] = head =>
           n = IF j - 1 < LogLimit THEN j - 1 ELSE LogLimit
    BY <2>1, <2>2, WalkedIsNewest
  <2>6. /\ status'.latest = advertised /\ (status'.behind <=> advertised # head)
        /\ status'.changelog = SubSeq(theirs, 1, n) /\ Len(status'.changelog) = n
    BY <2>2, <2>4
  <2> QED BY <1>1, <2>1, <2>5, <2>6 DEF UpdatesAreReal
<1>3. CASE Outcome # "ok"
  <2>1. status' = [code |-> "failed"]
    BY <1>3 DEF Fetched
  <2> QED BY <2>1 DEF UpdatesAreReal
<1> QED BY <1>2, <1>3

LEMMA PushKeeps ==
    ASSUME IntakeInv, Push
    PROVE  IntakeInv'
<1>1. PICK commit \in DOMAIN History \cup {None} :
        /\ tip' = commit
        /\ tips' = IF intakeAt = "fetch" THEN tips \cup {commit} ELSE tips
  <2>1. remote \in Trees
    BY DEF IntakeInv, Placed, Push
  <2> QED BY <2>1, IntakeOK DEF Push
<1>2. /\ taken = "accepted" /\ UNCHANGED <<remote, intakeAt, dir, op, head, taken, advertised, status>>
  BY DEF Push
<1>3. Placed'
  BY <1>1, <1>2 DEF IntakeInv, Placed
<1>4. UpdatesAreReal'
  <2>1. CASE intakeAt = "answered"
    BY <1>1, <1>2, <2>1 DEF IntakeInv, UpdatesAreReal
  <2>2. CASE intakeAt # "answered"
    BY <1>2, <2>2 DEF IntakeInv, Placed, UpdatesAreReal
  <2> QED BY <2>1, <2>2
<1> QED BY <1>2, <1>3, <1>4 DEF IntakeInv, FinishedCloneStands

LEMMA IntakeKept == IntakeInv /\ [Next]_vars => IntakeInv'
<1> SUFFICES ASSUME IntakeInv, [Next]_vars PROVE IntakeInv'
  OBVIOUS
<1>0. /\ status' = None => UpdatesAreReal'
      /\ UNCHANGED <<status, head, tips>> => UpdatesAreReal'
      /\ None \notin DOMAIN History
  BY IntakeOK DEF IntakeInv, UpdatesAreReal
<1> USE DEF IntakeInv, Placed, FinishedCloneStands
<1>1. CASE UNCHANGED intakeVars
  <2>1. UNCHANGED <<remote, tip, intakeAt, dir, op, flag, head, taken, advertised, tips, status>>
    BY <1>1 DEF intakeVars, gitVars
  <2> QED BY <1>0, <2>1
<1>2. CASE IntakeBegin
  <2>1. PICK t \in Trees, commit \in DOMAIN History, urlOK \in BOOLEAN : StartClone(t, commit, urlOK)
    BY <1>2, IntakeOK DEF IntakeBegin
  <2>2. UNCHANGED <<head, tips, status>> /\ tip' \in DOMAIN History /\ intakeAt = "idle" /\ remote' \in Trees
    BY <2>1, IntakeOK DEF StartClone, gitVars
  <2>3. \/ intakeAt' = "clone" /\ op' = "running" /\ dir' = "partial" /\ UNCHANGED taken
        \/ intakeAt' = "answered" /\ taken' = "not_https" /\ UNCHANGED <<op, dir>>
    BY <2>1 DEF StartClone
  <2> QED BY <1>0, <2>2, <2>3
<1>3. ASSUME NEW result \in {"ok", "failed"}, Operate(result) PROVE IntakeInv'
  BY <1>0, <1>3 DEF Operate, gitVars
<1>4. CASE Raise
  BY <1>0, <1>4 DEF Raise, gitVars
<1>5. CASE Cloned
  BY <1>0, <1>5 DEF Cloned, Outcome, Discard, gitVars
<1>6. CASE Validate
  <2>1. Verdicts(remote) # "clone_failed"
    BY DEF Verdicts
  <2> QED BY <1>0, <1>6, <2>1 DEF Validate, Discard, gitVars
<1>7. CASE Fetched
  <2>1. UNCHANGED <<remote, tip, head, taken, dir>> /\ intakeAt' = "answered" /\ op' = "none"
        /\ intakeAt = "fetch"
    BY <1>7 DEF Fetched
  <2>2. UpdatesAreReal'
    BY <1>7, FetchedKeeps
  <2> QED BY <2>1, <2>2
<1>8. CASE StartFetch
  BY <1>0, <1>8 DEF StartFetch
<1>9. CASE Advertise
  BY <1>0, <1>9 DEF Advertise
<1>10. CASE IntakeReturn
  BY <1>0, <1>10 DEF IntakeReturn
<1>11. CASE IntakeStep \/ Ends
  BY <1>11, <1>3, <1>4, <1>5, <1>6, <1>7 DEF IntakeStep, Ends
<1>12. CASE Push
  BY <1>12, PushKeeps
<1> QED BY <1>1, <1>2, <1>8, <1>9, <1>10, <1>11, <1>12, IntakeApart DEF IntakeNext

(* A clone that was completed is never refused for its deadline, whenever   *)
(* the watchdog comes, and what is accepted is there as a whole, for any    *)
(* trees (git.rs, with_deadline and clone_repo; service.rs,                 *)
(* fetch_candidate).                                                        *)
THEOREM CompletedClonesStand == Spec => []FinishedCloneStands
<1>1. IntakeInv => FinishedCloneStands
  BY DEF IntakeInv
<1> QED BY IntakeStart, IntakeKept, <1>1, PTL DEF Spec

(* What a check reports as the branch's latest was so at a time since the   *)
(* check began, whatever is pushed meanwhile; the commits it lists are the  *)
(* newest of that branch, those since the clone's head if it is on it, for  *)
(* any histories and limit (git.rs, fetch_inner, remote_tip, changelog).    *)
THEOREM ReportedUpdatesAreReal == Spec => []UpdatesAreReal
<1>1. IntakeInv => UpdatesAreReal
  BY DEF IntakeInv
<1> QED BY IntakeStart, IntakeKept, <1>1, PTL DEF Spec

-----------------------------------------------------------------------------
(* Intake: no two trees are hashed alike. *)

\* What is hashed: names, NULs, and lengths as they are written.
Tokens == STRING \cup {"NUL"} \cup {ToString(n) : n \in Nat}

\* g[n] is what was hashed after the first n paths.
HashSteps(g, files) ==
    /\ g \in [0..Len(Paths) -> Seq(Tokens)] /\ g[0] = <<>>
    /\ \A n \in 1..Len(Paths) :
          g[n] = IF Paths[n] \notin DOMAIN files THEN g[n - 1]
                 ELSE g[n - 1] \o Framed(Paths[n], files[Paths[n]])

LEMMA PathsAreSeqs ==
    /\ Len(Paths) \in Nat /\ DOMAIN Paths = 1..Len(Paths)
    /\ \A n \in 1..Len(Paths) : /\ Paths[n] \in Seq(STRING) /\ Paths[n] \in Seq(Tokens)
                                /\ \A i \in 1..Len(Paths[n]) : Paths[n][i] # "NUL"
<1>1. Paths \in Seq(Seq(STRING)) /\ \A p \in ToSet(Paths) : "NUL" \notin ToSet(p)
  BY IntakeOK
<1> SUFFICES ASSUME NEW n \in 1..Len(Paths)
             PROVE  /\ Paths[n] \in Seq(STRING) /\ Paths[n] \in Seq(Tokens)
                    /\ \A i \in 1..Len(Paths[n]) : Paths[n][i] # "NUL"
  BY <1>1
<1>2. Paths[n] \in Seq(STRING)
  BY <1>1
<1>3. Paths[n] \in Seq(Tokens)
  BY <1>2, SeqMonotonic DEF Tokens
<1>4. "NUL" \notin ToSet(Paths[n])
  BY <1>1 DEF ToSet
<1> QED BY <1>2, <1>3, <1>4 DEF ToSet

LEMMA FramedProperties ==
    ASSUME NEW path \in Seq(Tokens), NEW text \in Seq(Tokens)
    PROVE  LET frame == Framed(path, text)
           IN  /\ frame \in Seq(Tokens) /\ Len(frame) = Len(path) + 2 + Len(text)
               /\ \A i \in 1..Len(path) : frame[i] = path[i]
               /\ frame[Len(path) + 1] = "NUL" /\ frame[Len(path) + 2] = ToString(Len(text))
               /\ \A i \in 1..Len(text) : frame[Len(path) + 2 + i] = text[i]
<1> DEFINE length == ToString(Len(text))
           mark == <<"NUL", length>>
           top == path \o mark
<1>0. Len(path) \in Nat /\ Len(text) \in Nat
  OBVIOUS
<1>1. length \in Tokens /\ "NUL" \in Tokens
  <2>1. \A n \in Nat : ToString(n) \in {ToString(k) : k \in Nat}
    BY Zenon
  <2>2. length \in {ToString(n) : n \in Nat}
    BY <1>0, <2>1, Zenon
  <2> QED BY <2>2, Zenon DEF Tokens
<1> HIDE DEF length
<1>2. mark \in Seq(Tokens) /\ Len(mark) = 2 /\ mark[1] = "NUL" /\ mark[2] = length
  BY <1>1
<1> HIDE DEF mark
<1>3. /\ top \in Seq(Tokens) /\ Len(top) = Len(path) + 2
      /\ \A i \in 1..(Len(path) + 2) : top[i] = IF i <= Len(path) THEN path[i] ELSE mark[i - Len(path)]
  <2>1. /\ top \in Seq(Tokens) /\ Len(top) = Len(path) + Len(mark)
        /\ \A i \in 1..(Len(path) + Len(mark)) : top[i] = IF i <= Len(path) THEN path[i] ELSE mark[i - Len(path)]
    BY <1>2, ConcatProperties
  <2> HIDE DEF top
  <2> QED BY <1>2, <2>1
<1> HIDE DEF top
<1>4. /\ top \o text \in Seq(Tokens) /\ Len(top \o text) = Len(path) + 2 + Len(text)
      /\ \A i \in 1..(Len(path) + 2 + Len(text)) :
            (top \o text)[i] = IF i <= Len(path) + 2 THEN top[i] ELSE text[i - (Len(path) + 2)]
  <2> DEFINE all == top \o text
  <2>0. top \in Seq(Tokens) /\ text \in Seq(Tokens)
    BY <1>3
  <2>1. /\ all \in Seq(Tokens) /\ Len(all) = Len(top) + Len(text)
        /\ \A i \in 1..(Len(top) + Len(text)) : all[i] = IF i <= Len(top) THEN top[i] ELSE text[i - Len(top)]
    BY <2>0, ConcatProperties
  <2> HIDE DEF all
  <2>2. /\ all \in Seq(Tokens) /\ Len(all) = Len(path) + 2 + Len(text)
        /\ \A i \in 1..(Len(path) + 2 + Len(text)) :
              all[i] = IF i <= Len(path) + 2 THEN top[i] ELSE text[i - (Len(path) + 2)]
    BY <1>3, <2>1
  <2> QED BY <2>2 DEF all
<1>5. Framed(path, text) = top \o text
  BY DEF Framed, top, mark, length
<1>6. /\ \A i \in 1..Len(path) : top[i] = path[i]
      /\ top[Len(path) + 1] = "NUL" /\ top[Len(path) + 2] = length
  <2>1. /\ Len(path) + 1 \in 1..(Len(path) + 2) /\ Len(path) + 2 \in 1..(Len(path) + 2)
        /\ Len(path) + 1 - Len(path) = 1 /\ Len(path) + 2 - Len(path) = 2
    BY <1>0
  <2>2. top[Len(path) + 1] = mark[1] /\ top[Len(path) + 2] = mark[2]
    BY <1>0, <1>3, <2>1
  <2>3. \A i \in 1..Len(path) : top[i] = path[i]
    BY <1>0, <1>3
  <2> QED BY <1>2, <2>2, <2>3
<1> DEFINE frame == top \o text
<1>7. frame = Framed(path, text)
  BY <1>5
<1> HIDE DEF frame
<1>8. /\ frame \in Seq(Tokens) /\ Len(frame) = Len(path) + 2 + Len(text)
      /\ \A i \in 1..(Len(path) + 2 + Len(text)) :
            frame[i] = IF i <= Len(path) + 2 THEN top[i] ELSE text[i - (Len(path) + 2)]
  BY <1>4 DEF frame
<1>9. /\ \A i \in 1..Len(path) : frame[i] = path[i]
      /\ frame[Len(path) + 1] = "NUL" /\ frame[Len(path) + 2] = length
      /\ \A i \in 1..Len(text) : frame[Len(path) + 2 + i] = text[i]
  <2>1. \A i \in 1..(Len(path) + 2) : frame[i] = top[i]
    BY <1>0, <1>8
  <2>2. \A i \in 1..Len(text) : frame[Len(path) + 2 + i] = text[i]
    <3> SUFFICES ASSUME NEW i \in 1..Len(text) PROVE frame[Len(path) + 2 + i] = text[i]
      OBVIOUS
    <3> DEFINE j == Len(path) + 2 + i
    <3>1. j \in 1..(Len(path) + 2 + Len(text)) /\ ~(j <= Len(path) + 2) /\ j - (Len(path) + 2) = i
      BY <1>0
    <3> HIDE DEF j
    <3>2. frame[j] = text[i]
      BY <1>8, <3>1
    <3> QED BY <3>2 DEF j
  <2> QED BY <1>0, <1>6, <2>1, <2>2
<1> QED BY <1>7, <1>8, <1>9, Zenon DEF length

LEMMA HashedBySteps ==
    ASSUME NEW files \in Contents
    PROVE  \E g : HashSteps(g, files) /\ Hashed(files) = g[Len(Paths)]
<1> DEFINE N == Len(Paths)
           After(n, s) == IF Paths[n] \notin DOMAIN files THEN s
                          ELSE s \o Framed(Paths[n], files[Paths[n]])
           G == [n \in 1..N |-> [s \in Seq(Tokens) |-> After(n, s)]]
           Def(f) == [n \in 0..N |-> IF n = 0 THEN <<>>
                                     ELSE IF Paths[n] \notin DOMAIN files THEN f[n - 1]
                                     ELSE f[n - 1] \o Framed(Paths[n], files[Paths[n]])]
           upTo == CHOOSE f : f = Def(f)
<1>1. Hashed(files) = upTo[N]
  BY Zenon DEF Hashed
<1>2. N \in Nat /\ \A n \in 1..N : n - 1 \in 0..N
  BY PathsAreSeqs
<1>3. \A n \in 1..N, s \in Seq(Tokens) : After(n, s) \in Seq(Tokens)
  <2> SUFFICES ASSUME NEW n \in 1..N, NEW s \in Seq(Tokens), Paths[n] \in DOMAIN files
               PROVE  s \o Framed(Paths[n], files[Paths[n]]) \in Seq(Tokens)
    OBVIOUS
  <2>1. files[Paths[n]] \in Seq(Tokens)
    <3>1. files[Paths[n]] \in Seq(STRING)
      BY IntakeOK
    <3> QED BY <3>1, SeqMonotonic DEF Tokens
  <2>2. Framed(Paths[n], files[Paths[n]]) \in Seq(Tokens)
    BY <2>1, PathsAreSeqs, FramedProperties
  <2> QED BY <2>2, ConcatProperties
<1>4. \A f : Def(f) = [n \in 0..N |-> IF n = 0 THEN <<>> ELSE After(n, f[n - 1])]
  OBVIOUS
<1>5. <<>> \in Seq(Tokens)
  BY EmptySeq
<1> HIDE DEF After, N
<1>6. G \in [1..N -> [Seq(Tokens) -> Seq(Tokens)]] /\ \A n \in 1..N, s \in Seq(Tokens) : G[n][s] = After(n, s)
  BY <1>3
<1> HIDE DEF G
<1>7. PICK f : Iterates(f, N, Seq(Tokens), <<>>, G)
  BY <1>2, <1>5, <1>6, Recursion
<1>8. f \in [0..N -> Seq(Tokens)] /\ f[0] = <<>> /\ \A n \in 1..N : f[n] = After(n, f[n - 1])
  BY <1>2, <1>6, <1>7 DEF Iterates
<1> HIDE DEF Def
<1>9. f = Def(f)
  <2>1. \A n \in 0..N : f[n] = IF n = 0 THEN <<>> ELSE After(n, f[n - 1])
    BY <1>2, <1>8
  <2>2. f = [n \in 0..N |-> IF n = 0 THEN <<>> ELSE After(n, f[n - 1])]
    BY <1>8, <2>1
  <2> QED BY <1>4, <2>2
<1>10. upTo = Def(upTo)
  BY <1>9, Zenon
<1> HIDE DEF upTo
<1>11. upTo[0] = <<>> /\ \A n \in 1..N : upTo[n] = After(n, upTo[n - 1])
  BY <1>2, <1>4, <1>10
<1> DEFINE T == {n \in 0..N : upTo[n] \in Seq(Tokens)}
<1>12. 0 \in T /\ \A n \in 0..(N - 1) : n \in T => n + 1 \in T
  <2>1. \A n \in 0..(N - 1) : n \in 0..N /\ n + 1 \in 1..N /\ n + 1 - 1 = n
    BY <1>2
  <2>2. \A n \in 0..(N - 1) : upTo[n + 1] = After(n + 1, upTo[n])
    BY <1>11, <2>1
  <2>3. \A n \in 0..(N - 1) : upTo[n] \in Seq(Tokens) => upTo[n + 1] \in Seq(Tokens)
    BY <1>3, <2>1, <2>2
  <2>4. upTo[0] \in Seq(Tokens) /\ 0 \in 0..N
    BY <1>2, <1>5, <1>11
  <2> QED BY <2>1, <2>3, <2>4
<1> HIDE DEF T
<1>13. 0..N \subseteq T
  BY <1>2, <1>12, Inductive
<1>14. upTo \in [0..N -> Seq(Tokens)]
  BY <1>2, <1>4, <1>10, <1>13 DEF T
<1>15. HashSteps(upTo, files)
  BY <1>11, <1>14 DEF HashSteps, N, After
<1> QED BY <1>1, <1>15 DEF N

\* All begins with start.
Begins(start, all) == Len(start) <= Len(all) /\ \A i \in 1..Len(start) : all[i] = start[i]

\* In all, frame stands after the first k.
StandsAfter(k, frame, all) ==
    k + Len(frame) <= Len(all) /\ \A i \in 1..Len(frame) : all[k + i] = frame[i]

LEMMA FrameTypes ==
    ASSUME NEW files \in Contents, NEW n \in 1..Len(Paths), Paths[n] \in DOMAIN files
    PROVE  files[Paths[n]] \in Seq(Tokens) /\ Framed(Paths[n], files[Paths[n]]) \in Seq(Tokens)
<1>1. files[Paths[n]] \in Seq(STRING)
  BY IntakeOK
<1>2. files[Paths[n]] \in Seq(Tokens)
  BY <1>1, SeqMonotonic DEF Tokens
<1> QED BY <1>2, PathsAreSeqs, FramedProperties

LEMMA HashTypes ==
    ASSUME NEW files, NEW g, HashSteps(g, files), NEW n \in 0..Len(Paths)
    PROVE  g[n] \in Seq(Tokens) /\ Len(g[n]) \in Nat
<1>1. g[n] \in Seq(Tokens)
  BY DEF HashSteps
<1> QED BY <1>1, LenProperties

\* One path more leaves what was hashed, and its frame, if any, comes after it.
LEMMA OneStep ==
    ASSUME NEW files \in Contents, NEW g, HashSteps(g, files), NEW n \in 1..Len(Paths)
    PROVE  /\ Begins(g[n - 1], g[n])
           /\ Paths[n] \in DOMAIN files =>
                 StandsAfter(Len(g[n - 1]), Framed(Paths[n], files[Paths[n]]), g[n])
           /\ Paths[n] \notin DOMAIN files => g[n] = g[n - 1]
<1>1. n - 1 \in 0..Len(Paths) /\ Len(Paths) \in Nat
  BY PathsAreSeqs
<1>2. g[n - 1] \in Seq(Tokens) /\ Len(g[n - 1]) \in Nat
  BY <1>1, HashTypes
<1>3. CASE Paths[n] \notin DOMAIN files
  <2>1. g[n] = g[n - 1]
    BY <1>3 DEF HashSteps
  <2> QED BY <1>2, <1>3, <2>1 DEF Begins
<1>4. CASE Paths[n] \in DOMAIN files
  <2> DEFINE frame == Framed(Paths[n], files[Paths[n]])
             before == g[n - 1]
  <2>1. g[n] = before \o frame
    BY <1>4 DEF HashSteps
  <2>2. frame \in Seq(Tokens) /\ before \in Seq(Tokens)
    BY <1>2, <1>4, FrameTypes
  <2> HIDE DEF frame, before
  <2>3. Len(frame) \in Nat /\ Len(before) \in Nat
    BY <2>2, LenProperties
  <2>4. /\ Len(g[n]) = Len(before) + Len(frame)
        /\ \A i \in 1..(Len(before) + Len(frame)) :
              g[n][i] = IF i <= Len(before) THEN before[i] ELSE frame[i - Len(before)]
    BY <2>1, <2>2, ConcatProperties
  <2>5. Begins(before, g[n])
    BY <2>3, <2>4 DEF Begins
  <2>6. StandsAfter(Len(before), frame, g[n])
    <3>1. ASSUME NEW i \in 1..Len(frame) PROVE g[n][Len(before) + i] = frame[i]
      <4> DEFINE j == Len(before) + i
      <4>1. j \in 1..(Len(before) + Len(frame)) /\ ~(j <= Len(before)) /\ j - Len(before) = i
        BY <2>3
      <4> HIDE DEF j
      <4>2. g[n][j] = frame[i]
        BY <2>4, <4>1
      <4> QED BY <4>2 DEF j
    <3> QED BY <2>3, <2>4, <3>1 DEF StandsAfter
  <2> QED BY <1>4, <2>5, <2>6 DEF before, frame
<1> QED BY <1>3, <1>4

LEMMA BeginsOn ==
    ASSUME NEW a, NEW b, NEW c, Len(a) \in Nat, Len(b) \in Nat, Len(c) \in Nat,
           Begins(a, b), Begins(b, c)
    PROVE  Begins(a, c)
<1>1. Len(a) <= Len(b) /\ Len(b) <= Len(c)
  BY DEF Begins
<1>2. ASSUME NEW i \in 1..Len(a) PROVE c[i] = a[i]
  <2>1. i \in 1..Len(b)
    BY <1>1
  <2> QED BY <2>1 DEF Begins
<1> QED BY <1>1, <1>2 DEF Begins

\* What was hashed stays at the beginning of what is hashed.
LEMMA Stays ==
    ASSUME NEW files \in Contents, NEW g, HashSteps(g, files), NEW n \in 0..Len(Paths)
    PROVE  Begins(g[n], g[Len(Paths)])
<1> DEFINE N == Len(Paths)
           T == {k \in n..N : Begins(g[n], g[k])}
<1>1. N \in Nat /\ n \in n..N
  BY PathsAreSeqs
<1>2. \A k \in 0..N : Len(g[k]) \in Nat
  BY HashTypes
<1>3. n \in T
  BY <1>1, <1>2 DEF Begins
<1>4. ASSUME NEW k \in n..(N - 1), k \in T PROVE k + 1 \in T
  <2>1. k + 1 \in 1..N /\ k + 1 - 1 = k /\ k \in 0..N /\ k + 1 \in n..N
    BY <1>1
  <2>2. Begins(g[k], g[k + 1])
    BY <2>1, OneStep
  <2>3. Begins(g[n], g[k])
    BY <1>4
  <2>4. Len(g[n]) \in Nat /\ Len(g[k]) \in Nat /\ Len(g[k + 1]) \in Nat
    BY <1>1, <1>2, <2>1
  <2>5. Begins(g[n], g[k + 1])
    BY <2>2, <2>3, <2>4, BeginsOn
  <2> QED BY <2>1, <2>5
<1> HIDE DEF T, N
<1>5. n..N \subseteq T
  BY <1>1, <1>3, <1>4, InductiveFrom DEF N
<1>6. N \in T
  BY <1>1, <1>5 DEF N
<1> QED BY <1>6 DEF T, N

\* Paths of which there is no file add nothing.
LEMMA AddNothing ==
    ASSUME NEW files \in Contents, NEW g, HashSteps(g, files),
           NEW n \in 0..Len(Paths), NEW m \in n..Len(Paths),
           \A k \in (n + 1)..m : Paths[k] \notin DOMAIN files
    PROVE  g[m] = g[n]
<1> DEFINE T == {k \in n..m : g[k] = g[n]}
<1>1. m \in Nat /\ n \in 0..m /\ n \in T /\ Len(Paths) \in Nat
  BY PathsAreSeqs
<1>2. ASSUME NEW k \in n..(m - 1), k \in T PROVE k + 1 \in T
  <2>1. k + 1 \in 1..Len(Paths) /\ k + 1 - 1 = k /\ k + 1 \in (n + 1)..m /\ k + 1 \in n..m
    BY <1>1
  <2>2. g[k + 1] = g[k]
    BY <2>1, OneStep
  <2> QED BY <1>2, <2>1, <2>2
<1> HIDE DEF T
<1>3. n..m \subseteq T
  BY <1>1, <1>2, InductiveFrom
<1> QED BY <1>1, <1>3 DEF T

\* Every file's frame stands where the files before it end.
LEMMA FrameStands ==
    ASSUME NEW files \in Contents, NEW g, HashSteps(g, files),
           NEW n \in 1..Len(Paths), Paths[n] \in DOMAIN files
    PROVE  StandsAfter(Len(g[n - 1]), Framed(Paths[n], files[Paths[n]]), g[Len(Paths)])
<1> DEFINE frame == Framed(Paths[n], files[Paths[n]])
           all == g[Len(Paths)]
           k == Len(g[n - 1])
<1>1. Begins(g[n], all) /\ StandsAfter(k, frame, g[n])
  BY OneStep, Stays
<1>2. k \in Nat /\ Len(g[n]) \in Nat /\ Len(all) \in Nat
  BY PathsAreSeqs, HashTypes
<1>3. Len(frame) \in Nat
  BY FrameTypes, LenProperties
<1> HIDE DEF frame, all, k
<1>4. StandsAfter(k, frame, all)
  BY <1>1, <1>2, <1>3 DEF Begins, StandsAfter
<1> QED BY <1>4 DEF frame, all, k

\* Of what stands at a place, the path ends at the first NUL.
LEMMA OnePathStands ==
    ASSUME NEW p \in Seq(Tokens), NEW q \in Seq(Tokens),
           NEW s \in Seq(Tokens), NEW t \in Seq(Tokens), NEW k \in Nat, NEW all,
           \A i \in 1..Len(p) : p[i] # "NUL", \A i \in 1..Len(q) : q[i] # "NUL",
           StandsAfter(k, Framed(p, s), all), StandsAfter(k, Framed(q, t), all)
    PROVE  p = q
<1>1. Len(p) \in Nat /\ Len(q) \in Nat /\ Len(s) \in Nat /\ Len(t) \in Nat
  BY LenProperties
<1>2. /\ Len(Framed(p, s)) = Len(p) + 2 + Len(s) /\ Framed(p, s)[Len(p) + 1] = "NUL"
      /\ \A i \in 1..Len(p) : Framed(p, s)[i] = p[i]
  BY FramedProperties
<1>3. /\ Len(Framed(q, t)) = Len(q) + 2 + Len(t) /\ Framed(q, t)[Len(q) + 1] = "NUL"
      /\ \A i \in 1..Len(q) : Framed(q, t)[i] = q[i]
  BY FramedProperties
<1>4. /\ all[k + (Len(p) + 1)] = "NUL" /\ \A i \in 1..Len(p) : all[k + i] = p[i]
      /\ all[k + (Len(q) + 1)] = "NUL" /\ \A i \in 1..Len(q) : all[k + i] = q[i]
  <2>1. /\ Len(p) + 1 \in 1..(Len(p) + 2 + Len(s)) /\ Len(q) + 1 \in 1..(Len(q) + 2 + Len(t))
        /\ 1..Len(p) \subseteq 1..(Len(p) + 2 + Len(s)) /\ 1..Len(q) \subseteq 1..(Len(q) + 2 + Len(t))
    BY <1>1
  <2>2. all[k + (Len(p) + 1)] = "NUL" /\ \A i \in 1..Len(p) : all[k + i] = p[i]
    BY <1>2, <2>1 DEF StandsAfter
  <2>3. all[k + (Len(q) + 1)] = "NUL" /\ \A i \in 1..Len(q) : all[k + i] = q[i]
    BY <1>3, <2>1 DEF StandsAfter
  <2> QED BY <2>2, <2>3
<1>5. Len(p) = Len(q)
  <2>1. ~(Len(p) < Len(q))
    <3> SUFFICES ASSUME Len(p) < Len(q) PROVE FALSE
      OBVIOUS
    <3>1. Len(p) + 1 \in 1..Len(q)
      BY <1>1
    <3> QED BY <1>4, <3>1
  <2>2. ~(Len(q) < Len(p))
    <3> SUFFICES ASSUME Len(q) < Len(p) PROVE FALSE
      OBVIOUS
    <3>1. Len(q) + 1 \in 1..Len(p)
      BY <1>1
    <3> QED BY <1>4, <3>1
  <2> QED BY <1>1, <2>1, <2>2
<1> QED BY <1>4, <1>5, SeqEqual

\* And the text's length is what stands after it.
LEMMA OneTextStands ==
    ASSUME NEW p \in Seq(Tokens), NEW s \in Seq(Tokens), NEW t \in Seq(Tokens),
           NEW k \in Nat, NEW all,
           Len(s) \in Lengths, Len(t) \in Lengths,
           StandsAfter(k, Framed(p, s), all), StandsAfter(k, Framed(p, t), all)
    PROVE  s = t
<1>1. Len(p) \in Nat /\ Len(s) \in Nat /\ Len(t) \in Nat
  BY LenProperties
<1>2. /\ Len(Framed(p, s)) = Len(p) + 2 + Len(s)
      /\ Framed(p, s)[Len(p) + 2] = ToString(Len(s))
      /\ \A i \in 1..Len(s) : Framed(p, s)[Len(p) + 2 + i] = s[i]
  BY FramedProperties
<1>3. /\ Len(Framed(p, t)) = Len(p) + 2 + Len(t)
      /\ Framed(p, t)[Len(p) + 2] = ToString(Len(t))
      /\ \A i \in 1..Len(t) : Framed(p, t)[Len(p) + 2 + i] = t[i]
  BY FramedProperties
<1>4. all[k + (Len(p) + 2)] = ToString(Len(s)) /\ all[k + (Len(p) + 2)] = ToString(Len(t))
  BY <1>1, <1>2, <1>3 DEF StandsAfter
<1>5. Len(s) = Len(t)
  <2>1. \A m, n \in Lengths : ToString(m) = ToString(n) => m = n
    BY IntakeOK, Zenon
  <2> QED BY <1>4, <2>1, Zenon
<1>6. ASSUME NEW i \in 1..Len(s) PROVE s[i] = t[i]
  <2>1. Len(p) + 2 + i \in 1..(Len(p) + 2 + Len(s)) /\ i \in 1..Len(t)
    BY <1>1, <1>5
  <2>2. all[k + (Len(p) + 2 + i)] = s[i] /\ all[k + (Len(p) + 2 + i)] = t[i]
    BY <1>2, <1>3, <1>5, <2>1 DEF StandsAfter
  <2> QED BY <2>2
<1> QED BY <1>5, <1>6, SeqEqual

\* Where two trees are hashed alike up to a path, the path is in both or in neither,
LEMMA PathInBoth ==
    ASSUME NEW F \in Contents, NEW G \in Contents, NEW f, NEW g,
           HashSteps(f, F), HashSteps(g, G), f[Len(Paths)] = g[Len(Paths)],
           NEW n \in 1..Len(Paths), f[n - 1] = g[n - 1], Paths[n] \in DOMAIN F
    PROVE  Paths[n] \in DOMAIN G
<1> DEFINE N == Len(Paths)
           Later == {k \in n..N : Paths[k] \in DOMAIN G}
           all == g[N]
           start == Len(g[n - 1])
<1> SUFFICES ASSUME Paths[n] \notin DOMAIN G PROVE FALSE
  OBVIOUS
<1>1. N \in Nat /\ n - 1 \in 0..N /\ N \in (n - 1)..N
  BY PathsAreSeqs
<1>2. StandsAfter(start, Framed(Paths[n], F[Paths[n]]), all)
  BY FrameStands
<1>3. start \in Nat
  BY <1>1, HashTypes
<1>4. Paths[n] \in Seq(Tokens) /\ F[Paths[n]] \in Seq(Tokens)
  BY FrameTypes, PathsAreSeqs
<1>5. CASE Later = {}
  <2>1. g[N] = g[n - 1]
    <3>1. \A k \in (n - 1 + 1)..N : Paths[k] \notin DOMAIN G
      BY <1>1, <1>5
    <3> QED BY <1>1, <3>1, AddNothing
  <2>2. start + Len(Framed(Paths[n], F[Paths[n]])) <= start
    <3>1. start + Len(Framed(Paths[n], F[Paths[n]])) <= Len(all)
      BY <1>2, Zenon DEF StandsAfter
    <3>2. Len(all) = start
      BY <2>1, Zenon
    <3> HIDE DEF start, all
    <3> QED BY <3>1, <3>2
  <2>3. Len(Framed(Paths[n], F[Paths[n]])) = Len(Paths[n]) + 2 + Len(F[Paths[n]])
    BY <1>4, FramedProperties
  <2>4. Len(Paths[n]) \in Nat /\ Len(F[Paths[n]]) \in Nat
    BY <1>4, LenProperties
  <2> HIDE DEF start
  <2> DEFINE a == Len(Framed(Paths[n], F[Paths[n]]))
             b == Len(Paths[n])
             c == Len(F[Paths[n]])
  <2>5. start \in Nat /\ b \in Nat /\ c \in Nat /\ a = b + 2 + c /\ start + a <= start
    BY <1>3, <2>2, <2>3, <2>4
  <2> HIDE DEF a, b, c
  <2> QED BY <2>5
<1>6. CASE Later # {}
  <2>1. Later \in SUBSET Nat
    BY <1>1
  <2>2. PICK m \in Later : \A k \in Later : m <= k
    BY <1>6, <2>1, Least
  <2>3. /\ m \in 1..N /\ Paths[m] \in DOMAIN G /\ m - 1 \in (n - 1)..N /\ m # n
        /\ \A k \in (n - 1 + 1)..(m - 1) : Paths[k] \notin DOMAIN G
    BY <1>1, <2>2
  <2>4. g[m - 1] = g[n - 1]
    BY <1>1, <2>3, AddNothing
  <2>5. StandsAfter(start, Framed(Paths[m], G[Paths[m]]), all)
    BY <2>3, <2>4, FrameStands
  <2>6. Paths[m] \in Seq(Tokens) /\ G[Paths[m]] \in Seq(Tokens)
    BY <2>3, FrameTypes, PathsAreSeqs
  <2>7. Paths[n] = Paths[m]
    <3>1. /\ \A i \in 1..Len(Paths[n]) : Paths[n][i] # "NUL"
          /\ \A i \in 1..Len(Paths[m]) : Paths[m][i] # "NUL"
      BY <2>3, PathsAreSeqs
    <3> HIDE DEF all, start, N
    <3> QED BY <1>2, <1>3, <1>4, <2>5, <2>6, <3>1, OnePathStands
  <2> QED BY <2>3, <2>7, IntakeOK, PathsAreSeqs DEF IsInjective
<1> QED BY <1>5, <1>6

\* with the same text.
LEMMA TextInBoth ==
    ASSUME NEW F \in Contents, NEW G \in Contents, NEW f, NEW g,
           HashSteps(f, F), HashSteps(g, G), f[Len(Paths)] = g[Len(Paths)],
           NEW n \in 1..Len(Paths), f[n - 1] = g[n - 1],
           Paths[n] \in DOMAIN F, Paths[n] \in DOMAIN G
    PROVE  F[Paths[n]] = G[Paths[n]]
<1> DEFINE all == g[Len(Paths)]
           start == Len(g[n - 1])
<1>1. /\ StandsAfter(start, Framed(Paths[n], F[Paths[n]]), all)
      /\ StandsAfter(start, Framed(Paths[n], G[Paths[n]]), all)
  BY FrameStands
<1>2. start \in Nat
  BY PathsAreSeqs, HashTypes
<1>3. Paths[n] \in Seq(Tokens) /\ F[Paths[n]] \in Seq(Tokens) /\ G[Paths[n]] \in Seq(Tokens)
  BY FrameTypes, PathsAreSeqs
<1>4. Len(F[Paths[n]]) \in Lengths /\ Len(G[Paths[n]]) \in Lengths
  <2>1. ASSUME NEW files \in Contents, NEW p \in DOMAIN files PROVE Len(files[p]) \in Lengths
    <3>1. Len(files[p]) \in {Len(files[q]) : q \in DOMAIN files}
      BY Zenon
    <3> QED BY <3>1, Zenon DEF Lengths
  <2> QED BY <2>1, Zenon
<1> HIDE DEF all, start
<1> QED BY <1>1, <1>2, <1>3, <1>4, OneTextStands

LEMMA NoTwoHashedAlike ==
    ASSUME NEW F \in Contents, NEW G \in Contents, Hashed(F) = Hashed(G)
    PROVE  F = G
<1> DEFINE N == Len(Paths)
<1>1. PICK f : HashSteps(f, F) /\ Hashed(F) = f[N]
  BY HashedBySteps
<1>2. PICK g : HashSteps(g, G) /\ Hashed(G) = g[N]
  BY HashedBySteps
<1>3. f[N] = g[N] /\ f[0] = g[0]
  BY <1>1, <1>2 DEF HashSteps
<1>4. N \in Nat
  BY PathsAreSeqs
<1> DEFINE Same(k) == /\ Paths[k] \in DOMAIN F <=> Paths[k] \in DOMAIN G
                      /\ Paths[k] \in DOMAIN F => F[Paths[k]] = G[Paths[k]]
           T == {n \in 0..N : f[n] = g[n] /\ \A k \in 1..n : Same(k)}
<1>5. ASSUME NEW n \in 1..N, f[n - 1] = g[n - 1] PROVE f[n] = g[n] /\ Same(n)
  <2>1. Paths[n] \in DOMAIN F <=> Paths[n] \in DOMAIN G
    BY <1>1, <1>2, <1>3, <1>5, PathInBoth
  <2>2. Paths[n] \in DOMAIN F => F[Paths[n]] = G[Paths[n]]
    BY <1>1, <1>2, <1>3, <1>5, <2>1, TextInBoth
  <2>3. f[n] = g[n]
    BY <1>1, <1>2, <1>5, <2>1, <2>2 DEF HashSteps
  <2> QED BY <2>1, <2>2, <2>3
<1> HIDE DEF Same, N
<1>6. 0 \in T
  BY <1>3, <1>4
<1>7. ASSUME NEW n \in 0..(N - 1), n \in T PROVE n + 1 \in T
  <2>1. n + 1 \in 1..N /\ n + 1 - 1 = n /\ n + 1 \in 0..N
    BY <1>4
  <2>2. f[n] = g[n] /\ \A k \in 1..n : Same(k)
    BY <1>7
  <2>3. f[n + 1] = g[n + 1] /\ Same(n + 1)
    BY <1>5, <2>1, <2>2
  <2>4. \A k \in 1..(n + 1) : k \in 1..n \/ k = n + 1
    BY <1>4
  <2> QED BY <2>1, <2>2, <2>3, <2>4
<1> HIDE DEF T
<1>8. N \in T
  <2>1. 0..N \subseteq T
    BY <1>4, <1>6, <1>7, Inductive
  <2> QED BY <1>4, <2>1
<1>9. \A p \in ToSet(Paths) : \E k \in 1..N : p = Paths[k]
  BY PathsAreSeqs DEF ToSet, N
<1>10. /\ \A p \in ToSet(Paths) : p \in DOMAIN F <=> p \in DOMAIN G
       /\ \A p \in DOMAIN F : p \in ToSet(Paths) => F[p] = G[p]
  BY <1>8, <1>9 DEF T, Same
<1>11. /\ DOMAIN F \subseteq ToSet(Paths) /\ DOMAIN G \subseteq ToSet(Paths)
       /\ F \in [DOMAIN F -> Seq(STRING)] /\ G \in [DOMAIN G -> Seq(STRING)]
  BY IntakeOK
<1>12. DOMAIN F = DOMAIN G /\ \A p \in DOMAIN F : F[p] = G[p]
  BY <1>10, <1>11
<1> QED BY <1>11, <1>12

\* What was accepted has passed the checks, and its tree is one of the candidates.
TakenInv ==
    /\ taken = "accepted" => intakeAt # "idle" /\ remote \in Trees /\ Verdicts(remote) = "accepted"
    /\ intakeAt # "idle" => remote \in Trees

LEMMA TakenStart == Init => TakenInv
  BY DEF Init, IntakeInit, TakenInv

LEMMA TakenKept == TakenInv /\ IntakeInv /\ [Next]_vars => TakenInv'
<1> SUFFICES ASSUME TakenInv, IntakeInv, [Next]_vars PROVE TakenInv'
  OBVIOUS
<1> USE DEF TakenInv
<1>1. CASE UNCHANGED intakeVars
  BY <1>1 DEF intakeVars
<1>2. CASE IntakeBegin
  <2> PICK t \in Trees, commit \in DOMAIN History, urlOK \in BOOLEAN : StartClone(t, commit, urlOK)
    BY <1>2, IntakeOK DEF IntakeBegin
  <2> QED BY DEF StartClone, IntakeInv
<1>3. ASSUME NEW result \in {"ok", "failed"}, Operate(result) PROVE TakenInv'
  BY <1>3 DEF Operate
<1>4. CASE Raise
  BY <1>4 DEF Raise
<1>5. CASE Cloned
  BY <1>5 DEF Cloned, IntakeInv
<1>6. CASE Validate
  BY <1>6 DEF Validate
<1>7. CASE Fetched
  BY <1>7 DEF Fetched
<1>8. CASE Push
  BY <1>8 DEF Push
<1>9. CASE StartFetch
  BY <1>9 DEF StartFetch
<1>12. CASE Advertise
  BY <1>12 DEF Advertise
<1>10. CASE IntakeReturn
  BY <1>10 DEF IntakeReturn
<1>11. CASE IntakeStep \/ Ends
  BY <1>11, <1>3, <1>4, <1>5, <1>6, <1>7 DEF IntakeStep, Ends
<1> QED BY <1>1, <1>2, <1>8, <1>9, <1>10, <1>11, <1>12, IntakeApart DEF IntakeNext

LEMMA TreesHoldContents ==
    ASSUME NEW t \in Trees
    PROVE  t.files \in Contents /\ t.sig.madeOver \in Contents
BY Zenon DEF Contents

(* What is accepted has exactly the files over which the key's holder made  *)
(* a signature for this very plugin, for any trees, paths and texts: the    *)
(* framing of tree_digest leaves no two trees with one hash (signing.rs,    *)
(* tree_digest, message and verify; service.rs, validate_candidate).        *)
THEOREM AcceptedTreesAreAsSigned == Spec => []AcceptedIsAsSigned
<1>1. TakenInv => AcceptedIsAsSigned
  <2> SUFFICES ASSUME TakenInv, taken = "accepted"
               PROVE  /\ remote.files = remote.sig.madeOver
                      /\ remote.manifest.id = remote.sig.madeFor
    BY DEF AcceptedIsAsSigned
  <2>1. remote \in Trees /\ SignatureOK(remote)
    BY DEF TakenInv, Verdicts
  <2>2. remote.files \in Contents /\ remote.sig.madeOver \in Contents
    BY <2>1, TreesHoldContents
  <2>3. remote.manifest.id = remote.sig.madeFor /\ Hashed(remote.files) = Hashed(remote.sig.madeOver)
    BY <2>1 DEF SignatureOK, Message
  <2> QED BY <2>2, <2>3, NoTwoHashedAlike
<1>2. Init => IntakeInv /\ TakenInv
  BY IntakeStart, TakenStart
<1>3. IntakeInv /\ TakenInv /\ [Next]_vars => (IntakeInv /\ TakenInv)'
  BY IntakeKept, TakenKept
<1> QED BY <1>1, <1>2, <1>3, PTL DEF Spec

-----------------------------------------------------------------------------
(* Intake: what an accepted plugin reaches was scanned. *)

\* The depth after a segment, and the place.
Deeper(d, s) == IF d < 0 THEN -1 ELSE IF s = ".." THEN d - 1 ELSE d + 1

Further(p, s) ==
    IF s # ".." THEN Append(p, s)
    ELSE IF p = <<>> \/ Last(p) = ".." THEN Append(p, "..") ELSE Front(p)

\* Segment by segment, as escapes_plugin counts.
LEMMA DepthBySteps ==
    ASSUME NEW path \in Seq(STRING), NEW to \in Seq(STRING)
    PROVE  \E f : /\ f \in [0..Len(to) -> Int] /\ f[0] = Len(path) - 1
                  /\ \A n \in 1..Len(to) : f[n] = Deeper(f[n - 1], to[n])
                  /\ Depth(path, to) = f[Len(to)]
<1> DEFINE N == Len(to)
           base == Len(path) - 1
           G == [n \in 1..N |-> [d \in Int |-> Deeper(d, to[n])]]
           Def(f) == [n \in 0..N |-> IF n = 0 THEN Len(path) - 1
                                     ELSE IF f[n - 1] < 0 THEN -1
                                     ELSE IF to[n] = ".." THEN f[n - 1] - 1 ELSE f[n - 1] + 1]
           after == CHOOSE f : f = Def(f)
<1>1. Depth(path, to) = after[N]
  BY Zenon DEF Depth
<1>2. N \in Nat /\ base \in Int /\ \A n \in 1..N : n - 1 \in 0..N
  OBVIOUS
<1>3. G \in [1..N -> [Int -> Int]] /\ \A n \in 1..N, d \in Int : G[n][d] = Deeper(d, to[n])
  BY DEF Deeper
<1>4. \A f : Def(f) = [n \in 0..N |-> IF n = 0 THEN base ELSE Deeper(f[n - 1], to[n])]
  BY DEF Deeper
<1> HIDE DEF N, G, Def
<1>5. PICK f : Iterates(f, N, Int, base, G)
  BY <1>2, <1>3, Recursion
<1> HIDE DEF base
<1>6. f \in [0..N -> Int] /\ f[0] = base /\ \A n \in 1..N : f[n] = Deeper(f[n - 1], to[n])
  BY <1>2, <1>3, <1>5 DEF Iterates
<1>7. f = Def(f)
  <2>1. f = [n \in 0..N |-> IF n = 0 THEN base ELSE Deeper(f[n - 1], to[n])]
    BY <1>2, <1>6
  <2> QED BY <1>4, <2>1
<1>8. after = Def(after)
  BY <1>7, Zenon
<1> HIDE DEF after
<1>9. after[0] = base /\ \A n \in 1..N : after[n] = Deeper(after[n - 1], to[n])
  BY <1>2, <1>4, <1>8
<1>10. \A n \in 0..N : after[n] \in Int
  <2>1. \A n \in 1..N : after[n - 1] \in Int => after[n] \in Int
    BY <1>9 DEF Deeper
  <2>2. after[0] \in Int
    BY <1>2, <1>9
  <2> QED BY <1>2, <2>1, <2>2, Along
<1>11. after \in [0..N -> Int]
  BY <1>4, <1>8, <1>10
<1> QED BY <1>1, <1>9, <1>11, Zenon DEF N, base

\* Segment by segment, where an import leads.
LEMMA TargetBySteps ==
    ASSUME NEW path \in Seq(STRING), path # <<>>, NEW to \in Seq(STRING)
    PROVE  \E f : /\ f \in [0..Len(to) -> Seq(STRING)] /\ f[0] = Front(path)
                  /\ \A n \in 1..Len(to) : f[n] = Further(f[n - 1], to[n])
                  /\ TargetOf(path, to) = f[Len(to)]
<1> DEFINE N == Len(to)
           base == Front(path)
           X == Seq(STRING)
           G == [n \in 1..N |-> [p \in X |-> Further(p, to[n])]]
           Def(f) == [n \in 0..N |-> IF n = 0 THEN Front(path)
                                     ELSE IF to[n] # ".." THEN Append(f[n - 1], to[n])
                                     ELSE IF f[n - 1] = <<>> \/ Last(f[n - 1]) = ".."
                                          THEN Append(f[n - 1], "..")
                                          ELSE Front(f[n - 1])]
           after == CHOOSE f : f = Def(f)
<1>1. TargetOf(path, to) = after[N]
  BY Zenon DEF TargetOf
<1>2. N \in Nat /\ \A n \in 1..N : n - 1 \in 0..N
  OBVIOUS
<1>2a. base \in X
  BY FrontProperties
<1>2b. ASSUME NEW n \in 1..N, NEW p \in X PROVE Further(p, to[n]) \in X
  <2>1. to[n] \in STRING
    OBVIOUS
  <2>2. Append(p, to[n]) \in X
    BY <2>1
  <2>3. p # <<>> => Front(p) \in X
    BY FrontProperties
  <2> QED BY <2>2, <2>3 DEF Further
<1>4. \A f : Def(f) = [n \in 0..N |-> IF n = 0 THEN base ELSE Further(f[n - 1], to[n])]
  BY DEF Further
<1> HIDE DEF N, Def, X, base
<1>3. G \in [1..N -> [X -> X]] /\ \A n \in 1..N, p \in X : G[n][p] = Further(p, to[n])
  BY <1>2b
<1> HIDE DEF G
<1>5. PICK f : Iterates(f, N, X, base, G)
  BY <1>2, <1>2a, <1>3, Recursion
<1>6. f \in [0..N -> X] /\ f[0] = base /\ \A n \in 1..N : f[n] = Further(f[n - 1], to[n])
  BY <1>2, <1>3, <1>5 DEF Iterates
<1>7. f = Def(f)
  <2>1. f = [n \in 0..N |-> IF n = 0 THEN base ELSE Further(f[n - 1], to[n])]
    BY <1>2, <1>6
  <2> QED BY <1>4, <2>1
<1>8. after = Def(after)
  BY <1>7, Zenon
<1> HIDE DEF after
<1>9. after[0] = base /\ \A n \in 1..N : after[n] = Further(after[n - 1], to[n])
  BY <1>2, <1>4, <1>8
<1>10. \A n \in 0..N : after[n] \in X
  <2>1. \A n \in 1..N : after[n - 1] \in X => after[n] \in X
    BY <1>9, <1>2b
  <2>2. after[0] \in X
    BY <1>2a, <1>9
  <2> QED BY <1>2, <2>1, <2>2, Along
<1>11. after \in [0..N -> X]
  BY <1>4, <1>8, <1>10
<1> QED BY <1>1, <1>9, <1>11, Zenon DEF N, base, X

\* An import that stays within the plugin, as escapes_plugin counts it, leads to a place within it.
LEMMA InsideStays ==
    ASSUME NEW path \in Seq(STRING), path # <<>>, ".." \notin ToSet(path), NEW to \in Seq(STRING),
           ~(Depth(path, to) < 0)
    PROVE  ".." \notin ToSet(TargetOf(path, to))
<1> DEFINE N == Len(to)
<1>1. PICK d : /\ d \in [0..N -> Int] /\ d[0] = Len(path) - 1
               /\ \A n \in 1..N : d[n] = Deeper(d[n - 1], to[n])
               /\ Depth(path, to) = d[N]
  BY DepthBySteps, Zenon
<1>2. PICK f : /\ f \in [0..N -> Seq(STRING)] /\ f[0] = Front(path)
               /\ \A n \in 1..N : f[n] = Further(f[n - 1], to[n])
               /\ TargetOf(path, to) = f[N]
  BY TargetBySteps, Zenon
<1>3. N \in Nat /\ \A n \in 1..N : to[n] \in STRING
  OBVIOUS
<1>3a. \A n \in 0..N : d[n] \in Int /\ f[n] \in Seq(STRING)
  BY <1>1, <1>2
<1> HIDE DEF N
<1>4. ASSUME NEW n \in 0..N PROVE d[n] >= 0
  <2> SUFFICES ASSUME d[n] < 0 PROVE FALSE
    BY <1>3a
  <2> DEFINE T == {k \in 0..N : d[k] < 0}
  <2>1. n \in T
    OBVIOUS
  <2>2. ASSUME NEW k \in n..(N - 1), k \in T PROVE k + 1 \in T
    <3>1. k + 1 \in 1..N /\ k + 1 - 1 = k /\ k + 1 \in 0..N
      BY <1>3
    <3>2. d[k + 1] = Deeper(d[k], to[k + 1])
      BY <1>1, <3>1
    <3> QED BY <2>2, <3>1, <3>2 DEF Deeper
  <2> HIDE DEF T
  <2>3. n..N \subseteq T
    BY <1>3, <2>1, <2>2, InductiveFrom
  <2>4. N \in T
    BY <1>3, <2>3
  <2> QED BY <1>1, <2>4 DEF T
\* The place is as deep as was counted, and has no way up in it.
<1> DEFINE Inside(n) == Len(f[n]) = d[n] /\ \A i \in 1..Len(f[n]) : f[n][i] # ".."
           T == {n \in 0..N : Inside(n)}
<1>5. Inside(0)
  <2>1. /\ Front(path) \in Seq(STRING) /\ Len(Front(path)) = Len(path) - 1
        /\ \A i \in 1..Len(Front(path)) : Front(path)[i] = path[i] /\ i \in 1..Len(path)
    BY FrontProperties
  <2>2. \A i \in 1..Len(path) : path[i] # ".."
    BY DEF ToSet
  <2> QED BY <1>1, <1>2, <2>1, <2>2
<1>6. ASSUME NEW n \in 0..(N - 1), Inside(n) PROVE Inside(n + 1)
  <2>1. n \in 0..N /\ n + 1 \in 0..N /\ n + 1 \in 1..N /\ n + 1 - 1 = n
    BY <1>3
  <2> DEFINE p == f[n]
             s == to[n + 1]
  <2>2. /\ p \in Seq(STRING) /\ s \in STRING /\ d[n] >= 0 /\ d[n + 1] >= 0
        /\ d[n] \in Int /\ Len(p) = d[n] /\ \A i \in 1..Len(p) : p[i] # ".."
    <3>1. s \in STRING /\ d[n] \in Int /\ p \in Seq(STRING)
      BY <1>3, <1>3a, <2>1
    <3>2. d[n] >= 0 /\ d[n + 1] >= 0
      BY <1>4, <2>1
    <3> QED BY <1>6, <3>1, <3>2
  <2>3. f[n + 1] = Further(p, s) /\ d[n + 1] = Deeper(d[n], s)
    BY <1>1, <1>2, <2>1
  <2> HIDE DEF p, s
  <2>4. CASE s # ".."
    <3>1. f[n + 1] = Append(p, s) /\ d[n + 1] = d[n] + 1
      BY <2>2, <2>3, <2>4 DEF Further, Deeper
    <3>2. /\ Len(Append(p, s)) = Len(p) + 1 /\ Append(p, s)[Len(p) + 1] = s
          /\ \A i \in 1..Len(p) : Append(p, s)[i] = p[i]
      BY <2>2
    <3> QED BY <2>2, <2>4, <3>1, <3>2
  <2>5. CASE s = ".."
    <3>1. d[n + 1] = d[n] - 1
      BY <2>2, <2>3, <2>5 DEF Deeper
    <3>2. Len(p) > 0 /\ p # <<>> /\ Last(p) # ".."
      BY <2>2, <3>1 DEF Last
    <3>3. f[n + 1] = Front(p)
      BY <2>3, <2>5, <3>2 DEF Further
    <3>4. Len(Front(p)) = Len(p) - 1 /\ \A i \in 1..Len(Front(p)) : Front(p)[i] = p[i] /\ i \in 1..Len(p)
      BY <2>2, <3>2, FrontProperties
    <3> QED BY <2>2, <3>1, <3>3, <3>4
  <2> QED BY <2>4, <2>5
<1>7. 0 \in T /\ \A n \in 0..(N - 1) : n \in T => n + 1 \in T
  <2>1. 0 \in 0..N /\ \A n \in 0..(N - 1) : n + 1 \in 0..N
    BY <1>3
  <2> HIDE DEF Inside
  <2> QED BY <1>5, <1>6, <2>1
<1> HIDE DEF T
<1>8. N \in T
  <2>1. 0..N \subseteq T
    BY <1>3, <1>7, Inductive
  <2> QED BY <1>3, <2>1
<1>9. f[N] \in Seq(STRING) /\ \A i \in 1..Len(f[N]) : f[N][i] # ".."
  BY <1>2, <1>3, <1>8 DEF T
<1> QED BY <1>2, <1>9 DEF ToSet

\* What can be reached lies among whatever holds main.ts and where its imports, and theirs, lead.
LEMMA ReachedLies ==
    ASSUME NEW files, DOMAIN files \subseteq ToSet(Paths), NEW S, <<"main.ts">> \in S,
           \A p \in S \cap Scanned(files) : Leads(files, p) \subseteq S
    PROVE  Reached(files) \subseteq S
<1> DEFINE N == Cardinality(DOMAIN files)
           sources == Scanned(files)
           X == SUBSET S
           Wider(R) == R \cup UNION {Leads(files, p) : p \in R \cap sources}
           base == {<<"main.ts">>}
           G == [n \in 1..N |-> [R \in X |-> Wider(R)]]
           Def(f) == [n \in 0..N |-> IF n = 0 THEN {<<"main.ts">>}
                                     ELSE f[n - 1] \cup
                                          UNION {Leads(files, p) : p \in f[n - 1] \cap Scanned(files)}]
           within == CHOOSE f : f = Def(f)
<1>1. Reached(files) = within[N]
  BY Zenon DEF Reached
<1>2. N \in Nat
  <2>1. Paths \in Seq(Seq(STRING))
    BY IntakeOK
  <2>2. Paths \in [1..Len(Paths) -> ToSet(Paths)] /\ \A p \in ToSet(Paths) : \E n \in 1..Len(Paths) : Paths[n] = p
    <3>1. Paths \in [1..Len(Paths) -> Seq(STRING)] /\ DOMAIN Paths = 1..Len(Paths)
      BY <2>1
    <3>2. ToSet(Paths) = {Paths[n] : n \in 1..Len(Paths)}
      BY <3>1 DEF ToSet
    <3>3. \A n \in 1..Len(Paths) : Paths[n] \in ToSet(Paths)
      BY <3>2
    <3> QED BY <3>1, <3>2, <3>3
  <2>3. Paths \in Surjection(1..Len(Paths), ToSet(Paths))
    BY <2>2 DEF Surjection
  <2>4. IsFiniteSet(1..Len(Paths))
    BY <2>1, FS_Interval
  <2>5. IsFiniteSet(ToSet(Paths))
    BY <2>3, <2>4, FS_Surjection
  <2> QED BY <2>5, FS_Subset, FS_CardinalityType
<1> HIDE DEF N
<1>3. \A n \in 1..N : n - 1 \in 0..N
  BY <1>2
<1>4. \A R \in X : Wider(R) \in X
  OBVIOUS
<1>5. base \in X
  OBVIOUS
<1>6. \A f : Def(f) = [n \in 0..N |-> IF n = 0 THEN base ELSE Wider(f[n - 1])]
  OBVIOUS
<1> HIDE DEF Def, X, base, Wider
<1>7. G \in [1..N -> [X -> X]] /\ \A n \in 1..N, R \in X : G[n][R] = Wider(R)
  BY <1>4
<1> HIDE DEF G
<1>8. PICK f : Iterates(f, N, X, base, G)
  BY <1>2, <1>5, <1>7, Recursion
<1>9. f \in [0..N -> X] /\ f[0] = base /\ \A n \in 1..N : f[n] = Wider(f[n - 1])
  BY <1>3, <1>7, <1>8 DEF Iterates
<1>10. f = Def(f)
  <2>1. f = [n \in 0..N |-> IF n = 0 THEN base ELSE Wider(f[n - 1])]
    BY <1>2, <1>9
  <2> QED BY <1>6, <2>1
<1>11. within = Def(within)
  BY <1>10, Zenon
<1> HIDE DEF within
<1>12. within[0] = base /\ \A n \in 1..N : within[n] = Wider(within[n - 1])
  BY <1>2, <1>6, <1>11
<1>13. \A n \in 0..N : within[n] \in X
  BY <1>2, <1>4, <1>5, <1>12, Along
<1>14. within[N] \in X
  BY <1>2, <1>13
<1> QED BY <1>1, <1>14 DEF X

\* What a tree's files are: real paths, and lines whose imports have names.
LEMMA FilesAreReal ==
    ASSUME NEW files \in Contents
    PROVE  /\ DOMAIN files \subseteq ToSet(Paths)
           /\ \A p \in DOMAIN files :
                 /\ p \in Seq(STRING) /\ p # <<>> /\ ".." \notin ToSet(p)
                 /\ \A l \in LinesOf(files[p]) : \A i \in l.imports :
                       i.to \in Seq(STRING) /\ Last(i.to) \in DOMAIN Tried
<1>1. DOMAIN files \subseteq ToSet(Paths) /\ \A p \in DOMAIN files : ToSet(files[p]) \subseteq DOMAIN LineOf
  BY IntakeOK
<1> SUFFICES ASSUME NEW p \in DOMAIN files
             PROVE  /\ p \in Seq(STRING) /\ p # <<>> /\ ".." \notin ToSet(p)
                    /\ \A l \in LinesOf(files[p]) : \A i \in l.imports :
                          i.to \in Seq(STRING) /\ Last(i.to) \in DOMAIN Tried
  BY <1>1
<1>2. p \in ToSet(Paths) /\ p # <<>> /\ ".." \notin ToSet(p)
  BY <1>1, IntakeOK
<1>3. p \in Seq(STRING)
  <2>1. PICK n \in 1..Len(Paths) : p = Paths[n]
    BY <1>2, PathsAreSeqs DEF ToSet
  <2> QED BY <2>1, PathsAreSeqs
<1>4. ASSUME NEW l \in LinesOf(files[p]), NEW i \in l.imports
      PROVE  i.to \in Seq(STRING) /\ Last(i.to) \in DOMAIN Tried
  <2>1. PICK name \in ToSet(files[p]) : l = LineOf[name]
    BY DEF LinesOf
  <2>2. name \in DOMAIN LineOf
    BY <1>1
  <2> QED BY <2>1, <2>2, IntakeOK
<1> QED BY <1>2, <1>3, <1>4

\* What the scan let pass ends in no exempt name, relative or mapped.
LEMMA NoneEndsExempt ==
    ASSUME NEW t \in Trees, PolicyOK(t), NEW p \in Scanned(t.files), NEW s \in Specifiers(t.files, p)
    PROVE  Last(s[2]) \notin ExemptNames
<1> DEFINE files == t.files
<1>1. /\ \A r \in OfKind(files, "json") : JsonOK(r, files[r])
      /\ SourceOK(p, files[p])
  BY DEF PolicyOK
<1> HIDE DEF files
<1>2. CASE s \in Relative(files, p)
  <2>1. PICK i \in ImportsOf(files[p]) : s = <<p, i.to>>
    BY <1>2 DEF Relative
  <2> QED BY <1>1, <2>1 DEF SourceOK
<1>3. CASE s \in Mapped(files)
  <2> DEFINE json == OfKind(files, "json")
             Searched(r) == {l \in LinesOf(files[r]) : ~(l.script /\ Last(r) = "package.json")}
             lines == UNION {Searched(r) : r \in json}
  <2>1. Mapped(files) = UNION {{<<r, i.to>> : i \in l.imports} : r \in json, l \in lines}
    BY DEF Mapped
  <2> HIDE DEF json, lines
  <2>2. PICK r \in json, l \in lines : s \in {<<r, i.to>> : i \in l.imports}
    BY <1>3, <2>1
  <2>3. PICK i \in l.imports : s = <<r, i.to>>
    BY <2>2
  <2>4. PICK q \in json : l \in Searched(q)
    BY DEF lines
  <2>5. JsonOK(q, files[q])
    BY <1>1 DEF json
  <2>6. l \in LinesOf(files[q]) /\ ~(l.script /\ Last(q) = "package.json")
    BY <2>4
  <2>7. Last(i.to) \notin ExemptNames
    BY <2>5, <2>6 DEF JsonOK
  <2> QED BY <2>3, <2>7
<1> QED BY <1>2, <1>3 DEF Specifiers, files

\* The files that the scan passes over all have exempt names.
LEMMA UnlessExempt ==
    ASSUME NEW files, NEW p \in OfKind(files, "source"), Last(p) \notin ExemptNames
    PROVE  p \in Scanned(files)
  BY DEF Scanned, ExemptNames

LEMMA ReachedIsScanned ==
    ASSUME NEW t \in Trees, PolicyOK(t), t.files \in Contents, NamesInFull(t.files)
    PROVE  Reached(t.files) \cap OfKind(t.files, "source") \subseteq Scanned(t.files)
<1> DEFINE files == t.files
           All == {<<"main.ts">>} \cup UNION {Leads(files, p) : p \in Scanned(files)}
           S == {p \in All : Last(p) \notin ExemptNames}
<1>1. <<"main.ts">> \in S
  <2>1. Last(<<"main.ts">>) = "main.ts"
    BY DEF Last
  <2>2. ExemptNames = {"eslint.config.js", "sign-plugin.mjs"}
    <3>1. Last(<<"scripts", "sign-plugin.mjs">>) = "sign-plugin.mjs"
      BY DEF Last
    <3> QED BY <3>1 DEF ExemptNames, ExemptRoot, ExemptPaths
  <2> QED BY <2>1, <2>2
<1>2. ASSUME NEW p \in Scanned(files), NEW q \in Leads(files, p) PROVE q \in S
  <2>1. PICK s \in Specifiers(files, p) : q \in FilesFor(files, s[1], s[2])
    BY DEF Leads
  <2>2. Last(s[2]) \notin ExemptNames
    BY <2>1, NoneEndsExempt
  <2>3. Last(q) \in Index \cup {Last(s[2])}
    BY <2>1 DEF NamesInFull
  <2>4. Last(q) \notin ExemptNames
    BY <2>2, <2>3, IntakeOK
  <2>5. q \in All
    OBVIOUS
  <2> QED BY <2>4, <2>5
<1>3. DOMAIN files \subseteq ToSet(Paths)
  BY FilesAreReal
<1> HIDE DEF S
<1>4. Reached(files) \subseteq S
  BY <1>1, <1>2, <1>3, ReachedLies
<1> QED BY <1>4, UnlessExempt DEF S

\* A relative import that the scan let pass stays in the tree, and leads to no test.
LEMMA RelativeStays ==
    ASSUME NEW t \in Trees, PolicyOK(t), t.files \in Contents,
           NEW p \in Scanned(t.files), NEW s \in Relative(t.files, p)
    PROVE  /\ ".." \notin ToSet(TargetOf(p, s[2]))
           /\ FilesFor(t.files, p, s[2]) \cap OfKind(t.files, "test") = {}
<1> DEFINE files == t.files
<1>1. SourceOK(p, files[p]) /\ p \in DOMAIN files
  BY DEF PolicyOK, Scanned, OfKind
<1> HIDE DEF files
<1>2. PICK i \in ImportsOf(files[p]) : i.kind = "relative" /\ s = <<p, i.to>>
  BY DEF Relative, files
<1>3. PICK l \in LinesOf(files[p]) : i \in l.imports
  BY DEF ImportsOf
<1>4. /\ p \in Seq(STRING) /\ p # <<>> /\ ".." \notin ToSet(p)
      /\ i.to \in Seq(STRING) /\ Last(i.to) \in DOMAIN Tried
  BY <1>1, <1>3, FilesAreReal DEF files
<1>5. /\ KindOf[Last(i.to)] # "test" /\ KindOf[WithTs[Last(i.to)]] # "test"
      /\ ~(Depth(p, i.to) < 0)
  BY <1>1, <1>2 DEF SourceOK, Escapes
<1>6. ".." \notin ToSet(TargetOf(p, i.to))
  BY <1>4, <1>5, InsideStays
<1>7. ASSUME NEW q \in FilesFor(files, p, i.to) PROVE KindOf[Last(q)] # "test"
  <2>1. Last(q) \in Index \/ Last(q) \in Tried[Last(i.to)]
    BY DEF FilesFor
  <2>2. \A m \in Tried[Last(i.to)] : KindOf[m] # "test"
    BY <1>4, <1>5, IntakeOK
  <2> QED BY <2>1, <2>2, IntakeOK
<1> QED BY <1>2, <1>6, <1>7 DEF OfKind, files

(* If its imports name files in full, every source that an accepted         *)
(* plugin's main.ts reaches, over any number of them and mapped by whatever *)
(* JSON, was scanned; and no relative import on the way leaves the tree or  *)
(* leads to a test, even one that leaves out the extension, for any trees   *)
(* (policy.rs, scan_tree and what it calls; service.rs,                     *)
(* validate_candidate).                                                     *)
THEOREM ImportsLeadToTheScanned == Spec => []OnlyScannedIsImported
<1>1. TakenInv => OnlyScannedIsImported
  <2> DEFINE files == remote.files
  <2> SUFFICES ASSUME TakenInv, taken = "accepted"
               PROVE  /\ NamesInFull(files) =>
                            Reached(files) \cap OfKind(files, "source") \subseteq Scanned(files)
                      /\ \A p \in Reached(files) \cap Scanned(files) : \A s \in Relative(files, p) :
                            /\ ".." \notin ToSet(TargetOf(p, s[2]))
                            /\ FilesFor(files, p, s[2]) \cap OfKind(files, "test") = {}
    BY DEF OnlyScannedIsImported
  <2>1. remote \in Trees /\ PolicyOK(remote)
    BY DEF TakenInv, Verdicts
  <2>2. files \in Contents
    BY <2>1, TreesHoldContents
  <2> QED BY <2>1, <2>2, ReachedIsScanned, RelativeStays
<1>2. Init => IntakeInv /\ TakenInv
  BY IntakeStart, TakenStart
<1>3. IntakeInv /\ TakenInv /\ [Next]_vars => (IntakeInv /\ TakenInv)'
  BY IntakeKept, TakenKept
<1> QED BY <1>1, <1>2, <1>3, PTL DEF Spec

-----------------------------------------------------------------------------
(* Token: while no two processes have been at it together, one alone may   *)
(* be under way, and it works on an inode that is not and was not the      *)
(* token's since the machine started.                                      *)

Idle == \A p \in Procs : procs[p].at = "idle"

\* As TokenInit leaves it.
Fresh ==
    /\ tokenFile = None /\ temp = None /\ shown = None
    /\ contents = [i \in Inodes |-> None] /\ synced = {} /\ past = {None}

Alone == \A p, q \in Procs : p \in Running /\ q \in Running => p = q

\* What a stop of the machine may bring back is whole.
PastIsWhole ==
    \A i \in past : i # None =>
        i \in Inodes /\ i \in synced /\ contents[i] \notin {None, "half"}

\* A process that has the temporary file open has it under its name.
HoldsTemp(p) ==
    /\ procs[p].at \in {"write", "sync", "rename"} => temp = procs[p].fd /\ temp # None
    /\ procs[p].at \in {"sync", "rename"} => contents[procs[p].fd] = p
    /\ procs[p].at = "rename" => procs[p].fd \in synced

TokenTypes ==
    /\ procs \in [Procs -> [at : {"idle", "load", "open", "write", "sync", "rename", "over"},
                             fd : Nat]]
    /\ lapped \in BOOLEAN
    /\ contents \in [Inodes -> Procs \cup {None, "old", "stray", "half"}]

TokenInv ==
    /\ TokenTypes
    /\ Idle => Fresh
    /\ ~lapped =>
          /\ Alone
          /\ PastIsWhole
          /\ tokenFile \in past
          /\ temp # None => temp \in Inodes /\ temp \notin past
          /\ \A p \in Procs : HoldsTemp(p)
          /\ TokenHolds

LEMMA FirstInode == 1 \in Inodes /\ Inodes \subseteq Nat
<1>1. Cardinality(Procs) \in Nat
  BY TokenOK, FS_CardinalityType
<1> QED BY <1>1 DEF Inodes

LEMMA TokenStart == Init => TokenInv
<1> SUFFICES ASSUME Init PROVE TokenInv
  OBVIOUS
<1> USE DEF Init, TokenInit
<1>1. TokenTypes
  BY DEF TokenTypes
<1>2. Fresh
  BY DEF Fresh
<1>3. Alone /\ PastIsWhole /\ \A p \in Procs : HoldsTemp(p)
  BY DEF Alone, Running, PastIsWhole, HoldsTemp
<1> QED BY <1>1, <1>2, <1>3 DEF TokenInv, TokenHolds

LEMMA TokenKept == TokenInv /\ [Next]_vars => TokenInv'
<1> SUFFICES ASSUME TokenInv, [Next]_vars PROVE TokenInv'
  OBVIOUS
<1> USE TokenOK, FirstInode
<1> USE DEF TokenInv, TokenTypes, Idle, Fresh, Alone, Running, PastIsWhole, HoldsTemp, TokenHolds, Goes
<1>1. CASE UNCHANGED tokenVars
  BY <1>1 DEF tokenVars
<1>2. CASE Idle /\ TokenBegin
  BY <1>2 DEF TokenBegin
<1>3. ASSUME NEW p \in Procs, Load(p) PROVE TokenInv'
  BY <1>3 DEF Load, IsToken
<1>4. ASSUME NEW p \in Procs, OpenTemp(p) PROVE TokenInv'
  BY <1>4 DEF OpenTemp
<1>5. ASSUME NEW p \in Procs, NEW ok \in BOOLEAN, WriteToken(p, ok) PROVE TokenInv'
  <2>1. /\ p \in Running /\ procs[p].fd \in Nat
        /\ procs' = [procs EXCEPT ![p].at = IF ok THEN "sync" ELSE "over"]
        /\ contents' = [contents EXCEPT ![procs[p].fd] = IF ok THEN p ELSE "half"]
        /\ UNCHANGED <<tokenFile, temp, synced, past, shown, lapped>>
    BY <1>5 DEF WriteToken
  <2>2. TokenTypes' /\ (Idle => Fresh)'
    <3> PICK at \in {"sync", "over"}, held \in Procs \cup {"half"} :
              /\ procs' = [procs EXCEPT ![p].at = at]
              /\ contents' = [contents EXCEPT ![procs[p].fd] = held]
      BY <2>1
    <3>1. contents' \in [Inodes -> Procs \cup {None, "old", "stray", "half"}]
      OBVIOUS
    <3>2. procs' \in [Procs -> [at : {"idle", "load", "open", "write", "sync", "rename", "over"},
                               fd : Nat]]
      OBVIOUS
    <3>3. procs'[p].at # "idle"
      OBVIOUS
    <3> QED BY <2>1, <3>1, <3>2, <3>3
  <2>3. ASSUME ~lapped
        PROVE  /\ Alone'
               /\ PastIsWhole'
               /\ \A q \in Procs : HoldsTemp(q)'
               /\ TokenHolds'
    <3>1. temp = procs[p].fd /\ temp \in Inodes /\ temp \notin past
      BY <1>5, <2>3 DEF WriteToken
    <3>2. \A q \in Procs : q # p => q \notin Running /\ procs'[q] = procs[q]
      BY <2>1, <2>3
    <3>3. Alone' /\ PastIsWhole' /\ TokenHolds'
      BY <2>1, <2>3, <3>1, <3>2
    <3>4. HoldsTemp(p)'
      BY <2>1, <3>1
    <3>5. ASSUME NEW q \in Procs, q # p PROVE HoldsTemp(q)'
      BY <3>2, <3>5
    <3> QED BY <3>3, <3>4, <3>5
  <2> QED BY <2>1, <2>2, <2>3
<1>6. ASSUME NEW p \in Procs, SyncToken(p) PROVE TokenInv'
  BY <1>6 DEF SyncToken
<1>7. ASSUME NEW p \in Procs, RenameToken(p) PROVE TokenInv'
  BY <1>7 DEF RenameToken
<1>8. ASSUME NEW p \in Procs, Kill(p) PROVE TokenInv'
  BY <1>8 DEF Kill
<1>9. ASSUME NEW p \in Procs, NEW at, StartProcess(p, at) PROVE TokenInv'
  <2>1. /\ procs[p].at = "idle" /\ at \in {"load", "open"} /\ ~Idle
        /\ procs' = [procs EXCEPT ![p].at = at]
        /\ lapped' = (lapped \/ Running # {})
        /\ UNCHANGED <<tokenFile, temp, contents, synced, past, shown>>
    BY <1>9 DEF StartProcess
  <2>2. TokenTypes' /\ ~Idle'
    BY <2>1
  <2>3. ASSUME ~lapped'
        PROVE  /\ Alone' /\ PastIsWhole' /\ tokenFile' \in past'
               /\ (temp # None => temp \in Inodes /\ temp \notin past)'
               /\ \A q \in Procs : HoldsTemp(q)'
               /\ TokenHolds'
    <3>1. ~lapped /\ Running = {} /\ \A q \in Procs : q # p => procs'[q] = procs[q]
      BY <2>1, <2>3
    <3>2. procs'[p].at \in {"load", "open"} /\ Alone'
      BY <2>1, <3>1
    <3>3. \A q \in Procs : HoldsTemp(q)'
      BY <2>1, <3>1, <3>2
    <3> QED BY <2>1, <3>1, <3>2, <3>3
  <2> QED BY <2>2, <2>3
<1>10. CASE MachineStops
  <2> PICK file \in past : tokenFile' = file /\ past' = {file}
    BY <1>10 DEF MachineStops
  <2>1. /\ temp' \in {IF file = tokenFile THEN temp ELSE tokenFile, None}
        /\ contents' = [i \in Inodes |-> IF contents[i] = None \/ i \in synced
                                          THEN contents[i] ELSE "half"]
        /\ procs' = [q \in Procs |->
                        [procs[q] EXCEPT !.at = IF q \in Running THEN "over" ELSE @]]
        /\ shown' = None
        /\ UNCHANGED <<synced, lapped>>
        /\ \E q \in Procs : procs[q].at # "idle"
    BY <1>10 DEF MachineStops
  <2>2. \A q \in Procs : procs'[q].at = IF q \in Running THEN "over" ELSE procs[q].at
    BY <2>1
  <2>3. Running' = {}
    BY <2>2
  <2>4. TokenTypes' /\ ~Idle'
    <3>1. contents' \in [Inodes -> Procs \cup {None, "old", "stray", "half"}]
      BY <2>1
    <3>2. \A q \in Procs :
             procs'[q] \in [at : {"idle", "load", "open", "write", "sync", "rename", "over"},
                            fd : Nat]
      <4> TAKE q \in Procs
      <4>1. procs'[q] = [procs[q] EXCEPT !.at = IF q \in Running THEN "over" ELSE @]
        BY <2>1
      <4> QED BY <4>1
    <3>3. ~Idle'
      BY <2>1, <2>2
    <3> QED BY <2>1, <3>1, <3>2, <3>3
  <2>5. ASSUME ~lapped
        PROVE  /\ Alone' /\ PastIsWhole' /\ tokenFile' \in past'
               /\ (temp # None => temp \in Inodes /\ temp \notin past)'
               /\ \A q \in Procs : HoldsTemp(q)'
               /\ TokenHolds'
    <3>1. PastIsWhole' /\ tokenFile' \in past'
      BY <2>1, <2>5
    <3>2. (temp # None => temp \in Inodes /\ temp \notin past)'
      BY <2>1, <2>5
    <3>3. Alone' /\ \A q \in Procs : HoldsTemp(q)'
      BY <2>3
    <3>4. TokenHolds'
      BY <2>1, <3>1
    <3> QED BY <3>1, <3>2, <3>3, <3>4
  <2> QED BY <2>1, <2>4, <2>5
<1>11. CASE TokenReturn
  BY <1>11 DEF TokenReturn
<1>12. CASE TokenStep
  BY <1>12, <1>3, <1>4, <1>5, <1>6, <1>7 DEF TokenStep
<1>13. CASE TokenFault
  BY <1>13, <1>8, <1>9, <1>10 DEF TokenFault
<1> QED BY <1>1, <1>2, <1>11, <1>12, <1>13, TokenApart DEF TokenNext

(* While no two processes have been at the token together, the one that was *)
(* last printed or is served is in the file, and the file is never a half   *)
(* token, wherever a process or the machine stops, for any number of        *)
(* processes one after the other (token.rs, load_or_create and rotate).     *)
THEOREM ShownTokenIsInFile == Spec => []TokenHolds
<1>1. TokenInv => (~lapped => TokenHolds)
  BY DEF TokenInv
<1>2. TokenInv => TokenHolds
  BY <1>1 DEF TokenHolds
<1> QED BY TokenStart, TokenKept, <1>2, PTL DEF Spec

=============================================================================
