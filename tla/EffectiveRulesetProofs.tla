------------------------ MODULE EffectiveRulesetProofs ------------------------
(***************************************************************************)
(* For any layers, editions and contents.  The loops of the code are folds *)
(* over sequences; FoldExists says that the recursion behind one has a     *)
(* solution, and what it computes follows by induction over the elements   *)
(* it has passed.                                                          *)
(***************************************************************************)
EXTENDS EffectiveRuleset, WellFoundedInduction, FiniteSetTheorems, TLAPS

\* Induction over a set, which needs no operator for its hypothesis.
LEMMA SetInduction ==
    ASSUME NEW S, 0 \in S, \A k \in Nat : k \in S => k + 1 \in S
    PROVE  Nat \subseteq S
<1> DEFINE missing == Nat \ S
           less    == OpToRel(<, Nat)
<1> SUFFICES ASSUME missing # {} PROVE FALSE
  OBVIOUS
<1>1. PICK k \in missing : \A j \in missing : ~ (<<j, k>> \in less)
  <2>1. IsWellFoundedOn(less, Nat)
    BY NatLessThanWellFounded
  <2>2. missing \subseteq Nat
    OBVIOUS
  <2> HIDE DEF missing, less
  <2> QED BY <2>1, <2>2, WFMin
<1>2. k \in Nat /\ k \notin S
  OBVIOUS
<1>3. k - 1 \in Nat /\ k - 1 < k
  BY <1>2
<1>4. <<k - 1, k>> \in less
  BY <1>2, <1>3 DEF OpToRel
<1>5. k - 1 \in S
  BY <1>1, <1>3, <1>4
<1>6. (k - 1) + 1 \in S
  BY <1>3, <1>5
<1> QED BY <1>2, <1>6

LEMMA MaxOfSome ==
    ASSUME NEW n \in Nat, NEW s \in SUBSET (1 .. n), s # {}
    PROVE  Max(s) \in s /\ \A y \in s : y <= Max(s)
<1> DEFINE bounded == {k \in Nat : \A t \in SUBSET (1 .. k) : t # {} => \E x \in t : \A y \in t : x >= y}
<1>1. 0 \in bounded
  BY 1 .. 0 = {}
<1>2. ASSUME NEW k \in Nat, k \in bounded PROVE k + 1 \in bounded
  <2>1. SUFFICES ASSUME NEW t \in SUBSET (1 .. k + 1), t # {} PROVE \E x \in t : \A y \in t : x >= y
    OBVIOUS
  <2>2. CASE k + 1 \in t
    BY <2>2, \A y \in t : y \in 1 .. k + 1
  <2>3. CASE k + 1 \notin t
    <3>1. t \in SUBSET (1 .. k)
      BY <2>3
    <3> QED BY <1>2, <3>1, <2>1
  <2> QED BY <2>2, <2>3
<1>3. n \in bounded
  <2> HIDE DEF bounded
  <2> QED BY <1>1, <1>2, SetInduction
<1>4. \E x \in s : \A y \in s : x >= y
  BY <1>3
<1>5. Max(s) \in s /\ \A y \in s : Max(s) >= y
  BY <1>4, Zenon DEF Max
<1> QED BY <1>5

\* 1 .. k without its maximum.
LEMMA MaxOfInterval ==
    ASSUME NEW k \in Nat \ {0}
    PROVE  Max(1 .. k) = k /\ (1 .. k) \ {k} = 1 .. k - 1
<1>1. (1 .. k) \in SUBSET (1 .. k) /\ 1 .. k # {} /\ k \in Nat
  OBVIOUS
<1>2. Max(1 .. k) \in 1 .. k /\ \A y \in 1 .. k : y <= Max(1 .. k)
  BY <1>1, MaxOfSome, Zenon
<1> QED BY <1>2

\* The recursion behind a fold, with the operator as a function.
FoldEquation(iter, base, n, op) ==
    iter = [s \in SUBSET (1 .. n) |-> IF s = {} THEN base ELSE op[<<iter[s \ {Max(s)}], Max(s)>>]]

LEMMA FoldExists ==
    ASSUME NEW V, NEW base \in V, NEW n \in Nat, NEW op \in [V \X (1 .. n) -> V]
    PROVE  \E iter \in [SUBSET (1 .. n) -> V] : FoldEquation(iter, base, n, op)
<1> DEFINE Step(iter, s) == IF s = {} THEN base ELSE op[<<iter[s \ {Max(s)}], Max(s)>>]
           Upto(k, iter) == /\ iter \in [SUBSET (1 .. k) -> V]
                            /\ \A s \in SUBSET (1 .. k) : iter[s] = Step(iter, s)
           done == {k \in Nat : k <= n => \E iter : Upto(k, iter)}
<1>1. 0 \in done
  <2>1. Upto(0, [s \in SUBSET (1 .. 0) |-> base])
    BY \A s \in SUBSET (1 .. 0) : s = {}
  <2> QED BY <2>1
<1>2. ASSUME NEW k \in Nat, k \in done PROVE k + 1 \in done
  <2> SUFFICES ASSUME k + 1 <= n PROVE \E iter : Upto(k + 1, iter)
    <3> HIDE DEF Upto
    <3> QED OBVIOUS
  <2>1. PICK iter : Upto(k, iter)
    <3> HIDE DEF Upto
    <3> QED BY <1>2
  <2> DEFINE next == [s \in SUBSET (1 .. k + 1) |->
                         IF k + 1 \in s THEN op[<<iter[s \ {k + 1}], k + 1>>] ELSE iter[s]]
  <2>2. ASSUME NEW s \in SUBSET (1 .. k + 1) PROVE next[s] \in V /\ next[s] = Step(next, s)
    <3>1. CASE k + 1 \in s
      <4>1. Max(s) = k + 1
        <5>1. s # {} /\ k + 1 \in Nat /\ \A y \in s : y \in 1 .. k + 1
          BY <3>1
        <5>2. Max(s) \in s /\ \A y \in s : y <= Max(s)
          BY <5>1, MaxOfSome, Zenon
        <5>3. k + 1 <= Max(s) /\ Max(s) \in 1 .. k + 1
          BY <3>1, <5>1, <5>2, Zenon
        <5> QED BY <5>3
      <4>2. s \ {k + 1} \in SUBSET (1 .. k) /\ k + 1 \notin s \ {k + 1} /\ s \ {k + 1} \in SUBSET (1 .. k + 1)
        OBVIOUS
      <4>3. next[s \ {k + 1}] = iter[s \ {k + 1}] /\ iter[s \ {k + 1}] \in V
        BY <2>1, <4>2
      <4>4. next[s] = op[<<iter[s \ {k + 1}], k + 1>>] /\ s # {}
        BY <3>1
      <4>5. next[s] \in V
        BY <4>3, <4>4, k + 1 \in 1 .. n
      <4> HIDE DEF next
      <4> QED BY <4>1, <4>3, <4>4, <4>5
    <3>2. CASE k + 1 \notin s
      <4>1. s \in SUBSET (1 .. k)
        BY <3>2
      <4>2. next[s] = iter[s] /\ iter[s] = Step(iter, s) /\ iter[s] \in V
        BY <2>1, <3>2, <4>1
      <4>3. CASE s = {}
        BY <4>2, <4>3
      <4>4. CASE s # {}
        <5> DEFINE rest == s \ {Max(s)}
        <5>0. rest \subseteq s
          OBVIOUS
        <5>1. rest \in SUBSET (1 .. k) /\ rest \in SUBSET (1 .. k + 1) /\ k + 1 \notin rest
          <6> HIDE DEF rest
          <6> QED BY <3>2, <4>1, <5>0
        <5>2. next[rest] = iter[rest]
          BY <5>1
        <5> HIDE DEF next
        <5> QED BY <4>2, <4>4, <5>2
      <4> QED BY <4>3, <4>4
    <3> QED BY <3>1, <3>2
  <2>3. next \in [SUBSET (1 .. k + 1) -> V]
    <3>1. next = [s \in SUBSET (1 .. k + 1) |-> next[s]]
      OBVIOUS
    <3> HIDE DEF next
    <3> QED BY <2>2, <3>1
  <2> HIDE DEF next
  <2> QED BY <2>2, <2>3
<1>3. n \in done
  <2> HIDE DEF done
  <2> QED BY <1>1, <1>2, SetInduction
<1>4. PICK iter : Upto(n, iter)
  <2> HIDE DEF Upto
  <2> QED BY <1>3
<1>5. iter = [s \in SUBSET (1 .. n) |-> Step(iter, s)]
  BY <1>4
<1> QED BY <1>4, <1>5 DEF FoldEquation

-----------------------------------------------------------------------------
Edition == [layer : Layers, from : Dates, content : Contents]

\* The editions of a layer that are in force on a date, by their place.
Candidates(list, layer, date) == {i \in DOMAIN list : list[i].layer = layer /\ list[i].from <= date}

\* The loop of latestInForce over the first k editions.
LatestOf(list, layer, date, k, latest) ==
    /\ latest = None => Candidates(list, layer, date) \cap (1 .. k) = {}
    /\ latest # None => \E i \in Candidates(list, layer, date) \cap (1 .. k) :
          /\ latest = list[i]
          /\ \A j \in Candidates(list, layer, date) \cap (1 .. k) :
                list[j].from <= list[i].from /\ (list[j].from = list[i].from => j <= i)

LEMMA InForceIsLatest ==
    ASSUME editions \in Seq(Edition), NEW layer, NEW date \in Nat
    PROVE  LatestOf(editions, layer, date, Len(editions), InForce(layer, date))
<1> DEFINE n == Len(editions)
           V == Range(editions) \cup {None}
           Later(latest, e) ==
               IF e.layer = layer /\ e.from <= date /\ (latest = None \/ latest.from <= e.from)
               THEN e ELSE latest
           op == [p \in V \X (1 .. n) |-> Later(p[1], editions[p[2]])]
           equation(iter) == iter = [s \in SUBSET DOMAIN editions |->
                                 IF s = {} THEN None ELSE Later(iter[s \ {Max(s)}], editions[Max(s)])]
           iter0 == CHOOSE iter : equation(iter)
<1>1. n \in Nat /\ DOMAIN editions = 1 .. n /\ \A i \in 1 .. n : editions[i] \in Edition
  OBVIOUS
<1>2. \A i \in 1 .. n : editions[i] \in V /\ editions[i] # None
  BY <1>1, NoneAssumption DEF Range, Edition
<1>3. \E iter : equation(iter)
  <2>1. op \in [V \X (1 .. n) -> V]
    BY <1>2
  <2>2. None \in V
    OBVIOUS
  <2>3. PICK iter \in [SUBSET (1 .. n) -> V] : FoldEquation(iter, None, n, op)
    <3> HIDE DEF op, V, n
    <3> QED BY <1>1, <2>1, <2>2, FoldExists
  <2>4. ASSUME NEW s \in SUBSET (1 .. n), s # {}
        PROVE  op[<<iter[s \ {Max(s)}], Max(s)>>] = Later(iter[s \ {Max(s)}], editions[Max(s)])
    <3>1. Max(s) \in 1 .. n
      BY <1>1, <2>4, MaxOfSome
    <3>2. s \ {Max(s)} \in SUBSET (1 .. n)
      OBVIOUS
    <3>3. iter[s \ {Max(s)}] \in V
      BY <2>3, <3>2
    <3> HIDE DEF V
    <3> QED BY <3>1, <3>3
  <2>5. equation(iter)
    <3> HIDE DEF op, V, Later
    <3> QED BY <1>1, <2>3, <2>4 DEF FoldEquation
  <2> QED BY <2>5
<1>4. equation(iter0)
  <2> HIDE DEF equation
  <2> QED BY <1>3
<1>5. InForce(layer, date) = iter0[1 .. n]
  BY <1>1, Zenon DEF InForce, FoldLeft, MapThenFoldSet
<1>6. iter0[{}] = None
  BY <1>4
<1>7. ASSUME NEW k \in 1 .. n PROVE iter0[1 .. k] = Later(iter0[1 .. k - 1], editions[k])
  <2>1. 1 .. k \in SUBSET DOMAIN editions /\ 1 .. k # {} /\ k \in Nat \ {0}
    BY <1>1
  <2>2. Max(1 .. k) = k /\ (1 .. k) \ {k} = 1 .. k - 1
    BY <2>1, MaxOfInterval
  <2>3. iter0[1 .. k] = Later(iter0[(1 .. k) \ {Max(1 .. k)}], editions[Max(1 .. k)])
    <3> HIDE DEF iter0, Later
    <3> QED BY <1>4, <2>1
  <2> HIDE DEF iter0, Later
  <2> QED BY <2>2, <2>3
<1> DEFINE done == {k \in Nat : k <= n => LatestOf(editions, layer, date, k, iter0[1 .. k])}
<1> HIDE DEF iter0
<1>8. 0 \in done
  <2>1. 1 .. 0 = {}
    OBVIOUS
  <2> QED BY <1>6, <2>1 DEF LatestOf
<1>9. ASSUME NEW k \in Nat, k \in done PROVE k + 1 \in done
  <2> SUFFICES ASSUME k + 1 <= n PROVE LatestOf(editions, layer, date, k + 1, iter0[1 .. k + 1])
    OBVIOUS
  <2> DEFINE latest == iter0[1 .. k]
             e      == editions[k + 1]
             early  == Candidates(editions, layer, date) \cap (1 .. k)
             now    == Candidates(editions, layer, date) \cap (1 .. k + 1)
  <2>1. iter0[1 .. k + 1] = Later(latest, e) /\ LatestOf(editions, layer, date, k, latest)
    <3>1. k + 1 \in 1 .. n /\ (k + 1) - 1 = k
      OBVIOUS
    <3>2. LatestOf(editions, layer, date, k, latest)
      <4>1. k <= n
        BY <1>1
      <4> QED BY <1>9, <4>1, Zenon
    <3>3. iter0[1 .. k + 1] = Later(iter0[1 .. (k + 1) - 1], e)
      <4> HIDE DEF Later
      <4> QED BY <1>7, <3>1
    <3> QED BY <3>1, <3>2, <3>3
  <2>2. early \subseteq now /\ now \subseteq early \cup {k + 1} /\ \A i \in early : i <= k /\ i \in Nat
    OBVIOUS
  <2>3. \A i \in Candidates(editions, layer, date) : editions[i].from \in Nat
    BY <1>1, DatesAssumption DEF Candidates, Edition
  <2>4. CASE k + 1 \in Candidates(editions, layer, date) /\ (latest = None \/ latest.from <= e.from)
    <3>1. iter0[1 .. k + 1] = e /\ e # None /\ k + 1 \in now
      BY <1>1, <1>2, <2>1, <2>4 DEF Candidates
    <3>2. ASSUME NEW j \in now PROVE editions[j].from <= e.from /\ j <= k + 1
      <4>1. CASE j = k + 1
        BY <2>3, <4>1
      <4>2. CASE j \in early
        <5>1. latest # None
          BY <2>1, <4>2 DEF LatestOf
        <5>2. PICK i \in early : latest = editions[i] /\ editions[j].from <= editions[i].from
          BY <2>1, <4>2, <5>1 DEF LatestOf
        <5> QED BY <2>2, <2>3, <2>4, <4>2, <5>1, <5>2
      <4> QED BY <2>2, <4>1, <4>2
    <3> HIDE DEF latest
    <3> QED BY <3>1, <3>2 DEF LatestOf
  <2>5. CASE ~(k + 1 \in Candidates(editions, layer, date) /\ (latest = None \/ latest.from <= e.from))
    <3>1. iter0[1 .. k + 1] = latest
      BY <1>1, <2>1, <2>5 DEF Candidates
    <3>2. CASE latest = None
      <4>1. k + 1 \notin Candidates(editions, layer, date)
        BY <2>5, <3>2
      <4> QED BY <2>1, <2>2, <3>1, <3>2, <4>1 DEF LatestOf
    <3>3. CASE latest # None
      <4>1. PICK i \in early :
                /\ latest = editions[i]
                /\ \A j \in early :
                      editions[j].from <= editions[i].from /\ (editions[j].from = editions[i].from => j <= i)
        BY <2>1, <3>3 DEF LatestOf
      <4>2. k + 1 \in Candidates(editions, layer, date) => e.from < editions[i].from
        BY <2>2, <2>3, <2>5, <4>1
      <4>3. \A j \in now :
                editions[j].from <= editions[i].from /\ (editions[j].from = editions[i].from => j <= i)
        BY <2>2, <2>3, <4>1, <4>2
      <4> HIDE DEF latest
      <4> QED BY <2>2, <3>1, <3>3, <4>1, <4>3 DEF LatestOf
    <3> QED BY <3>2, <3>3
  <2> QED BY <2>4, <2>5
<1>10. LatestOf(editions, layer, date, n, iter0[1 .. n])
  <2> HIDE DEF done
  <2>1. n \in done
    BY <1>1, <1>8, <1>9, SetInduction
  <2> QED BY <2>1 DEF done
<1> QED BY <1>5, <1>10

-----------------------------------------------------------------------------
\* An item of an edition stays in the merge until a later edition defines it.
MergeOf(sources, k, merged) ==
    /\ DOMAIN merged = UNION {DOMAIN sources[i].content : i \in 1 .. k}
    /\ \A id \in DOMAIN merged : \E i \in 1 .. k :
          /\ id \in DOMAIN sources[i].content
          /\ merged[id] = sources[i].content[id]
          /\ \A j \in i + 1 .. k : id \notin DOMAIN sources[j].content

LEMMA MergeIsOfTheLast ==
    ASSUME NEW n \in Nat, NEW sources, DOMAIN sources = 1 .. n
    PROVE  MergeOf(sources, n, MergeById(sources))
<1> DEFINE ids   == UNION {DOMAIN sources[i].content : i \in 1 .. n}
           items == UNION {{sources[i].content[id] : id \in DOMAIN sources[i].content} : i \in 1 .. n}
           V     == UNION {[D -> items] : D \in SUBSET ids}
           op == [p \in V \X (1 .. n) |-> Merge(p[1], sources[p[2]].content)]
           equation(iter) == iter = [s \in SUBSET DOMAIN sources |->
                                 IF s = {} THEN Nothing ELSE Merge(iter[s \ {Max(s)}], sources[Max(s)].content)]
           iter0 == CHOOSE iter : equation(iter)
<1>1. \E iter : equation(iter)
  <2>1. ASSUME NEW m \in V, NEW i \in 1 .. n PROVE Merge(m, sources[i].content) \in V
    <3>1. PICK D \in SUBSET ids : m \in [D -> items]
      OBVIOUS
    <3> DEFINE c == sources[i].content
    <3>2. DOMAIN c \in SUBSET ids /\ \A id \in DOMAIN c : c[id] \in items
      OBVIOUS
    <3> HIDE DEF c, ids, items
    <3>3. Merge(m, c) \in [D \cup DOMAIN c -> items]
      BY <3>1, <3>2 DEF Merge
    <3>4. D \cup DOMAIN c \in SUBSET ids
      BY <3>2
    <3> QED BY <3>3, <3>4 DEF c
  <2>2. Nothing \in V
    <3>1. Nothing \in [{} -> items] /\ {} \in SUBSET ids
      BY DEF Nothing
    <3> HIDE DEF ids, items
    <3> QED BY <3>1
  <2> HIDE DEF V
  <2>3. op \in [V \X (1 .. n) -> V]
    BY <2>1
  <2>4. PICK iter \in [SUBSET (1 .. n) -> V] : FoldEquation(iter, Nothing, n, op)
    <3> HIDE DEF op
    <3> QED BY <2>2, <2>3, FoldExists
  <2>5. ASSUME NEW s \in SUBSET (1 .. n), s # {}
        PROVE  op[<<iter[s \ {Max(s)}], Max(s)>>] = Merge(iter[s \ {Max(s)}], sources[Max(s)].content)
    <3>1. Max(s) \in 1 .. n
      BY <2>5, MaxOfSome
    <3>2. iter[s \ {Max(s)}] \in V
      BY <2>4
    <3> QED BY <3>1, <3>2
  <2>6. equation(iter)
    <3> HIDE DEF op
    <3> QED BY <2>4, <2>5 DEF FoldEquation
  <2> QED BY <2>6
<1>2. equation(iter0)
  <2> HIDE DEF equation
  <2> QED BY <1>1
<1>3. MergeById(sources) = iter0[1 .. n]
  BY Zenon DEF MergeById, FoldLeft, MapThenFoldSet
<1>4. iter0[{}] = Nothing
  BY <1>2
<1>5. ASSUME NEW k \in 1 .. n PROVE iter0[1 .. k] = Merge(iter0[1 .. k - 1], sources[k].content)
  <2>1. 1 .. k \in SUBSET DOMAIN sources /\ 1 .. k # {} /\ k \in Nat \ {0}
    OBVIOUS
  <2>2. Max(1 .. k) = k /\ (1 .. k) \ {k} = 1 .. k - 1
    BY <2>1, MaxOfInterval
  <2>3. iter0[1 .. k] = Merge(iter0[(1 .. k) \ {Max(1 .. k)}], sources[Max(1 .. k)].content)
    <3> HIDE DEF iter0
    <3> QED BY <1>2, <2>1
  <2> HIDE DEF iter0
  <2> QED BY <2>2, <2>3
<1> DEFINE done == {k \in Nat : k <= n => MergeOf(sources, k, iter0[1 .. k])}
<1> HIDE DEF iter0
<1>6. 0 \in done
  <2>1. 1 .. 0 = {} /\ DOMAIN Nothing = {}
    BY DEF Nothing
  <2> QED BY <1>4, <2>1 DEF MergeOf
<1>7. ASSUME NEW k \in Nat, k \in done PROVE k + 1 \in done
  <2> SUFFICES ASSUME k + 1 <= n PROVE MergeOf(sources, k + 1, iter0[1 .. k + 1])
    OBVIOUS
  <2> DEFINE lower == iter0[1 .. k]
             upper == sources[k + 1].content
             m     == iter0[1 .. k + 1]
  <2>1. MergeOf(sources, k, lower)
    <3>1. k <= n
      OBVIOUS
    <3> QED BY <1>7, <3>1, Zenon
  <2>2. m = Merge(lower, upper)
    <3>1. k + 1 \in 1 .. n /\ (k + 1) - 1 = k
      OBVIOUS
    <3> QED BY <1>5, <3>1
  <2>3. 1 .. k + 1 = (1 .. k) \cup {k + 1} /\ k + 1 \notin 1 .. k
    OBVIOUS
  <2> HIDE DEF lower, m
  <2>4. DOMAIN m = DOMAIN lower \cup DOMAIN upper
    BY <2>2 DEF Merge
  <2>5. DOMAIN m = UNION {DOMAIN sources[i].content : i \in 1 .. k + 1}
    BY <2>1, <2>3, <2>4 DEF MergeOf
  <2>6. ASSUME NEW id \in DOMAIN m
        PROVE  \E i \in 1 .. k + 1 : /\ id \in DOMAIN sources[i].content
                                     /\ m[id] = sources[i].content[id]
                                     /\ \A j \in i + 1 .. k + 1 : id \notin DOMAIN sources[j].content
    <3>1. CASE id \in DOMAIN upper
      <4>1. m[id] = upper[id]
        BY <2>2, <2>4, <3>1 DEF Merge
      <4>2. k + 1 \in 1 .. k + 1 /\ (k + 1) + 1 .. k + 1 = {}
        OBVIOUS
      <4> QED BY <3>1, <4>1, <4>2
    <3>2. CASE id \notin DOMAIN upper
      <4>1. m[id] = lower[id] /\ id \in DOMAIN lower
        BY <2>2, <2>4, <3>2 DEF Merge
      <4>2. PICK i \in 1 .. k : /\ id \in DOMAIN sources[i].content
                                /\ lower[id] = sources[i].content[id]
                                /\ \A j \in i + 1 .. k : id \notin DOMAIN sources[j].content
        BY <2>1, <4>1 DEF MergeOf
      <4>3. i + 1 .. k + 1 = (i + 1 .. k) \cup {k + 1}
        OBVIOUS
      <4> QED BY <2>3, <3>2, <4>1, <4>2, <4>3
    <3> QED BY <3>1, <3>2
  <2>7. MergeOf(sources, k + 1, m)
    BY <2>5, <2>6 DEF MergeOf
  <2> QED BY <2>7 DEF m
<1>8. MergeOf(sources, n, iter0[1 .. n])
  <2> HIDE DEF done
  <2>1. n \in done
    BY <1>6, <1>7, SetInduction
  <2> QED BY <2>1 DEF done
<1> QED BY <1>3, <1>8

-----------------------------------------------------------------------------
\* What validateReferences reports is never taken for an accepted content.
LEMMA ErrorsAreErrors == ASSUME NEW c PROVE ReferenceErrors(c) \subseteq Errors
<1>1. ASSUME NEW class PROVE ClassErrors(c, class) \subseteq Errors
  BY DEF ClassErrors, AwardErrors, Errors
<1>2. ASSUME NEW award PROVE HigherScopeErrors(c, award) \subseteq Errors
  <2> DEFINE unresolved == LET scales == ReachableScales(c, award) IN
                 scales # {} /\ \A scale \in scales : ~ResolvesOn(c, award, scale)
  <2>1. HigherScopeErrors(c, award) = IF unresolved THEN {"UnknownMinimumGradeReference"} ELSE {}
    BY DEF HigherScopeErrors
  <2> HIDE DEF unresolved
  <2> QED BY <2>1 DEF Errors
<1> DEFINE ofClasses == UNION {ClassErrors(c, class) : class \in OfKind(c, {"class"})}
           ofAwards  == UNION {HigherScopeErrors(c, award) : award \in OfKind(c, {"higher"})}
<1>3. ofClasses \subseteq Errors /\ ofAwards \subseteq Errors
  BY <1>1, <1>2
<1>4. ReferenceErrors(c) = IF ofClasses # {} THEN ofClasses ELSE ofAwards
  BY DEF ReferenceErrors
<1> QED BY <1>3, <1>4

\* A merge of contents defines what one of them defines, so it is a content.
LEMMA MergeIsContent ==
    ASSUME NEW n \in Nat, NEW sources, DOMAIN sources = 1 .. n,
           \A i \in 1 .. n : IsContent(sources[i].content)
    PROVE  IsContent(MergeById(sources))
<1> DEFINE c == MergeById(sources)
<1>0. MergeOf(sources, n, c)
  BY MergeIsOfTheLast
<1> HIDE DEF c
<1>1. \A id \in DOMAIN c : \E i \in 1 .. n :
          id \in DOMAIN sources[i].content /\ c[id] = sources[i].content[id]
  BY <1>0 DEF MergeOf
<1>2. IsContent(c)
  BY <1>1 DEF IsContent
<1> QED BY <1>2 DEF c

\* A pinned content is one that validateReferences has accepted.
PinnedIsSound == show.outcome = "ok" => ReferenceErrors(show.content) = {}

\* The sources of a pinned show are, layer by layer, the latest edition of its
\* day, and an item is that of the last layer that defines it.
PinnedFromTheLatest ==
    show.outcome = "ok" =>
        /\ \A i \in DOMAIN LayerOrder : show.sources[i] # None
              /\ LatestOf(editions, LayerOrder[i], show.date, Len(editions), show.sources[i])
        /\ MergeOf(show.sources, Len(LayerOrder), show.content)

RulesetInv == TypeOK /\ PinnedIsSound /\ PinnedFromTheLatest

LEMMA OutcomesAreSound ==
    ASSUME editions \in Seq(Edition), NEW date \in Dates, NEW result \in Outcomes(date)
    PROVE  /\ result.outcome \in Errors \cup {"ok"}
           /\ IsContent(result.content)
           /\ result.outcome = "ok" =>
                 /\ Len(result.sources) = Len(LayerOrder)
                 /\ ReferenceErrors(result.content) = {}
                 /\ \A i \in DOMAIN LayerOrder : result.sources[i] # None
                       /\ LatestOf(editions, LayerOrder[i], result.date, Len(editions), result.sources[i])
                 /\ MergeOf(result.sources, Len(LayerOrder), result.content)
<1> DEFINE sources == [i \in DOMAIN LayerOrder |-> InForce(LayerOrder[i], date)]
           n       == Len(LayerOrder)
           c       == MergeById(sources)
           Failed(error) == [NoShow EXCEPT !.outcome = error, !.date = date]
<1>1. n \in Nat /\ DOMAIN LayerOrder = 1 .. n /\ DOMAIN sources = 1 .. n /\ Len(sources) = n
  BY LayersAssumption
<1>2. \A error : Failed(error).outcome = error /\ IsContent(Failed(error).content)
  BY DEF NoShow, Nothing, IsContent
<1>3. ASSUME result = Failed("NoEditionInForce")
      PROVE  result.outcome \in Errors /\ result.outcome # "ok" /\ IsContent(result.content)
  <2> HIDE DEF Failed
  <2> QED BY <1>2, <1>3 DEF Errors
<1>4. ASSUME NEW error \in ReferenceErrors(c), result = Failed(error)
      PROVE  result.outcome \in Errors /\ result.outcome # "ok" /\ IsContent(result.content)
  <2> HIDE DEF Failed
  <2>1. error \in Errors /\ "ok" \notin Errors
    BY <1>4, ErrorsAreErrors DEF Errors
  <2> QED BY <1>2, <1>4, <2>1
<1>5. ASSUME None \notin Range(sources), ReferenceErrors(c) = {},
             result = [outcome |-> "ok", date |-> date, sources |-> sources, content |-> c]
      PROVE  /\ result.outcome = "ok" /\ IsContent(result.content)
             /\ Len(result.sources) = Len(LayerOrder)
             /\ ReferenceErrors(result.content) = {}
             /\ \A i \in DOMAIN LayerOrder : result.sources[i] # None
                   /\ LatestOf(editions, LayerOrder[i], result.date, Len(editions), result.sources[i])
             /\ MergeOf(result.sources, Len(LayerOrder), result.content)
  <2>1. date \in Nat
    BY DatesAssumption
  <2>2. \A i \in 1 .. n : sources[i] # None
    BY <1>1, <1>5 DEF Range
  <2>3. \A i \in 1 .. n : LatestOf(editions, LayerOrder[i], date, Len(editions), sources[i])
    BY <1>1, <2>1, InForceIsLatest
  <2>4. ASSUME NEW i \in 1 .. n PROVE IsContent(sources[i].content)
    <3>1. PICK j \in DOMAIN editions : sources[i] = editions[j]
      <4> HIDE DEF sources
      <4> QED BY <2>2, <2>3 DEF LatestOf, Candidates
    <3>2. editions[j] \in Edition
      OBVIOUS
    <3> QED BY <3>1, <3>2, ContentsAssumption DEF Edition
  <2> HIDE DEF sources, n
  <2>5. IsContent(c) /\ MergeOf(sources, n, c)
    BY <1>1, <2>4, MergeIsContent, MergeIsOfTheLast
  <2> HIDE DEF c
  <2> QED BY <1>1, <1>5, <2>2, <2>3, <2>5 DEF n
<1>6. CASE None \in Range(sources)
  BY <1>3, <1>6 DEF Outcomes
<1>7. CASE None \notin Range(sources)
  <2>1. result \in Pinned(date, sources)
    BY <1>7 DEF Outcomes
  <2>2. CASE ReferenceErrors(c) = {}
    <3>1. result = [outcome |-> "ok", date |-> date, sources |-> sources, content |-> c]
      BY <2>1, <2>2 DEF Pinned
    <3> QED BY <1>5, <1>7, <2>2, <3>1
  <2>3. CASE ReferenceErrors(c) # {}
    <3>1. PICK error \in ReferenceErrors(c) : result = Failed(error)
      BY <2>1, <2>3 DEF Pinned
    <3> QED BY <1>4, <3>1
  <2> QED BY <2>2, <2>3
<1> QED BY <1>6, <1>7

LEMMA InitRulesetInv == Init => RulesetInv
<1> SUFFICES ASSUME Init PROVE RulesetInv
  OBVIOUS
<1>1. editions = <<>> /\ show.outcome = "unresolved" /\ IsContent(show.content)
  BY DEF Init, NoShow, Nothing, IsContent
<1> QED BY <1>1 DEF RulesetInv, TypeOK, PinnedIsSound, PinnedFromTheLatest

LEMMA NextRulesetInv == RulesetInv /\ [Next]_vars => RulesetInv'
<1> SUFFICES ASSUME RulesetInv, [Next]_vars PROVE RulesetInv'
  OBVIOUS
<1>1. ASSUME NEW layer \in Layers, NEW date \in Dates, NEW content \in Contents,
             Publish(layer, date, content)
      PROVE  RulesetInv'
  <2>1. [layer |-> layer, from |-> date, content |-> content] \in Edition
    BY DEF Edition
  <2>2. editions' \in Seq(Edition) /\ show' = show /\ show.outcome # "ok"
    BY <1>1, <2>1 DEF Publish, RulesetInv, TypeOK, Edition
  <2> QED BY <2>2 DEF RulesetInv, TypeOK, PinnedIsSound, PinnedFromTheLatest, Edition
<1>2. ASSUME NEW date \in Dates, Resolve(date) PROVE RulesetInv'
  <2>1. editions \in Seq(Edition) /\ editions' = editions /\ show' \in Outcomes(date)
    BY <1>2 DEF Resolve, RulesetInv, TypeOK, Edition
  <2>2. /\ show'.outcome \in Errors \cup {"ok"}
        /\ IsContent(show'.content)
        /\ show'.outcome = "ok" =>
              /\ Len(show'.sources) = Len(LayerOrder)
              /\ ReferenceErrors(show'.content) = {}
              /\ \A i \in DOMAIN LayerOrder : show'.sources[i] # None
                    /\ LatestOf(editions, LayerOrder[i], show'.date, Len(editions), show'.sources[i])
              /\ MergeOf(show'.sources, Len(LayerOrder), show'.content)
    BY <2>1, OutcomesAreSound
  <2> QED BY <2>1, <2>2 DEF RulesetInv, TypeOK, PinnedIsSound, PinnedFromTheLatest, Edition
<1>3. CASE UNCHANGED vars
  BY <1>3 DEF vars, RulesetInv, TypeOK, PinnedIsSound, PinnedFromTheLatest
<1> QED BY <1>1, <1>2, <1>3 DEF Next

\* What is pinned is of the latest editions of the day, merged item by item, of
\* which the last layer wins (ruleset-layer-edition.ts :77-92,
\* effective-ruleset.ts :180-254).
THEOREM PinnedRulesAreTheLatest == Spec => [](TypeOK /\ PinnedFromTheLatest)
<1> QED BY InitRulesetInv, NextRulesetInv, PTL DEF Spec, RulesetInv

-----------------------------------------------------------------------------
\* The latest of some editions is one thing only.
LEMMA LatestIsUnique ==
    ASSUME editions \in Seq(Edition), NEW layer, NEW date, NEW k \in Nat, NEW a, NEW b,
           LatestOf(editions, layer, date, k, a), LatestOf(editions, layer, date, k, b)
    PROVE  a = b
<1> DEFINE some == Candidates(editions, layer, date) \cap (1 .. k)
<1>1. CASE some = {}
  BY <1>1 DEF LatestOf
<1>2. CASE some # {}
  <2>1. \A i \in some : i \in Nat /\ editions[i].from \in Nat
    <3>1. \A i \in DOMAIN editions : i \in Nat /\ editions[i] \in Edition
      OBVIOUS
    <3> QED BY <3>1, DatesAssumption DEF Candidates, Edition
  <2>2. PICK i \in some : a = editions[i] /\ \A j \in some :
            editions[j].from <= editions[i].from /\ (editions[j].from = editions[i].from => j <= i)
    BY <1>2 DEF LatestOf
  <2>3. PICK j \in some : b = editions[j] /\ \A l \in some :
            editions[l].from <= editions[j].from /\ (editions[l].from = editions[j].from => l <= j)
    BY <1>2 DEF LatestOf
  <2> HIDE DEF some
  <2>4. editions[i].from = editions[j].from
    BY <2>1, <2>2, <2>3
  <2> QED BY <2>1, <2>2, <2>3, <2>4
<1> QED BY <1>1, <1>2

\* As a predicate, so that it can be said of the next state.
LatestInForce ==
    editions \in Seq(Edition) => \A layer : \A date \in Dates :
        LatestOf(editions, layer, date, Len(editions), InForce(layer, date))

LEMMA LatestAreInForce == LatestInForce
BY InForceIsLatest, DatesAssumption DEF LatestInForce

\* An edition of a later date leaves the latest edition of a date as it is.
LEMMA LaterEditionsDoNotCount ==
    ASSUME editions \in Seq(Edition), editions' \in Seq(Edition), [Next]_vars, NEW date \in Dates,
           Len(editions') > Len(editions), editions'[Len(editions')].from > date,
           NEW layer \in Layers
    PROVE  InForce(layer, date)' = InForce(layer, date)
<1> DEFINE n == Len(editions)
<1>1. /\ n \in Nat /\ Len(editions') = n + 1 /\ DOMAIN editions = 1 .. n
      /\ DOMAIN editions' = 1 .. n + 1
      /\ \A i \in 1 .. n : editions'[i] = editions[i]
  <2>1. PICK e : editions' = Append(editions, e)
    <3>1. editions' # editions
      OBVIOUS
    <3>2. PICK other \in Layers, from \in Dates, content \in Contents : Publish(other, from, content)
      BY <3>1 DEF Next, Resolve, vars
    <3> QED BY <3>2 DEF Publish
  <2>2. n \in Nat /\ DOMAIN editions = 1 .. n
    OBVIOUS
  <2> QED BY <2>1, <2>2
<1>2. Candidates(editions', layer, date) = Candidates(editions, layer, date)
  <2>1. editions'[n + 1].from > date /\ editions'[n + 1].from \in Nat /\ date \in Nat
    <3>1. editions'[n + 1] \in Edition
      BY <1>1
    <3> QED BY <1>1, <3>1, DatesAssumption DEF Edition
  <2>2. n + 1 \notin Candidates(editions', layer, date)
    BY <2>1 DEF Candidates
  <2>3. \A i \in 1 .. n : i \in Candidates(editions', layer, date) <=> i \in Candidates(editions, layer, date)
    BY <1>1 DEF Candidates
  <2>4. Candidates(editions', layer, date) \subseteq 1 .. n + 1 /\ Candidates(editions, layer, date) \subseteq 1 .. n
    BY <1>1 DEF Candidates
  <2> QED BY <1>1, <2>2, <2>3, <2>4
<1> DEFINE e == InForce(layer, date)'
<1>3. LatestOf(editions', layer, date, n + 1, e)
  <2>1. LatestInForce'
    BY LatestAreInForce, PTL
  <2> QED BY <1>1, <2>1 DEF LatestInForce
<1>4. Candidates(editions, layer, date) \subseteq 1 .. n /\ 1 .. n \subseteq 1 .. n + 1
  BY <1>1 DEF Candidates
<1> HIDE DEF e
<1>5. LatestOf(editions, layer, date, n, e)
  BY <1>1, <1>2, <1>3, <1>4 DEF LatestOf
<1>6. LatestOf(editions, layer, date, n, InForce(layer, date))
  BY LatestAreInForce DEF LatestInForce
<1>7. e = InForce(layer, date)
  BY <1>1, <1>5, <1>6, LatestIsUnique
<1> QED BY <1>7 DEF e

LEMMA PublishedLaterIsLater ==
    editions \in Seq(Edition) /\ (editions \in Seq(Edition))' /\ [Next]_vars =>
       \A date \in Dates : Len(editions') > Len(editions) /\ editions'[Len(editions')].from > date
          => \A layer \in Layers : InForce(layer, date)' = InForce(layer, date)
BY LaterEditionsDoNotCount

\* Whatever is published, shows before its date are resolved as they were
\* (ruleset-layer-edition.ts :25-26, :70-75).
THEOREM EditionsNeverReachBack == Spec => EarlierShowsAreUnaffected
<1>1. TypeOK => editions \in Seq(Edition)
  BY DEF TypeOK, Edition
<1> QED BY <1>1, PublishedLaterIsLater, PinnedRulesAreTheLatest, PTL DEF Spec, EarlierShowsAreUnaffected

-----------------------------------------------------------------------------
\* The walk over the feeders of one award, step by step.
Along(c, R, V, start, feeders, g) ==
    /\ g \in [0 .. Len(feeders) -> V]
    /\ g[0] = start
    /\ \A i \in 1 .. Len(feeders) : g[i] = AlongFeeder(c, R, g[i - 1], feeders[i])
    /\ AlongFeeders(c, R, start, feeders) = g[Len(feeders)]

\* It is there as long as its results stay in V.
LEMMA StepsAlongFeeders ==
    ASSUME NEW c, NEW R, NEW V, NEW start \in V, NEW feeders \in Seq(Feeders),
           \A acc \in V : \A i \in 1 .. Len(feeders) : AlongFeeder(c, R, acc, feeders[i]) \in V
    PROVE  \E g : Along(c, R, V, start, feeders, g)
<1> DEFINE n == Len(feeders)
<1>0. n \in Nat /\ DOMAIN feeders = 1 .. n
  OBVIOUS
<1> HIDE DEF n
<1> DEFINE op == [p \in V \X (1 .. n) |-> AlongFeeder(c, R, p[1], feeders[p[2]])]
           equation(iter) == iter = [s \in SUBSET DOMAIN feeders |->
                                 IF s = {} THEN start ELSE AlongFeeder(c, R, iter[s \ {Max(s)}], feeders[Max(s)])]
           iter0 == CHOOSE iter : equation(iter)
<1>1. \E iter : equation(iter)
  <2>1. op \in [V \X (1 .. n) -> V]
    BY DEF n
  <2>2. PICK iter \in [SUBSET (1 .. n) -> V] : FoldEquation(iter, start, n, op)
    <3> HIDE DEF op
    <3> QED BY <1>0, <2>1, FoldExists
  <2>3. ASSUME NEW s \in SUBSET (1 .. n), s # {}
        PROVE  op[<<iter[s \ {Max(s)}], Max(s)>>] = AlongFeeder(c, R, iter[s \ {Max(s)}], feeders[Max(s)])
    <3>1. Max(s) \in 1 .. n
      BY <1>0, <2>3, MaxOfSome
    <3>2. iter[s \ {Max(s)}] \in V
      BY <2>2
    <3> QED BY <3>1, <3>2
  <2>4. equation(iter)
    <3> HIDE DEF op
    <3> QED BY <1>0, <2>2, <2>3 DEF FoldEquation
  <2> QED BY <2>4
<1>2. equation(iter0)
  <2> HIDE DEF equation
  <2> QED BY <1>1
<1>3. AlongFeeders(c, R, start, feeders) = iter0[1 .. n]
  BY <1>0, Zenon DEF AlongFeeders, FoldLeft, MapThenFoldSet
<1>4. iter0[1 .. 0] = start
  <2>1. 1 .. 0 = {}
    OBVIOUS
  <2> QED BY <1>0, <1>2, <2>1
<1>5. ASSUME NEW k \in 1 .. n PROVE iter0[1 .. k] = AlongFeeder(c, R, iter0[1 .. k - 1], feeders[k])
  <2> HIDE DEF iter0, equation, op
  <2>0. k \in Nat \ {0} /\ 1 .. k # {} /\ \A j \in 1 .. k : j \in 1 .. n
    <3>1. n \in Nat
      BY <1>0
    <3>2. k \in Nat /\ 1 <= k /\ k <= n
      BY <3>1
    <3>3. k \in Nat \ {0}
      BY <3>2
    <3>4. 1 \in 1 .. k
      BY <3>2
    <3>5. \A j \in 1 .. k : j \in 1 .. n
      BY <3>1, <3>2
    <3> QED BY <3>3, <3>4, <3>5, Zenon
  <2>1. 1 .. k \in SUBSET DOMAIN feeders /\ 1 .. k # {} /\ k \in Nat \ {0}
    BY <1>0, <2>0
  <2>2. Max(1 .. k) = k /\ (1 .. k) \ {k} = 1 .. k - 1
    BY <2>1, MaxOfInterval
  <2>3. iter0[1 .. k] = AlongFeeder(c, R, iter0[(1 .. k) \ {Max(1 .. k)}], feeders[Max(1 .. k)])
    BY <1>2, <2>1 DEF equation
  <2> QED BY <2>2, <2>3
<1> HIDE DEF iter0
<1> DEFINE done == {k \in Nat : k <= n => iter0[1 .. k] \in V}
<1>6. 0 \in done
  BY <1>4
<1>7. ASSUME NEW k \in Nat, k \in done PROVE k + 1 \in done
  <2> SUFFICES ASSUME k + 1 <= n PROVE iter0[1 .. k + 1] \in V
    OBVIOUS
  <2>1. k + 1 \in 1 .. n /\ (k + 1) - 1 = k /\ iter0[1 .. k] \in V
    BY <1>0, <1>7
  <2>2. AlongFeeder(c, R, iter0[1 .. k], feeders[k + 1]) \in V
    BY <2>1 DEF n
  <2> QED BY <1>5, <2>1, <2>2
<1>8. Nat \subseteq done
  <2> HIDE DEF done
  <2> QED BY <1>6, <1>7, SetInduction
<1> DEFINE g == [i \in 0 .. n |-> iter0[1 .. i]]
<1>9. g \in [0 .. n -> V]
  BY <1>8
<1>10. g[0] = start /\ g[n] = iter0[1 .. n]
  BY <1>0, <1>4
<1>11. ASSUME NEW i \in 1 .. n PROVE g[i] = AlongFeeder(c, R, g[i - 1], feeders[i])
  <2>1. i \in 0 .. n /\ i - 1 \in 0 .. n
    BY <1>0
  <2> QED BY <1>5, <2>1
<1> HIDE DEF g
<1>12. Along(c, R, V, start, feeders, g)
  BY <1>3, <1>9, <1>10, <1>11 DEF Along, n
<1> QED BY <1>12

HigherAwards(c) == OfKind(c, {"higher"})

\* What a walk may come back with.
WalkResults(c) == [scales : SUBSET ScalesOf(c, OfKind(c, {"class"})), visiting : SUBSET HigherAwards(c)]

\* The walk from a, with R for the walks from its feeders.
WalkFrom(c, R, visiting, a) ==
    IF a \in visiting THEN [scales |-> {}, visiting |-> visiting]
    ELSE AlongFeeders(c, R, [scales |-> {}, visiting |-> visiting \cup {a}], c[a].fedBy)

IsWalk(c, R) ==
    R = [visiting \in SUBSET HigherAwards(c) |-> [a \in HigherAwards(c) |-> WalkFrom(c, R, visiting, a)]]

Beyond(c, u) == {acc \in WalkResults(c) : u \subseteq acc.visiting}

\* From u on, R forgets no award it has visited.
Onward(c, R, u) ==
    \A w \in SUBSET HigherAwards(c) : u \subseteq w => \A a \in HigherAwards(c) :
        R[w][a] \in WalkResults(c) /\ w \subseteq R[w][a].visiting

LEMMA ContentKinds ==
    ASSUME NEW c, IsContent(c)
    PROVE  /\ HigherAwards(c) \subseteq Awards
           /\ \A a \in HigherAwards(c) : c[a].fedBy \in Seq(Feeders)
           /\ \A k \in OfKind(c, {"class"}) : k \in Classes /\ c[k].awards \subseteq Awards
<1> QED BY DEF IsContent, HigherAwards, OfKind, ClassDefs, IsGradeScale, AwardTypes, ShowTypeDefs

LEMMA AlongFeederIsOnward ==
    ASSUME NEW c, NEW R, NEW u, Onward(c, R, u), NEW acc \in WalkResults(c), u \subseteq acc.visiting,
           NEW feeder
    PROVE  /\ AlongFeeder(c, R, acc, feeder) \in WalkResults(c)
           /\ acc.visiting \subseteq AlongFeeder(c, R, acc, feeder).visiting
<1> DEFINE fed == IF feeder.id \in OfKind(c, {"higher"})
                  THEN R[acc.visiting][feeder.id]
                  ELSE [scales |-> {}, visiting |-> acc.visiting]
           all == ScalesOf(c, OfKind(c, {"class"}))
<1>1. /\ ScalesOf(c, {feeder.id}) \subseteq all
      /\ ScalesOf(c, ClassesNaming(c, feeder.id)) \subseteq all
  BY DEF ScalesOf, ClassesNaming
<1>2. fed \in WalkResults(c) /\ acc.visiting \subseteq fed.visiting
  BY DEF Onward, WalkResults, HigherAwards
<1>3. CASE feeder.kind = "class"
  <2>1. AlongFeeder(c, R, acc, feeder) = [acc EXCEPT !.scales = @ \cup ScalesOf(c, {feeder.id})]
    BY <1>3 DEF AlongFeeder
  <2> HIDE DEF all
  <2> QED BY <1>1, <2>1 DEF WalkResults, all
<1>4. CASE feeder.kind # "class"
  <2>1. AlongFeeder(c, R, acc, feeder)
          = [fed EXCEPT !.scales = @ \cup acc.scales \cup ScalesOf(c, ClassesNaming(c, feeder.id))]
    BY <1>4 DEF AlongFeeder
  <2> HIDE DEF fed
  <2> QED BY <1>1, <1>2, <2>1 DEF WalkResults
<1> QED BY <1>3, <1>4

LEMMA AlongFeedersIsOnward ==
    ASSUME NEW c, NEW R, NEW start \in WalkResults(c), Onward(c, R, start.visiting),
           NEW feeders \in Seq(Feeders)
    PROVE  \E g : Along(c, R, Beyond(c, start.visiting), start, feeders, g)
<1>1. start \in Beyond(c, start.visiting)
  BY DEF Beyond
<1>2. ASSUME NEW acc \in Beyond(c, start.visiting), NEW i \in 1 .. Len(feeders)
      PROVE  AlongFeeder(c, R, acc, feeders[i]) \in Beyond(c, start.visiting)
  <2>1. acc \in WalkResults(c) /\ start.visiting \subseteq acc.visiting
    BY DEF Beyond
  <2>2. /\ AlongFeeder(c, R, acc, feeders[i]) \in WalkResults(c)
        /\ acc.visiting \subseteq AlongFeeder(c, R, acc, feeders[i]).visiting
    BY <2>1, AlongFeederIsOnward
  <2> QED BY <2>1, <2>2 DEF Beyond
<1> QED BY <1>1, <1>2, StepsAlongFeeders

SameFrom(c, Q, R, u) ==
    \A w \in SUBSET HigherAwards(c) : u \subseteq w => \A a \in HigherAwards(c) : Q[w][a] = R[w][a]

\* Walks that agree from the visited awards on lead along the feeders alike.
LEMMA AlongFeedersAgree ==
    ASSUME NEW c, NEW R, NEW Q, NEW start \in WalkResults(c), Onward(c, R, start.visiting),
           SameFrom(c, Q, R, start.visiting),
           NEW feeders \in Seq(Feeders)
    PROVE  AlongFeeders(c, Q, start, feeders) = AlongFeeders(c, R, start, feeders)
<1> DEFINE V == Beyond(c, start.visiting)
           n == Len(feeders)
<1>1. Onward(c, Q, start.visiting)
  BY DEF Onward, SameFrom
<1>2. PICK g : Along(c, R, V, start, feeders, g)
  BY AlongFeedersIsOnward
<1>3. PICK h : Along(c, Q, V, start, feeders, h)
  BY <1>1, AlongFeedersIsOnward
<1>4. ASSUME NEW acc \in V, NEW feeder PROVE AlongFeeder(c, Q, acc, feeder) = AlongFeeder(c, R, acc, feeder)
  <2>1. feeder.id \in OfKind(c, {"higher"}) => Q[acc.visiting][feeder.id] = R[acc.visiting][feeder.id]
    BY DEF Beyond, WalkResults, HigherAwards, SameFrom
  <2> HIDE DEF V
  <2> QED BY <2>1 DEF AlongFeeder
<1> DEFINE done == {k \in Nat : k <= n => g[k] = h[k]}
<1>5. n \in Nat
  OBVIOUS
<1> HIDE DEF V, n
<1>6. 0 \in done
  BY <1>2, <1>3 DEF Along
<1>7. ASSUME NEW k \in Nat, k \in done PROVE k + 1 \in done
  <2> SUFFICES ASSUME k + 1 <= n PROVE g[k + 1] = h[k + 1]
    OBVIOUS
  <2>1. k + 1 \in 1 .. n /\ (k + 1) - 1 = k /\ k \in 0 .. n /\ g[k] = h[k]
    BY <1>5, <1>7
  <2>2. g[k + 1] = AlongFeeder(c, R, g[k], feeders[k + 1]) /\ h[k + 1] = AlongFeeder(c, Q, h[k], feeders[k + 1])
    BY <1>2, <1>3, <2>1 DEF Along, n
  <2>3. g[k] \in V
    BY <1>2, <2>1 DEF Along, n
  <2> QED BY <1>4, <2>1, <2>2, <2>3
<1>8. Nat \subseteq done
  <2> HIDE DEF done
  <2> QED BY <1>6, <1>7, SetInduction
<1>9. g[n] = h[n]
  BY <1>5, <1>8
<1> QED BY <1>2, <1>3, <1>9 DEF Along, n

-----------------------------------------------------------------------------
\* The awards that a walk has not visited are fewer and fewer.
LEMMA FewerAreLeft ==
    ASSUME NEW H, IsFiniteSet(H), NEW u \in SUBSET H, NEW w \in SUBSET H, u \subseteq w
    PROVE  /\ Cardinality(H \ u) \in Nat /\ Cardinality(H \ w) <= Cardinality(H \ u)
           /\ \A a \in H \ u : Cardinality(H \ (u \cup {a})) = Cardinality(H \ u) - 1
<1>1. IsFiniteSet(H \ u) /\ H \ w \subseteq H \ u
  BY FS_Subset
<1>2. Cardinality(H \ u) \in Nat /\ Cardinality(H \ w) <= Cardinality(H \ u)
  BY <1>1, FS_CardinalityType, FS_Subset
<1>3. ASSUME NEW a \in H \ u PROVE Cardinality(H \ (u \cup {a})) = Cardinality(H \ u) - 1
  <2>1. H \ (u \cup {a}) = (H \ u) \ {a}
    OBVIOUS
  <2> QED BY <1>1, <2>1, FS_RemoveElement
<1> QED BY <1>2, <1>3

LEMMA HigherAwardsAreFinite ==
    ASSUME NEW c, IsContent(c) PROVE IsFiniteSet(HigherAwards(c))
BY ContentKinds, AwardsAssumption, FS_Subset

\* R is the walk wherever at most k awards are left to visit.
WalkUpto(c, k, R) ==
    /\ R \in [SUBSET HigherAwards(c) -> [HigherAwards(c) -> WalkResults(c)]]
    /\ \A u \in SUBSET HigherAwards(c) : Cardinality(HigherAwards(c) \ u) <= k =>
          \A a \in HigherAwards(c) : R[u][a] = WalkFrom(c, R, u, a) /\ u \subseteq R[u][a].visiting

\* The walk has a result, whatever cycles the feeders form.
LEMMA WalkExists ==
    ASSUME NEW c, IsContent(c) PROVE \E R : IsWalk(c, R)
<1> DEFINE H == HigherAwards(c)
           Left(u) == Cardinality(H \ u)
           At(u) == [scales |-> {}, visiting |-> u]
<1>1. /\ \A u \in SUBSET H : Left(u) \in Nat
      /\ \A u, w \in SUBSET H : u \subseteq w => Left(w) <= Left(u)
      /\ \A u \in SUBSET H : \A a \in H \ u : Left(u \cup {a}) = Left(u) - 1
  BY HigherAwardsAreFinite, FewerAreLeft
<1>2. \A u \in SUBSET H : At(u) \in WalkResults(c)
  BY DEF WalkResults
<1>3. \A a \in H : c[a].fedBy \in Seq(Feeders)
  BY ContentKinds
<1> HIDE DEF H, Left
<1> DEFINE done == {k \in Nat : \E R : WalkUpto(c, k, R)}
<1>4. 0 \in done
  <2> DEFINE R == [u \in SUBSET H |-> [a \in H |-> At(u)]]
  <2>1. R \in [SUBSET H -> [H -> WalkResults(c)]]
    BY <1>2
  <2>2. ASSUME NEW u \in SUBSET H, Left(u) <= 0, NEW a \in H
        PROVE  R[u][a] = WalkFrom(c, R, u, a) /\ u \subseteq R[u][a].visiting
    <3>1. a \in u
      <4> SUFFICES ASSUME a \notin u PROVE FALSE
        OBVIOUS
      <4>1. u \cup {a} \in SUBSET H /\ a \in H \ u
        OBVIOUS
      <4>2. Left(u \cup {a}) \in Nat /\ Left(u \cup {a}) = Left(u) - 1 /\ Left(u) \in Nat
        BY <1>1, <4>1
      <4> QED BY <2>2, <4>2
    <3> QED BY <3>1 DEF WalkFrom
  <2> HIDE DEF R
  <2>3. WalkUpto(c, 0, R)
    BY <2>1, <2>2 DEF WalkUpto, H, Left
  <2> QED BY <2>3
<1>5. ASSUME NEW k \in Nat, k \in done PROVE k + 1 \in done
  <2>1. PICK R : WalkUpto(c, k, R)
    BY <1>5
  <2>2. /\ R \in [SUBSET H -> [H -> WalkResults(c)]]
        /\ \A u \in SUBSET H : Left(u) <= k =>
              \A a \in H : R[u][a] = WalkFrom(c, R, u, a) /\ u \subseteq R[u][a].visiting
    BY <2>1 DEF WalkUpto, H, Left
  <2> DEFINE Q == [u \in SUBSET H |-> IF Left(u) = k + 1 THEN [a \in H |-> WalkFrom(c, R, u, a)] ELSE R[u]]
  <2>3. ASSUME NEW u \in SUBSET H, Left(u) <= k + 1, NEW a \in H
        PROVE  /\ WalkFrom(c, R, u, a) \in WalkResults(c)
               /\ u \subseteq WalkFrom(c, R, u, a).visiting
               /\ WalkFrom(c, Q, u, a) = WalkFrom(c, R, u, a)
    <3>1. CASE a \in u
      BY <1>2, <3>1 DEF WalkFrom
    <3>2. CASE a \notin u
      <4> DEFINE start == [scales |-> {}, visiting |-> u \cup {a}]
      <4>1. start \in WalkResults(c) /\ start.visiting = u \cup {a} /\ u \cup {a} \in SUBSET H
        BY DEF WalkResults, H
      <4>2. \A w \in SUBSET H : u \cup {a} \subseteq w => Left(w) <= k
        <5>1. a \in H \ u /\ u \cup {a} \in SUBSET H
          BY <3>2, <4>1
        <5>2. Left(u \cup {a}) = Left(u) - 1 /\ Left(u) \in Nat
          BY <1>1, <5>1
        <5>3. \A w \in SUBSET H : u \cup {a} \subseteq w => Left(w) <= Left(u \cup {a}) /\ Left(w) \in Nat
          BY <1>1, <5>1
        <5> SUFFICES ASSUME NEW w \in SUBSET H, u \cup {a} \subseteq w PROVE Left(w) <= k
          OBVIOUS
        <5>4. Left(w) <= Left(u) - 1 /\ Left(w) \in Nat /\ Left(u) <= k + 1
          BY <2>3, <5>2, <5>3
        <5> QED BY <5>2, <5>4
      <4> HIDE DEF start
      <4>3. Onward(c, R, start.visiting)
        BY <2>2, <4>1, <4>2 DEF Onward, H
      <4>4. \A w \in SUBSET H : start.visiting \subseteq w => \A b \in H : Q[w][b] = R[w][b]
        BY <4>1, <4>2
      <4>5. AlongFeeders(c, Q, start, c[a].fedBy) = AlongFeeders(c, R, start, c[a].fedBy)
        <5> HIDE DEF Q
        <5>1. SameFrom(c, Q, R, start.visiting)
          BY <4>4 DEF SameFrom, H
        <5>2. c[a].fedBy \in Seq(Feeders)
          BY <1>3
        <5> HIDE DEF At, done
        <5>3. start \in WalkResults(c)
          BY <4>1
        <5> QED BY <4>3, <5>1, <5>2, <5>3, AlongFeedersAgree, Zenon
      <4>6. AlongFeeders(c, R, start, c[a].fedBy) \in Beyond(c, start.visiting)
        <5> DEFINE n == Len(c[a].fedBy)
        <5>1. PICK g : Along(c, R, Beyond(c, start.visiting), start, c[a].fedBy, g)
          BY <1>3, <4>1, <4>3, AlongFeedersIsOnward DEF H
        <5>2. n \in 0 .. n
          BY <1>3
        <5> QED BY <5>1, <5>2 DEF Along
      <4> HIDE DEF Q
      <4> QED BY <3>2, <4>1, <4>5, <4>6 DEF WalkFrom, Beyond, start
    <3> QED BY <3>1, <3>2
  <2>4. Q \in [SUBSET H -> [H -> WalkResults(c)]]
    <3>1. ASSUME NEW u \in SUBSET H PROVE Q[u] \in [H -> WalkResults(c)]
      <4>1. CASE Left(u) = k + 1
        BY <1>1, <2>3, <4>1
      <4>2. CASE Left(u) # k + 1
        BY <2>2, <4>2
      <4> QED BY <4>1, <4>2
    <3>2. Q = [u \in SUBSET H |-> Q[u]]
      OBVIOUS
    <3> HIDE DEF Q
    <3> QED BY <3>1, <3>2
  <2>5. ASSUME NEW u \in SUBSET H, Left(u) <= k + 1, NEW a \in H
        PROVE  Q[u][a] = WalkFrom(c, Q, u, a) /\ u \subseteq Q[u][a].visiting
    <3>1. Q[u][a] = WalkFrom(c, R, u, a)
      <4>1. CASE Left(u) = k + 1
        BY <4>1
      <4>2. CASE Left(u) # k + 1
        <5>1. Left(u) <= k
          BY <1>1, <2>5, <4>2
        <5> QED BY <2>2, <4>2, <5>1
      <4> QED BY <4>1, <4>2
    <3> HIDE DEF Q
    <3> QED BY <2>3, <2>5, <3>1
  <2> HIDE DEF Q
  <2>6. WalkUpto(c, k + 1, Q)
    BY <2>4, <2>5 DEF WalkUpto, H, Left
  <2> QED BY <2>6
<1>6. Nat \subseteq done
  <2> HIDE DEF done
  <2> QED BY <1>4, <1>5, SetInduction
<1>7. Left({}) \in Nat /\ \A u \in SUBSET H : Left(u) <= Left({})
  BY <1>1
<1>8. PICK R : WalkUpto(c, Left({}), R)
  BY <1>6, <1>7
<1>9. /\ R \in [SUBSET H -> [H -> WalkResults(c)]]
      /\ \A u \in SUBSET H : \A a \in H : R[u][a] = WalkFrom(c, R, u, a)
  BY <1>7, <1>8 DEF WalkUpto, H, Left
<1>10. R = [u \in SUBSET H |-> [a \in H |-> WalkFrom(c, R, u, a)]]
  BY <1>9
<1> QED BY <1>10 DEF IsWalk, H

-----------------------------------------------------------------------------
\* A set of sets that holds whatever holds for all its strict supersets.
LEMMA SupersetInduction ==
    ASSUME NEW H, IsFiniteSet(H), NEW T,
           \A v \in SUBSET H : (\A w \in SUBSET H : v \subseteq w /\ w # v => w \in T) => v \in T
    PROVE  SUBSET H \subseteq T
<1> DEFINE Left(v) == Cardinality(H \ v)
           done == {k \in Nat : \A v \in SUBSET H : Left(v) <= k => v \in T}
<1>1. ASSUME NEW v \in SUBSET H PROVE Left(v) \in Nat
  BY FewerAreLeft
<1>2. ASSUME NEW v \in SUBSET H, NEW w \in SUBSET H, v \subseteq w, w # v PROVE Left(w) < Left(v)
  <2>1. PICK a \in w \ v : TRUE
    BY <1>2
  <2>2. v \cup {a} \in SUBSET H /\ v \cup {a} \subseteq w /\ a \in H \ v
    BY <1>2
  <2>3. Left(v \cup {a}) = Left(v) - 1 /\ Left(w) <= Left(v \cup {a})
    BY <2>2, FewerAreLeft
  <2>4. Left(v) \in Nat /\ Left(w) \in Nat
    BY <1>1
  <2> HIDE DEF Left
  <2> QED BY <2>3, <2>4
<1> HIDE DEF Left
<1>3. 0 \in done
  <2> SUFFICES ASSUME NEW v \in SUBSET H, Left(v) <= 0 PROVE v \in T
    OBVIOUS
  <2>1. \A w \in SUBSET H : v \subseteq w /\ w # v => FALSE
    BY <1>1, <1>2
  <2> QED BY <2>1
<1>4. ASSUME NEW k \in Nat, k \in done PROVE k + 1 \in done
  <2> SUFFICES ASSUME NEW v \in SUBSET H, Left(v) <= k + 1 PROVE v \in T
    OBVIOUS
  <2>1. ASSUME NEW w \in SUBSET H, v \subseteq w, w # v PROVE w \in T
    <3>1. Left(w) <= k
      BY <1>1, <1>2, <2>1
    <3> QED BY <1>4, <3>1
  <2> QED BY <2>1
<1>5. Nat \subseteq done
  <2> HIDE DEF done
  <2> QED BY <1>3, <1>4, SetInduction
<1> QED BY <1>1, <1>5

-----------------------------------------------------------------------------
\* The scales a feeder leads to at once, and those that the feeders of some
\* higher-scope awards do.
LedTo(c, feeder) ==
    IF feeder.kind = "class" THEN ScalesOf(c, {feeder.id}) ELSE ScalesOf(c, ClassesNaming(c, feeder.id))
LedToBy(c, S) == UNION {LedTo(c, f) : f \in UNION {Range(c[b].fedBy) : b \in S}}

FeedersIn(c, S, T) == \A b \in S : \A f \in Range(c[b].fedBy) : f.id \in HigherAwards(c) => f.id \in T

\* What a walk adds to the visited awards: a, whatever feeds what it adds, and
\* nothing but what feeds a; and the scales are those that they lead to.
Reached(c, visiting, a, result) ==
    /\ result \in WalkResults(c)
    /\ visiting \cup {a} \subseteq result.visiting
    /\ result.scales = LedToBy(c, result.visiting \ visiting)
    /\ FeedersIn(c, result.visiting \ visiting, result.visiting)
    /\ \A S \in SUBSET HigherAwards(c) :
          a \in S /\ FeedersIn(c, S, S) => result.visiting \ visiting \subseteq S

\* One feeder later.
LeadsOn(c, f, acc, next) ==
    /\ acc.visiting \subseteq next.visiting
    /\ next.scales = acc.scales \cup LedTo(c, f) \cup LedToBy(c, next.visiting \ acc.visiting)
    /\ FeedersIn(c, next.visiting \ acc.visiting, next.visiting)
    /\ f.id \in HigherAwards(c) => f.id \in next.visiting
    /\ \A S \in SUBSET HigherAwards(c) :
          FeedersIn(c, S, S) /\ (f.id \in HigherAwards(c) => f.id \in S)
             => next.visiting \ acc.visiting \subseteq S

LEMMA FeederReaches ==
    ASSUME NEW c, IsContent(c), NEW R, NEW u,
           \A w \in SUBSET HigherAwards(c) : u \subseteq w =>
               \A b \in HigherAwards(c) : Reached(c, w, b, R[w][b]),
           NEW acc \in Beyond(c, u), NEW f \in Feeders
    PROVE  LeadsOn(c, f, acc, AlongFeeder(c, R, acc, f))
<1> DEFINE next == AlongFeeder(c, R, acc, f)
           fed  == R[acc.visiting][f.id]
<1>1. acc.visiting \in SUBSET HigherAwards(c) /\ acc \in WalkResults(c) /\ u \subseteq acc.visiting
  BY DEF Beyond, WalkResults
<1>2. /\ acc.visiting \ acc.visiting = {}
      /\ LedToBy(c, {}) = {} /\ \A T : FeedersIn(c, {}, T)
  BY DEF LedToBy, FeedersIn
<1>3. CASE f.kind = "class"
  <2>1. f.id \notin HigherAwards(c)
    BY <1>3, ContentKinds, IdsAssumption DEF Feeders
  <2>2. next = [acc EXCEPT !.scales = @ \cup LedTo(c, f)]
    BY <1>3 DEF AlongFeeder, LedTo
  <2>3. next.visiting = acc.visiting /\ next.scales = acc.scales \cup LedTo(c, f)
    BY <1>1, <2>2 DEF WalkResults
  <2> HIDE DEF next
  <2>4. LeadsOn(c, f, acc, next)
    BY <1>2, <2>1, <2>3 DEF LeadsOn
  <2> QED BY <2>4 DEF next
<1>4. CASE f.kind # "class" /\ f.id \notin HigherAwards(c)
  <2>1. next = [[scales |-> {}, visiting |-> acc.visiting] EXCEPT !.scales = @ \cup acc.scales \cup LedTo(c, f)]
    BY <1>4 DEF AlongFeeder, LedTo, HigherAwards
  <2>2. next.visiting = acc.visiting /\ next.scales = acc.scales \cup LedTo(c, f)
    BY <2>1
  <2> HIDE DEF next
  <2>4. LeadsOn(c, f, acc, next)
    BY <1>2, <1>4, <2>2 DEF LeadsOn
  <2> QED BY <2>4 DEF next
<1>5. CASE f.kind # "class" /\ f.id \in HigherAwards(c)
  <2>1. Reached(c, acc.visiting, f.id, fed)
    BY <1>1, <1>5
  <2>2. next = [fed EXCEPT !.scales = @ \cup acc.scales \cup LedTo(c, f)]
    BY <1>5 DEF AlongFeeder, LedTo, HigherAwards
  <2> HIDE DEF fed, next
  <2>3. next.visiting = fed.visiting /\ next.scales = fed.scales \cup acc.scales \cup LedTo(c, f)
    BY <2>1, <2>2 DEF Reached, WalkResults
  <2>4. LeadsOn(c, f, acc, next)
    BY <1>5, <2>1, <2>3 DEF Reached, LeadsOn
  <2> QED BY <2>4 DEF next
<1> QED BY <1>3, <1>4, <1>5

LEMMA LedToByUnion ==
    ASSUME NEW c, NEW A, NEW B
    PROVE  LedToBy(c, A \cup B) = LedToBy(c, A) \cup LedToBy(c, B)
BY DEF LedToBy

LEMMA FeedersInUnion ==
    ASSUME NEW c, NEW A, NEW B, NEW T, NEW U, T \subseteq U, FeedersIn(c, A, T), FeedersIn(c, B, U)
    PROVE  FeedersIn(c, A \cup B, U)
BY DEF FeedersIn

LEMMA OfOne ==
    ASSUME NEW c, NEW a, c[a].fedBy \in Seq(Feeders), NEW T
    PROVE  /\ LedToBy(c, {a}) = UNION {LedTo(c, c[a].fedBy[j]) : j \in 1 .. Len(c[a].fedBy)}
           /\ (\A j \in 1 .. Len(c[a].fedBy) : c[a].fedBy[j].id \in HigherAwards(c) => c[a].fedBy[j].id \in T)
                 => FeedersIn(c, {a}, T)
           /\ \A S : a \in S /\ FeedersIn(c, S, S) => \A j \in 1 .. Len(c[a].fedBy) :
                 c[a].fedBy[j].id \in HigherAwards(c) => c[a].fedBy[j].id \in S
<1>1. Range(c[a].fedBy) = {c[a].fedBy[j] : j \in 1 .. Len(c[a].fedBy)}
  BY DEF Range
<1>2. LedToBy(c, {a}) = UNION {LedTo(c, f) : f \in Range(c[a].fedBy)}
  BY DEF LedToBy
<1>3. UNION {LedTo(c, f) : f \in Range(c[a].fedBy)}
        = UNION {LedTo(c, c[a].fedBy[j]) : j \in 1 .. Len(c[a].fedBy)}
  BY <1>1
<1> QED BY <1>1, <1>2, <1>3 DEF FeedersIn

\* What the walk from a has added after i of its feeders; u are the awards
\* visited before them.
Walked(c, u, a, i, acc) ==
    /\ acc.scales = LedToBy(c, acc.visiting \ u) \cup UNION {LedTo(c, c[a].fedBy[j]) : j \in 1 .. i}
    /\ FeedersIn(c, acc.visiting \ u, acc.visiting)
    /\ \A j \in 1 .. i : c[a].fedBy[j].id \in HigherAwards(c) => c[a].fedBy[j].id \in acc.visiting
    /\ \A S \in SUBSET HigherAwards(c) : a \in S /\ FeedersIn(c, S, S) => acc.visiting \ u \subseteq S

LEMMA WalkedOn ==
    ASSUME NEW c, NEW u, NEW a, c[a].fedBy \in Seq(Feeders), NEW i \in Nat, i + 1 <= Len(c[a].fedBy),
           NEW acc \in Beyond(c, u), NEW next, Walked(c, u, a, i, acc),
           LeadsOn(c, c[a].fedBy[i + 1], acc, next)
    PROVE  Walked(c, u, a, i + 1, next)
<1> DEFINE fs    == c[a].fedBy
           f     == fs[i + 1]
           old   == acc.visiting \ u
           added == next.visiting \ acc.visiting
<1>1. u \subseteq acc.visiting /\ acc.visiting \subseteq next.visiting
  BY DEF Beyond, LeadsOn
<1>2. next.visiting \ u = old \cup added
  BY <1>1
<1>3. 1 .. i + 1 = (1 .. i) \cup {i + 1}
  OBVIOUS
<1>4. i + 1 \in 1 .. Len(fs)
  OBVIOUS
<1> HIDE DEF old, added, f
<1>5. next.scales = LedToBy(c, old \cup added) \cup UNION {LedTo(c, fs[j]) : j \in 1 .. i + 1}
  <2>1. next.scales = acc.scales \cup LedTo(c, f) \cup LedToBy(c, added)
    BY DEF LeadsOn, f, added
  <2>2. acc.scales = LedToBy(c, old) \cup UNION {LedTo(c, fs[j]) : j \in 1 .. i}
    BY DEF Walked, old
  <2>3. UNION {LedTo(c, fs[j]) : j \in 1 .. i + 1} = LedTo(c, f) \cup UNION {LedTo(c, fs[j]) : j \in 1 .. i}
    BY <1>3 DEF f
  <2>4. LedToBy(c, old \cup added) = LedToBy(c, old) \cup LedToBy(c, added)
    BY LedToByUnion
  <2> QED BY <2>1, <2>2, <2>3, <2>4
<1>6. FeedersIn(c, old \cup added, next.visiting)
  <2>1. FeedersIn(c, old, acc.visiting) /\ FeedersIn(c, added, next.visiting)
    BY DEF Walked, LeadsOn, old, added
  <2> QED BY <1>1, <2>1, FeedersInUnion
<1>7. \A j \in 1 .. i + 1 : fs[j].id \in HigherAwards(c) => fs[j].id \in next.visiting
  <2>1. \A j \in 1 .. i : fs[j].id \in HigherAwards(c) => fs[j].id \in acc.visiting
    BY DEF Walked
  <2>2. f.id \in HigherAwards(c) => f.id \in next.visiting
    BY DEF LeadsOn, f
  <2> QED BY <1>1, <1>3, <2>1, <2>2 DEF f
<1>8. ASSUME NEW S \in SUBSET HigherAwards(c), a \in S, FeedersIn(c, S, S)
      PROVE  old \cup added \subseteq S
  <2>1. f.id \in HigherAwards(c) => f.id \in S
    BY <1>4, <1>8, OfOne DEF f
  <2>2. old \subseteq S
    BY <1>8 DEF Walked, old
  <2>3. added \subseteq S
    BY <1>8, <2>1 DEF LeadsOn, f, added
  <2> QED BY <2>2, <2>3
<1> QED BY <1>2, <1>5, <1>6, <1>7, <1>8 DEF Walked

\* By induction over the awards that are left to visit.
LEMMA WalkReaches ==
    ASSUME NEW c, IsContent(c), NEW R, IsWalk(c, R)
    PROVE  \A v \in SUBSET HigherAwards(c) : \A a \in HigherAwards(c) : Reached(c, v, a, R[v][a])
<1> DEFINE H == HigherAwards(c)
           T == {v \in SUBSET H : \A a \in H : Reached(c, v, a, R[v][a])}
<1>1. \A v \in SUBSET H : \A a \in H : R[v][a] = WalkFrom(c, R, v, a)
  <2>1. R = [v \in SUBSET H |-> [a \in H |-> WalkFrom(c, R, v, a)]]
    BY DEF IsWalk
  <2> QED BY <2>1
<1>2. IsFiniteSet(H) /\ \A a \in H : c[a].fedBy \in Seq(Feeders)
  BY HigherAwardsAreFinite, ContentKinds
<1> HIDE DEF H
<1>3. ASSUME NEW v \in SUBSET H, \A w \in SUBSET H : v \subseteq w /\ w # v => w \in T,
             NEW a \in H, a \in v
      PROVE  Reached(c, v, a, R[v][a])
  <2> DEFINE r == [scales |-> {}, visiting |-> v]
  <2>1. R[v][a] = r
    BY <1>1, <1>3 DEF WalkFrom
  <2>2. r \in WalkResults(c) /\ r.visiting = v /\ r.scales = {}
    BY DEF WalkResults, H
  <2>3. LedToBy(c, {}) = {} /\ FeedersIn(c, {}, v) /\ v \ v = {}
    BY DEF LedToBy, FeedersIn
  <2> HIDE DEF r
  <2>4. Reached(c, v, a, r)
    BY <1>3, <2>2, <2>3 DEF Reached
  <2> QED BY <2>1, <2>4
<1>4. ASSUME NEW v \in SUBSET H, \A w \in SUBSET H : v \subseteq w /\ w # v => w \in T,
             NEW a \in H, a \notin v
      PROVE  Reached(c, v, a, R[v][a])
  <2> DEFINE u     == v \cup {a}
             start == [scales |-> {}, visiting |-> u]
             fs    == c[a].fedBy
             n     == Len(fs)
             r     == R[v][a]
  <2>1. u \in SUBSET H /\ v \subseteq u /\ u # v
    BY <1>4
  <2>2. start \in WalkResults(c) /\ start.visiting = u /\ start.scales = {}
    BY <2>1 DEF WalkResults, H
  <2>3. r = AlongFeeders(c, R, start, fs)
    BY <1>1, <1>4 DEF WalkFrom
  <2> HIDE DEF u, start, r
  <2>4. \A w \in SUBSET H : u \subseteq w => \A b \in H : Reached(c, w, b, R[w][b])
    <3> SUFFICES ASSUME NEW w \in SUBSET H, u \subseteq w PROVE w \in T
      OBVIOUS
    <3>1. v \subseteq w /\ w # v
      BY <1>4, <2>1 DEF u
    <3> QED BY <1>4, <3>1
  <2>5. Onward(c, R, u)
    <3> HIDE DEF T
    <3> QED BY <2>4 DEF Onward, H, Reached
  <2>6. fs \in Seq(Feeders) /\ n \in Nat
    BY <1>2
  <2> HIDE DEF T
  <2>7. PICK g : Along(c, R, Beyond(c, u), start, fs, g)
    <3> HIDE DEF fs
    <3> QED BY <2>2, <2>5, <2>6, AlongFeedersIsOnward
  <2>8. g[0] = start /\ g[n] = r
    BY <2>3, <2>7 DEF Along
  <2> DEFINE done == {k \in Nat : k <= n => Walked(c, u, a, k, g[k])}
  <2>9. 0 \in done
    <3>1. u \ u = {} /\ LedToBy(c, {}) = {} /\ FeedersIn(c, {}, u) /\ 1 .. 0 = {}
      BY DEF LedToBy, FeedersIn
    <3>2. Walked(c, u, a, 0, start)
      BY <2>2, <3>1 DEF Walked
    <3> QED BY <2>8, <3>2
  <2>10. ASSUME NEW k \in Nat, k \in done PROVE k + 1 \in done
    <3> SUFFICES ASSUME k + 1 <= n PROVE Walked(c, u, a, k + 1, g[k + 1])
      OBVIOUS
    <3>1. k + 1 \in 1 .. n /\ (k + 1) - 1 = k /\ k \in 0 .. n /\ k <= n
      BY <2>6
    <3>2. g[k] \in Beyond(c, u) /\ g[k + 1] = AlongFeeder(c, R, g[k], fs[k + 1])
      BY <2>7, <3>1 DEF Along
    <3>3. fs[k + 1] \in Feeders
      BY <2>6, <3>1
    <3>4. LeadsOn(c, fs[k + 1], g[k], g[k + 1])
      <4> HIDE DEF fs, done
      <4>1. \A w \in SUBSET HigherAwards(c) : u \subseteq w =>
                \A b \in HigherAwards(c) : Reached(c, w, b, R[w][b])
        BY <2>4 DEF H
      <4>2. LeadsOn(c, fs[k + 1], g[k], AlongFeeder(c, R, g[k], fs[k + 1]))
        BY <4>1, <3>2, <3>3, FeederReaches
      <4> QED BY <3>2, <4>2
    <3>5. Walked(c, u, a, k, g[k])
      BY <2>10, <3>1
    <3> QED BY <2>6, <3>2, <3>4, <3>5, WalkedOn
  <2>11. Walked(c, u, a, n, r)
    <3>1. n \in done
      <4> HIDE DEF done, n
      <4> QED BY <2>6, <2>9, <2>10, SetInduction
    <3> QED BY <2>8, <3>1
  <2>12. r \in WalkResults(c) /\ u \subseteq r.visiting
    <3>1. g[n] \in Beyond(c, u)
      <4>1. n \in 0 .. n
        BY <2>6
      <4> QED BY <2>7, <4>1 DEF Along
    <3> QED BY <2>8, <3>1 DEF Beyond
  <2>13. r.visiting \ v = (r.visiting \ u) \cup {a}
    BY <1>4, <2>12 DEF u
  <2> HIDE DEF done
  <2>14. r.scales = LedToBy(c, r.visiting \ v)
    <3>1. LedToBy(c, {a}) = UNION {LedTo(c, fs[j]) : j \in 1 .. n}
      BY <2>6, OfOne
    <3>2. LedToBy(c, (r.visiting \ u) \cup {a}) = LedToBy(c, r.visiting \ u) \cup LedToBy(c, {a})
      BY LedToByUnion
    <3> QED BY <2>11, <2>13, <3>1, <3>2 DEF Walked
  <2>15. FeedersIn(c, r.visiting \ v, r.visiting)
    <3>1. FeedersIn(c, r.visiting \ u, r.visiting)
      BY <2>11 DEF Walked
    <3>2. FeedersIn(c, {a}, r.visiting)
      BY <2>6, <2>11, OfOne DEF Walked
    <3> QED BY <2>13, <3>1, <3>2, FeedersInUnion
  <2>16. \A S \in SUBSET H : a \in S /\ FeedersIn(c, S, S) => r.visiting \ v \subseteq S
    BY <2>11, <2>13 DEF Walked, H
  <2>17. v \cup {a} \subseteq r.visiting
    BY <2>12 DEF u
  <2>18. Reached(c, v, a, r)
    BY <2>12, <2>14, <2>15, <2>16, <2>17 DEF Reached, H
  <2> QED BY <2>18 DEF r
<1>5. ASSUME NEW v \in SUBSET H, \A w \in SUBSET H : v \subseteq w /\ w # v => w \in T
      PROVE  v \in T
  <2>1. \A a \in H : Reached(c, v, a, R[v][a])
    <3> HIDE DEF T
    <3> QED BY <1>3, <1>4, <1>5
  <2> QED BY <2>1
<1>6. SUBSET H \subseteq T
  <2> HIDE DEF T
  <2> QED BY <1>2, <1>5, SupersetInduction
<1> QED BY <1>6 DEF H

\* The code's walk: it stops, and what it returns is what the feeders lead to.
LEMMA WalkIsExhaustive ==
    ASSUME NEW c, IsContent(c), NEW award \in HigherAwards(c)
    PROVE  ReachableScales(c, award) = ScalesUsedWith(c, award)
<1> DEFINE H == HigherAwards(c)
           R == CHOOSE r : IsWalk(c, r)
           visited == R[{}][award].visiting
<1>1. IsWalk(c, R)
  BY WalkExists
<1>2. ReachableScales(c, award) = R[{}][award].scales
  BY Zenon DEF ReachableScales, IsWalk, WalkFrom, HigherAwards
<1> HIDE DEF R
<1>3. Reached(c, {}, award, R[{}][award])
  BY <1>1, WalkReaches
<1>4. /\ visited \in SUBSET H /\ award \in visited /\ FeedersIn(c, visited, visited)
      /\ R[{}][award].scales = LedToBy(c, visited)
      /\ \A S \in SUBSET H : award \in S /\ FeedersIn(c, S, S) => visited \subseteq S
  <2>1. visited \ {} = visited
    OBVIOUS
  <2> QED BY <1>3, <2>1 DEF Reached, WalkResults
<1> HIDE DEF visited
<1> DEFINE Closed(S) == \A a \in S, f \in Feeders :
               f \in Range(c[a].fedBy) /\ f.id \in OfKind(c, {"higher"}) => f.id \in S
<1>5. \A a \in H : Range(c[a].fedBy) \subseteq Feeders
  BY ContentKinds DEF Range
<1>6. \A S \in SUBSET H : Closed(S) <=> FeedersIn(c, S, S)
  BY <1>5 DEF FeedersIn, HigherAwards
<1>7. FeedingAwards(c, award) = {a \in H : \A S \in SUBSET H : award \in S /\ Closed(S) => a \in S}
  BY DEF FeedingAwards, HigherAwards
<1> HIDE DEF Closed
<1>8. FeedingAwards(c, award) = visited
  <2>1. visited \subseteq {a \in H : \A S \in SUBSET H : award \in S /\ Closed(S) => a \in S}
    BY <1>4, <1>6
  <2>2. {a \in H : \A S \in SUBSET H : award \in S /\ Closed(S) => a \in S} \subseteq visited
    BY <1>4, <1>6
  <2> QED BY <1>7, <2>1, <2>2
<1> DEFINE feeders == UNION {Range(c[a].fedBy) : a \in visited}
           named(f) == {k \in OfKind(c, {"class"}) : f.id = k \/ f.id \in c[k].awards}
<1>9. feeders \subseteq Feeders
  BY <1>4, <1>5
<1>10. ASSUME NEW f \in Feeders PROVE LedTo(c, f) = {c[k].scale : k \in named(f)}
  <2>1. CASE f.kind = "class"
    <3>1. \A k \in OfKind(c, {"class"}) : f.id \notin c[k].awards
      BY <2>1, ContentKinds, IdsAssumption DEF Feeders
    <3>2. {f.id} \cap OfKind(c, {"class"}) = named(f)
      BY <3>1
    <3> HIDE DEF named
    <3> QED BY <2>1, <3>2 DEF LedTo, ScalesOf
  <2>2. CASE f.kind # "class"
    <3>1. \A k \in OfKind(c, {"class"}) : f.id # k
      BY <2>2, ContentKinds, IdsAssumption DEF Feeders
    <3>2. ClassesNaming(c, f.id) \cap OfKind(c, {"class"}) = named(f)
      BY <3>1 DEF ClassesNaming
    <3> HIDE DEF named
    <3> QED BY <2>2, <3>2 DEF LedTo, ScalesOf
  <2> QED BY <2>1, <2>2
<1>11. LedToBy(c, visited) = UNION {LedTo(c, f) : f \in feeders}
  BY DEF LedToBy
<1>12. ScalesUsedWith(c, award)
         = {c[k].scale : k \in {k \in OfKind(c, {"class"}) : \E f \in feeders : f.id = k \/ f.id \in c[k].awards}}
  BY <1>8 DEF ScalesUsedWith
<1> HIDE DEF feeders
<1>13. UNION {LedTo(c, f) : f \in feeders} = UNION {{c[k].scale : k \in named(f)} : f \in feeders}
  BY <1>9, <1>10
<1> QED BY <1>2, <1>4, <1>11, <1>12, <1>13

\* Whatever content is pinned, the walk finds every scale that the feeders of
\* an award lead to (reachableGradeScaleIds, effective-ruleset.ts :388-442).
THEOREM WalkFindsAll == Spec => []WalkFindsEveryScale
<1>1. TypeOK => WalkFindsEveryScale
  BY WalkIsExhaustive DEF TypeOK, WalkFindsEveryScale, HigherAwards
<1> QED BY <1>1, PinnedRulesAreTheLatest, PTL

\* What is left of "resolves on every grade scale it is used with"
\* (effective-ruleset.ts :108-113): on one of them, unless it is used with none.
MinimumOnSomeScale ==
    show.outcome = "ok" => LET c == show.content IN
        \A award \in OfKind(c, {"higher"}) :
            ScalesUsedWith(c, award) = {} \/ \E scale \in ScalesUsedWith(c, award) : ResolvesOn(c, award, scale)

\* The guarantee validateReferences gives for a higher-scope award, said of the
\* feeders instead of the walk (effective-ruleset.ts :355-386).
THEOREM SomeScaleIsEnough == Spec => []MinimumOnSomeScale
<1>1. TypeOK /\ PinnedIsSound => MinimumOnSomeScale
  <2> SUFFICES ASSUME TypeOK, PinnedIsSound, show.outcome = "ok",
                      NEW award \in OfKind(show.content, {"higher"})
               PROVE  \/ ScalesUsedWith(show.content, award) = {}
                      \/ \E scale \in ScalesUsedWith(show.content, award) :
                            ResolvesOn(show.content, award, scale)
    BY DEF MinimumOnSomeScale
  <2> DEFINE c == show.content
             ofClasses == UNION {ClassErrors(c, class) : class \in OfKind(c, {"class"})}
             ofAwards  == UNION {HigherScopeErrors(c, a) : a \in OfKind(c, {"higher"})}
  <2>1. ReferenceErrors(c) = IF ofClasses # {} THEN ofClasses ELSE ofAwards
    BY DEF ReferenceErrors
  <2>2. ofAwards = {}
    <3> HIDE DEF ofClasses, ofAwards
    <3> QED BY <2>1 DEF PinnedIsSound
  <2>3. HigherScopeErrors(c, award) = {}
    BY <2>2
  <2>4. ReachableScales(c, award) = ScalesUsedWith(c, award)
    BY WalkIsExhaustive DEF TypeOK, HigherAwards
  <2> DEFINE scales == ReachableScales(c, award)
             unresolved == scales # {} /\ \A scale \in scales : ~ResolvesOn(c, award, scale)
  <2>5. HigherScopeErrors(c, award) = IF unresolved THEN {"UnknownMinimumGradeReference"} ELSE {}
    BY DEF HigherScopeErrors
  <2>6. ~unresolved
    <3> HIDE DEF unresolved
    <3> QED BY <2>3, <2>5
  <2> QED BY <2>4, <2>6
<1> QED BY <1>1, InitRulesetInv, NextRulesetInv, PTL DEF Spec, RulesetInv
=============================================================================
