------------------------- MODULE FciAwardPolicyProofs -------------------------
(* What the two answers of the award policy have to do with each other, for *)
(* every ruleset, every breed and every result.                             *)
EXTENDS FciAwardPolicy, EffectiveRulesetProofs

-----------------------------------------------------------------------------
\* The candidates of a stream are dogs; at breed scope its sex is theirs.
LEMMA StreamsAreOfOneSex ==
    ASSUME NEW c, NEW kind, NEW s \in Streams(c, kind)
    PROVE  /\ \A dog \in s.dogs : dog \in Dogs
           /\ kind = "breed" => s.sex \in Sexes /\ \A dog \in s.dogs : SexOf[dog] = s.sex
<1> DEFINE feeders == UNION {Range(c[award].fedBy) : award \in OfScope(c, kind)}
           sexes   == IF kind = "breed" THEN Sexes ELSE {None}
           Stream(feeder, sex) ==
               [feeder |-> feeder, sex |-> sex,
                dogs |-> {dog \in Qualified(feeder) : kind = "breed" => SexOf[dog] = sex}]
<1>1. PICK feeder \in feeders, sex \in sexes : s = Stream(feeder, sex)
  <2>1. s \in {Stream(feeder, sex) : feeder \in feeders, sex \in sexes}
    BY DEF Streams
  <2> HIDE DEF feeders, sexes, Stream
  <2> QED BY <2>1
<1>2. s.sex = sex /\ s.dogs = {dog \in Qualified(feeder) : kind = "breed" => SexOf[dog] = sex}
  BY <1>1
<1>3. \A dog \in Qualified(feeder) : dog \in Dogs
  BY DEF Qualified
<1> QED BY <1>2, <1>3

\* A candidate of an award that meets its minimum may be proposed for it, and
\* whatever may be proposed is such a candidate.
LEMMA QualifyingCandidatesAreValid ==
    ASSUME NEW c, NEW kind, NEW streams, NEW award \in OfScope(c, kind),
           NEW s \in MatchedStreams(c, award, streams), NEW dog \in s.dogs,
           MeetsMinimum(c, results[dog].grade, c[award].minimum)
    PROVE  ValidHigherScopeAssignment(c, kind, streams, [award |-> award, dog |-> dog])
BY DEF ValidHigherScopeAssignment

\* An eligible award has a candidate, at breed scope one of either sex.
LEMMA EligibleAwardsHaveCandidates ==
    ASSUME NEW c, NEW kind, NEW award \in HigherScopeEligible(c, kind, Streams(c, kind))
    PROVE  /\ \E dog \in Dogs :
                 ValidHigherScopeAssignment(c, kind, Streams(c, kind), [award |-> award, dog |-> dog])
           /\ kind = "breed" => \A sex \in Sexes : \E s \in Streams(c, kind) : \E dog \in s.dogs :
                 /\ s.sex = sex
                 /\ ValidHigherScopeAssignment(c, kind, Streams(c, kind), [award |-> award, dog |-> dog])
<1> DEFINE streams == Streams(c, kind)
           qualifying == {m \in MatchedStreams(c, award, streams) : StreamHasQualifying(c, award, m)}
<1>1. award \in OfScope(c, kind) /\ AwardIsEligible(c, award, streams)
  BY DEF HigherScopeEligible
<1>2. \A s \in qualifying : \E dog \in s.dogs :
          ValidHigherScopeAssignment(c, kind, streams, [award |-> award, dog |-> dog])
  BY <1>1, QualifyingCandidatesAreValid DEF StreamHasQualifying
<1>3. \A s \in streams : \A dog \in s.dogs : dog \in Dogs
  BY StreamsAreOfOneSex
<1>4. qualifying \subseteq streams
  BY DEF MatchedStreams
<1>5. qualifying # {}
  BY <1>1 DEF AwardIsEligible
<1>6. ASSUME kind = "breed", NEW sex \in Sexes PROVE \E s \in qualifying : s.sex = sex
  BY <1>1, <1>6 DEF AwardIsEligible, OfScope
<1> QED BY <1>2, <1>3, <1>4, <1>5, <1>6

\* A set of at most two elements is empty, a singleton or a pair.
LEMMA AtMostTwo ==
    ASSUME NEW S, IsFiniteSet(S), Cardinality(S) <= 2
    PROVE  S = {} \/ \E a, b \in S : S = {a, b}
<1>1. CASE S = {} BY <1>1
<1>2. CASE S # {}
  <2>1. PICK a \in S : TRUE BY <1>2
  <2>2. /\ IsFiniteSet(S \ {a}) /\ Cardinality(S \ {a}) = Cardinality(S) - 1
        /\ Cardinality(S) \in Nat /\ Cardinality(S \ {a}) \in Nat
    BY <2>1, FS_RemoveElement, FS_CardinalityType
  <2>3. CASE S \ {a} = {} BY <2>1, <2>3
  <2>4. CASE S \ {a} # {}
    <3>1. PICK b \in S \ {a} : TRUE BY <2>4
    <3>2. /\ IsFiniteSet((S \ {a}) \ {b}) /\ Cardinality((S \ {a}) \ {b}) = Cardinality(S \ {a}) - 1
          /\ Cardinality((S \ {a}) \ {b}) \in Nat
      BY <2>2, <3>1, FS_RemoveElement, FS_CardinalityType
    <3>3. Cardinality((S \ {a}) \ {b}) = 0 BY <2>2, <3>2
    <3>4. (S \ {a}) \ {b} = {} BY <3>2, <3>3, FS_EmptySet
    <3> QED BY <2>1, <3>1, <3>4
  <2> QED BY <2>3, <2>4
<1> QED BY <1>1, <1>2

-----------------------------------------------------------------------------
\* An award is offered exactly when validateAwardChoices would take a dog for it,
\* at breed scope dogs of both sexes, for every ruleset and all results
\* (fci-award-policy.ts :294-322, :396-454).
THEOREM OffersMatchTakers == JudgingSpec => []OfferedMeansAcceptable
<1>1. OfferedMeansAcceptable
  <2> SUFFICES ASSUME NEW kind \in HigherScopes
               PROVE  LET streams == Streams(snapshot, kind)
                          Takers(award) == {dog \in Dogs :
                              ValidHigherScopeAssignment(snapshot, kind, streams,
                                                         [award |-> award, dog |-> dog])}
                      IN HigherScopeEligible(snapshot, kind, streams) =
                            {award \in Awards :
                                /\ Takers(award) # {}
                                /\ kind = "breed" => {SexOf[dog] : dog \in Takers(award)} = Sexes}
    BY DEF OfferedMeansAcceptable
  <2> DEFINE streams == Streams(snapshot, kind)
             offered == HigherScopeEligible(snapshot, kind, streams)
             Takes(award, dog) ==
                 ValidHigherScopeAssignment(snapshot, kind, streams, [award |-> award, dog |-> dog])
             Takers(award) == {dog \in Dogs : Takes(award, dog)}
             Taken(award) == /\ Takers(award) # {}
                             /\ kind = "breed" => {SexOf[dog] : dog \in Takers(award)} = Sexes
  <2>1. ASSUME NEW award \in offered PROVE award \in Awards /\ Taken(award)
    <3>1. award \in Awards
      BY DEF HigherScopeEligible, OfScope
    <3>2. \E dog \in Dogs : Takes(award, dog)
      BY EligibleAwardsHaveCandidates
    <3>3. ASSUME kind = "breed", NEW sex \in Sexes
          PROVE  \E dog \in Dogs : Takes(award, dog) /\ SexOf[dog] = sex
      <4>1. PICK s \in streams : \E dog \in s.dogs : s.sex = sex /\ Takes(award, dog)
        BY <3>3, EligibleAwardsHaveCandidates
      <4>2. \A dog \in s.dogs : dog \in Dogs /\ SexOf[dog] = s.sex
        BY <3>3, StreamsAreOfOneSex
      <4> QED BY <4>1, <4>2
    <3>4. \A dog \in Dogs : SexOf[dog] \in Sexes
      BY SexAssumption
    <3> HIDE DEF Takes, offered
    <3> QED BY <3>1, <3>2, <3>3, <3>4
  <2>2. ASSUME NEW award \in Awards, Taken(award) PROVE award \in offered
    <3> DEFINE sexes == {s.sex : s \in {m \in MatchedStreams(snapshot, award, streams) :
                                           StreamHasQualifying(snapshot, award, m)}}
    <3>1. ASSUME NEW dog \in Dogs, Takes(award, dog)
          PROVE  /\ award \in OfScope(snapshot, kind)
                 /\ \E s \in streams : dog \in s.dogs /\ s.sex \in sexes
      BY <3>1 DEF ValidHigherScopeAssignment, StreamHasQualifying, MatchedStreams
    <3>2. award \in OfScope(snapshot, kind) /\ sexes # {}
      <4> HIDE DEF sexes, Takes, streams
      <4> QED BY <2>2, <3>1
    <3>3. ASSUME kind = "breed" PROVE sexes = Sexes
      <4>1. \A s \in streams : s.sex \in Sexes /\ \A dog \in s.dogs : SexOf[dog] = s.sex
        BY <3>3, StreamsAreOfOneSex
      <4>2. sexes \subseteq Sexes
        BY <4>1 DEF MatchedStreams
      <4>3. ASSUME NEW sex \in Sexes PROVE sex \in sexes
        <5>1. PICK dog \in Takers(award) : SexOf[dog] = sex
          <6> HIDE DEF Takers
          <6> QED BY <2>2, <3>3, <4>3
        <5>2. PICK s \in streams : dog \in s.dogs /\ s.sex \in sexes
          BY <3>1, <5>1
        <5> QED BY <4>1, <5>1, <5>2
      <4> QED BY <4>2, <4>3
    <3> QED BY <3>2, <3>3 DEF HigherScopeEligible, AwardIsEligible, OfScope
  <2> HIDE DEF Takers, offered
  <2>3. offered = {award \in Awards : Taken(award)}
    BY <2>1, <2>2
  <2> QED BY <2>3 DEF Takers, offered
<1> QED BY <1>1, PTL

\* Two dogs given two awards, from streams of either sex, keep the breed rule.
LEMMA OppositeSexesMayWin ==
    ASSUME NEW c, NEW a, NEW b, NEW s \in Streams(c, "breed"), NEW t \in Streams(c, "breed"),
           s.sex = "male", t.sex = "female", NEW dog \in s.dogs, NEW bitch \in t.dogs
    PROVE  BreedScopeInvariants(Streams(c, "breed"),
               {[award |-> a, dog |-> dog], [award |-> b, dog |-> bitch]})
<1> DEFINE streams == Streams(c, "breed")
           p == [award |-> a, dog |-> dog]
           q == [award |-> b, dog |-> bitch]
           sexes == {m.sex : m \in {n \in streams : \E r \in {p, q} : r.dog \in n.dogs}}
<1>1. p.dog # q.dog
  BY StreamsAreOfOneSex
<1>2. \A m \in streams : m.sex \in Sexes
  BY StreamsAreOfOneSex
<1>3. s.sex \in sexes /\ t.sex \in sexes
  OBVIOUS
<1>4. sexes = Sexes
  BY <1>2, <1>3 DEF Sexes
<1>5. \A x, y \in {p, q} : x.dog = y.dog => x = y
  BY <1>1
<1> QED BY <1>4, <1>5 DEF BreedScopeInvariants

\* A single award keeps the breed rule whoever wins it.
LEMMA OneMayWin ==
    ASSUME NEW streams, NEW p
    PROVE  BreedScopeInvariants(streams, {p}) /\ BreedScopeInvariants(streams, {})
<1>1. Cardinality({p}) = 1 /\ Cardinality({}) = 0
  BY FS_Singleton, FS_EmptySet
<1> QED BY <1>1 DEF BreedScopeInvariants

\* However the results fall, the judge has winners the policy accepts for all
\* the awards that are due, at breed scope for as many as two: the offer asks
\* for both sexes where the choices ask for opposite ones (:329-357, :372-389,
\* :396-418).
THEOREM JudgeCanGoOn == JudgingSpec => []JudgeIsNeverStuck
<1>1. JudgeIsNeverStuck
  <2> DEFINE streams == Streams(snapshot, scope)
             offered == HigherScopeEligible(snapshot, scope, streams)
             due     == {award \in offered : ~snapshot[award].discretionary}
             Choice(award, dog) == [award |-> award, dog |-> dog]
             Valid(award, dog)  ==
                 ValidHigherScopeAssignment(snapshot, scope, streams, Choice(award, dog))
             WinnersOf(winner) == {Choice(award, winner[award]) : award \in due}
  <2> SUFFICES ASSUME scope \in HigherScopes, scope = "breed" => Cardinality(due) <= 2
               PROVE  \E winner \in [due -> Dogs] :
                          ValidateHigherScope(snapshot, scope, streams, WinnersOf(winner))
    BY DEF JudgeIsNeverStuck
  <2>1. due \subseteq Awards
    BY DEF HigherScopeEligible, OfScope
  <2>2. \A award \in due : \E dog \in Dogs : Valid(award, dog)
    BY EligibleAwardsHaveCandidates
  <2>3. ASSUME NEW winner \in [due -> Dogs], \A award \in due : Valid(award, winner[award]),
               scope = "breed" => BreedScopeInvariants(streams, WinnersOf(winner))
        PROVE  ValidateHigherScope(snapshot, scope, streams, WinnersOf(winner))
    <3>1. \A award \in due : Choice(award, winner[award]) \in WinnersOf(winner)
                            /\ Choice(award, winner[award]).award = award
      <4> HIDE DEF due
      <4> QED OBVIOUS
    <3>2. RequireNonDiscretionary(snapshot, scope, streams, WinnersOf(winner))
      <4> HIDE DEF WinnersOf
      <4> QED BY <3>1 DEF RequireNonDiscretionary
    <3>3. \A p \in WinnersOf(winner) : ValidHigherScopeAssignment(snapshot, scope, streams, p)
      BY <2>3
    <3> HIDE DEF WinnersOf
    <3> QED BY <2>3, <3>2, <3>3 DEF ValidateHigherScope
  <2>4. CASE scope # "breed"
    <3> DEFINE winner == [award \in due |-> CHOOSE dog \in Dogs : Valid(award, dog)]
    <3>1. winner \in [due -> Dogs] /\ \A award \in due : Valid(award, winner[award])
      <4> HIDE DEF Valid, due
      <4> QED BY <2>2
    <3> QED BY <2>3, <2>4, <3>1
  <2>5. ASSUME scope = "breed", NEW a \in due, NEW b \in due, due = {a, b}
        PROVE  \E winner \in [due -> Dogs] :
                   ValidateHigherScope(snapshot, scope, streams, WinnersOf(winner))
    <3>1. PICK s \in streams : s.sex = "male" /\ \E dog \in s.dogs : Valid(a, dog)
      BY <2>5, EligibleAwardsHaveCandidates DEF Sexes
    <3>2. PICK t \in streams : t.sex = "female" /\ \E dog \in t.dogs : Valid(b, dog)
      BY <2>5, EligibleAwardsHaveCandidates DEF Sexes
    <3>3. PICK d \in s.dogs : Valid(a, d)
      BY <3>1
    <3>4. PICK e \in t.dogs : Valid(b, e)
      BY <3>2
    <3> DEFINE winner == [award \in due |-> IF award = a THEN d ELSE e]
    <3>5. d \in Dogs /\ e \in Dogs
      BY StreamsAreOfOneSex
    <3>6. winner \in [due -> Dogs] /\ winner[a] = d /\ (b # a => winner[b] = e)
      BY <3>5
    <3>7. \A award \in due : Valid(award, winner[award])
      <4> HIDE DEF Valid, winner, due
      <4> QED BY <2>5, <3>3, <3>4, <3>6
    <3>8. WinnersOf(winner) = {Choice(a, winner[a]), Choice(b, winner[b])}
      <4> HIDE DEF Choice, winner, due
      <4> QED BY <2>5
    <3>9. BreedScopeInvariants(streams, WinnersOf(winner))
      <4>1. CASE a = b
        <5>1. WinnersOf(winner) = {Choice(a, d)}
          BY <3>6, <3>8, <4>1
        <5> QED BY <5>1, OneMayWin
      <4>2. CASE a # b
        <5>1. WinnersOf(winner) = {Choice(a, d), Choice(b, e)}
          BY <3>6, <3>8, <4>2
        <5>2. s \in Streams(snapshot, "breed") /\ t \in Streams(snapshot, "breed")
          BY <2>5
        <5>3. d \in s.dogs /\ e \in t.dogs /\ s.sex = "male" /\ t.sex = "female"
          BY <3>1, <3>2, <3>3, <3>4
        <5>4. BreedScopeInvariants(Streams(snapshot, "breed"), {Choice(a, d), Choice(b, e)})
          BY <5>2, <5>3, OppositeSexesMayWin
        <5> HIDE DEF Choice, WinnersOf, winner
        <5> QED BY <2>5, <5>1, <5>4
      <4> QED BY <4>1, <4>2
    <3> QED BY <2>3, <3>6, <3>7, <3>9
  <2>6. CASE scope = "breed"
    <3>1. due = {} \/ \E a, b \in due : due = {a, b}
      <4>1. IsFiniteSet(due)
        BY <2>1, AwardsAssumption, FS_Subset
      <4> HIDE DEF due
      <4> QED BY <2>6, <4>1, AtMostTwo
    <3>2. CASE due = {}
      <4>1. [award \in {} |-> None] \in [due -> Dogs]
        BY <3>2
      <4>2. WinnersOf([award \in {} |-> None]) = {}
        BY <3>2
      <4> QED BY <2>3, <3>2, <4>1, <4>2, OneMayWin
    <3> QED BY <2>5, <2>6, <3>1, <3>2
  <2> QED BY <2>4, <2>6
<1> QED BY <1>1, PTL

-----------------------------------------------------------------------------
\* Awards wait for the last class: what MoreResultsNeverDisqualify needs beyond
\* the types, because a dog that held an award could still be regraded.
ClassesComeFirst ==
    /\ scope \in Sexes \cup HigherScopes \cup {"over"}
    /\ results \in [Dogs -> ClassPlacement \cup {None}]
    /\ scope = "male" => awarded = {}

LEMMA ClassesComeFirstAlways == JudgingSpec => []ClassesComeFirst
<1>1. JudgingInit => ClassesComeFirst
  BY DEF JudgingInit, ClassesComeFirst, Sexes
<1>2. ClassesComeFirst /\ [JudgingNext]_judgingVars => ClassesComeFirst'
  <2> SUFFICES ASSUME ClassesComeFirst, [JudgingNext]_judgingVars PROVE ClassesComeFirst'
    OBVIOUS
  <2>1. CASE UNCHANGED judging
    BY <2>1 DEF ClassesComeFirst, judging
  <2>2. CASE OpenShow
    BY <2>2 DEF ClassesComeFirst, OpenShow
  <2>3. ASSUME NEW dog \in Dogs, NEW placed \in ClassPlacement, JudgeClass(dog, placed)
        PROVE  ClassesComeFirst'
    BY <2>3 DEF ClassesComeFirst, JudgeClass
  <2>4. ASSUME NEW proposed \in Proposals, ChooseAwards(proposed) PROVE ClassesComeFirst'
    <3>1. scope \in {"male", "female", "breed", "group", "show"}
          /\ scope' = ScopeAfter[scope] /\ results' = results
      BY <2>4 DEF ClassesComeFirst, ChooseAwards, Sexes, HigherScopes
    <3>2. scope' \in {"female", "breed", "group", "show", "over"}
      BY <3>1 DEF ScopeAfter
    <3> QED BY <3>1, <3>2 DEF ClassesComeFirst, Sexes, HigherScopes
  <2>5. CASE UNCHANGED judgingVars
    BY <2>5 DEF ClassesComeFirst, judgingVars, judging
  <2> QED BY <2>1, <2>2, <2>3, <2>4, <2>5 DEF JudgingNext
<1> QED BY <1>1, <1>2, PTL DEF JudgingSpec

\* A class result leaves every other result as it is.
LEMMA OthersKeepTheirResult ==
    ASSUME ClassesComeFirst, NEW dog \in Dogs, NEW placed \in ClassPlacement,
           JudgeClass(dog, placed), NEW other \in Dogs, results[other] # None
    PROVE  results'[other] = results[other]
BY DEF ClassesComeFirst, JudgeClass

\* A feeder goes on qualifying the dogs it qualified, with their grades.
LEMMA FeedersKeepTheirDogs ==
    ASSUME ClassesComeFirst, NEW dog \in Dogs, NEW placed \in ClassPlacement,
           JudgeClass(dog, placed), NEW feeder, NEW other \in Qualified(feeder)
    PROVE  other \in Qualified(feeder)' /\ results'[other] = results[other]
<1>1. awarded = {} /\ awarded' = {}
  BY DEF ClassesComeFirst, JudgeClass
<1>2. other \in Dogs /\ feeder.kind # "award" /\ results[other] # None
  BY <1>1 DEF Qualified
<1> QED BY <1>2, OthersKeepTheirResult DEF Qualified

\* Every stream is continued by one with the same key and no candidate less.
LEMMA StreamsGrow ==
    ASSUME ClassesComeFirst, NEW dog \in Dogs, NEW placed \in ClassPlacement,
           JudgeClass(dog, placed), NEW kind, NEW s \in Streams(snapshot, kind)
    PROVE  \E t \in Streams(snapshot, kind)' :
              /\ t.feeder = s.feeder /\ t.sex = s.sex
              /\ \A other \in s.dogs : other \in t.dogs /\ results'[other] = results[other]
<1> DEFINE feeders == UNION {Range(snapshot[award].fedBy) : award \in OfScope(snapshot, kind)}
           sexes   == IF kind = "breed" THEN Sexes ELSE {None}
           Stream(feeder, sex) ==
               [feeder |-> feeder, sex |-> sex,
                dogs |-> {d \in Qualified(feeder) : kind = "breed" => SexOf[d] = sex}]
           Later(feeder, sex) ==
               [feeder |-> feeder, sex |-> sex,
                dogs |-> {d \in Qualified(feeder)' : kind = "breed" => SexOf[d] = sex}]
<1>1. PICK feeder \in feeders, sex \in sexes : s = Stream(feeder, sex)
  <2>1. s \in {Stream(feeder, sex) : feeder \in feeders, sex \in sexes}
    BY DEF Streams
  <2> HIDE DEF feeders, sexes, Stream
  <2> QED BY <2>1
<1>2. Later(feeder, sex) \in Streams(snapshot, kind)'
  <2>1. snapshot' = snapshot
    BY DEF JudgeClass
  <2>2. Streams(snapshot, kind)' = {Later(f, x) : f \in feeders, x \in sexes}
    BY <2>1 DEF Streams, OfScope, OfKind
  <2> DEFINE laters == {Later(f, x) : f \in feeders, x \in sexes}
  <2>3. Later(feeder, sex) \in laters
    <3> HIDE DEF feeders, sexes, Later
    <3> QED BY <1>1
  <2>4. Streams(snapshot, kind)' = laters
    BY <2>2
  <2> HIDE DEF laters
  <2> QED BY <2>3, <2>4
<1>3. \A other \in s.dogs : other \in Later(feeder, sex).dogs /\ results'[other] = results[other]
  <2> TAKE other \in s.dogs
  <2>1. other \in Qualified(feeder) /\ (kind = "breed" => SexOf[other] = sex)
    BY <1>1
  <2>2. other \in Qualified(feeder)' /\ results'[other] = results[other]
    BY <2>1, FeedersKeepTheirDogs
  <2> QED BY <2>1, <2>2
<1> QED BY <1>1, <1>2, <1>3

\* At breed scope the later streams are tagged with a sex, too.
LEMMA LaterStreamsAreOfOneSex ==
    ASSUME NEW t \in Streams(snapshot, "breed")' PROVE t.sex \in Sexes
<1> DEFINE feeders == UNION {Range(snapshot'[award].fedBy) : award \in OfScope(snapshot, "breed")'}
           Later(feeder, sex) ==
               [feeder |-> feeder, sex |-> sex,
                dogs |-> {d \in Qualified(feeder)' : SexOf[d] = sex}]
<1>1. Streams(snapshot, "breed")' = {Later(f, x) : f \in feeders, x \in Sexes}
  BY DEF Streams
<1>2. PICK feeder \in feeders, sex \in Sexes : t = Later(feeder, sex)
  <2> HIDE DEF feeders, Later
  <2> QED BY <1>1
<1> QED BY <1>2

\* An award offered at breed, group or show scope is still offered after
\* another class result.
LEMMA OffersGrow ==
    ASSUME ClassesComeFirst, NEW dog \in Dogs, NEW placed \in ClassPlacement,
           JudgeClass(dog, placed), NEW kind \in HigherScopes
    PROVE  Offered(kind) \subseteq Offered(kind)'
<1> SUFFICES ASSUME NEW award \in Offered(kind) PROVE award \in Offered(kind)'
  OBVIOUS
<1> DEFINE streams  == Streams(snapshot, kind)
           matched  == MatchedStreams(snapshot, award, streams)
           fit(s)   == \E d \in s.dogs : MeetsMinimum(snapshot, results[d].grade, snapshot[award].minimum)
           later    == {m \in streams' : m.feeder \in Range(snapshot[award].fedBy)}
           fitter(s) == \E d \in s.dogs : MeetsMinimum(snapshot, results'[d].grade, snapshot[award].minimum)
<1>1. snapshot' = snapshot
  BY DEF JudgeClass
<1>2. award \in OfScope(snapshot, kind) /\ AwardIsEligible(snapshot, award, streams)
  BY DEF Offered, HigherScopeEligible
<1>3. ASSUME NEW s \in matched, fit(s) PROVE \E t \in later : fitter(t) /\ t.sex = s.sex
  <2>1. s \in streams /\ s.feeder \in Range(snapshot[award].fedBy)
    BY <1>3 DEF MatchedStreams
  <2>2. PICK t \in streams' :
           /\ t.feeder = s.feeder /\ t.sex = s.sex
           /\ \A other \in s.dogs : other \in t.dogs /\ results'[other] = results[other]
    BY <2>1, StreamsGrow
  <2> QED BY <1>3, <2>1, <2>2
<1>4. kind = "breed" => \A t \in later : t.sex \in Sexes
  BY LaterStreamsAreOfOneSex
<1>5. \E s \in matched : fit(s)
  BY <1>2 DEF AwardIsEligible, StreamHasQualifying
<1>6. kind = "breed" => \A sex \in Sexes : \E s \in matched : fit(s) /\ s.sex = sex
  BY <1>2 DEF AwardIsEligible, StreamHasQualifying, OfScope
<1> DEFINE sexes == {s.sex : s \in {m \in later : fitter(m)}}
<1>7. sexes # {} /\ (snapshot[award].scope = "breed" => sexes = Sexes)
  <2>1. kind = snapshot[award].scope
    BY <1>2 DEF OfScope
  <2> HIDE DEF matched, later, fit, fitter
  <2> QED BY <1>3, <1>4, <1>5, <1>6, <2>1
<1>8. AwardIsEligible(snapshot, award, streams)'
  <2>1. MatchedStreams(snapshot, award, streams)' = later
    BY <1>1 DEF MatchedStreams
  <2>2. \A m : StreamHasQualifying(snapshot, award, m)' <=> fitter(m)
    BY <1>1 DEF StreamHasQualifying
  <2>3. {s.sex : s \in {m \in MatchedStreams(snapshot, award, streams)' :
                          StreamHasQualifying(snapshot, award, m)'}} = sexes
    <3> HIDE DEF later, fitter, streams
    <3> QED BY <2>1, <2>2
  <2> HIDE DEF sexes, streams
  <2> QED BY <1>1, <1>7, <2>3 DEF AwardIsEligible
<1>9. award \in OfScope(snapshot, kind)'
  BY <1>1, <1>2 DEF OfScope, OfKind
<1> QED BY <1>8, <1>9 DEF Offered, HigherScopeEligible

\* Another result of a class takes no award away from the other dogs: what
\* eligibleAwardTypes offered it goes on offering (:108-140, :396-429).
THEOREM OffersStand == JudgingSpec => MoreResultsNeverDisqualify
<1> DEFINE Stands ==
      results' # results =>
         /\ \A sex \in Sexes : PerSexEligible(snapshot, sex) \subseteq PerSexEligible(snapshot, sex)'
         /\ \A kind \in HigherScopes : Offered(kind) \subseteq Offered(kind)'
<1>1. ClassesComeFirst /\ [JudgingNext]_judgingVars => [Stands]_judgingVars
  <2> SUFFICES ASSUME ClassesComeFirst, JudgingNext, results' # results PROVE Stands
    BY DEF judgingVars, judging
  <2>1. PICK dog \in Dogs, placed \in ClassPlacement : JudgeClass(dog, placed)
    BY DEF JudgingNext, judging, OpenShow, ChooseAwards
  <2>2. snapshot' = snapshot
    BY <2>1 DEF JudgeClass
  <2>3. ASSUME NEW sex \in Sexes, NEW award \in PerSexEligible(snapshot, sex)
        PROVE  award \in PerSexEligible(snapshot, sex)'
    <3>1. PICK other \in Entered(sex) :
             Feeds(snapshot, other, award) /\ MeetsAwardRequirements(snapshot, award, results[other])
      BY <2>3 DEF PerSexEligible
    <3>2. other \in Dogs /\ results'[other] = results[other] /\ other \in Entered(sex)'
      BY <2>1, <3>1, OthersKeepTheirResult DEF Entered
    <3>3. Feeds(snapshot, other, award)' /\ MeetsAwardRequirements(snapshot, award, results[other])'
      BY <2>2, <3>1, <3>2 DEF Feeds, MeetsAwardRequirements, PlacedWellEnough, OfKind
    <3>4. award \in OfKind(snapshot, {"perSex", "higher"})'
      BY <2>2, <2>3 DEF PerSexEligible, OfKind
    <3> QED BY <3>2, <3>3, <3>4 DEF PerSexEligible
  <2> QED BY <2>1, <2>3, OffersGrow
<1> QED BY <1>1, ClassesComeFirstAlways, PTL DEF JudgingSpec, MoreResultsNeverDisqualify

-----------------------------------------------------------------------------
\* The ruleset under the judge: what OpenShow starts from is what Resolve pinned.
LEMMA RulesetUnderJudging == JudgingSpec => []RulesetInv
<1>1. JudgingInit => RulesetInv
  BY InitRulesetInv DEF JudgingInit
<1>2. RulesetInv /\ [JudgingNext]_judgingVars => RulesetInv'
  <2> SUFFICES ASSUME RulesetInv, [JudgingNext]_judgingVars PROVE RulesetInv'
    OBVIOUS
  <2>1. CASE [Next]_vars
    BY <2>1, NextRulesetInv
  <2>2. CASE OpenShow
    <3>1. editions' = <<>> /\ show'.outcome = "unresolved" /\ IsContent(show'.content)
      BY <2>2 DEF OpenShow, NoShow, Nothing, IsContent
    <3> QED BY <3>1 DEF RulesetInv, TypeOK, PinnedIsSound, PinnedFromTheLatest
  <2>3. CASE UNCHANGED vars
    BY <2>1, <2>3
  <2> QED BY <2>1, <2>2, <2>3 DEF JudgingNext, JudgeClass, ChooseAwards, judgingVars
<1> QED BY <1>1, <1>2, PTL DEF JudgingSpec

\* An accepted content resolves whatever its classes refer to.
LEMMA SoundContentResolves == PinnedIsSound => PinnedReferencesResolve
<1> SUFFICES ASSUME PinnedIsSound, show.outcome = "ok",
                    NEW class \in OfKind(show.content, {"class"})
             PROVE  /\ show.content[class].scale \in OfKind(show.content, {"scale"})
                    /\ \A award \in show.content[class].awards :
                          /\ award \in AwardIds(show.content)
                          /\ HasMinimum(show.content, award)
                                => ResolvesOn(show.content, award, show.content[class].scale)
  BY DEF PinnedReferencesResolve
<1>1. ClassErrors(show.content, class) = {}
  BY DEF PinnedIsSound, ReferenceErrors
<1>2. show.content[class].scale \in OfKind(show.content, {"scale"})
  BY <1>1 DEF ClassErrors
<1>3. \A award \in show.content[class].awards : AwardErrors(show.content, class, award) = {}
  BY <1>1, <1>2 DEF ClassErrors
<1> QED BY <1>2, <1>3 DEF AwardErrors

\* Nothing a class of a pinned snapshot refers to is missing while the show is
\* judged, whatever the editions define and in whatever order they were
\* published (effective-ruleset.ts :217-330, meets-award-requirements.ts :24-26).
THEOREM PinnedReferencesAreThere == JudgingSpec => []PinnedReferencesResolve
<1> QED BY RulesetUnderJudging, SoundContentResolves, PTL DEF RulesetInv

\* Whatever is published while judges wait for their ruleset, earlier shows keep
\* theirs; the end of the publishing is not one (ruleset-layer-edition.ts :70-75).
THEOREM EditionsNeverReachBackUnderJudging == JudgingSpec => EarlierShowsAreUnaffected
<1>1. RulesetInv => editions \in Seq(Edition)
  BY DEF RulesetInv, TypeOK, Edition
<1>2. editions \in Seq(Edition) /\ (editions \in Seq(Edition))' /\ [JudgingNext]_judgingVars
      => [\A date \in Dates : Len(editions') > Len(editions) /\ editions'[Len(editions')].from > date
             => \A layer \in Layers : InForce(layer, date)' = InForce(layer, date)]_vars
  <2> SUFFICES ASSUME editions \in Seq(Edition), (editions \in Seq(Edition))', [JudgingNext]_judgingVars
               PROVE  [\A date \in Dates :
                         Len(editions') > Len(editions) /\ editions'[Len(editions')].from > date
                            => \A layer \in Layers : InForce(layer, date)' = InForce(layer, date)]_vars
    OBVIOUS
  <2>1. CASE [Next]_vars
    BY <2>1, PublishedLaterIsLater
  <2>2. CASE OpenShow
    BY <2>2 DEF OpenShow
  <2>3. CASE UNCHANGED vars
    BY <2>3
  <2> QED BY <2>1, <2>2, <2>3 DEF JudgingNext, JudgeClass, ChooseAwards, judgingVars
<1> QED BY <1>1, <1>2, RulesetUnderJudging, PTL DEF JudgingSpec, EarlierShowsAreUnaffected

\* The walk is exhaustive in whatever ruleset a judge is given
\* (reachableGradeScaleIds, effective-ruleset.ts :388-442).
THEOREM WalkFindsAllUnderJudging == JudgingSpec => []WalkFindsEveryScale
<1>1. TypeOK => WalkFindsEveryScale
  BY WalkIsExhaustive DEF TypeOK, WalkFindsEveryScale, HigherAwards
<1> QED BY <1>1, RulesetUnderJudging, PTL DEF RulesetInv

-----------------------------------------------------------------------------
\* Types: what is judged is a content, every result is in a class, and whatever
\* has been awarded is an award given to a dog.
THEOREM JudgingIsTyped == JudgingSpec => []JudgingTypeOK
<1> DEFINE typed == (snapshot = None \/ IsContent(snapshot)) /\ awarded \subseteq Assignments
<1>1. JudgingInit => typed
  BY DEF JudgingInit
<1>2. typed /\ RulesetInv /\ [JudgingNext]_judgingVars => typed'
  <2> SUFFICES ASSUME typed, RulesetInv, [JudgingNext]_judgingVars PROVE typed'
    OBVIOUS
  <2>1. CASE OpenShow
    BY <2>1 DEF OpenShow, RulesetInv, TypeOK
  <2>2. ASSUME NEW proposed \in Proposals, ChooseAwards(proposed) PROVE typed'
    <3>1. proposed \subseteq Assignments
      <4>1. \A list \in [1..MaxChoices -> Assignments] : Range(list) \subseteq Assignments
        BY DEF Range
      <4> QED BY <4>1 DEF Proposals
    <3> QED BY <2>2, <3>1 DEF ChooseAwards
  <2>3. CASE UNCHANGED <<snapshot, awarded>>
    BY <2>3
  <2> QED BY <2>1, <2>2, <2>3 DEF JudgingNext, JudgeClass, judging, judgingVars
<1>3. typed /\ RulesetInv /\ ClassesComeFirst => JudgingTypeOK
  BY DEF JudgingTypeOK, RulesetInv, ClassesComeFirst
<1> QED BY <1>1, <1>2, <1>3, RulesetUnderJudging, ClassesComeFirstAlways, PTL DEF JudgingSpec

\* Per sex, the two walks over the classes come to the same awards, whatever the
\* ruleset and the results (fci-award-policy.ts :119-140, :142-221).
THEOREM PerSexWalksAgree == JudgingSpec => []PerSexAnswersAgree
<1>1. JudgingTypeOK => PerSexAnswersAgree
  <2> SUFFICES ASSUME JudgingTypeOK, snapshot # None, NEW sex \in Sexes
               PROVE  PerSexEligible(snapshot, sex) =
                        {award \in Awards : \E dog \in Dogs :
                            ValidPerSexAssignment(snapshot, sex, [award |-> award, dog |-> dog])}
    BY DEF PerSexAnswersAgree
  <2>1. IsContent(snapshot)
    BY DEF JudgingTypeOK
  <2>2. OfKind(snapshot, {"perSex", "higher"}) \subseteq Awards
    BY <2>1 DEF IsContent, OfKind, ClassDefs, IsGradeScale, ShowTypeDefs
  <2>3. Entered(sex) \subseteq Dogs
    BY DEF Entered
  <2>4. ASSUME NEW award, NEW dog
        PROVE  ValidPerSexAssignment(snapshot, sex, [award |-> award, dog |-> dog])
                  <=> /\ award \in OfKind(snapshot, {"perSex", "higher"})
                      /\ dog \in Entered(sex) /\ Feeds(snapshot, dog, award)
                      /\ MeetsAwardRequirements(snapshot, award, results[dog])
    BY DEF ValidPerSexAssignment
  <2> QED BY <2>2, <2>3, <2>4 DEF PerSexEligible
<1> QED BY <1>1, JudgingIsTyped, PTL
=============================================================================
