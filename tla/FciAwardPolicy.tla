---------------------------- MODULE FciAwardPolicy ----------------------------
(***************************************************************************)
(* One breed judged under a pinned snapshot: the classes, then the choices *)
(* of awards per sex, for the breed, the group and the show.  Each list of *)
(* choices is put to FciAwardPolicy.validateAwardChoices; what it accepts  *)
(* feeds the next scope.                                                   *)
(*                                                                         *)
(* The Judging context is not in the repository.  Its part (the steps of   *)
(* the judge, and Streams) follows what the policy's inputs are documented *)
(* to be: a dog has one result, candidates carry the grade of that result, *)
(* a class feeds its winner, an award the dogs it was given to.  Then it   *)
(* does not matter that the code takes the first match in a list.          *)
(***************************************************************************)
EXTENDS EffectiveRuleset

CONSTANTS
    Dogs,
    SexOf,        \* the sex of each dog
    Placements,
    ScaleOrder,   \* the grade scales as the merged array lists them
    MaxChoices    \* bound on a list of choices

Sexes == {"male", "female"}

ASSUME SexAssumption == SexOf \in [Dogs -> Sexes]
ASSUME PlacementAssumption == Placements \subseteq Nat \ {0}
ASSUME ScaleOrderAssumption == Range(ScaleOrder) = Scales
ASSUME ChoicesAssumption == MaxChoices \in Nat

VARIABLES
    snapshot,  \* the content of the pinned ruleset, None before the show
    scope,     \* whose awards are chosen next
    results,   \* the class result of each dog
    awarded    \* the assignments accepted so far

judging     == <<snapshot, scope, results, awarded>>
judgingVars == <<vars, judging>>

HigherScopes == {"breed", "group", "show"}
ClassPlacement == [class : Classes, grade : Grades, placement : Placements \cup {None}]
Assignments == [award : Awards, dog : Dogs]

JudgingTypeOK ==
    /\ TypeOK
    /\ snapshot = None \/ IsContent(snapshot)
    /\ scope \in Sexes \cup HigherScopes \cup {"over"}
    /\ results \in [Dogs -> ClassPlacement \cup {None}]
    /\ awarded \subseteq Assignments

-----------------------------------------------------------------------------
(* Per-sex scope: the placements are the results of the dogs of one sex.   *)

Entered(sex) == {dog \in Dogs : SexOf[dog] = sex /\ results[dog] # None}

\* A limit on placements binds a dog that has none, too.
PlacedWellEnough(award, placed) ==
    LET worst == IF award.kind = "perSex" THEN award.worst ELSE 0
    IN worst = 0 \/ (placed.placement # None /\ placed.placement <= worst)

\* The first grade scale that has both grades decides.
MeetsMinimum(c, grade, minimum) ==
    LET shared == SelectSeq(ScaleOrder, LAMBDA scale :
            scale \in DOMAIN c /\ {grade, minimum} \subseteq DOMAIN c[scale].grades)
    IN shared # <<>> /\ c[shared[1]].grades[grade] <= c[shared[1]].grades[minimum]

\* Both grades on the scale of the class.
MeetsAwardRequirements(c, award, placed) ==
    LET ordinal == c[c[placed.class].scale].grades IN
    /\ placed.grade \in DOMAIN ordinal
    /\ ordinal[placed.grade] <= ordinal[c[award].minimum]
    /\ PlacedWellEnough(c[award], placed)

Feeds(c, dog, award) ==
    /\ results[dog].class \in OfKind(c, {"class"})
    /\ award \in c[results[dog].class].awards

PerSexEligible(c, sex) ==
    {award \in OfKind(c, {"perSex", "higher"}) : \E dog \in Entered(sex) :
        Feeds(c, dog, award) /\ MeetsAwardRequirements(c, award, results[dog])}

\* Broken: only the place is looked at, as if the grade had been before.
ValidPerSexOfAnyGrade(c, sex, p) ==
    /\ p.award \in OfKind(c, {"perSex", "higher"}) /\ p.dog \in Entered(sex)
    /\ Feeds(c, p.dog, p.award)
    /\ PlacedWellEnough(c[p.award], results[p.dog])

ValidPerSexAssignment(c, sex, p) ==
    /\ p.award \in OfKind(c, {"perSex", "higher"}) /\ p.dog \in Entered(sex)
    /\ Feeds(c, p.dog, p.award)
    /\ MeetsAwardRequirements(c, p.award, results[p.dog])

-----------------------------------------------------------------------------
(* Breed, group and show scope: feeder-keyed streams of candidates.        *)

OfScope(c, kind) ==
    {award \in Awards \cap DOMAIN c : c[award].kind = "higher" /\ c[award].scope = kind}

\* The dogs a feeder qualifies: those given the award, or those first in class.
Qualified(feeder) ==
    IF feeder.kind = "award" THEN {dog \in Dogs : [award |-> feeder.id, dog |-> dog] \in awarded}
    ELSE {dog \in Dogs : results[dog] # None /\ results[dog].class = feeder.id
                                             /\ results[dog].placement = 1}

\* The Judging context: streams are tagged with the sex at breed scope only.
Streams(c, kind) ==
    {[feeder |-> feeder, sex |-> sex,
      dogs |-> {dog \in Qualified(feeder) : kind = "breed" => SexOf[dog] = sex}] :
        feeder \in UNION {Range(c[award].fedBy) : award \in OfScope(c, kind)},
        sex \in IF kind = "breed" THEN Sexes ELSE {None}}

MatchedStreams(c, award, streams) == {s \in streams : s.feeder \in Range(c[award].fedBy)}

\* Broken: every candidate of a stream has to meet the minimum.
AllQualify(c, award, stream) ==
    stream.dogs # {} /\ \A dog \in stream.dogs : MeetsMinimum(c, results[dog].grade, c[award].minimum)

StreamHasQualifying(c, award, stream) ==
    \E dog \in stream.dogs : MeetsMinimum(c, results[dog].grade, c[award].minimum)

\* Broken: at breed scope a qualifying dog of one sex is enough.
EligibleWithOneSex(c, award, streams) ==
    \E s \in MatchedStreams(c, award, streams) : StreamHasQualifying(c, award, s)

AwardIsEligible(c, award, streams) ==
    LET sexes == {s.sex : s \in {m \in MatchedStreams(c, award, streams) :
                                    StreamHasQualifying(c, award, m)}}
    IN sexes # {} /\ (c[award].scope = "breed" => sexes = Sexes)

HigherScopeEligible(c, kind, streams) ==
    {award \in OfScope(c, kind) : AwardIsEligible(c, award, streams)}

\* Broken: nobody looks at the grade of a proposed candidate.
ValidWithAnyGrade(c, kind, streams, p) ==
    /\ p.award \in OfScope(c, kind)
    /\ \E s \in MatchedStreams(c, p.award, streams) : p.dog \in s.dogs

ValidHigherScopeAssignment(c, kind, streams, p) ==
    /\ p.award \in OfScope(c, kind)
    /\ \E s \in MatchedStreams(c, p.award, streams) : p.dog \in s.dogs
    /\ MeetsMinimum(c, results[p.dog].grade, c[p.award].minimum)

\* Distinct dogs; and of opposite sexes, which is looked at only when exactly
\* two breed awards are proposed.
BreedScopeInvariants(streams, proposed) ==
    LET sexes == {s.sex : s \in {m \in streams : \E p \in proposed : p.dog \in m.dogs}} IN
    /\ \A p, q \in proposed : p.dog = q.dog => p = q
    /\ Cardinality(proposed) = 2 => sexes = Sexes

RequireNonDiscretionary(c, kind, streams, proposed) ==
    \A award \in HigherScopeEligible(c, kind, streams) :
        c[award].discretionary \/ \E p \in proposed : p.award = award

ValidateHigherScope(c, kind, streams, proposed) ==
    /\ \A p \in proposed : ValidHigherScopeAssignment(c, kind, streams, p)
    /\ kind = "breed" => BreedScopeInvariants(streams, proposed)
    /\ RequireNonDiscretionary(c, kind, streams, proposed)

ValidatePerSex(c, sex, proposed) == \A p \in proposed : ValidPerSexAssignment(c, sex, p)

-----------------------------------------------------------------------------
JudgingInit ==
    /\ Init
    /\ snapshot = None /\ scope = "male"
    /\ results = [dog \in Dogs |-> None] /\ awarded = {}

\* The ruleset goes on to be published and resolved for other shows, which a
\* pinned snapshot does not notice: from here on only this show is followed.
OpenShow ==
    /\ snapshot = None /\ show.outcome = "ok"
    /\ snapshot' = show.content
    /\ editions' = <<>> /\ show' = NoShow
    /\ UNCHANGED <<scope, results, awarded>>

\* A class of the snapshot has one dog of each sex in a place.
JudgeClass(dog, placed) ==
    /\ snapshot # None /\ scope = "male" /\ results[dog] = None
    /\ placed.class \in OfKind(snapshot, {"class"})
    /\ \A other \in Entered(SexOf[dog]) : placed.placement # None =>
          <<results[other].class, results[other].placement>> # <<placed.class, placed.placement>>
    /\ results' = [results EXCEPT ![dog] = placed]
    /\ UNCHANGED <<vars, snapshot, scope, awarded>>

ScopeAfter == [male |-> "female", female |-> "breed", breed |-> "group", group |-> "show",
               show |-> "over"]

\* Lists of choices without repetitions, whose order nothing depends on.
Proposals == {{}} \cup {Range(list) : list \in [1..MaxChoices -> Assignments]}

\* A list the policy rejects is not awarded: the judge makes another one.
ChooseAwards(proposed) ==
    /\ snapshot # None /\ scope # "over"
    /\ IF scope \in Sexes THEN ValidatePerSex(snapshot, scope, proposed)
       ELSE ValidateHigherScope(snapshot, scope, Streams(snapshot, scope), proposed)
    /\ awarded' = awarded \cup proposed
    /\ scope' = ScopeAfter[scope]
    /\ UNCHANGED <<vars, snapshot, results>>

JudgingNext ==
    \/ snapshot = None /\ Next /\ UNCHANGED judging
    \/ OpenShow
    \/ \E dog \in Dogs, placed \in ClassPlacement : JudgeClass(dog, placed)
    \/ \E proposed \in Proposals : ChooseAwards(proposed)

JudgingSpec == JudgingInit /\ [][JudgingNext]_judgingVars

-----------------------------------------------------------------------------
\* Per sex, the awards that may be proposed (eligibleAwardTypes) are those that
\* validateAwardChoices accepts for some dog: the two walk the classes in
\* opposite directions, and share meetsAwardRequirements only
\* (fci-award-policy.ts :119-140, :142-221).
PerSexAnswersAgree ==
    snapshot # None => \A sex \in Sexes :
        PerSexEligible(snapshot, sex) =
            {award \in Awards : \E dog \in Dogs :
                ValidPerSexAssignment(snapshot, sex, [award |-> award, dog |-> dog])}

\* The judge can always go on: some choice of winners for the awards that are
\* due, one each, is accepted.  Only a breed with three of them may have none:
\* they need distinct dogs, and there may be two (:329-357, :372-389, :396-418).
JudgeIsNeverStuck ==
    snapshot # None /\ scope \in HigherScopes =>
        LET streams == Streams(snapshot, scope)
            due     == {award \in HigherScopeEligible(snapshot, scope, streams) :
                           ~snapshot[award].discretionary}
        IN (scope = "breed" => Cardinality(due) <= 2) =>
              \E winner \in [due -> Dogs] :
                  ValidateHigherScope(snapshot, scope, streams,
                                      {[award |-> award, dog |-> winner[award]] : award \in due})

\* At breed, group and show scope the two answers agree on one assignment at a
\* time: an award is offered exactly when the dogs that validateAwardChoices
\* would take for it are there, at breed scope a male and a female.  One walks
\* from the streams to their candidates, the other from a proposed dog to a
\* stream (:294-322, :396-454).
OfferedMeansAcceptable ==
    snapshot # None => \A kind \in HigherScopes :
        LET streams   == Streams(snapshot, kind)
            Takers(award) == {dog \in Dogs :
                ValidHigherScopeAssignment(snapshot, kind, streams, [award |-> award, dog |-> dog])}
        IN HigherScopeEligible(snapshot, kind, streams) =
              {award \in Awards :
                  /\ Takers(award) # {}
                  /\ kind = "breed" => {SexOf[dog] : dog \in Takers(award)} = Sexes}

\* "Which Award Types may be proposed for a given judging scope, and whether the
\* proposed choices are legal" (award-policy.ts :26-28): a list that is accepted
\* has no award that may not be proposed.  At breed scope that asks for "a
\* qualifying male and female both present" (fci-award-policy.ts :51-54,
\* CONTEXT.md :70).
AcceptedAwardsAreEligible ==
    snapshot # None /\ scope \in HigherScopes =>
        LET streams == Streams(snapshot, scope) IN
        \A proposed \in Proposals : ValidateHigherScope(snapshot, scope, streams, proposed) =>
            \A p \in proposed : p.award \in HigherScopeEligible(snapshot, scope, streams)

Offered(kind) == HigherScopeEligible(snapshot, kind, Streams(snapshot, kind))

\* Another result of a class never takes an award away from the others: an
\* award that was eligible stays so (:396-429).
MoreResultsNeverDisqualify ==
    [][results' # results =>
         /\ \A sex \in Sexes : PerSexEligible(snapshot, sex) \subseteq PerSexEligible(snapshot, sex)'
         /\ \A kind \in HigherScopes :
               Offered(kind) \subseteq Offered(kind)']_judgingVars
=============================================================================
