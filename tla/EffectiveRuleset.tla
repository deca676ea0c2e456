--------------------------- MODULE EffectiveRuleset ---------------------------
(***************************************************************************)
(* Rulesets: the editions of the ruleset layers, and the snapshot a show   *)
(* is judged under.  Editions are authored and published outside the       *)
(* domain code; resolveEffectiveRuleset picks the edition of each layer in *)
(* force on the day of the show, EffectiveRuleset.resolve merges them by   *)
(* item id, validates the references of the result and pins it.            *)
(*                                                                         *)
(* An edition's content is a function from item ids to items, so ids of    *)
(* different kinds are different values and the order of items within an   *)
(* edition is left open: of several errors of one phase any may be thrown. *)
(* A show type is merged like every other item and validated by nothing.   *)
(***************************************************************************)
EXTENDS Naturals, SequencesExt

CONSTANTS
    LayerOrder,   \* orderedLayerIds: base first
    Dates,
    Classes, Scales, Awards, ShowTypes, Grades,
    EntryRules,   \* what a class asks of an entry; the eligibility policy reads it
    Contents,     \* what an edition may define: functions from ids to items
    None,         \* no edition
    MaxEditions   \* bound

Layers == {LayerOrder[i] : i \in DOMAIN LayerOrder}

\* ClassDefinition, GradeScale, AwardType (per-sex, higher-scope, collective), ShowType.
\* grades gives the ordinals, 0 the best; worst is 0 without a limit.
Feeders == [kind : {"award"}, id : Awards] \cup [kind : {"class"}, id : Classes]
ClassDefs == [kind : {"class"}, entry : EntryRules, scale : Scales, awards : SUBSET Awards]
IsGradeScale(item) ==
    /\ DOMAIN item = {"kind", "grades"} /\ item.kind = "scale"
    /\ DOMAIN item.grades \subseteq Grades
    /\ \A grade \in DOMAIN item.grades : item.grades[grade] \in Nat
AwardTypes ==
    [kind : {"perSex"}, minimum : Grades, worst : Nat] \cup [kind : {"collective"}]
    \cup [kind : {"higher"}, scope : {"breed", "group", "show"}, discretionary : BOOLEAN,
          minimum : Grades, fedBy : Seq(Feeders) \ {<<>>}]
ShowTypeDefs == [kind : {"showType"}, awards : SUBSET Awards]

IsContent(c) == \A id \in DOMAIN c :
    \/ id \in Classes /\ c[id] \in ClassDefs
    \/ id \in Scales /\ IsGradeScale(c[id])
    \/ id \in Awards /\ c[id] \in AwardTypes
    \/ id \in ShowTypes /\ c[id] \in ShowTypeDefs

ASSUME LayersAssumption == LayerOrder \in Seq(Layers) /\ LayerOrder # <<>>
ASSUME DatesAssumption == Dates \subseteq Nat
ASSUME IdsAssumption ==
    /\ Classes \cap Scales = {} /\ Classes \cap Awards = {} /\ Scales \cap Awards = {}
    /\ ShowTypes \cap (Classes \cup Scales \cup Awards) = {}
ASSUME AwardsAssumption == IsFiniteSet(Awards)
ASSUME ContentsAssumption == \A c \in Contents : IsContent(c)
ASSUME NoneAssumption == None \notin [layer : Layers, from : Dates, content : Contents]
ASSUME BoundAssumption == MaxEditions \in Nat

VARIABLES
    editions,  \* those the repository holds, in the order of its array
    show       \* the snapshot pinned to the show, or why there is none

vars == <<editions, show>>

Nothing == [id \in {} |-> None]
NoShow  == [outcome |-> "unresolved", date |-> 0, sources |-> <<>>, content |-> Nothing]
Errors  == {"NoEditionInForce", "UnknownGradeScaleReference",
            "UnknownAwardTypeReference", "UnknownMinimumGradeReference"}

TypeOK ==
    /\ editions \in Seq([layer : Layers, from : Dates, content : Contents])
    /\ IsContent(show.content)
    /\ show.outcome \in Errors \cup {"unresolved", "ok"}
    /\ show.outcome = "ok" => Len(show.sources) = Len(LayerOrder)

-----------------------------------------------------------------------------
(* Definitions marked Broken are variants with a bug that belongs to the   *)
(* code at hand; a check replaces a definition by one to see that a        *)
(* property notices.                                                       *)

\* Broken: the edition published last is in force, whatever its date.
InForceWhenPublished(layer, date) ==
    FoldLeft(LAMBDA latest, e : IF e.layer = layer THEN e ELSE latest, None, editions)

\* latestInForce; of two editions of one date the later in the array.
InForce(layer, date) ==
    FoldLeft(LAMBDA latest, e :
               IF e.layer = layer /\ e.from <= date /\ (latest = None \/ latest.from <= e.from)
               THEN e ELSE latest,
             None, editions)

Merge(lower, upper) ==
    [id \in DOMAIN lower \cup DOMAIN upper |->
        IF id \in DOMAIN upper THEN upper[id] ELSE lower[id]]

\* mergeById: the last edition wins, item by item.
MergeById(sources) ==
    FoldLeft(LAMBDA merged, e : Merge(merged, e.content), Nothing, sources)

-----------------------------------------------------------------------------
(* validateReferences over the merged content c. *)

OfKind(c, kinds) == {id \in DOMAIN c : c[id].kind \in kinds}
AwardIds(c)      == OfKind(c, {"perSex", "higher", "collective"})
ScalesOf(c, classes) == {c[id].scale : id \in classes \cap OfKind(c, {"class"})}
ClassesNaming(c, award) == {id \in OfKind(c, {"class"}) : award \in c[id].awards}

HasMinimum(c, award) == award \in OfKind(c, {"perSex", "higher"})
\* scaleById.get(scale)?.grade(the award's minimumGradeId) # undefined
ResolvesOn(c, award, scale) ==
    scale \in OfKind(c, {"scale"}) /\ c[award].minimum \in DOMAIN c[scale].grades

\* Broken: nobody looks for the minimum grade on the scale of the class.
AwardErrorsUnchecked(c, class, award) ==
    IF award \notin AwardIds(c) THEN {"UnknownAwardTypeReference"} ELSE {}

AwardErrors(c, class, award) ==
    IF award \notin AwardIds(c) THEN {"UnknownAwardTypeReference"}
    ELSE IF HasMinimum(c, award) /\ ~ResolvesOn(c, award, c[class].scale)
    THEN {"UnknownMinimumGradeReference"} ELSE {}

ClassErrors(c, class) ==
    IF c[class].scale \notin OfKind(c, {"scale"}) THEN {"UnknownGradeScaleReference"}
    ELSE UNION {AwardErrors(c, class, award) : award \in c[class].awards}

\* Broken: a feeder that has been visited ends the walk over its siblings.
AlongFeederGivingUp(c, Reach, acc, feeder) ==
    IF feeder.kind = "class"
    THEN [acc EXCEPT !.scales = @ \cup ScalesOf(c, {feeder.id})]
    ELSE IF feeder.id \in OfKind(c, {"higher"})
    THEN IF feeder.id \in acc.visiting THEN [acc EXCEPT !.scales = {}]
         ELSE Reach[acc.visiting][feeder.id]
    ELSE [acc EXCEPT !.scales = @ \cup ScalesOf(c, ClassesNaming(c, feeder.id))]

\* One feeder of an award: Reach[visiting][a] is the walk from the award a.
AlongFeeder(c, Reach, acc, feeder) ==
    IF feeder.kind = "class"
    THEN [acc EXCEPT !.scales = @ \cup ScalesOf(c, {feeder.id})]
    ELSE LET fed == IF feeder.id \in OfKind(c, {"higher"})
                    THEN Reach[acc.visiting][feeder.id]
                    ELSE [scales |-> {}, visiting |-> acc.visiting]
         IN [fed EXCEPT !.scales = @ \cup acc.scales \cup ScalesOf(c, ClassesNaming(c, feeder.id))]

AlongFeeders(c, Reach, start, feeders) ==
    FoldLeft(LAMBDA acc, feeder : AlongFeeder(c, Reach, acc, feeder), start, feeders)

\* reachableGradeScaleIds: depth first along fedBy, in the order of the
\* feeders, with one set of visited awards for the whole walk.
ReachableScales(c, award) ==
    LET higher == OfKind(c, {"higher"})
        Reach[visiting \in SUBSET higher] ==
            [a \in higher |->
                IF a \in visiting THEN [scales |-> {}, visiting |-> visiting]
                ELSE AlongFeeders(c, Reach, [scales |-> {}, visiting |-> visiting \cup {a}],
                                  c[a].fedBy)]
    IN Reach[{}][award].scales

\* validateOneHigherScopeMinimumGrade: one reachable scale is enough.
HigherScopeErrors(c, award) ==
    LET scales == ReachableScales(c, award) IN
    IF scales # {} /\ \A scale \in scales : ~ResolvesOn(c, award, scale)
    THEN {"UnknownMinimumGradeReference"} ELSE {}

\* The classes come first; the higher-scope awards, only when they are sound.
ReferenceErrors(c) ==
    LET ofClasses == UNION {ClassErrors(c, class) : class \in OfKind(c, {"class"})}
        ofAwards  == UNION {HigherScopeErrors(c, award) : award \in OfKind(c, {"higher"})}
    IN IF ofClasses # {} THEN ofClasses ELSE ofAwards

-----------------------------------------------------------------------------
Init == editions = <<>> /\ show = NoShow

\* A rule change never edits an edition: it publishes another one.  A pinned
\* show does not look at the editions again, so the behaviour ends there.
Publish(layer, date, content) ==
    /\ Len(editions) < MaxEditions /\ show.outcome # "ok"
    /\ editions' = Append(editions, [layer |-> layer, from |-> date, content |-> content])
    /\ UNCHANGED show

Pinned(date, sources) ==
    LET c == MergeById(sources) IN
    IF ReferenceErrors(c) = {}
    THEN {[outcome |-> "ok", date |-> date, sources |-> sources, content |-> c]}
    ELSE {[NoShow EXCEPT !.outcome = error, !.date = date] : error \in ReferenceErrors(c)}

\* resolveEffectiveRuleset for a show on this date.
Outcomes(date) ==
    LET sources == [i \in DOMAIN LayerOrder |-> InForce(LayerOrder[i], date)] IN
    IF None \in Range(sources)
    THEN {[NoShow EXCEPT !.outcome = "NoEditionInForce", !.date = date]}
    ELSE Pinned(date, sources)

Resolve(date) ==
    /\ show.outcome # "ok"
    /\ show' \in Outcomes(date)
    /\ UNCHANGED editions

Next ==
    \/ \E layer \in Layers, date \in Dates, content \in Contents : Publish(layer, date, content)
    \/ \E date \in Dates : Resolve(date)

Spec == Init /\ [][Next]_vars

-----------------------------------------------------------------------------
\* The awards whose feeders end up feeding an award: the least set closed
\* under the feeders of its higher-scope members.
FeedingAwards(c, award) ==
    LET Closed(S) == \A a \in S, f \in Feeders :
            f \in Range(c[a].fedBy) /\ f.id \in OfKind(c, {"higher"}) => f.id \in S
    IN {a \in OfKind(c, {"higher"}) :
           \A S \in SUBSET OfKind(c, {"higher"}) : award \in S /\ Closed(S) => a \in S}

\* The scales an award is used with: those of the classes that name it and of
\* the classes its feeders lead to.
ScalesUsedWith(c, award) ==
    LET feeders == UNION {Range(c[a].fedBy) : a \in FeedingAwards(c, award)}
    IN {c[class].scale : class \in {k \in OfKind(c, {"class"}) :
           \E f \in feeders : f.id = k \/ f.id \in c[k].awards}}

\* The walk along the feeders finds every scale they lead to, whatever cycles
\* and diamonds they form and in whatever order they are visited
\* (reachableGradeScaleIds, effective-ruleset.ts :388-442).
WalkFindsEveryScale ==
    show.outcome = "ok" => \A award \in OfKind(show.content, {"higher"}) :
        ReachableScales(show.content, award) = ScalesUsedWith(show.content, award)

\* "An invariant guard, not a reachable business outcome" (meets-award-
\* requirements.ts :24-26): judging a class under a pinned snapshot never finds
\* an award type, its minimum grade or the scale of the class missing.
PinnedReferencesResolve ==
    show.outcome = "ok" => LET c == show.content IN
        \A class \in OfKind(c, {"class"}) :
            /\ c[class].scale \in OfKind(c, {"scale"})
            /\ \A award \in c[class].awards :
                  /\ award \in AwardIds(c)
                  /\ HasMinimum(c, award) => ResolvesOn(c, award, c[class].scale)

\* An edition changes the rules from its date on: shows before it are resolved
\* as if it had not been published (ruleset-layer-edition.ts :25-26, :70-75).
EarlierShowsAreUnaffected ==
    [][\A date \in Dates : Len(editions') > Len(editions) /\ editions'[Len(editions')].from > date
          => \A layer \in Layers : InForce(layer, date)' = InForce(layer, date)]_vars

\* "Every award type's minimumGradeId resolves on every grade scale it is used
\* with" (effective-ruleset.ts :108-113).
MinimumOnEveryScale ==
    show.outcome = "ok" => LET c == show.content IN
        \A award \in OfKind(c, {"higher"}) :
            \A scale \in ScalesUsedWith(c, award) : ResolvesOn(c, award, scale)
=============================================================================
