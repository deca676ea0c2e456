----------------------------- MODULE BundledShows -----------------------------
(***************************************************************************)
(* A dog grows up while shows are held under the bundled rulesets.  Each   *)
(* day there may be a show, of the FCI alone or under Belgian rules; its   *)
(* ruleset is resolved as EffectiveRuleset does, from the bundled editions *)
(* and the date, and the class eligibility policy says where the dog may   *)
(* be entered.  The number of its monthly birthdays is counted as they go  *)
(* by: the code computes it from two dates.                                *)
(***************************************************************************)
EXTENDS ClassEligibility, BundledRulesets, SequencesExt

CONSTANTS
    Dogs,     \* their profiles
    LastDay,  \* bound
    None

VARIABLES
    dog,
    today,
    months,   \* monthly birthdays so far
    show      \* the ruleset of today's show, or why there is none

vars == <<dog, today, months, show>>

International == INSTANCE EffectiveRuleset WITH
    LayerOrder <- <<"fci">>, Dates <- Nat, Classes <- ClassIds, Scales <- ScaleIds,
    Awards <- AwardTypeIds, ShowTypes <- ShowTypeIds, Grades <- GradeIds,
    EntryRules <- ClassEntryRules, Contents <- {Fci2026, Fci2027, Kmsh2023}, MaxEditions <- 3,
    editions <- BundledEditions
Belgian == INSTANCE EffectiveRuleset WITH
    LayerOrder <- <<"fci", "kmsh">>, Dates <- Nat, Classes <- ClassIds, Scales <- ScaleIds,
    Awards <- AwardTypeIds, ShowTypes <- ShowTypeIds, Grades <- GradeIds,
    EntryRules <- ClassEntryRules, Contents <- {Fci2026, Fci2027, Kmsh2023}, MaxEditions <- 3,
    editions <- BundledEditions

ASSUME DogsAssumption == Dogs \subseteq EligibilityProfiles
ASSUME LastDayAssumption == LastDay \in LocalDate
ASSUME NoneAssumption == Belgian!NoneAssumption
ASSUME BundledContentsAssumption ==
    \A i \in DOMAIN BundledEditions : Belgian!IsContent(BundledEditions[i].content)

TypeOK == dog \in Dogs /\ today \in LocalDate /\ months \in Nat

-----------------------------------------------------------------------------
Born(date) == OnOrBefore(dog.birth, date)

\* A dog born on a day that a month does not have is a month older on the
\* first day of the next.
IsMonthlyBirthday(date) ==
    \/ date.day = dog.birth.day
    \/ date.day = 1 /\ dog.birth.day > IF date.month = 1 THEN DaysIn(date.year - 1, 12)
                                       ELSE DaysIn(date.year, date.month - 1)

\* From the first of the month of its birth.
Init ==
    /\ dog \in Dogs
    /\ today = [dog.birth EXCEPT !.day = 1] /\ months = 0
    /\ show = Belgian!NoShow

NextDay ==
    /\ today # LastDay
    /\ today' = Tomorrow(today)
    /\ months' = IF Born(today) /\ IsMonthlyBirthday(Tomorrow(today)) THEN months + 1 ELSE months
    /\ show' = Belgian!NoShow
    /\ UNCHANGED dog

HoldInternationalShow ==
    /\ show' \in International!Outcomes(Ordinal(today))
    /\ UNCHANGED <<dog, today, months>>

HoldBelgianShow ==
    /\ show' \in Belgian!Outcomes(Ordinal(today))
    /\ UNCHANGED <<dog, today, months>>

Next == NextDay \/ HoldInternationalShow \/ HoldBelgianShow

Spec == Init /\ [][Next]_vars

-----------------------------------------------------------------------------
\* The age the policy computes from the two dates is the number of monthly
\* birthdays the dog has had, through short months, leap days and year ends
\* (local-date.ts :136-152).
AgeCountsBirthdays ==
    Born(today) => CompletedMonthsSince(today, dog.birth) = months

Held          == show.outcome = "ok"
UnderBelgian  == Held /\ Len(show.sources) = 2
MayEnter(class) ==
    class \in Belgian!OfKind(show.content, {"class"})
    /\ IsEligible(show.content[class].entry, dog, today)

\* "A dog that reaches a month-boundary on show day moves to the higher class"
\* (fci-shared-content.ts :250-251): a vaccinated dog is never between Minor
\* Puppy, Puppy and Junior, nor in two of them, and under Belgian rules it is in
\* none before three months.
OneYoungClass ==
    Held /\ Born(today) /\ "vaccination-certificate" \in dog.held =>
        LET young == {class \in {"minor-puppy", "puppy", "junior"} : MayEnter(class)}
            first == IF UnderBelgian THEN 3 ELSE 0
        IN Cardinality(young) = IF first <= months /\ months < 18 THEN 1 ELSE 0

\* From nine months on, and no earlier, a dog can become best of its breed:
\* some class it may enter feeds BOB by its win or by an award, whichever
\* layers make up the rules of the show (fci-shared-content.ts :141-165,
\* kmsh-2023-01-01.ts :105-142).
BreedTitleFromNineMonths ==
    Held /\ Born(today) =>
        LET c == show.content
            FeedsBob(class) == \E f \in Range(c["bob"].fedBy) :
                                   f.id = class \/ f.id \in c[class].awards
        IN (\E class \in ClassIds : MayEnter(class) /\ FeedsBob(class)) <=> months >= 9

\* Every show from 2026 on has a ruleset, and in it what nothing checks: no
\* feeder and no show type names an item that is not there, and a minimum grade
\* is on every scale the award is used with (effective-ruleset.ts :108-117).
BundledShowsResolve ==
    /\ show.outcome \notin {"unresolved", "ok"} =>
          show.outcome = "NoEditionInForce" /\ today.year < 2026
    /\ Held => LET c == show.content IN
         /\ today.year >= 2026
         /\ \A award \in Belgian!OfKind(c, {"higher"}) :
               /\ \A f \in Range(c[award].fedBy) : f.id \in DOMAIN c
               /\ Belgian!ReachableScales(c, award) # {}
               /\ \A scale \in Belgian!ReachableScales(c, award) : Belgian!ResolvesOn(c, award, scale)
         /\ \A type \in Belgian!OfKind(c, {"showType"}) : c[type].awards \subseteq Belgian!AwardIds(c)
=============================================================================
