--------------------------- MODULE ClassEligibility ---------------------------
(***************************************************************************)
(* Which classes of a show a dog may be entered in: FciClassEligibility-   *)
(* Policy, over the entry rules of a class definition and the profile of   *)
(* an entry.                                                               *)
(***************************************************************************)
EXTENDS LocalDates

Certificates == {"champion-certificate", "working-certificate", "vaccination-certificate"}

\* The entry rules of a ClassDefinition.  A class without a lower bound is one
\* from 0 months, and lessThan is 0 when there is no upper bound.
ClassEntryRules ==
    {rules \in [from : Nat, lessThan : Nat, certificates : SUBSET Certificates,
                bredByExhibitor : BOOLEAN] :
        rules.lessThan = 0 \/ rules.from < rules.lessThan}

EligibilityProfiles ==
    [birth : LocalDate, held : SUBSET Certificates, handlerIsBreeder : BOOLEAN]

\* Broken: a dog that reaches the boundary on the day may still enter below.
OfAgeInclusive(rules, months) ==
    rules.from <= months /\ (rules.lessThan = 0 \/ months <= rules.lessThan)

OfAge(rules, months) ==
    rules.from <= months /\ (rules.lessThan = 0 \/ months < rules.lessThan)

\* isEligible; the age throws when the show is before the birth of the dog.
Verdict(rules, profile, showDate) ==
    IF ~OnOrBefore(profile.birth, showDate) THEN "LocalDateBeforeReference"
    ELSE IF /\ OfAge(rules, CompletedMonthsSince(showDate, profile.birth))
            /\ rules.certificates \subseteq profile.held
            /\ rules.bredByExhibitor => profile.handlerIsBreeder
    THEN "eligible" ELSE "ineligible"

IsEligible(rules, profile, showDate) == Verdict(rules, profile, showDate) = "eligible"
=============================================================================
