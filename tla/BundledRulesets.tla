--------------------------- MODULE BundledRulesets ---------------------------
(***************************************************************************)
(* The editions that come with the system: two of the FCI, one of the      *)
(* Belgian KMSH that is laid over them.  The contents are functions from   *)
(* item ids, as EffectiveRuleset has them; placeable thresholds, special   *)
(* outcomes and collective competitions, which nothing reads, are left     *)
(* out.                                                                    *)
(***************************************************************************)
EXTENDS LocalDates

FciAwardIds ==
    {"cacib", "res-cacib", "cacib-j", "cacib-v", "bob", "bos", "big", "bis", "best-junior",
     "best-veteran", "best-puppy", "best-minor-puppy", "best-brace", "best-breeders-group",
     "best-progeny-group"}
KmshAwardIds == {"cac", "res-cac"}
AwardTypeIds == FciAwardIds \cup KmshAwardIds
ClassIds ==
    {"minor-puppy", "puppy", "junior", "intermediate", "open", "bred-by-exhibitor", "working",
     "champion", "veteran", "honour", "fokkersklas"}
GradeIds ==
    {"excellent", "very-good", "good", "sufficient", "very-promising", "promising",
     "less-promising"}
ScaleIds    == {"fci-adult", "fci-puppy"}
ShowTypeIds == {"cacib-show", "kmsh-national-show"}

Scale(grades) == [kind |-> "scale", grades |-> grades]
PerSex(minimum, worst) == [kind |-> "perSex", minimum |-> minimum, worst |-> worst]
Higher(scope, minimum, fedBy) ==
    [kind |-> "higher", scope |-> scope, discretionary |-> FALSE, minimum |-> minimum,
     fedBy |-> fedBy]
Collective == [kind |-> "collective"]
ByAward(award) == [kind |-> "award", id |-> award]
ByClass(class) == [kind |-> "class", id |-> class]
ShowType(awards) == [kind |-> "showType", awards |-> awards]

Rules(from, lessThan) ==
    [from |-> from, lessThan |-> lessThan, certificates |-> {}, bredByExhibitor |-> FALSE]
With(certificate, rules) == [rules EXCEPT !.certificates = {certificate}]
Bred(rules) == [rules EXCEPT !.bredByExhibitor = TRUE]
Class(entry, scale, awards) ==
    [kind |-> "class", entry |-> entry, scale |-> scale, awards |-> awards]

\* Two tables of items in one.
Both(some, others) ==
    [id \in DOMAIN some \cup DOMAIN others |-> IF id \in DOMAIN some THEN some[id] ELSE others[id]]

-----------------------------------------------------------------------------
(* FCI                                                                     *)

FciGradeScales ==
    [id \in ScaleIds |->
        CASE id = "fci-adult" -> Scale([grade \in {"excellent", "very-good", "good", "sufficient"} |->
                 CASE grade = "excellent" -> 0 [] grade = "very-good" -> 1
                   [] grade = "good" -> 2 [] grade = "sufficient" -> 3])
          [] id = "fci-puppy" -> Scale([grade \in {"very-promising", "promising", "less-promising"} |->
                 CASE grade = "very-promising" -> 0 [] grade = "promising" -> 1
                   [] grade = "less-promising" -> 2])]

BreedFeeders == <<ByAward("cacib"), ByClass("junior"), ByClass("veteran")>>

FciAwardTypes ==
    [id \in FciAwardIds |->
        CASE id \in {"cacib", "cacib-j", "cacib-v"} -> PerSex("excellent", 1)
          [] id = "res-cacib"        -> PerSex("excellent", 0)
          [] id \in {"bob", "bos"}   -> Higher("breed", "excellent", BreedFeeders)
          [] id = "big"              -> Higher("group", "excellent", <<ByAward("bob")>>)
          [] id = "bis"              -> Higher("show", "excellent", <<ByAward("big")>>)
          [] id = "best-junior"      -> Higher("show", "excellent", <<ByClass("junior")>>)
          [] id = "best-veteran"     -> Higher("show", "excellent", <<ByClass("veteran")>>)
          [] id = "best-puppy"       -> Higher("show", "very-promising", <<ByClass("puppy")>>)
          [] id = "best-minor-puppy" -> Higher("show", "very-promising", <<ByClass("minor-puppy")>>)
          [] id \in {"best-brace", "best-breeders-group", "best-progeny-group"} -> Collective]

MinorPuppy(from) == Class(With("vaccination-certificate", Rules(from, 6)), "fci-puppy", {})
Adult(rules)     == Class(rules, "fci-adult", {"cacib", "res-cacib"})

FciClasses ==
    [id \in ClassIds \ {"bred-by-exhibitor", "fokkersklas"} |->
        CASE id = "minor-puppy"  -> MinorPuppy(0)
          [] id = "puppy"        -> Class(Rules(6, 9), "fci-puppy", {})
          [] id = "junior"       -> Class(Rules(9, 18), "fci-adult", {"cacib-j"})
          [] id = "intermediate" -> Adult(Rules(15, 24))
          [] id = "open"         -> Adult(Rules(15, 0))
          [] id = "working"      -> Adult(With("working-certificate", Rules(15, 0)))
          [] id = "champion"     -> Adult(With("champion-certificate", Rules(15, 0)))
          [] id = "veteran"      -> Class(Rules(96, 0), "fci-adult", {"cacib-v"})
          [] id = "honour"       -> Class(Rules(0, 0), "fci-adult", {})]

BredByExhibitor == [id \in {"bred-by-exhibitor"} |-> Adult(Bred(Rules(15, 0)))]

FciShowTypes == [id \in {"cacib-show"} |-> ShowType(FciAwardIds)]

FciOtherItems == Both(FciGradeScales, Both(FciAwardTypes, FciShowTypes))
Fci2026 == Both(FciClasses, FciOtherItems)
Fci2027 == Both(Both(FciClasses, BredByExhibitor), FciOtherItems)

-----------------------------------------------------------------------------
(* KMSH                                                                    *)

\* Broken: the override of BOB and BOS names the new feeder only.
CacOnly == Higher("breed", "excellent", <<ByAward("cac")>>)

BreedWithCac ==
    Higher("breed", "excellent",
           <<ByAward("cacib"), ByAward("cac"), ByClass("junior"), ByClass("veteran")>>)

\* Broken: the reserve is named by the class and defined nowhere.
CertificateAlone == [id \in {"cac"} |-> PerSex("excellent", 1)]

NationalCertificates ==
    [id \in {"cac", "res-cac"} |-> PerSex("excellent", IF id = "cac" THEN 1 ELSE 0)]

KmshClasses ==
    [id \in {"minor-puppy", "fokkersklas"} |->
        IF id = "minor-puppy" THEN MinorPuppy(3)
        ELSE Class(Bred(Rules(15, 0)), "fci-adult", {"cac", "res-cac"})]

KmshShowTypes == [id \in {"kmsh-national-show"} |-> ShowType(KmshAwardIds \cup FciAwardIds)]

Kmsh2023 ==
    Both(KmshClasses, Both(NationalCertificates, Both([id \in {"bob", "bos"} |-> BreedWithCac], KmshShowTypes)))

-----------------------------------------------------------------------------
Edition(layer, from, content) == [layer |-> layer, from |-> Ordinal(from), content |-> content]

\* BUNDLED_EDITIONS
BundledEditions ==
    << Edition("fci", Date(2026, 1, 1), Fci2026),
       Edition("fci", Date(2027, 1, 1), Fci2027),
       Edition("kmsh", Date(2023, 1, 1), Kmsh2023) >>
=============================================================================
