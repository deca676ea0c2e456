-------------------------- MODULE BundledShowsProofs --------------------------
(* Ages and classes on every date of the calendar, for every dog.          *)
EXTENDS BundledShows, FiniteSetTheorems, TLAPS

\* All the proofs use of the lengths of the months.
LEMMA MonthsHaveAboutThirtyDays ==
    ASSUME NEW year \in Int, NEW month \in 1..12
    PROVE  DaysIn(year, month) \in 28..31
<1>1. DaysIn(year, month) \in {28, 29, 30, 31}
  <2>1. CASE month = 2 BY <2>1 DEF DaysIn
  <2>2. CASE month # 2 /\ month \in {4, 6, 9, 11} BY <2>2 DEF DaysIn
  <2>3. CASE month # 2 /\ month \notin {4, 6, 9, 11} BY <2>3 DEF DaysIn
  <2> QED BY <2>1, <2>2, <2>3
<1> QED BY <1>1

LEMMA FieldsOfDates ==
    ASSUME NEW d \in LocalDate
    PROVE  /\ d = Date(d.year, d.month, d.day)
           /\ d.year \in Nat /\ d.year >= 100 /\ d.month \in 1..12 /\ d.day \in 1..31
           /\ d.day <= DaysIn(d.year, d.month) /\ DaysIn(d.year, d.month) \in 28..31
BY MonthsHaveAboutThirtyDays DEF LocalDate, Date

LEMMA DatesFromFields ==
    ASSUME NEW year \in Nat, year >= 100, NEW month \in 1..12, NEW day \in 1..31,
           day <= DaysIn(year, month)
    PROVE  Date(year, month, day) \in LocalDate
BY DEF LocalDate, Date

LEMMA TomorrowIsADate ==
    ASSUME NEW d \in LocalDate
    PROVE  Tomorrow(d) \in LocalDate
<1> USE FieldsOfDates
<1>1. CASE d.day < DaysIn(d.year, d.month)
  <2>1. d.day + 1 \in 1..31 /\ d.day + 1 <= DaysIn(d.year, d.month) BY <1>1
  <2> QED BY <1>1, <2>1, DatesFromFields DEF Tomorrow
<1>2. CASE ~(d.day < DaysIn(d.year, d.month)) /\ d.month < 12
  <2>1. d.month + 1 \in 1..12 /\ 1 <= DaysIn(d.year, d.month + 1)
    BY <1>2, MonthsHaveAboutThirtyDays
  <2> QED BY <1>2, <2>1, DatesFromFields DEF Tomorrow
<1>3. CASE ~(d.day < DaysIn(d.year, d.month)) /\ ~(d.month < 12)
  <2>1. d.year + 1 \in Nat /\ d.year + 1 >= 100 /\ 1 <= DaysIn(d.year + 1, 1)
    BY MonthsHaveAboutThirtyDays
  <2> QED BY <1>3, <2>1, DatesFromFields DEF Tomorrow
<1> QED BY <1>1, <1>2, <1>3

\* A date after today is tomorrow or later; a birth that is over stays over.
LEMMA TomorrowIsNext ==
    ASSUME NEW d \in LocalDate, NEW birth \in LocalDate
    PROVE  /\ OnOrBefore(birth, d) => OnOrBefore(birth, Tomorrow(d))
           /\ ~OnOrBefore(birth, d) /\ OnOrBefore(birth, Tomorrow(d)) => birth = Tomorrow(d)
<1>1. /\ d.year \in Nat /\ d.month \in 1..12 /\ d.day \in 1..31
      /\ d.day <= DaysIn(d.year, d.month) /\ DaysIn(d.year, d.month) \in 28..31
  BY FieldsOfDates
<1>2. /\ birth.year \in Nat /\ birth.month \in 1..12 /\ birth.day \in 1..31
      /\ birth = Date(birth.year, birth.month, birth.day)
      /\ birth.day <= DaysIn(birth.year, birth.month)
  BY FieldsOfDates
<1>3. CASE d.day < DaysIn(d.year, d.month)
  <2>1. Tomorrow(d) = Date(d.year, d.month, d.day + 1) BY <1>3 DEF Tomorrow
  <2>2. OnOrBefore(birth, d) => OnOrBefore(birth, Tomorrow(d))
    BY <1>1, <1>2, <2>1 DEF OnOrBefore, Date
  <2>3. ASSUME ~OnOrBefore(birth, d), OnOrBefore(birth, Tomorrow(d)) PROVE birth = Tomorrow(d)
    <3>1. birth.year = d.year /\ birth.month = d.month /\ birth.day = d.day + 1
      BY <1>1, <1>2, <2>1, <2>3 DEF OnOrBefore, Date
    <3> QED BY <1>2, <2>1, <3>1
  <2> QED BY <2>2, <2>3
<1>4. CASE ~(d.day < DaysIn(d.year, d.month)) /\ d.month < 12
  <2>1. Tomorrow(d) = Date(d.year, d.month + 1, 1) BY <1>4 DEF Tomorrow
  <2>2. OnOrBefore(birth, d) => OnOrBefore(birth, Tomorrow(d))
    BY <1>1, <1>2, <2>1 DEF OnOrBefore, Date
  <2>3. ASSUME ~OnOrBefore(birth, d), OnOrBefore(birth, Tomorrow(d)) PROVE birth = Tomorrow(d)
    <3>1. ~(birth.year = d.year /\ birth.month = d.month)
      <4>1. ASSUME birth.year = d.year, birth.month = d.month PROVE FALSE
        <5>1. birth.day <= DaysIn(d.year, d.month) BY <1>2, <4>1
        <5>2. birth.day <= d.day BY <1>1, <1>2, <1>4, <5>1
        <5> QED BY <2>3, <4>1, <5>2 DEF OnOrBefore
      <4> QED BY <4>1
    <3>2. birth.year = d.year /\ birth.month = d.month + 1 /\ birth.day = 1
      BY <1>1, <1>2, <2>1, <2>3, <3>1 DEF OnOrBefore, Date
    <3> QED BY <1>2, <2>1, <3>2
  <2> QED BY <2>2, <2>3
<1>5. CASE ~(d.day < DaysIn(d.year, d.month)) /\ ~(d.month < 12)
  <2>1. Tomorrow(d) = Date(d.year + 1, 1, 1) BY <1>5 DEF Tomorrow
  <2>2. OnOrBefore(birth, d) => OnOrBefore(birth, Tomorrow(d))
    BY <1>1, <1>2, <2>1 DEF OnOrBefore, Date
  <2>3. ASSUME ~OnOrBefore(birth, d), OnOrBefore(birth, Tomorrow(d)) PROVE birth = Tomorrow(d)
    <3>1. ~(birth.year = d.year /\ birth.month = d.month)
      <4>1. ASSUME birth.year = d.year, birth.month = d.month PROVE FALSE
        <5>1. birth.day <= DaysIn(d.year, d.month) BY <1>2, <4>1
        <5>2. birth.day <= d.day BY <1>1, <1>2, <1>5, <5>1
        <5> QED BY <2>3, <4>1, <5>2 DEF OnOrBefore
      <4> QED BY <4>1
    <3>2. birth.year = d.year + 1 /\ birth.month = 1 /\ birth.day = 1
      BY <1>1, <1>2, <1>5, <2>1, <2>3, <3>1 DEF OnOrBefore, Date
    <3> QED BY <1>2, <2>1, <3>2
  <2> QED BY <2>2, <2>3
<1> QED BY <1>3, <1>4, <1>5

\* From one day to the next a dog is a month older on its monthly birthday only.
LEMMA AMonthOlderOnTheBirthday ==
    ASSUME NEW d \in LocalDate, dog.birth \in LocalDate
    PROVE  CompletedMonthsSince(Tomorrow(d), dog.birth) =
               IF IsMonthlyBirthday(Tomorrow(d)) THEN CompletedMonthsSince(d, dog.birth) + 1
               ELSE CompletedMonthsSince(d, dog.birth)
<1> DEFINE length == DaysIn(d.year, d.month)
<1>1. /\ d.year \in Nat /\ d.month \in 1..12 /\ d.day \in 1..31
      /\ d.day <= length /\ length \in 28..31
  BY FieldsOfDates
<1>2. dog.birth.year \in Nat /\ dog.birth.month \in 1..12 /\ dog.birth.day \in 1..31
  BY FieldsOfDates
<1>3. CASE d.day < length
  <2>1. Tomorrow(d) = Date(d.year, d.month, d.day + 1) BY <1>3 DEF Tomorrow
  <2>2. IsMonthlyBirthday(Tomorrow(d)) <=> dog.birth.day = d.day + 1
    BY <1>1, <2>1 DEF IsMonthlyBirthday, Date
  <2> HIDE DEF length
  <2> QED BY <1>1, <1>2, <2>1, <2>2 DEF CompletedMonthsSince, Date
<1>4. CASE ~(d.day < length) /\ d.month < 12
  <2>1. Tomorrow(d) = Date(d.year, d.month + 1, 1) BY <1>4 DEF Tomorrow
  <2>2. d.month + 1 # 1 /\ (d.month + 1) - 1 = d.month BY <1>1
  <2>3. IsMonthlyBirthday(Tomorrow(d)) <=> dog.birth.day = 1 \/ dog.birth.day > length
    BY <2>1, <2>2 DEF IsMonthlyBirthday, Date
  <2> HIDE DEF length
  <2> QED BY <1>1, <1>2, <1>4, <2>1, <2>3 DEF CompletedMonthsSince, Date
<1>5. CASE ~(d.day < length) /\ ~(d.month < 12)
  <2>1. Tomorrow(d) = Date(d.year + 1, 1, 1) /\ d.month = 12 BY <1>1, <1>5 DEF Tomorrow
  <2>2. (d.year + 1) - 1 = d.year BY <1>1
  <2>3. IsMonthlyBirthday(Tomorrow(d)) <=> dog.birth.day = 1 \/ dog.birth.day > length
    BY <2>1, <2>2 DEF IsMonthlyBirthday, Date
  <2> HIDE DEF length
  <2> QED BY <1>1, <1>2, <1>5, <2>1, <2>3 DEF CompletedMonthsSince, Date
<1> QED BY <1>3, <1>4, <1>5

-----------------------------------------------------------------------------
\* AgeCountsBirthdays with its types, and no birthday before the birth.
AgeInvariant ==
    /\ TypeOK
    /\ IF Born(today) THEN CompletedMonthsSince(today, dog.birth) = months ELSE months = 0

LEMMA InitAge == Init => AgeInvariant
<1> SUFFICES ASSUME Init PROVE AgeInvariant
  OBVIOUS
<1>1. dog \in Dogs /\ dog.birth \in LocalDate
  BY DogsAssumption DEF Init, EligibilityProfiles
<1>2. /\ dog.birth.year \in Nat /\ dog.birth.year >= 100 /\ dog.birth.month \in 1..12
      /\ dog.birth.day \in 1..31 /\ dog.birth = Date(dog.birth.year, dog.birth.month, dog.birth.day)
  BY <1>1, FieldsOfDates
<1>3. today = Date(dog.birth.year, dog.birth.month, 1) /\ months = 0
  BY <1>2 DEF Init, Date
<1>4. today \in LocalDate
  <2>1. 1 <= DaysIn(dog.birth.year, dog.birth.month)
    BY <1>2, MonthsHaveAboutThirtyDays
  <2> QED BY <1>2, <1>3, <2>1, DatesFromFields
<1>5. Born(today) => CompletedMonthsSince(today, dog.birth) = 0
  BY <1>2, <1>3 DEF Born, OnOrBefore, CompletedMonthsSince, Date
<1> QED BY <1>1, <1>3, <1>4, <1>5 DEF AgeInvariant, TypeOK

LEMMA NextAge == AgeInvariant /\ [Next]_vars => AgeInvariant'
<1> SUFFICES ASSUME AgeInvariant, [Next]_vars PROVE AgeInvariant'
  OBVIOUS
<1>1. dog \in Dogs /\ dog.birth \in LocalDate /\ today \in LocalDate /\ months \in Nat
  BY DogsAssumption DEF AgeInvariant, TypeOK, EligibilityProfiles
<1>2. CASE NextDay
  <2>1. dog' = dog /\ today' = Tomorrow(today) /\ today' \in LocalDate
    BY <1>1, <1>2, TomorrowIsADate DEF NextDay
  <2>2. CASE Born(today)
    <3>1. Born(today)'
      BY <1>1, <2>1, <2>2, TomorrowIsNext DEF Born
    <3>2. CompletedMonthsSince(today, dog.birth) = months
      BY <2>2 DEF AgeInvariant
    <3>3. CompletedMonthsSince(today', dog.birth) = months'
      BY <1>1, <1>2, <2>1, <2>2, <3>2, AMonthOlderOnTheBirthday DEF NextDay
    <3>4. months' \in Nat
      BY <1>1, <1>2 DEF NextDay
    <3> QED BY <1>1, <2>1, <3>1, <3>3, <3>4 DEF AgeInvariant, TypeOK
  <2>3. CASE ~Born(today)
    <3>1. months' = 0
      BY <1>2, <2>3 DEF NextDay, AgeInvariant
    <3>2. Born(today)' => today' = dog.birth
      BY <1>1, <2>1, <2>3, TomorrowIsNext DEF Born
    <3>3. CompletedMonthsSince(dog.birth, dog.birth) = 0
      BY <1>1, FieldsOfDates DEF CompletedMonthsSince
    <3> QED BY <1>1, <2>1, <3>1, <3>2, <3>3 DEF AgeInvariant, TypeOK
  <2> QED BY <2>2, <2>3
<1>3. CASE UNCHANGED <<dog, today, months>>
  BY <1>3 DEF AgeInvariant, TypeOK, Born
<1> QED BY <1>2, <1>3 DEF Next, HoldInternationalShow, HoldBelgianShow, vars

\* Whatever the dates of birth, leap days and ends of months among them, the age
\* the policy works with is the number of monthly birthdays so far
\* (local-date.ts :136-152).
THEOREM AgesAreCounted == Spec => []AgeCountsBirthdays
<1>1. AgeInvariant => AgeCountsBirthdays
  BY DEF AgeInvariant, AgeCountsBirthdays
<1> QED BY <1>1, InitAge, NextAge, PTL DEF Spec

-----------------------------------------------------------------------------
\* The numbers editions are picked by order dates as isOnOrBefore does: what is
\* in force by the one is in force by the other (local-date.ts :126-134).
THEOREM OrdinalsAreChronological ==
    ASSUME NEW this \in LocalDate, NEW other \in LocalDate
    PROVE  OnOrBefore(this, other) <=> Ordinal(this) <= Ordinal(other)
<1> DEFINE y == this.year   m == this.month   d == this.day
           yy == other.year  mm == other.month  dd == other.day
<1>1. /\ y \in Nat /\ m \in 1..12 /\ d \in 1..31
      /\ yy \in Nat /\ mm \in 1..12 /\ dd \in 1..31
  BY FieldsOfDates
<1>2. /\ Ordinal(this) = y * 372 + (m - 1) * 31 + (d - 1)
      /\ Ordinal(other) = yy * 372 + (mm - 1) * 31 + (dd - 1)
  BY DEF Ordinal
<1>3. OnOrBefore(this, other) <=> y < yy \/ (y = yy /\ m < mm) \/ (y = yy /\ m = mm /\ d <= dd)
  BY DEF OnOrBefore
<1> HIDE DEF y, m, d, yy, mm, dd
<1>4. (m - 1) * 31 + (d - 1) \in 0..371 /\ (mm - 1) * 31 + (dd - 1) \in 0..371
  BY <1>1
<1>5. CASE y = yy
  <2>1. CASE m = mm BY <1>1, <1>2, <1>3, <1>5, <2>1
  <2>2. CASE m < mm
    <3>1. (m - 1) * 31 + 31 <= (mm - 1) * 31 BY <1>1, <2>2
    <3> QED BY <1>1, <1>2, <1>3, <1>5, <2>2, <3>1
  <2>3. CASE mm < m
    <3>1. (mm - 1) * 31 + 31 <= (m - 1) * 31 BY <1>1, <2>3
    <3> QED BY <1>1, <1>2, <1>3, <1>5, <2>3, <3>1
  <2> QED BY <1>1, <2>1, <2>2, <2>3
<1>6. CASE y < yy
  <2>1. y * 372 + 372 <= yy * 372 BY <1>1, <1>6
  <2> QED BY <1>1, <1>2, <1>3, <1>4, <1>6, <2>1
<1>7. CASE yy < y
  <2>1. yy * 372 + 372 <= y * 372 BY <1>1, <1>7
  <2> QED BY <1>1, <1>2, <1>3, <1>4, <1>7, <2>1
<1> QED BY <1>1, <1>5, <1>6, <1>7

-----------------------------------------------------------------------------
\* An age is never negative, which asAgeMonths would refuse, and never falls: a
\* class a dog was too old for stays closed to it, whatever the dates of the
\* shows (local-date.ts :146-152, fci-class-eligibility-policy.ts :48-59).
THEOREM ClassesAreLeftForGood ==
    ASSUME NEW birth \in LocalDate, NEW date \in LocalDate, NEW later \in LocalDate,
           OnOrBefore(birth, date), OnOrBefore(date, later)
    PROVE  /\ CompletedMonthsSince(date, birth) \in Nat
           /\ CompletedMonthsSince(date, birth) <= CompletedMonthsSince(later, birth)
           /\ \A rules \in ClassEntryRules :
                 rules.lessThan # 0 /\ rules.lessThan <= CompletedMonthsSince(date, birth)
                 => ~OfAge(rules, CompletedMonthsSince(later, birth))
<1>1. /\ birth.year \in Nat /\ birth.month \in 1..12 /\ birth.day \in 1..31
      /\ date.year \in Nat /\ date.month \in 1..12 /\ date.day \in 1..31
      /\ later.year \in Nat /\ later.month \in 1..12 /\ later.day \in 1..31
  BY FieldsOfDates
<1>2. CompletedMonthsSince(date, birth) \in Nat
  <2>1. CASE birth.year < date.year
    <3>1. date.year - birth.year \in Nat /\ date.year - birth.year >= 1
      BY <1>1, <2>1
    <3>2. (date.year - birth.year) * 12 + (date.month - birth.month) \in Nat
          /\ (date.year - birth.year) * 12 + (date.month - birth.month) >= 1
      BY <1>1, <3>1
    <3> QED BY <1>1, <3>2 DEF CompletedMonthsSince
  <2>2. CASE birth.year = date.year
    <3>1. (date.year - birth.year) * 12 + (date.month - birth.month) = date.month - birth.month
      BY <1>1, <2>2
    <3>2. birth.month < date.month \/ (birth.month = date.month /\ birth.day <= date.day)
      BY <1>1, <2>2 DEF OnOrBefore
    <3> QED BY <1>1, <3>1, <3>2 DEF CompletedMonthsSince
  <2> QED BY <1>1, <2>1, <2>2 DEF OnOrBefore
<1>3. /\ CompletedMonthsSince(later, birth) \in Int
      /\ CompletedMonthsSince(date, birth) <= CompletedMonthsSince(later, birth)
  <2> DEFINE apart(d) == (d.year - birth.year) * 12 + (d.month - birth.month)
  <2>1. apart(date) \in Int /\ apart(later) \in Int
    BY <1>1
  <2>2. apart(date) < apart(later) \/ (apart(date) = apart(later) /\ date.day <= later.day)
    <3>1. CASE date.year < later.year
      <4>1. later.year - birth.year >= (date.year - birth.year) + 1
        BY <1>1, <3>1
      <4> QED BY <1>1, <4>1
    <3>2. CASE date.year = later.year
      <4>1. \/ date.month < later.month
            \/ date.month = later.month /\ date.day <= later.day
        BY <1>1, <3>2 DEF OnOrBefore
      <4>2. later.year - birth.year = date.year - birth.year
        BY <3>2
      <4> QED BY <1>1, <4>1, <4>2
    <3> QED BY <1>1, <3>1, <3>2 DEF OnOrBefore
  <2>3. \A d \in {date, later} :
            CompletedMonthsSince(d, birth) = IF d.day < birth.day THEN apart(d) - 1 ELSE apart(d)
    BY DEF CompletedMonthsSince
  <2> HIDE DEF apart
  <2> QED BY <1>1, <2>1, <2>2, <2>3
<1>4. \A rules \in ClassEntryRules : rules.lessThan \in Nat
  BY DEF ClassEntryRules
<1> HIDE DEF CompletedMonthsSince
<1> QED BY <1>2, <1>3, <1>4 DEF OfAge

\* Two classes of which one begins where the other ends never share a dog and
\* leave none of their ages out, whatever its birth and the day of the show
\* (fci-class-eligibility-policy.ts :13-18).
THEOREM AdjacentClassesPartition ==
    ASSUME NEW below \in ClassEntryRules, NEW above \in ClassEntryRules,
           below.lessThan # 0, below.lessThan = above.from,
           NEW profile \in EligibilityProfiles, NEW showDate \in LocalDate
    PROVE  /\ ~(IsEligible(below, profile, showDate) /\ IsEligible(above, profile, showDate))
           /\ LET age      == CompletedMonthsSince(showDate, profile.birth)
                  ofAge    == below.from <= age /\ (above.lessThan = 0 \/ age < above.lessThan)
                  admitted == /\ below.certificates \cup above.certificates \subseteq profile.held
                              /\ below.bredByExhibitor \/ above.bredByExhibitor
                                 => profile.handlerIsBreeder
              IN OnOrBefore(profile.birth, showDate) /\ ofAge /\ admitted
                 => IsEligible(below, profile, showDate) \/ IsEligible(above, profile, showDate)
<1> DEFINE age == CompletedMonthsSince(showDate, profile.birth)
<1>1. age \in Int
  BY FieldsOfDates DEF CompletedMonthsSince, EligibilityProfiles
<1>2. /\ below.from \in Nat /\ below.lessThan \in Nat /\ above.from \in Nat /\ above.lessThan \in Nat
  BY DEF ClassEntryRules
<1> HIDE DEF age
<1>3. ~(OfAge(below, age) /\ OfAge(above, age))
  BY <1>1, <1>2 DEF OfAge
<1>4. below.from <= age /\ (above.lessThan = 0 \/ age < above.lessThan)
      => OfAge(below, age) \/ OfAge(above, age)
  BY <1>1, <1>2 DEF OfAge
<1> QED BY <1>3, <1>4 DEF IsEligible, Verdict, age

-----------------------------------------------------------------------------
(* The bundled rulesets.  What is proved of any editions and any items in  *)
(* EffectiveRulesetProofs is used for the layers of a Belgian show; an     *)
(* international show has the first of them.                               *)

KmshRules == INSTANCE EffectiveRulesetProofs WITH
    LayerOrder <- <<"fci", "kmsh">>, Dates <- Nat, Classes <- ClassIds, Scales <- ScaleIds,
    Awards <- AwardTypeIds, ShowTypes <- ShowTypeIds, Grades <- GradeIds,
    EntryRules <- ClassEntryRules, Contents <- {Fci2026, Fci2027, Kmsh2023}, MaxEditions <- 3,
    editions <- BundledEditions

LEMMA InternationalAreTheirs ==
    /\ \A layer, date : International!InForce(layer, date) = KmshRules!InForce(layer, date)
    /\ \A sources : International!MergeById(sources) = KmshRules!MergeById(sources)
    /\ \A c : International!ReferenceErrors(c) = KmshRules!ReferenceErrors(c)
<1>1. ASSUME NEW layer, NEW date PROVE International!InForce(layer, date) = KmshRules!InForce(layer, date)
  BY DEF
       KmshRules!InForce, KmshRules!FoldLeft, KmshRules!MapThenFoldSet, KmshRules!Max,
       International!InForce, International!FoldLeft, International!MapThenFoldSet,
       International!Max
<1>2. ASSUME NEW sources PROVE International!MergeById(sources) = KmshRules!MergeById(sources)
  BY DEF
       KmshRules!MergeById, KmshRules!Merge, KmshRules!Nothing, KmshRules!FoldLeft,
       KmshRules!MapThenFoldSet, KmshRules!Max, International!MergeById, International!Merge,
       International!Nothing, International!FoldLeft, International!MapThenFoldSet,
       International!Max
<1>3. ASSUME NEW c PROVE International!ReferenceErrors(c) = KmshRules!ReferenceErrors(c)
  BY DEF
       KmshRules!ReferenceErrors, KmshRules!ClassErrors, KmshRules!AwardErrors,
       KmshRules!HigherScopeErrors, KmshRules!ReachableScales, KmshRules!AlongFeeders,
       KmshRules!AlongFeeder, KmshRules!OfKind, KmshRules!AwardIds, KmshRules!ScalesOf,
       KmshRules!ClassesNaming, KmshRules!HasMinimum, KmshRules!ResolvesOn, KmshRules!MergeById,
       KmshRules!Merge, KmshRules!Nothing, KmshRules!InForce, KmshRules!FoldLeft,
       KmshRules!MapThenFoldSet, KmshRules!Max, KmshRules!Range, International!ReferenceErrors,
       International!ClassErrors, International!AwardErrors, International!HigherScopeErrors,
       International!ReachableScales, International!AlongFeeders, International!AlongFeeder,
       International!OfKind, International!AwardIds, International!ScalesOf,
       International!ClassesNaming, International!HasMinimum, International!ResolvesOn,
       International!MergeById, International!Merge, International!Nothing,
       International!InForce, International!FoldLeft, International!MapThenFoldSet,
       International!Max, International!Range
<1> QED BY <1>1, <1>2, <1>3

LEMMA BelgianAreTheirs == ASSUME NEW date PROVE KmshRules!Outcomes(date) = Belgian!Outcomes(date)
BY DEF KmshRules!Outcomes, KmshRules!Pinned, KmshRules!ReferenceErrors, KmshRules!ClassErrors,
       KmshRules!AwardErrors, KmshRules!HigherScopeErrors, KmshRules!ReachableScales,
       KmshRules!AlongFeeders, KmshRules!AlongFeeder, KmshRules!OfKind, KmshRules!AwardIds,
       KmshRules!ScalesOf, KmshRules!ClassesNaming, KmshRules!HasMinimum, KmshRules!ResolvesOn,
       KmshRules!NoShow, KmshRules!MergeById, KmshRules!Merge, KmshRules!Nothing, KmshRules!InForce,
       KmshRules!FoldLeft, KmshRules!MapThenFoldSet, KmshRules!Max, KmshRules!Range, Belgian!Outcomes,
       Belgian!Pinned, Belgian!ReferenceErrors, Belgian!ClassErrors, Belgian!AwardErrors,
       Belgian!HigherScopeErrors, Belgian!ReachableScales, Belgian!AlongFeeders, Belgian!AlongFeeder,
       Belgian!OfKind, Belgian!AwardIds, Belgian!ScalesOf, Belgian!ClassesNaming, Belgian!HasMinimum,
       Belgian!ResolvesOn, Belgian!NoShow, Belgian!MergeById, Belgian!Merge, Belgian!Nothing,
       Belgian!InForce, Belgian!FoldLeft, Belgian!MapThenFoldSet, Belgian!Max, Belgian!Range

\* The assumptions of EffectiveRuleset hold of the bundled items.
LEMMA ThreeAreFinite == ASSUME NEW a, NEW b, NEW c PROVE IsFiniteSet({a, b, c})
<1>1. IsFiniteSet({a}) /\ IsFiniteSet({b}) /\ IsFiniteSet({c})
  BY FS_Singleton
<1>2. {a, b, c} = ({a} \cup {b}) \cup {c}
  OBVIOUS
<1> QED BY <1>1, <1>2, FS_Union

LEMMA AwardTypesAreFinite == IsFiniteSet(AwardTypeIds)
<1> DEFINE breed    == {"cacib", "res-cacib", "cacib-j"} \cup {"cacib-v", "bob", "bos"}
           finals   == {"big", "bis", "best-junior"} \cup {"best-veteran", "best-puppy", "best-minor-puppy"}
           others   == {"best-brace", "best-breeders-group", "best-progeny-group"} \cup {"cac", "res-cac", "cac"}
<1>1. IsFiniteSet(breed) /\ IsFiniteSet(finals) /\ IsFiniteSet(others)
  BY ThreeAreFinite, FS_Union
<1>2. AwardTypeIds = (breed \cup finals) \cup others
  BY DEF AwardTypeIds, FciAwardIds, KmshAwardIds
<1> HIDE DEF breed, finals, others
<1> QED BY <1>1, <1>2, FS_Union

LEMMA BundledIds ==
    /\ ClassIds \cap ScaleIds = {} /\ ClassIds \cap AwardTypeIds = {} /\ ScaleIds \cap AwardTypeIds = {}
    /\ ShowTypeIds \cap (ClassIds \cup ScaleIds \cup AwardTypeIds) = {}
BY DEF ClassIds, ScaleIds, AwardTypeIds, FciAwardIds, KmshAwardIds, ShowTypeIds

LEMMA BundledAreContents == \A c \in {Fci2026, Fci2027, Kmsh2023} : Belgian!IsContent(c)
BY BundledContentsAssumption DEF BundledEditions, Edition

LEMMA BundledAreEditions ==
    /\ BundledEditions \in Seq([layer : {"fci", "kmsh"}, from : Nat, content : {Fci2026, Fci2027, Kmsh2023}])
    /\ Len(BundledEditions) = 3 /\ DOMAIN BundledEditions = 1 .. 3
    /\ BundledEditions[1].layer = "fci" /\ BundledEditions[1].content = Fci2026
    /\ BundledEditions[2].layer = "fci" /\ BundledEditions[2].content = Fci2027
    /\ BundledEditions[3].layer = "kmsh" /\ BundledEditions[3].content = Kmsh2023
    /\ BundledEditions[1].from = 2026 * 372 /\ BundledEditions[2].from = 2027 * 372
    /\ BundledEditions[3].from = 2023 * 372
<1>1. \A year \in Nat : Ordinal(Date(year, 1, 1)) = year * 372
  BY DEF Ordinal, Date
<1> QED BY <1>1 DEF BundledEditions, Edition

LEMMA BundledAssumptions ==
    /\ BundledEditions \in Seq(KmshRules!Edition)
    /\ KmshRules!LayersAssumption /\ KmshRules!DatesAssumption /\ KmshRules!IdsAssumption /\ KmshRules!AwardsAssumption
    /\ KmshRules!ContentsAssumption /\ KmshRules!NoneAssumption /\ KmshRules!BoundAssumption
<1>1. BundledEditions \in Seq(KmshRules!Edition)
  <2>1. KmshRules!Edition = [layer : KmshRules!Layers, from : Nat, content : {Fci2026, Fci2027, Kmsh2023}]
    BY DEF KmshRules!Edition
  <2>2. KmshRules!Layers = {"fci", "kmsh"}
    BY DEF KmshRules!Layers
  <2> QED BY <2>1, <2>2, BundledAreEditions
<1>2. KmshRules!LayersAssumption /\ KmshRules!DatesAssumption /\ KmshRules!BoundAssumption
  BY DEF KmshRules!LayersAssumption, KmshRules!DatesAssumption, KmshRules!BoundAssumption, KmshRules!Layers
<1>3. KmshRules!IdsAssumption /\ KmshRules!AwardsAssumption
  BY BundledIds, AwardTypesAreFinite DEF KmshRules!IdsAssumption, KmshRules!AwardsAssumption, KmshRules!IsFiniteSet, IsFiniteSet
<1>4. KmshRules!ContentsAssumption
  <2>1. \A c : KmshRules!IsContent(c) = Belgian!IsContent(c)
    BY DEF Belgian!IsContent, Belgian!IsGradeScale, Belgian!ClassDefs, Belgian!AwardTypes, Belgian!ShowTypeDefs, Belgian!Feeders,
           KmshRules!IsContent, KmshRules!IsGradeScale, KmshRules!ClassDefs, KmshRules!AwardTypes, KmshRules!ShowTypeDefs, KmshRules!Feeders
  <2> QED BY <2>1, BundledAreContents DEF KmshRules!ContentsAssumption
<1>5. KmshRules!NoneAssumption
  BY NoneAssumption DEF KmshRules!NoneAssumption, Belgian!NoneAssumption, KmshRules!Layers, Belgian!Layers
<1> QED BY <1>1, <1>2, <1>3, <1>4, <1>5

-----------------------------------------------------------------------------
\* What the editions of a show come to: those of the KMSH over those of the FCI.
Bundled(c, belgian) == \E fci \in {Fci2026, Fci2027} :
    /\ DOMAIN c = DOMAIN fci \cup (IF belgian THEN DOMAIN Kmsh2023 ELSE {})
    /\ \A id \in DOMAIN c : c[id] = IF belgian /\ id \in DOMAIN Kmsh2023 THEN Kmsh2023[id] ELSE fci[id]

FciClassIds == ClassIds \ {"bred-by-exhibitor", "fokkersklas"}

LEMMA FciItems ==
    ASSUME NEW c \in {Fci2026, Fci2027}
    PROVE  /\ \/ DOMAIN c = FciClassIds \cup (ScaleIds \cup (FciAwardIds \cup {"cacib-show"}))
              \/ DOMAIN c = FciClassIds \cup {"bred-by-exhibitor"} \cup (ScaleIds \cup (FciAwardIds \cup {"cacib-show"}))
           /\ \A id \in FciClassIds : c[id] = FciClasses[id]
           /\ "bred-by-exhibitor" \in DOMAIN c => c["bred-by-exhibitor"] = Adult(Bred(Rules(15, 0)))
           /\ \A id \in ScaleIds : c[id] = FciGradeScales[id]
           /\ \A id \in FciAwardIds : c[id] = FciAwardTypes[id]
           /\ c["cacib-show"] = ShowType(FciAwardIds)
<1>1. /\ DOMAIN FciClasses = FciClassIds /\ DOMAIN FciGradeScales = ScaleIds
      /\ DOMAIN FciAwardTypes = FciAwardIds /\ DOMAIN FciShowTypes = {"cacib-show"}
      /\ DOMAIN BredByExhibitor = {"bred-by-exhibitor"}
      /\ FciShowTypes["cacib-show"] = ShowType(FciAwardIds)
      /\ BredByExhibitor["bred-by-exhibitor"] = Adult(Bred(Rules(15, 0)))
  BY DEF FciClasses, FciGradeScales, FciAwardTypes, FciShowTypes, BredByExhibitor, FciClassIds
<1>2. /\ FciClassIds \cap (ScaleIds \cup (FciAwardIds \cup {"cacib-show"})) = {}
      /\ "bred-by-exhibitor" \notin FciClassIds \cup (ScaleIds \cup (FciAwardIds \cup {"cacib-show"}))
      /\ ScaleIds \cap (FciAwardIds \cup {"cacib-show"}) = {} /\ "cacib-show" \notin FciAwardIds
  BY DEF FciClassIds, ClassIds, ScaleIds, FciAwardIds
<1>3. /\ DOMAIN FciOtherItems = ScaleIds \cup (FciAwardIds \cup {"cacib-show"})
      /\ \A id \in ScaleIds : FciOtherItems[id] = FciGradeScales[id]
      /\ \A id \in FciAwardIds : FciOtherItems[id] = FciAwardTypes[id]
      /\ FciOtherItems["cacib-show"] = ShowType(FciAwardIds)
  BY <1>1, <1>2 DEF Both, FciOtherItems
<1> DEFINE classes == IF c = Fci2026 THEN FciClasses ELSE Both(FciClasses, BredByExhibitor)
<1>4. c = Both(classes, FciOtherItems)
  BY DEF Fci2026, Fci2027
<1>5. /\ DOMAIN classes \in {FciClassIds, FciClassIds \cup {"bred-by-exhibitor"}}
      /\ \A id \in FciClassIds : classes[id] = FciClasses[id]
      /\ "bred-by-exhibitor" \in DOMAIN classes => classes["bred-by-exhibitor"] = Adult(Bred(Rules(15, 0)))
  BY <1>1, <1>2 DEF Both
<1> HIDE DEF classes
<1>6. /\ DOMAIN c = DOMAIN classes \cup DOMAIN FciOtherItems
      /\ \A id \in DOMAIN classes : c[id] = classes[id]
      /\ \A id \in DOMAIN FciOtherItems : id \notin DOMAIN classes => c[id] = FciOtherItems[id]
  BY <1>4 DEF Both
<1>7. DOMAIN classes \cap DOMAIN FciOtherItems = {}
  BY <1>2, <1>3, <1>5
<1> HIDE DEF FciClassIds
<1>8. \A id \in FciClassIds : c[id] = FciClasses[id]
  BY <1>5, <1>6
<1>9. /\ \A id \in ScaleIds : c[id] = FciGradeScales[id]
      /\ \A id \in FciAwardIds : c[id] = FciAwardTypes[id]
      /\ c["cacib-show"] = ShowType(FciAwardIds)
  BY <1>3, <1>6, <1>7
<1>10. "bred-by-exhibitor" \in DOMAIN c => c["bred-by-exhibitor"] = Adult(Bred(Rules(15, 0)))
  BY <1>2, <1>3, <1>5, <1>6
<1>11. \/ DOMAIN c = FciClassIds \cup (ScaleIds \cup (FciAwardIds \cup {"cacib-show"}))
       \/ DOMAIN c = FciClassIds \cup {"bred-by-exhibitor"} \cup (ScaleIds \cup (FciAwardIds \cup {"cacib-show"}))
  BY <1>3, <1>5, <1>6
<1> QED BY <1>8, <1>9, <1>10, <1>11

LEMMA KmshItems ==
    /\ DOMAIN Kmsh2023 = {"minor-puppy", "fokkersklas"} \cup (KmshAwardIds \cup {"bob", "bos", "kmsh-national-show"})
    /\ Kmsh2023["minor-puppy"] = MinorPuppy(3)
    /\ Kmsh2023["fokkersklas"] = Class(Bred(Rules(15, 0)), "fci-adult", {"cac", "res-cac"})
    /\ \A id \in KmshAwardIds : Kmsh2023[id] = NationalCertificates[id]
    /\ \A id \in {"bob", "bos"} : Kmsh2023[id] = BreedWithCac
    /\ Kmsh2023["kmsh-national-show"] = ShowType(AwardTypeIds)
<1> DEFINE breed == [id \in {"bob", "bos"} |-> BreedWithCac]
           three == Both(breed, KmshShowTypes)
           rest  == Both(NationalCertificates, three)
<1>1. /\ DOMAIN KmshClasses = {"minor-puppy", "fokkersklas"} /\ DOMAIN NationalCertificates = KmshAwardIds
      /\ DOMAIN KmshShowTypes = {"kmsh-national-show"} /\ DOMAIN breed = {"bob", "bos"}
      /\ KmshClasses["minor-puppy"] = MinorPuppy(3)
      /\ KmshClasses["fokkersklas"] = Class(Bred(Rules(15, 0)), "fci-adult", {"cac", "res-cac"})
      /\ \A id \in {"bob", "bos"} : breed[id] = BreedWithCac
      /\ KmshShowTypes["kmsh-national-show"] = ShowType(AwardTypeIds)
  <2>1. KmshAwardIds \cup FciAwardIds = AwardTypeIds
    BY DEF AwardTypeIds
  <2> QED BY <2>1 DEF KmshClasses, NationalCertificates, KmshShowTypes, KmshAwardIds
<1> HIDE DEF breed
<1>2. /\ DOMAIN three = {"bob", "bos", "kmsh-national-show"}
      /\ \A id \in {"bob", "bos"} : three[id] = BreedWithCac
      /\ three["kmsh-national-show"] = ShowType(AwardTypeIds)
  BY <1>1 DEF Both
<1> HIDE DEF three
<1>3. /\ DOMAIN rest = KmshAwardIds \cup {"bob", "bos", "kmsh-national-show"}
      /\ \A id \in KmshAwardIds : rest[id] = NationalCertificates[id]
      /\ \A id \in {"bob", "bos", "kmsh-national-show"} : rest[id] = three[id]
  <2>1. KmshAwardIds \cap {"bob", "bos", "kmsh-national-show"} = {}
    BY DEF KmshAwardIds
  <2> QED BY <1>1, <1>2, <2>1 DEF Both
<1>4. Kmsh2023 = Both(KmshClasses, rest)
  BY DEF Kmsh2023, breed, three
<1> HIDE DEF rest
<1>5. {"minor-puppy", "fokkersklas"} \cap DOMAIN rest = {}
  BY <1>3 DEF KmshAwardIds
<1> QED BY <1>1, <1>2, <1>3, <1>4, <1>5 DEF Both

\* The classes of a show and the award they are all about.
LEMMA BundledClasses ==
    ASSUME NEW belgian \in BOOLEAN, NEW c, Bundled(c, belgian)
    PROVE  /\ \A id \in FciClassIds \ {"minor-puppy"} : id \in DOMAIN c /\ c[id] = FciClasses[id]
           /\ "minor-puppy" \in DOMAIN c /\ c["minor-puppy"] = MinorPuppy(IF belgian THEN 3 ELSE 0)
           /\ "bred-by-exhibitor" \in DOMAIN c => c["bred-by-exhibitor"] = Adult(Bred(Rules(15, 0)))
           /\ "fokkersklas" \in DOMAIN c =>
                 c["fokkersklas"] = Class(Bred(Rules(15, 0)), "fci-adult", {"cac", "res-cac"})
           /\ "bob" \in DOMAIN c
           /\ c["bob"] = IF belgian THEN BreedWithCac ELSE Higher("breed", "excellent", BreedFeeders)
<1>1. PICK fci \in {Fci2026, Fci2027} :
          /\ DOMAIN c = DOMAIN fci \cup (IF belgian THEN DOMAIN Kmsh2023 ELSE {})
          /\ \A id \in DOMAIN c : c[id] = IF belgian /\ id \in DOMAIN Kmsh2023 THEN Kmsh2023[id] ELSE fci[id]
  BY DEF Bundled
<1>2. FciClassIds \subseteq DOMAIN fci /\ "bob" \in DOMAIN fci /\ "fokkersklas" \notin DOMAIN fci
  BY FciItems DEF FciClassIds, ClassIds, ScaleIds, FciAwardIds
<1>3. fci["bob"] = Higher("breed", "excellent", BreedFeeders) /\ FciClasses["minor-puppy"] = MinorPuppy(0)
      /\ "minor-puppy" \in FciClassIds
  BY FciItems DEF FciAwardIds, FciAwardTypes, FciClasses, FciClassIds, ClassIds
<1>4. DOMAIN Kmsh2023 \cap FciClassIds = {"minor-puppy"} /\ "bred-by-exhibitor" \notin DOMAIN Kmsh2023
      /\ "bob" \in DOMAIN Kmsh2023 /\ "fokkersklas" \in DOMAIN Kmsh2023
  BY KmshItems DEF FciClassIds, ClassIds, KmshAwardIds
<1>5. \A id \in FciClassIds : fci[id] = FciClasses[id]
  BY FciItems
<1>6. "bred-by-exhibitor" \in DOMAIN fci => fci["bred-by-exhibitor"] = Adult(Bred(Rules(15, 0)))
  BY FciItems
<1>7. /\ Kmsh2023["minor-puppy"] = MinorPuppy(3) /\ Kmsh2023["bob"] = BreedWithCac
      /\ Kmsh2023["fokkersklas"] = Class(Bred(Rules(15, 0)), "fci-adult", {"cac", "res-cac"})
  BY KmshItems
<1>8. \A id \in FciClassIds \ {"minor-puppy"} : id \in DOMAIN c /\ c[id] = FciClasses[id]
  BY <1>1, <1>2, <1>4, <1>5
<1>9. "minor-puppy" \in DOMAIN c /\ c["minor-puppy"] = MinorPuppy(IF belgian THEN 3 ELSE 0)
  BY <1>1, <1>2, <1>3, <1>4, <1>5, <1>7
<1>10. "bred-by-exhibitor" \in DOMAIN c => c["bred-by-exhibitor"] = Adult(Bred(Rules(15, 0)))
  BY <1>1, <1>4, <1>6
<1>11. "fokkersklas" \in DOMAIN c =>
          c["fokkersklas"] = Class(Bred(Rules(15, 0)), "fci-adult", {"cac", "res-cac"})
  BY <1>1, <1>2, <1>4, <1>7
<1>12. "bob" \in DOMAIN c /\ c["bob"] = IF belgian THEN BreedWithCac ELSE Higher("breed", "excellent", BreedFeeders)
  BY <1>1, <1>2, <1>3, <1>4, <1>7
<1> QED BY <1>8, <1>9, <1>10, <1>11, <1>12

-----------------------------------------------------------------------------
\* The items of a bundled ruleset by kind, and what its references resolve to.
Certifying == {"cacib", "res-cacib", "cacib-j", "cacib-v", "cac", "res-cac"}
AdultAwards == {"bob", "bos", "big", "bis", "best-junior", "best-veteran"}
PuppyAwards == {"best-puppy", "best-minor-puppy"}
Collectives == {"best-brace", "best-breeders-group", "best-progeny-group"}

LEMMA AwardIdsByKind ==
    /\ AwardTypeIds = Certifying \cup AdultAwards \cup PuppyAwards \cup Collectives
    /\ FciAwardIds = (Certifying \ KmshAwardIds) \cup AdultAwards \cup PuppyAwards \cup Collectives
    /\ KmshAwardIds \subseteq Certifying
BY DEF AwardTypeIds, FciAwardIds, KmshAwardIds, Certifying, AdultAwards, PuppyAwards, Collectives

LEMMA BundledIsContent ==
    ASSUME NEW belgian \in BOOLEAN, NEW c, Bundled(c, belgian)
    PROVE  Belgian!IsContent(c)
<1>1. PICK fci \in {Fci2026, Fci2027} :
          /\ DOMAIN c = DOMAIN fci \cup (IF belgian THEN DOMAIN Kmsh2023 ELSE {})
          /\ \A id \in DOMAIN c : c[id] = IF belgian /\ id \in DOMAIN Kmsh2023 THEN Kmsh2023[id] ELSE fci[id]
  BY DEF Bundled
<1>2. Belgian!IsContent(fci) /\ Belgian!IsContent(Kmsh2023)
  BY BundledAreContents
<1>3. \A id \in DOMAIN c : \E d \in {fci, Kmsh2023} : id \in DOMAIN d /\ c[id] = d[id]
  BY <1>1
<1> QED BY <1>2, <1>3 DEF Belgian!IsContent

LEMMA BundledAwards ==
    ASSUME NEW belgian \in BOOLEAN, NEW c, Bundled(c, belgian)
    PROVE  /\ DOMAIN c \cap AwardTypeIds = IF belgian THEN AwardTypeIds ELSE FciAwardIds
           /\ \A id \in Certifying \cap DOMAIN c : c[id].kind = "perSex" /\ c[id].minimum = "excellent"
           /\ \A id \in AdultAwards : c[id].kind = "higher" /\ c[id].minimum = "excellent"
           /\ \A id \in PuppyAwards : c[id].kind = "higher" /\ c[id].minimum = "very-promising"
           /\ \A id \in Collectives : c[id].kind = "collective"
           /\ c["bob"].fedBy = IF belgian THEN BreedWithCac.fedBy ELSE BreedFeeders
           /\ c["bos"].fedBy = c["bob"].fedBy
           /\ c["big"].fedBy = <<ByAward("bob")>> /\ c["bis"].fedBy = <<ByAward("big")>>
           /\ c["best-junior"].fedBy = <<ByClass("junior")>>
           /\ c["best-veteran"].fedBy = <<ByClass("veteran")>>
           /\ c["best-puppy"].fedBy = <<ByClass("puppy")>>
           /\ c["best-minor-puppy"].fedBy = <<ByClass("minor-puppy")>>
<1>1. PICK fci \in {Fci2026, Fci2027} :
          /\ DOMAIN c = DOMAIN fci \cup (IF belgian THEN DOMAIN Kmsh2023 ELSE {})
          /\ \A id \in DOMAIN c : c[id] = IF belgian /\ id \in DOMAIN Kmsh2023 THEN Kmsh2023[id] ELSE fci[id]
  BY DEF Bundled
<1>2. DOMAIN fci \cap AwardTypeIds = FciAwardIds /\ FciAwardIds \subseteq DOMAIN fci
  BY FciItems DEF FciClassIds, ClassIds, ScaleIds, FciAwardIds, KmshAwardIds, AwardTypeIds
<1>3. DOMAIN Kmsh2023 \cap AwardTypeIds = KmshAwardIds \cup {"bob", "bos"} /\ KmshAwardIds \subseteq DOMAIN Kmsh2023
  BY KmshItems DEF FciAwardIds, KmshAwardIds, AwardTypeIds
<1>4. AwardTypeIds = FciAwardIds \cup KmshAwardIds /\ KmshAwardIds \cap FciAwardIds = {}
      /\ "bob" \in FciAwardIds /\ "bos" \in FciAwardIds
  BY DEF FciAwardIds, KmshAwardIds, AwardTypeIds
<1>5. DOMAIN c \cap AwardTypeIds = IF belgian THEN AwardTypeIds ELSE FciAwardIds
  BY <1>1, <1>2, <1>3, <1>4
<1>6. /\ \A id \in FciAwardIds \ {"bob", "bos"} : c[id] = FciAwardTypes[id]
      /\ \A id \in {"bob", "bos"} : c[id] = IF belgian THEN BreedWithCac ELSE FciAwardTypes[id]
      /\ belgian => \A id \in KmshAwardIds : c[id] = NationalCertificates[id]
  <2>1. \A id \in FciAwardIds : fci[id] = FciAwardTypes[id]
    BY FciItems
  <2>2. \A id \in KmshAwardIds : Kmsh2023[id] = NationalCertificates[id]
    BY KmshItems
  <2>3. Kmsh2023["bob"] = BreedWithCac /\ Kmsh2023["bos"] = BreedWithCac
    BY KmshItems
  <2>4. \A id \in FciAwardIds \ {"bob", "bos"} : id \in DOMAIN c /\ id \notin DOMAIN Kmsh2023
    BY <1>1, <1>2, <1>3, <1>4
  <2>5. \A id \in {"bob", "bos"} : id \in DOMAIN c /\ id \in DOMAIN Kmsh2023
    BY <1>1, <1>2, <1>3, <1>4
  <2>6. belgian => \A id \in KmshAwardIds : id \in DOMAIN c /\ id \in DOMAIN Kmsh2023
    BY <1>1, <1>3
  <2> QED BY <1>1, <1>4, <2>1, <2>2, <2>3, <2>4, <2>5, <2>6
<1>7. /\ \A id \in Certifying \ KmshAwardIds : FciAwardTypes[id].kind = "perSex" /\ FciAwardTypes[id].minimum = "excellent"
      /\ \A id \in AdultAwards : FciAwardTypes[id].kind = "higher" /\ FciAwardTypes[id].minimum = "excellent"
      /\ \A id \in PuppyAwards : FciAwardTypes[id].kind = "higher" /\ FciAwardTypes[id].minimum = "very-promising"
      /\ \A id \in Collectives : FciAwardTypes[id].kind = "collective"
      /\ \A id \in {"bob", "bos"} : FciAwardTypes[id].fedBy = BreedFeeders
      /\ FciAwardTypes["big"].fedBy = <<ByAward("bob")>> /\ FciAwardTypes["bis"].fedBy = <<ByAward("big")>>
      /\ FciAwardTypes["best-junior"].fedBy = <<ByClass("junior")>>
      /\ FciAwardTypes["best-veteran"].fedBy = <<ByClass("veteran")>>
      /\ FciAwardTypes["best-puppy"].fedBy = <<ByClass("puppy")>>
      /\ FciAwardTypes["best-minor-puppy"].fedBy = <<ByClass("minor-puppy")>>
  BY DEF FciAwardTypes, FciAwardIds, KmshAwardIds, Certifying, AdultAwards, PuppyAwards, Collectives,
         PerSex, Higher, Collective
<1>8. /\ BreedWithCac.kind = "higher" /\ BreedWithCac.minimum = "excellent"
      /\ \A id \in KmshAwardIds : NationalCertificates[id].kind = "perSex" /\ NationalCertificates[id].minimum = "excellent"
  BY DEF BreedWithCac, Higher, NationalCertificates, PerSex, KmshAwardIds
<1>9. /\ AdultAwards \cup PuppyAwards \cup Collectives \subseteq FciAwardIds /\ Certifying \ KmshAwardIds \subseteq FciAwardIds
      /\ {"bob", "bos"} \cap (Certifying \cup PuppyAwards \cup Collectives) = {} /\ {"bob", "bos"} \subseteq AdultAwards
  BY DEF AdultAwards, PuppyAwards, Collectives, Certifying, FciAwardIds, KmshAwardIds
<1>10. \A id \in Certifying \cap DOMAIN c : c[id].kind = "perSex" /\ c[id].minimum = "excellent"
  <2> SUFFICES ASSUME NEW id \in Certifying, id \in DOMAIN c PROVE c[id].kind = "perSex" /\ c[id].minimum = "excellent"
    OBVIOUS
  <2>1. CASE id \notin KmshAwardIds
    BY <1>6, <1>7, <1>9, <2>1
  <2>2. CASE id \in KmshAwardIds
    <3>1. belgian
      BY <1>4, <1>5, <2>2
    <3> QED BY <1>6, <1>8, <2>2, <3>1
  <2> QED BY <2>1, <2>2
<1>11. \A id \in AdultAwards : c[id].kind = "higher" /\ c[id].minimum = "excellent"
  BY <1>6, <1>7, <1>8, <1>9
<1>12. /\ \A id \in PuppyAwards : c[id].kind = "higher" /\ c[id].minimum = "very-promising"
       /\ \A id \in Collectives : c[id].kind = "collective"
  BY <1>6, <1>7, <1>9
<1>13. /\ c["bob"].fedBy = IF belgian THEN BreedWithCac.fedBy ELSE BreedFeeders
       /\ c["bos"].fedBy = c["bob"].fedBy
  BY <1>6, <1>7
<1>14. \A id \in {"big", "bis", "best-junior", "best-veteran", "best-puppy", "best-minor-puppy"} : c[id] = FciAwardTypes[id]
  BY <1>6 DEF FciAwardIds
<1> QED BY <1>5, <1>7, <1>10, <1>11, <1>12, <1>13, <1>14

\* The scales, each with the grade that is asked for on it.
LEMMA BundledScales ==
    ASSUME NEW belgian \in BOOLEAN, NEW c, Bundled(c, belgian)
    PROVE  /\ "fci-adult" \in Belgian!OfKind(c, {"scale"}) /\ "excellent" \in DOMAIN c["fci-adult"].grades
           /\ "fci-puppy" \in Belgian!OfKind(c, {"scale"}) /\ "very-promising" \in DOMAIN c["fci-puppy"].grades
<1>1. PICK fci \in {Fci2026, Fci2027} :
          /\ DOMAIN c = DOMAIN fci \cup (IF belgian THEN DOMAIN Kmsh2023 ELSE {})
          /\ \A id \in DOMAIN c : c[id] = IF belgian /\ id \in DOMAIN Kmsh2023 THEN Kmsh2023[id] ELSE fci[id]
  BY DEF Bundled
<1>2. ScaleIds \subseteq DOMAIN fci /\ \A id \in ScaleIds : fci[id] = FciGradeScales[id]
  BY FciItems
<1>3. ScaleIds \cap DOMAIN Kmsh2023 = {}
  BY KmshItems DEF ScaleIds, KmshAwardIds
<1>4. "fci-adult" \in ScaleIds /\ "fci-puppy" \in ScaleIds
  BY DEF ScaleIds
<1>5. \A id \in ScaleIds : id \in DOMAIN c /\ c[id] = FciGradeScales[id]
  BY <1>1, <1>2, <1>3
<1>6. /\ FciGradeScales["fci-adult"].kind = "scale" /\ "excellent" \in DOMAIN FciGradeScales["fci-adult"].grades
      /\ FciGradeScales["fci-puppy"].kind = "scale" /\ "very-promising" \in DOMAIN FciGradeScales["fci-puppy"].grades
  BY DEF FciGradeScales, ScaleIds, Scale
<1> QED BY <1>4, <1>5, <1>6 DEF Belgian!OfKind

PuppyClasses == {"minor-puppy", "puppy"}

\* The classes: puppies have a scale of their own and no certificates.
LEMMA BundledEntries ==
    ASSUME NEW belgian \in BOOLEAN, NEW c, Bundled(c, belgian)
    PROVE  /\ {"junior", "veteran"} \cup PuppyClasses \subseteq Belgian!OfKind(c, {"class"})
           /\ \A id \in PuppyClasses : c[id].scale = "fci-puppy" /\ c[id].awards = {}
           /\ \A id \in Belgian!OfKind(c, {"class"}) \ PuppyClasses :
                 c[id].scale = "fci-adult" /\ c[id].awards \subseteq Certifying \cap DOMAIN c
<1>1. Belgian!OfKind(c, {"class"}) \subseteq ClassIds
  BY BundledIsContent DEF Belgian!OfKind, Belgian!IsContent, Belgian!IsGradeScale, Belgian!AwardTypes, Belgian!ShowTypeDefs
<1>2. FciAwardIds \subseteq DOMAIN c
  BY BundledAwards DEF AwardTypeIds
<1>3. {"cacib", "res-cacib", "cacib-j", "cacib-v"} \subseteq Certifying \cap DOMAIN c
  BY <1>2 DEF FciAwardIds, Certifying
<1>4. /\ FciClasses["junior"] = Class(Rules(9, 18), "fci-adult", {"cacib-j"})
      /\ FciClasses["intermediate"] = Adult(Rules(15, 24)) /\ FciClasses["open"] = Adult(Rules(15, 0))
      /\ FciClasses["working"] = Adult(With("working-certificate", Rules(15, 0)))
      /\ FciClasses["champion"] = Adult(With("champion-certificate", Rules(15, 0)))
      /\ FciClasses["veteran"] = Class(Rules(96, 0), "fci-adult", {"cacib-v"})
      /\ FciClasses["honour"] = Class(Rules(0, 0), "fci-adult", {})
      /\ FciClasses["puppy"] = Class(Rules(6, 9), "fci-puppy", {})
  BY DEF FciClasses, ClassIds
<1>5. ASSUME NEW rules PROVE /\ Adult(rules).scale = "fci-adult" /\ Adult(rules).awards = {"cacib", "res-cacib"}
                             /\ Adult(rules).kind = "class"
  BY DEF Adult, Class
<1>6. ASSUME NEW rules, NEW scale, NEW awards
      PROVE  LET class == Class(rules, scale, awards) IN
             class.scale = scale /\ class.awards = awards /\ class.kind = "class"
  BY DEF Class
<1>7. \A id \in FciClassIds \ PuppyClasses : /\ FciClasses[id].kind = "class" /\ FciClasses[id].scale = "fci-adult"
                                             /\ FciClasses[id].awards \subseteq Certifying \cap DOMAIN c
  <2>1. ASSUME NEW id \in {"intermediate", "open", "working", "champion"}
        PROVE  /\ FciClasses[id].kind = "class" /\ FciClasses[id].scale = "fci-adult"
               /\ FciClasses[id].awards \subseteq Certifying \cap DOMAIN c
    <3>1. \E rules : FciClasses[id] = Adult(rules)
      BY <1>4
    <3> QED BY <1>3, <1>5, <3>1
  <2>2. ASSUME NEW id \in {"junior", "veteran", "honour"}
        PROVE  /\ FciClasses[id].kind = "class" /\ FciClasses[id].scale = "fci-adult"
               /\ FciClasses[id].awards \subseteq Certifying \cap DOMAIN c
    <3>1. PICK rules, awards : /\ awards \subseteq {"cacib-j", "cacib-v"}
                               /\ FciClasses[id] = Class(rules, "fci-adult", awards)
      BY <1>4, {"cacib-j"} \subseteq {"cacib-j", "cacib-v"}, {"cacib-v"} \subseteq {"cacib-j", "cacib-v"},
         {} \subseteq {"cacib-j", "cacib-v"}
    <3>2. /\ FciClasses[id].kind = "class" /\ FciClasses[id].scale = "fci-adult"
          /\ FciClasses[id].awards = awards
      BY <1>6, <3>1
    <3> QED BY <1>3, <3>1, <3>2
  <2>3. FciClassIds \ PuppyClasses \subseteq {"intermediate", "open", "working", "champion"} \cup {"junior", "veteran", "honour"}
    BY DEF FciClassIds, ClassIds, PuppyClasses
  <2> QED BY <2>1, <2>2, <2>3
<1>8. c["minor-puppy"].kind = "class" /\ c["minor-puppy"].scale = "fci-puppy" /\ c["minor-puppy"].awards = {}
  <2>1. \E from : c["minor-puppy"] = MinorPuppy(from)
    BY BundledClasses
  <2> QED BY <1>6, <2>1 DEF MinorPuppy
<1>9. c["puppy"].kind = "class" /\ c["puppy"].scale = "fci-puppy" /\ c["puppy"].awards = {}
  <2>1. c["puppy"] = FciClasses["puppy"]
    BY BundledClasses DEF FciClassIds, ClassIds
  <2> QED BY <1>4, <1>6, <2>1
<1>10. \A id \in FciClassIds \ {"minor-puppy"} : id \in DOMAIN c /\ c[id] = FciClasses[id]
  BY BundledClasses
<1>11. "bred-by-exhibitor" \in DOMAIN c => /\ c["bred-by-exhibitor"].scale = "fci-adult"
                                          /\ c["bred-by-exhibitor"].awards \subseteq Certifying \cap DOMAIN c
  BY <1>3, <1>5, BundledClasses
<1>12. "fokkersklas" \in DOMAIN c => /\ c["fokkersklas"].scale = "fci-adult"
                                     /\ c["fokkersklas"].awards \subseteq Certifying \cap DOMAIN c
  <2> SUFFICES ASSUME "fokkersklas" \in DOMAIN c
               PROVE  c["fokkersklas"].scale = "fci-adult" /\ c["fokkersklas"].awards \subseteq Certifying \cap DOMAIN c
    OBVIOUS
  <2>1. belgian
    <3>1. \A fci \in {Fci2026, Fci2027} : "fokkersklas" \notin DOMAIN fci
      BY FciItems DEF FciClassIds, ClassIds, ScaleIds, FciAwardIds
    <3> QED BY <3>1 DEF Bundled
  <2>2. AwardTypeIds \subseteq DOMAIN c
    <3>1. DOMAIN c \cap AwardTypeIds = IF belgian THEN AwardTypeIds ELSE FciAwardIds
      BY BundledAwards
    <3> QED BY <2>1, <3>1
  <2>3. {"cac", "res-cac"} \subseteq Certifying \cap DOMAIN c
    BY <2>2 DEF AwardTypeIds, KmshAwardIds, Certifying
  <2>4. c["fokkersklas"] = Class(Bred(Rules(15, 0)), "fci-adult", {"cac", "res-cac"})
    BY BundledClasses
  <2> QED BY <1>6, <2>3, <2>4
<1>13. ClassIds = FciClassIds \cup {"bred-by-exhibitor", "fokkersklas"} /\ PuppyClasses = {"minor-puppy", "puppy"}
       /\ "minor-puppy" \notin FciClassIds \ PuppyClasses
  BY DEF FciClassIds, ClassIds, PuppyClasses
<1>14. ASSUME NEW id \in Belgian!OfKind(c, {"class"}), id \notin PuppyClasses
       PROVE  c[id].scale = "fci-adult" /\ c[id].awards \subseteq Certifying \cap DOMAIN c
  <2>1. id \in DOMAIN c /\ id \in ClassIds
    BY <1>1 DEF Belgian!OfKind
  <2>2. CASE id \in FciClassIds
    BY <1>7, <1>10, <1>13, <1>14, <2>2
  <2> QED BY <1>11, <1>12, <1>13, <2>1, <2>2
<1>15. "minor-puppy" \in DOMAIN c
  BY BundledClasses
<1>16. {"junior", "veteran", "puppy"} \subseteq FciClassIds \ {"minor-puppy"} /\ {"junior", "veteran"} \cap PuppyClasses = {}
  BY DEF FciClassIds, ClassIds, PuppyClasses
<1>17. {"junior", "veteran"} \cup PuppyClasses \subseteq Belgian!OfKind(c, {"class"})
  BY <1>7, <1>8, <1>9, <1>10, <1>13, <1>15, <1>16 DEF Belgian!OfKind
<1> QED BY <1>8, <1>9, <1>13, <1>14, <1>17

LEMMA BundledHigherAwards ==
    ASSUME NEW belgian \in BOOLEAN, NEW c, Bundled(c, belgian)
    PROVE  /\ KmshRules!HigherAwards(c) = AdultAwards \cup PuppyAwards
           /\ Belgian!OfKind(c, {"higher"}) = AdultAwards \cup PuppyAwards
<1>1. AdultAwards \cup PuppyAwards \subseteq DOMAIN c
  <2>1. DOMAIN c \cap AwardTypeIds = IF belgian THEN AwardTypeIds ELSE FciAwardIds
    BY BundledAwards
  <2> QED BY <2>1, AwardIdsByKind
<1>2. \A id \in AdultAwards \cup PuppyAwards : c[id].kind = "higher"
  BY BundledAwards
<1>3. ASSUME NEW id \in DOMAIN c, c[id].kind = "higher" PROVE id \in AdultAwards \cup PuppyAwards
  <2>1. id \in AwardTypeIds
    BY <1>3, BundledIsContent DEF Belgian!IsContent, Belgian!IsGradeScale, Belgian!ClassDefs, Belgian!ShowTypeDefs
  <2>2. id \notin Certifying
    <3>1. \A other \in Certifying \cap DOMAIN c : c[other].kind = "perSex"
      BY BundledAwards
    <3> QED BY <1>3, <3>1
  <2>3. id \notin Collectives
    <3>1. \A other \in Collectives : c[other].kind = "collective"
      BY BundledAwards
    <3> QED BY <1>3, <3>1
  <2> QED BY <2>1, <2>2, <2>3, AwardIdsByKind
<1>4. KmshRules!HigherAwards(c) = {id \in DOMAIN c : c[id].kind = "higher"}
  BY DEF KmshRules!HigherAwards, KmshRules!OfKind
<1>5. Belgian!OfKind(c, {"higher"}) = {id \in DOMAIN c : c[id].kind = "higher"}
  BY DEF Belgian!OfKind
<1> QED BY <1>1, <1>2, <1>3, <1>4, <1>5

\* Every class has its scale, and the certificates it names their minimum on it.
LEMMA BundledClassesResolve ==
    ASSUME NEW belgian \in BOOLEAN, NEW c, Bundled(c, belgian)
    PROVE  \A class \in KmshRules!OfKind(c, {"class"}) : KmshRules!ClassErrors(c, class) = {}
<1> SUFFICES ASSUME NEW class \in KmshRules!OfKind(c, {"class"}) PROVE KmshRules!ClassErrors(c, class) = {}
  OBVIOUS
<1>1. class \in Belgian!OfKind(c, {"class"})
  BY DEF KmshRules!OfKind, Belgian!OfKind
<1>2. \/ c[class].scale = "fci-puppy" /\ c[class].awards = {}
      \/ c[class].scale = "fci-adult" /\ c[class].awards \subseteq Certifying \cap DOMAIN c
  BY <1>1, BundledEntries
<1>3. /\ "fci-adult" \in KmshRules!OfKind(c, {"scale"}) /\ "excellent" \in DOMAIN c["fci-adult"].grades
      /\ "fci-puppy" \in KmshRules!OfKind(c, {"scale"})
  BY BundledScales DEF KmshRules!OfKind, Belgian!OfKind
<1>4. \A award \in Certifying \cap DOMAIN c : c[award].kind = "perSex" /\ c[award].minimum = "excellent"
  BY BundledAwards
<1>5. ASSUME NEW award \in c[class].awards PROVE KmshRules!AwardErrors(c, class, award) = {}
  <2>1. award \in KmshRules!AwardIds(c)
    BY <1>2, <1>4 DEF KmshRules!AwardIds, KmshRules!OfKind
  <2>2. KmshRules!ResolvesOn(c, award, c[class].scale)
    BY <1>2, <1>3, <1>4 DEF KmshRules!ResolvesOn
  <2> QED BY <2>1, <2>2 DEF KmshRules!AwardErrors
<1> QED BY <1>2, <1>3, <1>5 DEF KmshRules!ClassErrors

\* What feeds an award: for the adults' awards the certificates, the classes of
\* juniors and veterans and one another; for the puppies' awards their class.
LEMMA BundledFeeders ==
    ASSUME NEW belgian \in BOOLEAN, NEW c, Bundled(c, belgian)
    PROVE  /\ \A a \in AdultAwards : \A f \in KmshRules!Range(c[a].fedBy) :
                 f.id \in {"cacib", "cac", "junior", "veteran", "bob", "big"} /\ (f.id = "cac" => belgian)
           /\ \A a \in {"bob", "bos", "best-junior"} : ByClass("junior") \in KmshRules!Range(c[a].fedBy)
           /\ ByClass("veteran") \in KmshRules!Range(c["best-veteran"].fedBy)
           /\ ByAward("bob") \in KmshRules!Range(c["big"].fedBy)
           /\ ByAward("big") \in KmshRules!Range(c["bis"].fedBy)
           /\ KmshRules!Range(c["best-puppy"].fedBy) = {ByClass("puppy")}
           /\ KmshRules!Range(c["best-minor-puppy"].fedBy) = {ByClass("minor-puppy")}
<1>1. ASSUME NEW f PROVE KmshRules!Range(<<f>>) = {f}
  BY DEF KmshRules!Range
<1>2. /\ KmshRules!Range(BreedFeeders) = {ByAward("cacib"), ByClass("junior"), ByClass("veteran")}
  <2>1. BreedFeeders = <<ByAward("cacib"), ByClass("junior"), ByClass("veteran")>>
    BY DEF BreedFeeders
  <2>2. \A f, g, h : KmshRules!Range(<<f, g, h>>) = {f, g, h}
    BY DEF KmshRules!Range
  <2> QED BY <2>1, <2>2
<1>3. KmshRules!Range(BreedWithCac.fedBy) = {ByAward("cacib"), ByAward("cac"), ByClass("junior"), ByClass("veteran")}
  <2>1. BreedWithCac.fedBy = <<ByAward("cacib"), ByAward("cac"), ByClass("junior"), ByClass("veteran")>>
    BY DEF BreedWithCac, Higher
  <2>2. \A f, g, h, k : KmshRules!Range(<<f, g, h, k>>) = {f, g, h, k}
    BY DEF KmshRules!Range
  <2> QED BY <2>1, <2>2
<1>4. /\ c["bob"].fedBy = IF belgian THEN BreedWithCac.fedBy ELSE BreedFeeders
      /\ c["bos"].fedBy = c["bob"].fedBy
      /\ c["big"].fedBy = <<ByAward("bob")>> /\ c["bis"].fedBy = <<ByAward("big")>>
      /\ c["best-junior"].fedBy = <<ByClass("junior")>>
      /\ c["best-veteran"].fedBy = <<ByClass("veteran")>>
      /\ c["best-puppy"].fedBy = <<ByClass("puppy")>>
      /\ c["best-minor-puppy"].fedBy = <<ByClass("minor-puppy")>>
  BY BundledAwards
<1>5. /\ KmshRules!Range(c["big"].fedBy) = {ByAward("bob")} /\ KmshRules!Range(c["bis"].fedBy) = {ByAward("big")}
      /\ KmshRules!Range(c["best-junior"].fedBy) = {ByClass("junior")}
      /\ KmshRules!Range(c["best-veteran"].fedBy) = {ByClass("veteran")}
      /\ KmshRules!Range(c["best-puppy"].fedBy) = {ByClass("puppy")}
      /\ KmshRules!Range(c["best-minor-puppy"].fedBy) = {ByClass("minor-puppy")}
  BY <1>1, <1>4
<1>6. ASSUME NEW a \in {"bob", "bos"}
      PROVE  /\ KmshRules!Range(c[a].fedBy) \subseteq {ByAward("cacib"), ByAward("cac"), ByClass("junior"), ByClass("veteran")}
             /\ ByClass("junior") \in KmshRules!Range(c[a].fedBy)
             /\ ByAward("cac") \in KmshRules!Range(c[a].fedBy) => belgian
  <2>1. ByAward("cac") \notin {ByAward("cacib"), ByClass("junior"), ByClass("veteran")}
    BY DEF ByAward, ByClass
  <2> QED BY <1>2, <1>3, <1>4, <2>1
<1>7. ASSUME NEW a \in AdultAwards, NEW f \in KmshRules!Range(c[a].fedBy)
      PROVE  f.id \in {"cacib", "cac", "junior", "veteran", "bob", "big"} /\ (f.id = "cac" => belgian)
  <2>1. /\ f \in {ByAward("cacib"), ByAward("cac"), ByClass("junior"), ByClass("veteran"), ByAward("bob"), ByAward("big")}
        /\ f = ByAward("cac") => belgian
    <3>1. \A id \in {"bob", "big"} : ByAward("cac") # ByAward(id)
      BY DEF ByAward
    <3>2. \A id \in {"junior", "veteran"} : ByAward("cac") # ByClass(id)
      BY DEF ByAward, ByClass
    <3> QED BY <1>5, <1>6, <1>7, <3>1, <3>2 DEF AdultAwards
  <2> QED BY <2>1 DEF ByAward, ByClass
<1> QED BY <1>5, <1>6, <1>7

\* The awards that feed an award of the adults are awards of the adults, one of
\* which is fed by the juniors or the veterans; an award of the puppies feeds itself.
LEMMA BundledFeedingAwards ==
    ASSUME NEW belgian \in BOOLEAN, NEW c, Bundled(c, belgian)
    PROVE  /\ \A award \in AdultAwards :
                 /\ KmshRules!FeedingAwards(c, award) \subseteq AdultAwards
                 /\ \E a \in KmshRules!FeedingAwards(c, award) : \E f \in KmshRules!Range(c[a].fedBy) :
                       f.id \in {"junior", "veteran"}
           /\ \A award \in PuppyAwards : KmshRules!FeedingAwards(c, award) = {award}
<1> DEFINE higher == KmshRules!OfKind(c, {"higher"})
           Closed(S) == \A a \in S, f \in KmshRules!Feeders :
               f \in KmshRules!Range(c[a].fedBy) /\ f.id \in higher => f.id \in S
<1>1. higher = AdultAwards \cup PuppyAwards
  BY BundledHigherAwards DEF KmshRules!HigherAwards
<1>2. ASSUME NEW award
      PROVE  KmshRules!FeedingAwards(c, award) =
                {a \in higher : \A S \in SUBSET higher : award \in S /\ Closed(S) => a \in S}
  BY DEF KmshRules!FeedingAwards
<1>3. Closed(AdultAwards)
  <2>1. \A a \in AdultAwards : \A f \in KmshRules!Range(c[a].fedBy) :
           f.id \in {"cacib", "cac", "junior", "veteran", "bob", "big"}
    BY BundledFeeders
  <2>2. {"cacib", "cac", "junior", "veteran", "bob", "big"} \cap (AdultAwards \cup PuppyAwards) \subseteq AdultAwards
    BY DEF AdultAwards, PuppyAwards
  <2> QED BY <1>1, <2>1, <2>2
<1>4. ASSUME NEW award \in PuppyAwards PROVE Closed({award})
  <2>1. \A f \in KmshRules!Range(c[award].fedBy) : f.id \in {"puppy", "minor-puppy"}
    BY BundledFeeders DEF PuppyAwards, ByClass
  <2>2. {"puppy", "minor-puppy"} \cap (AdultAwards \cup PuppyAwards) = {}
    BY DEF AdultAwards, PuppyAwards
  <2> QED BY <1>1, <2>1, <2>2
<1>5. ASSUME NEW award \in AdultAwards
      PROVE  /\ KmshRules!FeedingAwards(c, award) \subseteq AdultAwards
             /\ award \in KmshRules!FeedingAwards(c, award)
  BY <1>1, <1>2, <1>3
<1>6. ASSUME NEW award \in PuppyAwards PROVE KmshRules!FeedingAwards(c, award) = {award}
  <2>1. {award} \in SUBSET higher /\ award \in {award} /\ Closed({award})
    BY <1>1, <1>4
  <2> HIDE DEF Closed, higher
  <2>2. award \in KmshRules!FeedingAwards(c, award)
    BY <1>2, <2>1
  <2>3. \A a \in KmshRules!FeedingAwards(c, award) : a \in {award}
    BY <1>2, <2>1
  <2> QED BY <2>2, <2>3
<1> HIDE DEF Closed
<1>7. ASSUME NEW award \in AdultAwards, NEW a \in KmshRules!FeedingAwards(c, award), NEW id \in AdultAwards,
             ByAward(id) \in KmshRules!Range(c[a].fedBy)
      PROVE  id \in KmshRules!FeedingAwards(c, award)
  <2>1. ByAward(id) \in KmshRules!Feeders /\ ByAward(id).id = id
    BY AwardIdsByKind DEF KmshRules!Feeders, ByAward
  <2>2. ASSUME NEW S \in SUBSET higher, award \in S, Closed(S) PROVE id \in S
    <3>1. a \in S
      BY <1>2, <2>2
    <3> QED BY <1>1, <1>7, <2>1, <2>2, <3>1 DEF Closed
  <2> QED BY <1>1, <1>2, <2>2
<1>8. ByClass("junior").id = "junior" /\ ByClass("veteran").id = "veteran"
  BY DEF ByClass
<1>9. /\ \A a \in {"bob", "bos", "best-junior"} : ByClass("junior") \in KmshRules!Range(c[a].fedBy)
      /\ ByClass("veteran") \in KmshRules!Range(c["best-veteran"].fedBy)
      /\ ByAward("bob") \in KmshRules!Range(c["big"].fedBy)
      /\ ByAward("big") \in KmshRules!Range(c["bis"].fedBy)
  BY BundledFeeders
<1>10. ASSUME NEW award \in AdultAwards
       PROVE  \E a \in KmshRules!FeedingAwards(c, award) : \E f \in KmshRules!Range(c[a].fedBy) :
                 f.id \in {"junior", "veteran"}
  <2>1. "bob" \in AdultAwards /\ "big" \in AdultAwards
    BY DEF AdultAwards
  <2>2. CASE award \in {"bob", "bos", "best-junior", "best-veteran"}
    BY <1>5, <1>8, <1>9, <2>2
  <2>3. CASE award = "big"
    <3>1. "bob" \in KmshRules!FeedingAwards(c, award)
      BY <1>5, <1>7, <1>9, <2>1, <2>3
    <3> QED BY <1>8, <1>9, <3>1
  <2>4. CASE award = "bis"
    <3>1. "big" \in KmshRules!FeedingAwards(c, award)
      BY <1>5, <1>7, <1>9, <2>1, <2>4
    <3>2. "bob" \in KmshRules!FeedingAwards(c, award)
      BY <1>7, <1>9, <2>1, <3>1
    <3> QED BY <1>8, <1>9, <3>2
  <2> QED BY <2>2, <2>3, <2>4 DEF AdultAwards
<1> QED BY <1>5, <1>6, <1>10

LEMMA BundledScalesUsed ==
    ASSUME NEW belgian \in BOOLEAN, NEW c, Bundled(c, belgian)
    PROVE  /\ \A award \in AdultAwards : KmshRules!ScalesUsedWith(c, award) = {"fci-adult"}
           /\ \A award \in PuppyAwards : KmshRules!ScalesUsedWith(c, award) = {"fci-puppy"}
<1> DEFINE classes == KmshRules!OfKind(c, {"class"})
           Uses(award, k) == \E a \in KmshRules!FeedingAwards(c, award) : \E f \in KmshRules!Range(c[a].fedBy) :
                                f.id = k \/ f.id \in c[k].awards
<1>1. \A award : KmshRules!ScalesUsedWith(c, award) = {c[k].scale : k \in {class \in classes : Uses(award, class)}}
  BY DEF KmshRules!ScalesUsedWith
<1>2. classes = Belgian!OfKind(c, {"class"})
  BY DEF KmshRules!OfKind, Belgian!OfKind
<1>3. /\ {"junior", "veteran"} \cup PuppyClasses \subseteq classes
      /\ \A id \in PuppyClasses : c[id].scale = "fci-puppy" /\ c[id].awards = {}
      /\ \A id \in classes \ PuppyClasses :
            c[id].scale = "fci-adult" /\ c[id].awards \subseteq Certifying \cap DOMAIN c
  BY <1>2, BundledEntries
<1>4. {"junior", "veteran"} \cap PuppyClasses = {} /\ Certifying \cap {"puppy", "minor-puppy"} = {}
      /\ {"cacib", "cac", "junior", "veteran", "bob", "big"} \cap PuppyClasses = {}
      /\ PuppyClasses = {"puppy", "minor-puppy"}
  BY DEF PuppyClasses, Certifying
<1> HIDE DEF classes
<1>5. ASSUME NEW award \in AdultAwards PROVE KmshRules!ScalesUsedWith(c, award) = {"fci-adult"}
  <2>1. ASSUME NEW k \in classes, Uses(award, k) PROVE c[k].scale = "fci-adult"
    <3>0. PICK a \in AdultAwards : \E f \in KmshRules!Range(c[a].fedBy) : f.id = k \/ f.id \in c[k].awards
      BY <2>1, BundledFeedingAwards
    <3>1. PICK f \in KmshRules!Range(c[a].fedBy) : f.id = k \/ f.id \in c[k].awards
      BY <3>0
    <3>2. f.id \in {"cacib", "cac", "junior", "veteran", "bob", "big"}
      BY BundledFeeders
    <3>3. k \notin PuppyClasses
      BY <1>3, <1>4, <3>1, <3>2
    <3> QED BY <1>3, <3>3
  <2>2. \E k \in classes : Uses(award, k)
    <3>1. \E a \in KmshRules!FeedingAwards(c, award) : \E f \in KmshRules!Range(c[a].fedBy) :
             f.id \in {"junior", "veteran"}
      BY BundledFeedingAwards
    <3> QED BY <1>3, <3>1
  <2> HIDE DEF Uses
  <2> QED BY <1>1, <2>1, <2>2
<1>6. ASSUME NEW award \in PuppyAwards PROVE KmshRules!ScalesUsedWith(c, award) = {"fci-puppy"}
  <2>1. KmshRules!FeedingAwards(c, award) = {award}
    BY BundledFeedingAwards
  <2>2. \E class \in PuppyClasses : KmshRules!Range(c[award].fedBy) = {ByClass(class)}
    BY BundledFeeders DEF PuppyAwards, PuppyClasses
  <2>3. \A class \in PuppyClasses : ByClass(class).id = class
    BY DEF ByClass
  <2>4. ASSUME NEW k \in classes, Uses(award, k) PROVE c[k].scale = "fci-puppy"
    <3>1. \E class \in PuppyClasses : class = k \/ class \in c[k].awards
      BY <2>1, <2>2, <2>3, <2>4
    <3>2. k \in PuppyClasses
      BY <1>3, <1>4, <3>1
    <3> QED BY <1>3, <3>2
  <2>5. \E k \in classes : Uses(award, k)
    <3>1. PICK class \in PuppyClasses : KmshRules!Range(c[award].fedBy) = {ByClass(class)}
      BY <2>2
    <3>2. Uses(award, class)
      BY <2>1, <2>3, <3>1
    <3> QED BY <1>3, <3>2
  <2> HIDE DEF Uses
  <2> QED BY <1>1, <2>4, <2>5
<1> QED BY <1>5, <1>6

\* The references of a bundled ruleset resolve.
LEMMA BundledReferencesResolve ==
    ASSUME NEW belgian \in BOOLEAN, NEW c, Bundled(c, belgian)
    PROVE  /\ KmshRules!ReferenceErrors(c) = {}
           /\ \A award \in AdultAwards \cup PuppyAwards :
                 /\ KmshRules!ReachableScales(c, award) # {}
                 /\ \A scale \in KmshRules!ReachableScales(c, award) : KmshRules!ResolvesOn(c, award, scale)
<1>1. KmshRules!IsContent(c)
  <2>1. KmshRules!IsContent(c) = Belgian!IsContent(c)
    BY DEF Belgian!IsContent, Belgian!IsGradeScale, Belgian!ClassDefs, Belgian!AwardTypes, Belgian!ShowTypeDefs, Belgian!Feeders,
           KmshRules!IsContent, KmshRules!IsGradeScale, KmshRules!ClassDefs, KmshRules!AwardTypes, KmshRules!ShowTypeDefs, KmshRules!Feeders
  <2> QED BY <2>1, BundledIsContent
<1>2. KmshRules!HigherAwards(c) = AdultAwards \cup PuppyAwards
  BY BundledHigherAwards
<1>3. \A award \in AdultAwards \cup PuppyAwards :
         KmshRules!ReachableScales(c, award) = KmshRules!ScalesUsedWith(c, award)
  BY <1>1, <1>2, BundledAssumptions, KmshRules!WalkIsExhaustive
<1>4. /\ \A award \in AdultAwards : KmshRules!ReachableScales(c, award) = {"fci-adult"}
      /\ \A award \in PuppyAwards : KmshRules!ReachableScales(c, award) = {"fci-puppy"}
  BY <1>3, BundledScalesUsed
<1>5. /\ "fci-adult" \in KmshRules!OfKind(c, {"scale"}) /\ "excellent" \in DOMAIN c["fci-adult"].grades
      /\ "fci-puppy" \in KmshRules!OfKind(c, {"scale"}) /\ "very-promising" \in DOMAIN c["fci-puppy"].grades
  BY BundledScales DEF KmshRules!OfKind, Belgian!OfKind
<1>6. /\ \A award \in AdultAwards : c[award].minimum = "excellent"
      /\ \A award \in PuppyAwards : c[award].minimum = "very-promising"
  BY BundledAwards
<1>7. \A award \in AdultAwards \cup PuppyAwards :
         \A scale \in KmshRules!ReachableScales(c, award) : KmshRules!ResolvesOn(c, award, scale)
  BY <1>4, <1>5, <1>6 DEF KmshRules!ResolvesOn
<1>8. \A award \in AdultAwards \cup PuppyAwards : KmshRules!ReachableScales(c, award) # {}
  BY <1>4
<1>9. \A award \in KmshRules!OfKind(c, {"higher"}) : KmshRules!HigherScopeErrors(c, award) = {}
  BY <1>2, <1>7 DEF KmshRules!HigherScopeErrors, KmshRules!HigherAwards
<1>10. \A class \in KmshRules!OfKind(c, {"class"}) : KmshRules!ClassErrors(c, class) = {}
  BY BundledClassesResolve
<1>11. KmshRules!ReferenceErrors(c) = {}
  BY <1>9, <1>10 DEF KmshRules!ReferenceErrors
<1> QED BY <1>7, <1>8, <1>11

LEMMA BundledFeedersExist ==
    ASSUME NEW belgian \in BOOLEAN, NEW c, Bundled(c, belgian)
    PROVE  \A award \in AdultAwards \cup PuppyAwards : \A f \in KmshRules!Range(c[award].fedBy) : f.id \in DOMAIN c
<1>1. /\ {"junior", "veteran", "puppy", "minor-puppy"} \subseteq DOMAIN c
      /\ {"cacib", "bob", "big"} \subseteq DOMAIN c
      /\ belgian => "cac" \in DOMAIN c
  <2>1. {"junior", "veteran"} \cup PuppyClasses \subseteq Belgian!OfKind(c, {"class"})
    BY BundledEntries
  <2>2. DOMAIN c \cap AwardTypeIds = IF belgian THEN AwardTypeIds ELSE FciAwardIds
    BY BundledAwards
  <2>3. {"cacib", "bob", "big"} \subseteq FciAwardIds /\ "cac" \in AwardTypeIds /\ FciAwardIds \subseteq AwardTypeIds
    BY DEF FciAwardIds, AwardTypeIds, KmshAwardIds
  <2> QED BY <2>1, <2>2, <2>3 DEF Belgian!OfKind, PuppyClasses
<1>2. ASSUME NEW award \in AdultAwards, NEW f \in KmshRules!Range(c[award].fedBy) PROVE f.id \in DOMAIN c
  <2>1. f.id \in {"cacib", "cac", "junior", "veteran", "bob", "big"} /\ (f.id = "cac" => belgian)
    BY BundledFeeders
  <2> QED BY <1>1, <2>1
<1>3. ASSUME NEW award \in PuppyAwards, NEW f \in KmshRules!Range(c[award].fedBy) PROVE f.id \in DOMAIN c
  <2>1. /\ KmshRules!Range(c["best-puppy"].fedBy) = {ByClass("puppy")}
        /\ KmshRules!Range(c["best-minor-puppy"].fedBy) = {ByClass("minor-puppy")}
    BY BundledFeeders
  <2>2. f \in {ByClass("puppy"), ByClass("minor-puppy")}
    BY <2>1 DEF PuppyAwards
  <2> QED BY <1>1, <2>2 DEF ByClass
<1> QED BY <1>2, <1>3

\* The show types name what there is.
LEMMA BundledShowTypes ==
    ASSUME NEW belgian \in BOOLEAN, NEW c, Bundled(c, belgian)
    PROVE  \A type \in Belgian!OfKind(c, {"showType"}) : c[type].awards \subseteq Belgian!AwardIds(c)
<1> SUFFICES ASSUME NEW type \in DOMAIN c, c[type].kind = "showType"
             PROVE  c[type].awards \subseteq Belgian!AwardIds(c)
  BY DEF Belgian!OfKind
<1>1. type \in {"cacib-show", "kmsh-national-show"}
  BY BundledIsContent DEF Belgian!IsContent, Belgian!IsGradeScale, Belgian!ClassDefs, Belgian!AwardTypes, ShowTypeIds
<1>2. PICK fci \in {Fci2026, Fci2027} :
          /\ DOMAIN c = DOMAIN fci \cup (IF belgian THEN DOMAIN Kmsh2023 ELSE {})
          /\ \A id \in DOMAIN c : c[id] = IF belgian /\ id \in DOMAIN Kmsh2023 THEN Kmsh2023[id] ELSE fci[id]
  BY DEF Bundled
<1>3. "cacib-show" \notin DOMAIN Kmsh2023 /\ "kmsh-national-show" \in DOMAIN Kmsh2023
      /\ "kmsh-national-show" \notin DOMAIN fci
  BY KmshItems, FciItems DEF FciClassIds, ClassIds, ScaleIds, FciAwardIds, KmshAwardIds
<1>4. fci["cacib-show"] = ShowType(FciAwardIds) /\ Kmsh2023["kmsh-national-show"] = ShowType(AwardTypeIds)
  BY FciItems, KmshItems
<1>5. \A awards : ShowType(awards).awards = awards
  BY DEF ShowType
<1>6. \/ c[type].awards = FciAwardIds
      \/ belgian /\ c[type].awards = AwardTypeIds
  BY <1>1, <1>2, <1>3, <1>4, <1>5
<1>7. DOMAIN c \cap AwardTypeIds = IF belgian THEN AwardTypeIds ELSE FciAwardIds
  BY BundledAwards
<1>8. FciAwardIds \subseteq AwardTypeIds
  BY DEF AwardTypeIds
<1>9. c[type].awards \subseteq DOMAIN c \cap AwardTypeIds
  BY <1>6, <1>7, <1>8
<1>10. /\ \A id \in Certifying \cap DOMAIN c : c[id].kind = "perSex"
       /\ \A id \in AdultAwards \cup PuppyAwards : c[id].kind = "higher"
       /\ \A id \in Collectives : c[id].kind = "collective"
  BY BundledAwards
<1>11. \A id \in DOMAIN c \cap AwardTypeIds : c[id].kind \in {"perSex", "higher", "collective"}
  BY <1>10, AwardIdsByKind
<1> QED BY <1>9, <1>11 DEF Belgian!AwardIds, Belgian!OfKind

-----------------------------------------------------------------------------
\* The editions in force and what they come to.
LEMMA SourcesAreBundled ==
    ASSUME NEW date \in Nat, NEW n \in {1, 2}, NEW sources, DOMAIN sources = 1 .. n,
           \A i \in 1 .. n : sources[i] = KmshRules!InForce(<<"fci", "kmsh">>[i], date)
    PROVE  IF date < 2026 * 372 THEN sources[1] = None
           ELSE (\A i \in 1 .. n : sources[i] # None) /\ Bundled(KmshRules!MergeById(sources), n = 2)
<1>0. 1 \in 1 .. n /\ <<"fci", "kmsh">>[1] = "fci" /\ <<"fci", "kmsh">>[2] = "kmsh"
      /\ 1 .. 3 = {1, 2, 3} /\ 1 .. n = IF n = 2 THEN {1, 2} ELSE {1}
  <2>1. 1 .. 1 = {1} /\ 1 .. 2 = {1, 2} /\ 1 .. 3 = {1, 2, 3}
    OBVIOUS
  <2> QED BY <2>1
<1>1. ASSUME NEW layer
      PROVE  KmshRules!LatestOf(BundledEditions, layer, date, Len(BundledEditions), KmshRules!InForce(layer, date))
  BY BundledAssumptions, KmshRules!InForceIsLatest
<1>2. ASSUME NEW layer
      PROVE  LET latest == KmshRules!InForce(layer, date) IN
             /\ latest = None => \A j \in 1 .. 3 : ~(BundledEditions[j].layer = layer /\ BundledEditions[j].from <= date)
             /\ latest # None => \E j \in 1 .. 3 : /\ BundledEditions[j].layer = layer
                                                  /\ BundledEditions[j].from <= date
                                                  /\ latest = BundledEditions[j]
  BY <1>1, BundledAreEditions DEF KmshRules!LatestOf, KmshRules!Candidates
<1>3. CASE date < 2026 * 372
  <2>1. \A j \in 1 .. 3 : ~(BundledEditions[j].layer = "fci" /\ BundledEditions[j].from <= date)
    BY <1>0, <1>3, BundledAreEditions
  <2> QED BY <1>0, <1>2, <1>3, <2>1
<1>4. CASE ~(date < 2026 * 372)
  <2>1. BundledEditions[1].from <= date /\ BundledEditions[3].from <= date
    BY <1>4, BundledAreEditions
  <2>2. /\ \E j \in {1, 2} : KmshRules!InForce("fci", date) = BundledEditions[j]
        /\ KmshRules!InForce("fci", date) # None
    BY <1>0, <1>2, <2>1, BundledAreEditions
  <2>3. KmshRules!InForce("kmsh", date) = BundledEditions[3] /\ KmshRules!InForce("kmsh", date) # None
    BY <1>0, <1>2, <2>1, BundledAreEditions
  <2>4. \A i \in 1 .. n : sources[i] # None
    BY <1>0, <2>2, <2>3
  <2>5. sources[1].content \in {Fci2026, Fci2027}
    BY <1>0, <2>2, BundledAreEditions
  <2>6. n = 2 => sources[2].content = Kmsh2023
    BY <1>0, <2>3, BundledAreEditions
  <2> DEFINE c == KmshRules!MergeById(sources)
  <2>7. KmshRules!MergeOf(sources, n, c)
    BY BundledAssumptions, KmshRules!MergeIsOfTheLast
  <2> HIDE DEF c
  <2>8. /\ DOMAIN c = DOMAIN sources[1].content \cup (IF n = 2 THEN DOMAIN Kmsh2023 ELSE {})
    BY <1>0, <2>6, <2>7 DEF KmshRules!MergeOf
  <2>9. ASSUME NEW id \in DOMAIN c
        PROVE  c[id] = IF n = 2 /\ id \in DOMAIN Kmsh2023 THEN Kmsh2023[id] ELSE sources[1].content[id]
    <3>1. PICK i \in 1 .. n : /\ id \in DOMAIN sources[i].content
                              /\ c[id] = sources[i].content[id]
                              /\ \A j \in i + 1 .. n : id \notin DOMAIN sources[j].content
      BY <2>7 DEF KmshRules!MergeOf
    <3>2. CASE i = 1
      <4>1. n = 2 => 2 \in i + 1 .. n
        BY <3>2
      <4> QED BY <2>6, <3>1, <3>2, <4>1
    <3>3. CASE i = 2
      BY <2>6, <3>1, <3>3
    <3> QED BY <1>0, <3>2, <3>3
  <2>10. Bundled(c, n = 2)
    BY <2>5, <2>8, <2>9 DEF Bundled
  <2> QED BY <1>4, <2>4, <2>10 DEF c
<1> QED BY <1>3, <1>4

\* What comes of a show on a date, with n layers.
Comes(result, date, n) ==
    \/ result.outcome = "NoEditionInForce" /\ date < 2026 * 372
    \/ /\ result.outcome = "ok" /\ ~(date < 2026 * 372)
       /\ Len(result.sources) = n /\ Bundled(result.content, n = 2)

LEMMA InternationalComes ==
    ASSUME NEW date \in Nat, NEW result \in International!Outcomes(date)
    PROVE  Comes(result, date, 1)
<1> DEFINE sources == [i \in DOMAIN <<"fci">> |-> International!InForce(<<"fci">>[i], date)]
<1>1. /\ DOMAIN sources = 1 .. 1 /\ Len(sources) = 1
      /\ \A i \in 1 .. 1 : sources[i] = KmshRules!InForce(<<"fci", "kmsh">>[i], date)
  <2>1. 1 .. 1 = {1} /\ DOMAIN <<"fci">> = 1 .. 1
    OBVIOUS
  <2> QED BY <2>1, InternationalAreTheirs
<1>2. result \in IF None \in International!Range(sources)
                 THEN {[International!NoShow EXCEPT !.outcome = "NoEditionInForce", !.date = date]}
                 ELSE International!Pinned(date, sources)
  BY DEF International!Outcomes
<1> HIDE DEF sources
<1>3. IF date < 2026 * 372 THEN sources[1] = None
      ELSE (\A i \in 1 .. 1 : sources[i] # None) /\ Bundled(KmshRules!MergeById(sources), 1 = 2)
  BY <1>1, SourcesAreBundled
<1>4. International!Range(sources) = {sources[i] : i \in 1 .. 1}
  BY <1>1 DEF International!Range
<1>5. CASE date < 2026 * 372
  <2>1. None \in International!Range(sources)
    BY <1>3, <1>4, <1>5, 1 \in 1 .. 1
  <2>2. result.outcome = "NoEditionInForce"
    BY <1>2, <2>1 DEF International!NoShow
  <2> QED BY <1>5, <2>2 DEF Comes
<1>6. CASE ~(date < 2026 * 372)
  <2> DEFINE c == International!MergeById(sources)
  <2>1. None \notin International!Range(sources)
    BY <1>3, <1>4, <1>6
  <2>2. Bundled(c, FALSE)
    BY <1>3, <1>6, InternationalAreTheirs DEF Bundled
  <2>3. International!ReferenceErrors(c) = {}
    <3> HIDE DEF c
    <3>1. KmshRules!ReferenceErrors(c) = {}
      BY <2>2, BundledReferencesResolve
    <3> QED BY <3>1, InternationalAreTheirs
  <2>4. result \in International!Pinned(date, sources)
    BY <1>2, <2>1
  <2>5. result = [outcome |-> "ok", date |-> date, sources |-> sources, content |-> c]
    BY <2>3, <2>4 DEF International!Pinned
  <2> HIDE DEF c
  <2>6. Bundled(c, 1 = 2)
    BY <2>2 DEF Bundled
  <2> QED BY <1>1, <1>6, <2>5, <2>6 DEF Comes
<1> QED BY <1>5, <1>6

LEMMA BelgianComes ==
    ASSUME NEW date \in Nat, NEW result \in Belgian!Outcomes(date)
    PROVE  Comes(result, date, 2)
<1> DEFINE sources == [i \in DOMAIN <<"fci", "kmsh">> |-> KmshRules!InForce(<<"fci", "kmsh">>[i], date)]
<1>1. /\ DOMAIN sources = 1 .. 2 /\ Len(sources) = 2
      /\ \A i \in 1 .. 2 : sources[i] = KmshRules!InForce(<<"fci", "kmsh">>[i], date)
  OBVIOUS
<1>2. result \in IF None \in KmshRules!Range(sources)
                 THEN {[KmshRules!NoShow EXCEPT !.outcome = "NoEditionInForce", !.date = date]}
                 ELSE KmshRules!Pinned(date, sources)
  BY BelgianAreTheirs DEF KmshRules!Outcomes
<1> HIDE DEF sources
<1>3. IF date < 2026 * 372 THEN sources[1] = None
      ELSE (\A i \in 1 .. 2 : sources[i] # None) /\ Bundled(KmshRules!MergeById(sources), 2 = 2)
  BY <1>1, SourcesAreBundled
<1>4. KmshRules!Range(sources) = {sources[i] : i \in 1 .. 2}
  BY <1>1 DEF KmshRules!Range
<1>5. CASE date < 2026 * 372
  <2>1. None \in KmshRules!Range(sources)
    BY <1>3, <1>4, <1>5, 1 \in 1 .. 2
  <2>2. result.outcome = "NoEditionInForce"
    BY <1>2, <2>1 DEF KmshRules!NoShow
  <2> QED BY <1>5, <2>2 DEF Comes
<1>6. CASE ~(date < 2026 * 372)
  <2> DEFINE c == KmshRules!MergeById(sources)
  <2>1. None \notin KmshRules!Range(sources)
    BY <1>3, <1>4, <1>6
  <2>2. Bundled(c, TRUE)
    BY <1>3, <1>6 DEF Bundled
  <2>3. KmshRules!ReferenceErrors(c) = {}
    <3> HIDE DEF c
    <3> QED BY <2>2, BundledReferencesResolve
  <2>4. result \in KmshRules!Pinned(date, sources)
    BY <1>2, <2>1
  <2>5. result = [outcome |-> "ok", date |-> date, sources |-> sources, content |-> c]
    BY <2>3, <2>4 DEF KmshRules!Pinned
  <2> HIDE DEF c
  <2>6. Bundled(c, 2 = 2)
    BY <2>2 DEF Bundled
  <2> QED BY <1>1, <1>6, <2>5, <2>6 DEF Comes
<1> QED BY <1>5, <1>6

-----------------------------------------------------------------------------
\* A show before 2026 has no ruleset; one from then on is held, under the bundled
\* editions.
ShowIsBundled ==
    \/ show.outcome = "unresolved"
    \/ show.outcome = "NoEditionInForce" /\ today.year < 2026
    \/ Held /\ today.year >= 2026 /\ Len(show.sources) \in {1, 2} /\ Bundled(show.content, UnderBelgian)

GrowingUp == AgeInvariant /\ ShowIsBundled

LEMMA InitGrowingUp == Init => GrowingUp
<1>1. Init => ShowIsBundled
  BY DEF Init, ShowIsBundled, Belgian!NoShow
<1> QED BY <1>1, InitAge DEF GrowingUp

LEMMA OrdinalsByYear ==
    ASSUME NEW d \in LocalDate
    PROVE  Ordinal(d) \in Nat /\ d.year \in Nat /\ (Ordinal(d) < 2026 * 372 <=> d.year < 2026)
<1>1. d.year \in Nat /\ d.month \in 1 .. 12 /\ d.day \in 1 .. 31
  BY FieldsOfDates
<1> QED BY <1>1 DEF Ordinal

LEMMA NextGrowingUp == GrowingUp /\ [Next]_vars => GrowingUp'
<1> SUFFICES ASSUME GrowingUp, [Next]_vars PROVE ShowIsBundled'
  BY NextAge DEF GrowingUp
<1>1. Ordinal(today) \in Nat /\ today.year \in Nat /\ (Ordinal(today) < 2026 * 372 <=> today.year < 2026)
  BY OrdinalsByYear DEF GrowingUp, AgeInvariant, TypeOK
<1>2. CASE NextDay
  BY <1>2 DEF NextDay, ShowIsBundled, Belgian!NoShow
<1>3. ASSUME NEW n \in {1, 2}, today' = today, Comes(show', Ordinal(today), n) PROVE ShowIsBundled'
  <2>1. CASE show'.outcome = "NoEditionInForce" /\ Ordinal(today) < 2026 * 372
    BY <1>1, <1>3, <2>1 DEF ShowIsBundled
  <2>2. CASE /\ show'.outcome = "ok" /\ ~(Ordinal(today) < 2026 * 372)
             /\ Len(show'.sources) = n /\ Bundled(show'.content, n = 2)
    <3>1. UnderBelgian' = (n = 2) /\ Held'
      BY <2>2 DEF UnderBelgian, Held
    <3>2. today'.year >= 2026
      BY <1>1, <1>3, <2>2
    <3> QED BY <2>2, <3>1, <3>2 DEF ShowIsBundled
  <2> QED BY <1>3, <2>1, <2>2 DEF Comes
<1>4. CASE HoldInternationalShow
  BY <1>1, <1>3, <1>4, InternationalComes DEF HoldInternationalShow
<1>5. CASE HoldBelgianShow
  BY <1>1, <1>3, <1>5, BelgianComes DEF HoldBelgianShow
<1>6. CASE UNCHANGED vars
  BY <1>6 DEF vars, GrowingUp, ShowIsBundled, Held, UnderBelgian
<1> QED BY <1>2, <1>4, <1>5, <1>6 DEF Next

\* A show of today is held under one of two layerings of the bundled editions.
LEMMA HeldIsBundled ==
    ASSUME GrowingUp, Held
    PROVE  UnderBelgian \in BOOLEAN /\ Bundled(show.content, UnderBelgian) /\ today.year >= 2026
BY DEF GrowingUp, ShowIsBundled, Held, UnderBelgian

\* A class of the show that a dog may enter.
LEMMA WhoMayEnter ==
    ASSUME GrowingUp, Held, Born(today), NEW class \in DOMAIN show.content,
           show.content[class].kind = "class"
    PROVE  LET rules == show.content[class].entry IN
           MayEnter(class) <=> /\ rules.from <= months /\ (rules.lessThan = 0 \/ months < rules.lessThan)
                               /\ rules.certificates \subseteq dog.held
                               /\ rules.bredByExhibitor => dog.handlerIsBreeder
<1>1. CompletedMonthsSince(today, dog.birth) = months /\ OnOrBefore(dog.birth, today)
  BY DEF GrowingUp, AgeInvariant, Born
<1>2. class \in Belgian!OfKind(show.content, {"class"})
  BY DEF Belgian!OfKind
<1> QED BY <1>1, <1>2 DEF MayEnter, IsEligible, Verdict, OfAge

\* Of any age, on any day, under any of the bundled rulesets: a vaccinated dog
\* is in one of the young classes or, from 18 months on or before it is old
\* enough for the first, in none (fci-shared-content.ts :250-251).
THEOREM YoungDogsHaveOneClass == Spec => []OneYoungClass
<1>1. GrowingUp => OneYoungClass
  <2> SUFFICES ASSUME GrowingUp, Held, Born(today), "vaccination-certificate" \in dog.held
               PROVE  LET young == {class \in {"minor-puppy", "puppy", "junior"} : MayEnter(class)}
                          first == IF UnderBelgian THEN 3 ELSE 0
                      IN Cardinality(young) = IF first <= months /\ months < 18 THEN 1 ELSE 0
    BY DEF OneYoungClass
  <2> DEFINE c     == show.content
             first == IF UnderBelgian THEN 3 ELSE 0
             young == {class \in {"minor-puppy", "puppy", "junior"} : MayEnter(class)}
  <2>0. months \in Nat /\ first \in {0, 3}
    BY DEF GrowingUp, AgeInvariant, TypeOK
  <2>1. Bundled(c, UnderBelgian) /\ UnderBelgian \in BOOLEAN
    BY HeldIsBundled
  <2>2. /\ "minor-puppy" \in DOMAIN c /\ "puppy" \in DOMAIN c /\ "junior" \in DOMAIN c
        /\ c["minor-puppy"] = MinorPuppy(first)
        /\ c["puppy"] = FciClasses["puppy"] /\ c["junior"] = FciClasses["junior"]
    BY <2>1, BundledClasses DEF FciClassIds, ClassIds
  <2>3. FciClasses["puppy"] = Class(Rules(6, 9), "fci-puppy", {})
        /\ FciClasses["junior"] = Class(Rules(9, 18), "fci-adult", {"cacib-j"})
    BY DEF FciClasses, ClassIds
  <2> HIDE DEF c, first
  <2>4. MayEnter("minor-puppy") <=> first <= months /\ months < 6
    <3>1. c["minor-puppy"].kind = "class" /\ c["minor-puppy"].entry = With("vaccination-certificate", Rules(first, 6))
      BY <2>2 DEF MinorPuppy, Class
    <3> QED BY <2>2, <3>1, WhoMayEnter DEF c, With, Rules
  <2>5. MayEnter("puppy") <=> 6 <= months /\ months < 9
    <3>1. c["puppy"].kind = "class" /\ c["puppy"].entry = Rules(6, 9)
      BY <2>2, <2>3 DEF Class
    <3> QED BY <2>2, <3>1, WhoMayEnter DEF c, Rules
  <2>6. MayEnter("junior") <=> 9 <= months /\ months < 18
    <3>1. c["junior"].kind = "class" /\ c["junior"].entry = Rules(9, 18)
      BY <2>2, <2>3 DEF Class
    <3> QED BY <2>2, <3>1, WhoMayEnter DEF c, Rules
  <2>7. CASE first <= months /\ months < 18
    <3>1. \E class : young = {class}
      <4>1. CASE months < 6
        <5>1. young = {"minor-puppy"}
          BY <2>0, <2>4, <2>5, <2>6, <2>7, <4>1
        <5> QED BY <5>1
      <4>2. CASE 6 <= months /\ months < 9
        <5>1. young = {"puppy"}
          BY <2>0, <2>4, <2>5, <2>6, <4>2
        <5> QED BY <5>1
      <4>3. CASE 9 <= months
        <5>1. young = {"junior"}
          BY <2>0, <2>4, <2>5, <2>6, <2>7, <4>3
        <5> QED BY <5>1
      <4> QED BY <2>0, <4>1, <4>2, <4>3
    <3> HIDE DEF young
    <3>2. Cardinality(young) = 1
      BY <3>1, FS_Singleton
    <3> QED BY <2>7, <3>2 DEF first, young
  <2>8. CASE ~(first <= months /\ months < 18)
    <3>1. young = {}
      BY <2>0, <2>4, <2>5, <2>6, <2>8
    <3> HIDE DEF young
    <3>2. Cardinality(young) = 0
      BY <3>1, FS_EmptySet
    <3> QED BY <2>8, <3>2 DEF first, young
  <2> QED BY <2>7, <2>8
<1> QED BY <1>1, InitGrowingUp, NextGrowingUp, PTL DEF Spec

\* A class that feeds the breed award by its win or by an award is for dogs of
\* nine months or more.
LEMMA NoBreedFeederForPuppies ==
    ASSUME NEW belgian \in BOOLEAN, NEW c, Bundled(c, belgian), NEW class \in ClassIds, class \in DOMAIN c,
           NEW f \in Range(c["bob"].fedBy), f.id = class \/ f.id \in c[class].awards
    PROVE  c[class].kind = "class" /\ c[class].entry.from \in Nat /\ c[class].entry.from >= 9
<1>1. c["bob"].fedBy = IF belgian THEN BreedWithCac.fedBy ELSE BreedFeeders
  BY BundledClasses DEF Higher, BreedWithCac
<1>2. f.id \in {"cacib", "cac", "junior", "veteran"}
  BY <1>1 DEF BreedWithCac, Higher, BreedFeeders, Range, ByAward, ByClass
<1>3. class \notin {"minor-puppy", "puppy", "honour"}
  <2>1. c["minor-puppy"].awards = {}
    <3>1. \A from : MinorPuppy(from).awards = {}
      BY DEF MinorPuppy, Class
    <3>2. \E from : c["minor-puppy"] = MinorPuppy(from)
      BY BundledClasses
    <3> QED BY <3>1, <3>2
  <2>2. c["puppy"].awards = {} /\ c["honour"].awards = {}
    <3>1. c["puppy"] = FciClasses["puppy"] /\ c["honour"] = FciClasses["honour"]
      BY BundledClasses DEF FciClassIds, ClassIds
    <3> QED BY <3>1 DEF FciClasses, ClassIds, Class
  <2> QED BY <1>2, <2>1, <2>2
<1>4. CASE class \in {"bred-by-exhibitor", "fokkersklas"}
  BY <1>4, BundledClasses DEF Adult, Bred, Rules, Class
<1>5. CASE class \in {"junior", "intermediate", "open", "working", "champion", "veteran"}
  <2>1. c[class] = FciClasses[class]
    BY <1>5, BundledClasses DEF FciClassIds, ClassIds
  <2>2. \E rules, scale, awards : rules.from \in {9, 15, 96} /\ FciClasses[class] = Class(rules, scale, awards)
    <3>1. /\ FciClasses["junior"] = Class(Rules(9, 18), "fci-adult", {"cacib-j"})
          /\ FciClasses["intermediate"] = Adult(Rules(15, 24)) /\ FciClasses["open"] = Adult(Rules(15, 0))
          /\ FciClasses["working"] = Adult(With("working-certificate", Rules(15, 0)))
          /\ FciClasses["champion"] = Adult(With("champion-certificate", Rules(15, 0)))
          /\ FciClasses["veteran"] = Class(Rules(96, 0), "fci-adult", {"cacib-v"})
      BY DEF FciClasses, ClassIds
    <3>2. /\ Rules(9, 18).from = 9 /\ Rules(15, 24).from = 15 /\ Rules(15, 0).from = 15 /\ Rules(96, 0).from = 96
          /\ With("working-certificate", Rules(15, 0)).from = 15
          /\ With("champion-certificate", Rules(15, 0)).from = 15
      BY DEF Rules, With
    <3>3. CASE class \in {"junior", "veteran"}
      BY <3>1, <3>2, <3>3
    <3>4. CASE class \in {"intermediate", "open", "working", "champion"}
      <4>1. \E rules : rules.from = 15 /\ FciClasses[class] = Adult(rules)
        BY <3>1, <3>2, <3>4
      <4> QED BY <4>1 DEF Adult
    <3> QED BY <1>5, <3>3, <3>4
  <2>3. c[class].kind = "class" /\ c[class].entry.from \in {9, 15, 96}
    BY <2>1, <2>2 DEF Class
  <2> QED BY <2>3
<1> QED BY <1>3, <1>4, <1>5 DEF ClassIds

LEMMA BreedFeedersForAdults ==
    ASSUME NEW belgian \in BOOLEAN, NEW c, Bundled(c, belgian)
    PROVE  /\ "junior" \in DOMAIN c /\ c["junior"] = Class(Rules(9, 18), "fci-adult", {"cacib-j"})
           /\ "open" \in DOMAIN c /\ c["open"] = Class(Rules(15, 0), "fci-adult", {"cacib", "res-cacib"})
           /\ \E f \in Range(c["bob"].fedBy) : f.id = "junior"
           /\ \E f \in Range(c["bob"].fedBy) : f.id = "cacib"
<1>1. FciClasses["junior"] = Class(Rules(9, 18), "fci-adult", {"cacib-j"})
      /\ FciClasses["open"] = Class(Rules(15, 0), "fci-adult", {"cacib", "res-cacib"})
  BY DEF FciClasses, ClassIds, Adult
<1>2. "junior" \in DOMAIN c /\ "open" \in DOMAIN c /\ c["junior"] = FciClasses["junior"] /\ c["open"] = FciClasses["open"]
  BY BundledClasses DEF FciClassIds, ClassIds
<1>3. c["bob"].fedBy = IF belgian THEN BreedWithCac.fedBy ELSE BreedFeeders
  BY BundledClasses DEF Higher, BreedWithCac
<1>4. (\E f \in Range(c["bob"].fedBy) : f.id = "junior") /\ (\E f \in Range(c["bob"].fedBy) : f.id = "cacib")
  <2>1. CASE belgian
    <3>1. c["bob"].fedBy = <<ByAward("cacib"), ByAward("cac"), ByClass("junior"), ByClass("veteran")>>
      BY <1>3, <2>1 DEF BreedWithCac, Higher
    <3>2. ByAward("cacib") \in Range(c["bob"].fedBy) /\ ByClass("junior") \in Range(c["bob"].fedBy)
      <4>1. 1 \in DOMAIN c["bob"].fedBy /\ 3 \in DOMAIN c["bob"].fedBy
            /\ c["bob"].fedBy[1] = ByAward("cacib") /\ c["bob"].fedBy[3] = ByClass("junior")
        BY <3>1
      <4> QED BY <4>1 DEF Range
    <3> QED BY <3>2 DEF ByAward, ByClass
  <2>2. CASE ~belgian
    <3>1. c["bob"].fedBy = <<ByAward("cacib"), ByClass("junior"), ByClass("veteran")>>
      BY <1>3, <2>2 DEF BreedFeeders
    <3>2. ByAward("cacib") \in Range(c["bob"].fedBy) /\ ByClass("junior") \in Range(c["bob"].fedBy)
      <4>1. 1 \in DOMAIN c["bob"].fedBy /\ 2 \in DOMAIN c["bob"].fedBy
            /\ c["bob"].fedBy[1] = ByAward("cacib") /\ c["bob"].fedBy[2] = ByClass("junior")
        BY <3>1
      <4> QED BY <4>1 DEF Range
    <3> QED BY <3>2 DEF ByAward, ByClass
  <2> QED BY <2>1, <2>2
<1> QED BY <1>1, <1>2, <1>4

FeedsBob(c, class) == \E f \in Range(c["bob"].fedBy) : f.id = class \/ f.id \in c[class].awards

\* Under whichever layers, some class opens the way to best of breed to every dog
\* of nine months or more, and none to a younger one (fci-shared-content.ts
\* :141-165, kmsh-2023-01-01.ts :105-142).
THEOREM BreedTitlesFromNineMonths == Spec => []BreedTitleFromNineMonths
<1>1. GrowingUp => BreedTitleFromNineMonths
  <2> SUFFICES ASSUME GrowingUp, Held, Born(today)
               PROVE  (\E class \in ClassIds : MayEnter(class) /\ FeedsBob(show.content, class)) <=> months >= 9
    BY DEF BreedTitleFromNineMonths, FeedsBob
  <2> DEFINE c == show.content
  <2>0. months \in Nat /\ UnderBelgian \in BOOLEAN /\ Bundled(c, UnderBelgian)
    BY HeldIsBundled DEF GrowingUp, AgeInvariant, TypeOK
  <2>1. /\ "junior" \in DOMAIN c /\ c["junior"] = Class(Rules(9, 18), "fci-adult", {"cacib-j"})
        /\ "open" \in DOMAIN c /\ c["open"] = Class(Rules(15, 0), "fci-adult", {"cacib", "res-cacib"})
        /\ \E f \in Range(c["bob"].fedBy) : f.id = "junior"
        /\ \E f \in Range(c["bob"].fedBy) : f.id = "cacib"
    BY <2>0, BreedFeedersForAdults
  <2>2. ASSUME NEW class \in ClassIds, MayEnter(class), FeedsBob(c, class) PROVE months >= 9
    <3>1. class \in DOMAIN c
      BY <2>2 DEF MayEnter, Belgian!OfKind
    <3>2. c[class].kind = "class" /\ c[class].entry.from \in Nat /\ c[class].entry.from >= 9
      <4>1. PICK f \in Range(c["bob"].fedBy) : f.id = class \/ f.id \in c[class].awards
        BY <2>2 DEF FeedsBob
      <4> HIDE DEF c
      <4> QED BY <2>0, <3>1, <4>1, NoBreedFeederForPuppies
    <3>3. c[class].entry.from <= months
      BY <2>2, <3>1, <3>2, WhoMayEnter
    <3> QED BY <2>0, <3>2, <3>3
  <2>3. ASSUME 9 <= months, months < 18 PROVE \E class \in ClassIds : MayEnter(class) /\ FeedsBob(c, class)
    <3>1. "junior" \in ClassIds /\ FeedsBob(c, "junior")
      BY <2>1 DEF ClassIds, FeedsBob
    <3>2. MayEnter("junior")
      <4>1. c["junior"].kind = "class" /\ c["junior"].entry = Rules(9, 18)
        BY <2>1 DEF Class
      <4> QED BY <2>0, <2>1, <2>3, <4>1, WhoMayEnter DEF Rules
    <3> QED BY <3>1, <3>2
  <2>4. ASSUME 18 <= months PROVE \E class \in ClassIds : MayEnter(class) /\ FeedsBob(c, class)
    <3>1. "open" \in ClassIds /\ FeedsBob(c, "open")
      BY <2>1 DEF ClassIds, Class, FeedsBob
    <3>2. MayEnter("open")
      <4>1. c["open"].kind = "class" /\ c["open"].entry = Rules(15, 0)
        BY <2>1 DEF Class
      <4> QED BY <2>0, <2>1, <2>4, <4>1, WhoMayEnter DEF Rules
    <3> QED BY <3>1, <3>2
  <2> QED BY <2>0, <2>2, <2>3, <2>4
<1> QED BY <1>1, InitGrowingUp, NextGrowingUp, PTL DEF Spec

\* Every show from 2026 on is held, before that none is, and in the ruleset of a
\* show every feeder, show type and minimum grade names what is there
\* (effective-ruleset.ts :108-117, and what nothing in the code checks).
THEOREM BundledRulesetsResolve == Spec => []BundledShowsResolve
<1>1. ASSUME NEW c, NEW award
      PROVE  /\ Belgian!ReachableScales(c, award) = KmshRules!ReachableScales(c, award)
             /\ \A scale : Belgian!ResolvesOn(c, award, scale) = KmshRules!ResolvesOn(c, award, scale)
  <2>1. Belgian!ReachableScales(c, award) = KmshRules!ReachableScales(c, award)
    BY DEF Belgian!ReachableScales, Belgian!AlongFeeders, Belgian!AlongFeeder, Belgian!OfKind, Belgian!ScalesOf,
           Belgian!ClassesNaming, Belgian!FoldLeft, Belgian!MapThenFoldSet, Belgian!Max,
           KmshRules!ReachableScales, KmshRules!AlongFeeders, KmshRules!AlongFeeder, KmshRules!OfKind,
           KmshRules!ScalesOf, KmshRules!ClassesNaming, KmshRules!FoldLeft, KmshRules!MapThenFoldSet,
           KmshRules!Max
  <2>2. \A scale : Belgian!ResolvesOn(c, award, scale) = KmshRules!ResolvesOn(c, award, scale)
    BY DEF Belgian!ResolvesOn, KmshRules!ResolvesOn, Belgian!OfKind, KmshRules!OfKind
  <2> QED BY <2>1, <2>2
<1>2. ASSUME NEW feeders PROVE Range(feeders) = KmshRules!Range(feeders)
  BY DEF Range, KmshRules!Range
<1>3. GrowingUp => BundledShowsResolve
  <2> SUFFICES ASSUME GrowingUp PROVE BundledShowsResolve
    OBVIOUS
  <2>1. show.outcome \notin {"unresolved", "ok"} => show.outcome = "NoEditionInForce" /\ today.year < 2026
    BY DEF GrowingUp, ShowIsBundled, Held
  <2>2. ASSUME Held
        PROVE  LET c == show.content IN
               /\ today.year >= 2026
               /\ \A award \in Belgian!OfKind(c, {"higher"}) :
                     /\ \A f \in Range(c[award].fedBy) : f.id \in DOMAIN c
                     /\ Belgian!ReachableScales(c, award) # {}
                     /\ \A scale \in Belgian!ReachableScales(c, award) : Belgian!ResolvesOn(c, award, scale)
               /\ \A type \in Belgian!OfKind(c, {"showType"}) : c[type].awards \subseteq Belgian!AwardIds(c)
    <3> DEFINE c == show.content
    <3>1. UnderBelgian \in BOOLEAN /\ Bundled(c, UnderBelgian) /\ today.year >= 2026
      BY <2>2, HeldIsBundled
    <3> HIDE DEF c
    <3>2. Belgian!OfKind(c, {"higher"}) = AdultAwards \cup PuppyAwards
      BY <3>1, BundledHigherAwards
    <3>3. \A award \in AdultAwards \cup PuppyAwards :
             /\ Belgian!ReachableScales(c, award) # {}
             /\ \A scale \in Belgian!ReachableScales(c, award) : Belgian!ResolvesOn(c, award, scale)
      BY <1>1, <3>1, BundledReferencesResolve
    <3>4. \A type \in Belgian!OfKind(c, {"showType"}) : c[type].awards \subseteq Belgian!AwardIds(c)
      BY <3>1, BundledShowTypes
    <3>6. \A award \in AdultAwards \cup PuppyAwards : \A f \in Range(c[award].fedBy) : f.id \in DOMAIN c
      BY <1>2, <3>1, BundledFeedersExist
    <3>7. \A award \in Belgian!OfKind(c, {"higher"}) :
             /\ \A f \in Range(c[award].fedBy) : f.id \in DOMAIN c
             /\ Belgian!ReachableScales(c, award) # {}
             /\ \A scale \in Belgian!ReachableScales(c, award) : Belgian!ResolvesOn(c, award, scale)
      BY <3>2, <3>3, <3>6
    <3> QED BY <3>1, <3>4, <3>7 DEF c
  <2> QED BY <2>1, <2>2 DEF BundledShowsResolve
<1> QED BY <1>3, InitGrowingUp, NextGrowingUp, PTL DEF Spec
=============================================================================
