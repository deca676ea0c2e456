SPECIFICATION Spec
CONSTANTS
    Dogs <- MCDogs
    LastDay <- MCLastDay
    None = None
CHECK_DEADLOCK FALSE
INVARIANTS
    AgeCountsBirthdays
    OneYoungClass
    BreedTitleFromNineMonths
    BundledShowsResolve
