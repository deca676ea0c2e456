SPECIFICATION JudgingSpec
CONSTANTS
    c1 = c1
    c2 = c2
    s1 = s1
    s2 = s2
    national = national
    anyDog = anyDog
    cac = cac
    bob = bob
    bis = bis
    bos = bos
    rex = rex
    max = max
    ava = ava
    Dogs = {rex, max, ava}
    SexOf <- MCSexes
    Placements = {1, 2}
    ScaleOrder <- MCScales
    g1 = g1
    g2 = g2
    LayerOrder <- MCLayers
    Dates = {1}
    Classes = {c1, c2}
    Scales = {s1, s2}
    Awards = {cac, bob, bos, bis}
    ShowTypes = {national}
    Grades = {g1, g2}
    EntryRules = {anyDog}
    Contents <- MCDiamond
    None = None
    MaxEditions = 2
    MaxChoices = 2
CHECK_DEADLOCK FALSE
INVARIANTS
    AcceptedAwardsAreEligible
