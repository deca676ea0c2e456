---------------------------- MODULE MCBundledShows ----------------------------
(* Dogs born on the days that short months, leap years and year ends turn on. *)
EXTENDS BundledShows

Dog(birth, held, bred) == [birth |-> birth, held |-> held, handlerIsBreeder |-> bred]

MCDogs ==
    { Dog(Date(2020, 2, 29), {"champion-certificate"}, FALSE),
      Dog(Date(2025, 8, 31), {"vaccination-certificate"}, TRUE),
      Dog(Date(2025, 11, 30), {"vaccination-certificate"}, FALSE),
      Dog(Date(2026, 1, 1), {}, FALSE),
      Dog(Date(2026, 12, 31), {"vaccination-certificate", "working-certificate"}, TRUE) }
MCLastDay == Date(2028, 3, 5)
=============================================================================
