---------------------------- MODULE MCUnitOfWork ----------------------------
(* Instances of UnitOfWork for TLC.                                        *)
EXTENDS UnitOfWork, TLC

CONSTANTS c1, c2, p1, p2

Club(c, p)   == [kind |-> "club", club |-> c, principal |-> p]
Exhibitor(p) == [kind |-> "exhibitor", club |-> Nobody, principal |-> p]
Platform     == [kind |-> "platform", club |-> Nobody, principal |-> Nobody]

NoClub     == {Exhibitor(p1), Exhibitor(p2), Platform}
AllScopes  == {Club(c1, p1), Club(c2, p2), Exhibitor(p1), Exhibitor(p2), Platform}
MCSymmetry  == Permutations(Requests)
=============================================================================
