------------------------ MODULE MCInMemoryUnitOfWork ------------------------
(* Instances of InMemoryUnitOfWork for TLC.                                *)
EXTENDS InMemoryUnitOfWork, TLC

MCSymmetry == Permutations(Runs) \cup Permutations(Names)
=============================================================================
