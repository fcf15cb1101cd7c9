---------------------------- MODULE MCCertService ----------------------------
(* Small instances of CertService.  Nothing in the specification orders the *)
(* members of its sets, so each set of at least two is a symmetry set; runs *)
(* that check liveness use none.                                            *)
EXTENDS CertService, TLC

RunSymmetry  == Permutations(Runs)

RaceSymmetry == Permutations(Runs) \cup Permutations(Names) \cup Permutations(Secrets)
=============================================================================
