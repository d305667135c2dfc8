--------------------------- MODULE MCImporterLock ---------------------------
(***************************************************************************)
(* Instances of ImporterLock for TLC: three starts of the importer, and a  *)
(* lock that lives for two units of time per refresh.                      *)
(***************************************************************************)
EXTENDS ImporterLock, TLC

ProcSymmetry == Permutations(Procs)
=============================================================================
