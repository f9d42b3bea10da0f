------------------------------ MODULE MCFiles ------------------------------
(* Instances of PrivateFiles for TLC.  Paths and commands are             *)
(* interchangeable, and no liveness property is checked.                  *)
EXTENDS PrivateFiles, TLC

FilesSymmetry == Permutations(Paths) \cup Permutations(Procs)
=============================================================================
