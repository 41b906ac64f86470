------------------------------- MODULE MCMachine -------------------------------
(* One SCSI target, two CPUs and sizes; an image on disk and one that is not.*)
EXTENDS Machine, TLC

Identities == Permutations(Machines)
=============================================================================
