---------------------------- MODULE MCBackupRestore ----------------------------
(* Instances of BackupRestore for TLC. *)
EXTENDS BackupRestore, TLC

ItemSymmetry == Permutations(Items)
=============================================================================
