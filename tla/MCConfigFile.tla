---------------------------- MODULE MCConfigFile ----------------------------
(***************************************************************************)
(* ConfigFile for TLC.                                                     *)
(***************************************************************************)
EXTENDS ConfigFile, TLC

\* A file is known by its name; which inode it is makes no difference.
InodeSymmetry == Permutations(Inodes)

=============================================================================
