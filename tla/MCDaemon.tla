------------------------------ MODULE MCDaemon ------------------------------
(***************************************************************************)
(* Small instances of Daemon, and the properties its runs check.           *)
(***************************************************************************)
EXTENDS Daemon, TLC

Symmetry == Permutations(Devices) \cup Permutations(Conns)

=============================================================================
