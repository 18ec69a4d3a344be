------------------------------- MODULE MCCrash -------------------------------
(* CrashReporter for TLC. *)
EXTENDS CrashReporter
=============================================================================
