------------------------------- MODULE MCCore -------------------------------
(* Core for TLC: two goroutines, which is what its lock and mark are about.*)
EXTENDS Core

CONSTANTS t1, t2

MCThreads == {t1, t2}
=============================================================================
