---------------------------- MODULE MCController ----------------------------
(* Controller for TLC.                                                     *)
EXTENDS Controller

CONSTANTS a, b, c

MCOneStarter == {a}
MCTwoStarters == {a, b}
MCCallers == {c}
MCNoCallers == {}
MCKeepAliveOrNot == {0, 1}
MCKeepAlive == {1}
=============================================================================
