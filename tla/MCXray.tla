------------------------------- MODULE MCXray -------------------------------
(* Xray for TLC.                                                           *)
EXTENDS Xray

CONSTANTS s1, s2, x1

MCSyncers == {s1, s2}
MCNoSyncers == {}
MCStoppers == {x1}
=============================================================================
