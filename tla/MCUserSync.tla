----------------------------- MODULE MCUserSync -----------------------------
(* UserSync for TLC.                                                       *)
EXTENDS UserSync

CONSTANTS u, s1, s2, b1

MCEmails == {u}
MCSyncers == {s1, s2}
MCBulks == {b1}

(* No definition tells the goroutines of SyncUser apart.                   *)
MCSymmetry == Permutations(MCSyncers)
=============================================================================
