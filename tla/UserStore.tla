------------------------------ MODULE UserStore ------------------------------
(***************************************************************************)
(* What a backend promises of the lists of users that SyncUsers brings,    *)
(* whoever launches its core: one core runs at a time, with a list that    *)
(* the panel has sent, never an older one than a core before it had, and   *)
(* never an older one than a request has been told to be in use; only the  *)
(* launch of a core with its list makes a request succeed.  Xray           *)
(* implements this module.                                                 *)
(***************************************************************************)
EXTENDS Naturals

VARIABLES newest,    \* the newest list; 0 is the one the backend began with
          running,   \* a core runs
          served,    \* the list of the core that was launched last
          acked      \* the newest list whose request has succeeded

vars == <<newest, running, served, acked>>

Init == newest = 0 /\ running = FALSE /\ served = 0 /\ acked = 0

Bring ==
  /\ newest' = newest + 1
  /\ UNCHANGED <<running, served, acked>>

Launch ==
  /\ ~running
  /\ running' = TRUE
  /\ served' \in served..newest
  /\ acked' \in acked..served'
  /\ UNCHANGED newest

(* The core is killed or dies.                                             *)
End ==
  /\ running
  /\ running' = FALSE
  /\ UNCHANGED <<newest, served, acked>>

Next == Bring \/ Launch \/ End

Spec == Init /\ [][Next]_vars
=============================================================================
