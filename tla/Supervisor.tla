----------------------------- MODULE Supervisor -----------------------------
(***************************************************************************)
(* What a core supervisor promises about the operating-system processes it *)
(* launches, whatever its callers do: they are launched one after another, *)
(* a new one only when no earlier one is running, and a process that was   *)
(* killed or has ended never runs again.  Core implements this module.     *)
(***************************************************************************)
EXTENDS Naturals

CONSTANT Procs          \* the processes that may be launched, in launch order

VARIABLE life           \* life[p]: "unborn", "running", "killed" or "gone"

Init == life = [p \in Procs |-> "unborn"]

(* A process is launched in order, while no process is running.            *)
Launch(p) ==
  /\ life[p] = "unborn"
  /\ \A q \in Procs : life[q] # "running" /\ (q < p => life[q] # "unborn")
  /\ life' = [life EXCEPT ![p] = "running"]

(* SIGKILL has been sent; the process dies some time later.                *)
Kill(p) ==
  /\ life[p] = "running"
  /\ life' = [life EXCEPT ![p] = "killed"]

(* The process is dead, of a signal or on its own.                         *)
Exit(p) ==
  /\ life[p] \in {"running", "killed"}
  /\ life' = [life EXCEPT ![p] = "gone"]

Next == \E p \in Procs : Launch(p) \/ Kill(p) \/ Exit(p)

Spec == Init /\ [][Next]_life
=============================================================================
