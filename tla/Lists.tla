-------------------------------- MODULE Lists --------------------------------
(***************************************************************************)
(* What the loops of backend/xray/config.go make of a slice.               *)
(***************************************************************************)
EXTENDS Naturals, SequencesExt

(* A new slice of the elements that are not skipped, in their order.       *)
Omit(s, skipped) ==
  LET kept[k \in 0..Len(s)] ==
        IF k = 0 THEN <<>>
        ELSE IF s[k] \in skipped THEN kept[k - 1] ELSE Append(kept[k - 1], s[k])
  IN  kept[Len(s)]

(* A list of clients without the first of that email.                      *)
WithoutClient(clients, email) == RemoveFirstMatch(clients, LAMBDA c : c.email = email)
=============================================================================
