------------------------------- MODULE Stats -------------------------------
(***************************************************************************)
(* backend/xray/stats.go and api/stats.go: the counters of the core and    *)
(* what the node makes of them.  The core names a counter                  *)
(* class>>>owner>>>traffic>>>link; here that is a tuple.  "counters" is a  *)
(* function from the names that exist to their values.                     *)
(***************************************************************************)
EXTENDS Naturals, Sequences

CONSTANT EndsIn     \* pairs <<name, class>> such that the text of name ends in class

Classes == {"user", "inbound", "outbound"}
CounterName(class, owner) == <<class, owner, "traffic", "downlink">>

(* The core takes a pattern for a substring: it may also start within the  *)
(* owner of another class.                                                 *)
Matches(name, pattern) ==
  \/ Head(pattern) = Head(name) /\ \A k \in 2..Len(pattern) : pattern[k] = name[k]
  \/ <<name[2], Head(pattern)>> \in EndsIn
     /\ \A k \in 2..Len(pattern) : pattern[k] = name[k + 1]

QueryStats(counters, pattern) == {n \in DOMAIN counters : Matches(n, pattern)}

(* The counters that a query with reset leaves.                            *)
Reset(counters, pattern) ==
  [n \in DOMAIN counters |-> IF n \in QueryStats(counters, pattern) THEN 0 ELSE counters[n]]

-----------------------------------------------------------------------------
(* A stat of the answer, from the parts of a counter's name.  The queries  *)
(* for all owners of a class and those for one take the third and the      *)
(* fourth part in a different order.                                       *)
ListStat(name, value) ==
  [name |-> name[2], type |-> name[4], link |-> name[3], value |-> value]
SingleStatOfClass(name, value) ==                               \* mutant
  [name |-> name[1], type |-> name[3], link |-> name[4], value |-> value]
SingleStat(name, value) ==
  [name |-> name[2], type |-> name[3], link |-> name[4], value |-> value]

(* A request is for a class and a set of at most one owner, who may have   *)
(* no name.                                                                *)
Refused(owner) == owner = {""}
Pattern(class, owner) ==
  IF owner = {} THEN <<class>> ELSE <<class, CHOOSE o \in owner : TRUE>>
GetStats(counters, class, owner) ==
  LET names == QueryStats(counters, Pattern(class, owner))
  IN  IF owner = {} THEN {ListStat(n, counters[n]) : n \in names}
                    ELSE {SingleStat(n, counters[n]) : n \in names}
=============================================================================
