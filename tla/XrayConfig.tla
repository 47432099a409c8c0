----------------------------- MODULE XrayConfig -----------------------------
(***************************************************************************)
(* backend/xray/config.go: how the config that the panel sends is read and *)
(* completed before the core gets it.  A config has                        *)
(*   inbounds  a sequence of records with a tag;                           *)
(*   router    the set of at most one RuleList, a sequence of rules;       *)
(*   policy    the set of at most one [levels, system];                    *)
(*   log       whether there is a log section;                             *)
(*   outbounds the set of tags of the outbounds.                           *)
(* "routing", "policy" and the parts of a policy that may be missing are   *)
(* sets of at most one element.                                            *)
(* Of a rule only matters whether it is routed to the API, whether it is a *)
(* JSON object at all, and which one it is.                                *)
(***************************************************************************)
EXTENDS Lists

ApiTag == "API_INBOUND"
ApiRule == "API_INBOUND to API"     \* the rule ApplyAPI puts first
StaleRule == "other to API"         \* an older rule that is routed to API
BadRule == "not an object"

(* The fields of an inbound that ApplyAPI leaves out stay at their zero.   *)
ApiInbound ==
  [tag |-> ApiTag, protocol |-> "dokodemo-door", settings |-> TRUE, method |-> "",
   network |-> "", security |-> "", raw |-> "absent", tcp |-> "absent",
   exclude |-> FALSE, clients |-> <<>>]

-----------------------------------------------------------------------------
(* An inbound that is null in the JSON: a nil pointer.                     *)
NilInbound == [null |-> TRUE]

(* NewXRayConfig marks the inbounds whose users the node leaves alone; it  *)
(* reads the tag of each.                                                  *)
NewXRayConfigPanics(config) == NilInbound \in Range(config.inbounds)
NewXRayConfig(config, exclude) ==
  [config EXCEPT !.inbounds =
     [k \in DOMAIN @ |-> [@[k] EXCEPT !.exclude = config.inbounds[k].tag \in exclude]]]

(* The loop over the inbounds ranges over the slice as it was, while each  *)
(* removal moves the rest of the array down by one and shortens the slice: *)
(* the element that moves into the gap is skipped, and a tag met again     *)
(* beyond the new end makes the slice expression panic.                    *)
RemovalPastEnd(s, k) ==                                         \* mutant
  IF s.panic \/ s.array[k].tag # ApiTag THEN s
  ELSE IF k >= s.len THEN [s EXCEPT !.panic = TRUE]
  ELSE [s EXCEPT !.len = @ - 1,
                 !.array = [j \in DOMAIN @ |-> IF j \in k..(s.len - 1) THEN @[j + 1] ELSE @[j]]]
Removal(s, k) ==
  IF s.panic \/ s.array[k].tag # ApiTag THEN s
  ELSE IF k > s.len THEN [s EXCEPT !.panic = TRUE]
  ELSE [s EXCEPT !.len = @ - 1,
                 !.array = [j \in DOMAIN @ |-> IF j \in k..(s.len - 1) THEN @[j + 1] ELSE @[j]]]

WithoutApiInbound(inbounds) ==
  LET loop[k \in 0..Len(inbounds)] ==
        IF k = 0 THEN [array |-> inbounds, len |-> Len(inbounds), panic |-> FALSE]
                 ELSE Removal(loop[k - 1], k)
      end == loop[Len(inbounds)]
  IN  IF end.panic THEN {} ELSE {SubSeq(end.array, 1, end.len)}

(* filterRules; its error is lost, for the caller assigns err once more,   *)
(* and the rules with it.                                                  *)
FilterRulesKeepsApi(rules) == rules                             \* mutant
FilterRules(rules) ==
  IF BadRule \in Range(rules) THEN <<>>
  ELSE Omit(rules, {ApiRule, StaleRule})

(* checkPolicy: the traffic of users of level 0 and of outbounds is to be  *)
(* counted; what else the policy says stays.  A level that is null in the  *)
(* JSON is dereferenced.                                                   *)
NullLevel == [traffic |-> FALSE, online |-> FALSE, null |-> TRUE]
NoLevel == [NullLevel EXCEPT !.null = FALSE]
NoSystem == [inbound |-> FALSE, outbound |-> FALSE]
NoPolicy == [levels |-> [l \in {} |-> NoLevel], system |-> {}]

LevelSet == [traffic : BOOLEAN, online : BOOLEAN, null : BOOLEAN]
SystemSet == [inbound : BOOLEAN, outbound : BOOLEAN]

Given(optional, default) == IF optional = {} THEN default ELSE CHOOSE x \in optional : TRUE

Zero(policy) == IF 0 \in DOMAIN policy.levels THEN policy.levels[0] ELSE NoLevel

CheckPolicyPanics(policy) == Zero(Given(policy, NoPolicy)).null

CheckPolicyKeepsZero(policy) ==                                 \* mutant
  LET old == Given(policy, NoPolicy)
      new == IF 0 \in DOMAIN old.levels THEN Zero(old) ELSE [NoLevel EXCEPT !.traffic = TRUE]
  IN  {[levels |-> [l \in DOMAIN old.levels \cup {0} |-> IF l = 0 THEN new ELSE old.levels[l]],
        system |-> {[Given(old.system, NoSystem) EXCEPT !.outbound = TRUE]}]}
CheckPolicy(policy) ==
  LET old == Given(policy, NoPolicy)
  IN  {[levels |-> [l \in DOMAIN old.levels \cup {0} |->
                      IF l = 0 THEN [Zero(old) EXCEPT !.traffic = TRUE] ELSE old.levels[l]],
        system |-> {[Given(old.system, NoSystem) EXCEPT !.outbound = TRUE]}]}

ApplyAPIPanics(config) ==
  WithoutApiInbound(config.inbounds) = {} \/ CheckPolicyPanics(config.policy)

ApplyAPI(config) ==
  [config EXCEPT
     !.inbounds = <<ApiInbound>> \o CHOOSE rest \in WithoutApiInbound(@) : TRUE,
     !.router = {<<ApiRule>> \o FilterRules(Given(@, <<>>))},
     !.policy = CheckPolicy(@)]
=============================================================================
