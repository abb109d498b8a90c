---------------------------- MODULE PolicyEngine ----------------------------
(* The ABAC policy engine of                                                *)
(* 05-Zero-Trust-Security-and-IAM/memory-safe-policy.rs: a list of          *)
(* statements that grows, and authorize, which reads it from the front and  *)
(* leaves at the first statement that denies.                               *)
EXTENDS Integers, Sequences

CONSTANTS Actions, Resources,
          TrustScores,    \* values of network_trust_score
          MaxStatements   \* bound: statements attached

PolicyAssumption == TrustScores \subseteq Nat /\ MaxStatements \in Nat

VARIABLES policies

vars == <<policies>>

Star == "*"
NoCondition == "none"
RequireMfa == "mfa"

Statement ==
  [effect : {"Allow", "Deny"}, actions : SUBSET Actions,
   resources : SUBSET (Resources \union {Star}), conditions : {NoCondition, RequireMfa}]

Context == [mfa_authenticated : BOOLEAN, network_trust_score : TrustScores]

(* RequireMfaCondition::evaluate *)
evaluate(ctx) == ctx.mfa_authenticated /\ ctx.network_trust_score > 85

Init == policies = <<>>

attach_policy(statement) ==
  /\ Len(policies) < MaxStatements
  /\ policies' = Append(policies, statement)

(* The statement speaks of this request, and its condition is met. *)
Applies(statement, ctx, action, resource) ==
  /\ action \in statement.actions
  /\ resource \in statement.resources \/ Star \in statement.resources
  /\ statement.conditions = RequireMfa => evaluate(ctx)

(* mutant: the first statement that applies decides *)
authorizeFirst(list, ctx, action, resource) ==
  LET scan[n \in 1 .. Len(list) + 1] ==
        IF n > Len(list) THEN FALSE
        ELSE IF Applies(list[n], ctx, action, resource) THEN list[n].effect = "Allow"
        ELSE scan[n + 1]
  IN  scan[1]

(* The loop: scan[n][is_allowed] is the value returned from statement n on. *)
authorize(list, ctx, action, resource) ==
  LET scan[n \in 1 .. Len(list) + 1] == [is_allowed \in BOOLEAN |->
        IF n > Len(list) THEN is_allowed
        ELSE IF ~Applies(list[n], ctx, action, resource) THEN scan[n + 1][is_allowed]
        ELSE IF list[n].effect = "Deny" THEN FALSE
        ELSE scan[n + 1][TRUE]]
  IN  scan[1][FALSE]

Next == \E statement \in Statement : attach_policy(statement)

Spec == Init /\ [][Next]_vars

-----------------------------------------------------------------------------
Decides(effect, ctx, action, resource) ==
  \E n \in DOMAIN policies :
    policies[n].effect = effect /\ Applies(policies[n], ctx, action, resource)

(* "Defaults to DENY unless explicitly ALLOWED" (line 70) and "Explicit     *)
(* Deny ALWAYS overrides any Allows" (line 88): in whatever order the       *)
(* statements were attached.                                                *)
OrderIrrelevant ==
  \A ctx \in Context, action \in Actions, resource \in Resources :
    authorize(policies, ctx, action, resource) <=>
      Decides("Allow", ctx, action, resource) /\ ~Decides("Deny", ctx, action, resource)
=============================================================================
