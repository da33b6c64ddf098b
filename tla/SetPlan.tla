------------------------------ MODULE SetPlan ------------------------------
(***************************************************************************)
(* What the plan of the LLM does to the memories of one user, in the terms *)
(* the LLM thinks in: memories it was shown and facts it wants remembered. *)
(* There are no numbers or lists here; PromptPlan shows that the code's    *)
(* lists, integer ids and hashed point ids come to the same.               *)
(***************************************************************************)
VARIABLES
  profile,   \* the core memories, of all users
  general,   \* the general memories, of all users
  plan       \* the plan being carried out: its user; the core memories to drop and
             \* the texts to add; the general memories to forget and to learn;
             \* whether it names a memory that was not shown (garbled)

planVars == <<profile, general, plan>>

NoPlan == [stage |-> "none"]
Staged(stage, p) == [stage |-> stage, plan |-> p]

SetPlanInit == profile = {} /\ general = {} /\ plan = NoPlan

\* The LLM names memories of the user only.
Decide ==
  /\ plan = NoPlan /\ plan'.stage = "decided"
  /\ LET p == plan'.plan IN
       /\ p.drop \subseteq profile /\ p.forget \subseteq general
       /\ \A m \in p.drop \union p.forget \union p.learn : m.user = p.user
  /\ UNCHANGED <<profile, general>>

\* The profile loses what is dropped and gains what is added, for that user.
SetProfile ==
  /\ plan.stage = "decided"
  /\ profile \ profile' = plan.plan.drop
  /\ LET new == profile' \ profile IN
       {m.text : m \in new} = plan.plan.add /\ \A m \in new : m.user = plan.plan.user
  /\ plan' = Staged("profileSet", plan.plan)
  /\ UNCHANGED general

\* All of what the plan wants forgotten is forgotten, or none of it: a plan that
\* names a memory nobody has shown it forgets nothing.
Forget ==
  /\ plan.stage = "profileSet"
  /\ general' = IF plan.plan.garbled THEN general ELSE general \ plan.plan.forget
  /\ plan' = Staged("forgotten", plan.plan)
  /\ UNCHANGED profile

Learn ==
  /\ plan.stage = "forgotten"
  /\ general' = general \union plan.plan.learn
  /\ plan' = NoPlan
  /\ UNCHANGED profile

SetPlanNext == Decide \/ SetProfile \/ Forget \/ Learn
SetPlanSpec == SetPlanInit /\ [][SetPlanNext]_planVars
=============================================================================
