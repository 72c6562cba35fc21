-------------------------- MODULE MCPolicyGovernance --------------------------
\* Finite instance of PolicyGovernance: two runs and two concurrent reviews.
EXTENDS PolicyGovernance, TLC

CONSTANTS p0, p1, p2, p3

Plan(b, c, promotable, action, gated) ==
  [baseline |-> b, candidate |-> c, action |-> action,
   promotable |-> promotable, gated |-> gated]

\* Two promotions racing out of p0; a rollback to p0, from p0 or from p3; a
\* promotion that starts the alias at p3; an action the gate does not give.
MCPlans ==
  {Plan(p0, p1, TRUE, "promote", {LastStep}),
   Plan(p0, p2, TRUE, "promote", {LastStep}),
   Plan(p0, p3, FALSE, "roll_back", {1, LastStep}),
   Plan(p3, p0, TRUE, "promote", {LastStep}),
   Plan(p0, p3, FALSE, "promote", {LastStep})}

GovernanceSymmetry == Permutations(Runs) \cup Permutations(Reviewers)
=============================================================================
