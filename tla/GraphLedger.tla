----------------------------- MODULE GraphLedger -----------------------------
(***************************************************************************)
(* What graph memory promises of its durable facts: they are only ever      *)
(* added, an identity keeps its first content for good, and a fact is added *)
(* after the facts it refers to.  GraphMemory implements it.                *)
(***************************************************************************)
CONSTANTS Facts, Identity, Needs

VARIABLE facts

Admissible(f) ==
  /\ \A g \in facts : Identity[g] # Identity[f]
  /\ \A id \in Needs[f] : \E g \in facts : Identity[g] = id

Init == facts = {}

Add(f) == Admissible(f) /\ facts' = facts \cup {f}

Next == \E f \in Facts : Add(f)

Spec == Init /\ [][Next]_facts
=============================================================================
