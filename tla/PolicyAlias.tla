----------------------------- MODULE PolicyAlias -----------------------------
(***************************************************************************)
(* What the append-only policy alias ledger promises (policy_alias_events   *)
(* in coordinator/store.py): the stable alias starts at a measured baseline *)
(* and moves at most once per workflow run, from the policy the move was    *)
(* measured against, and to a candidate only past the numeric gate.         *)
(* PolicyGovernance implements it with reviews, decisions and callbacks.    *)
(***************************************************************************)
EXTENDS Naturals, Sequences

CONSTANTS Runs,   \* workflow run identities
          Plans,  \* plans a run may have, see PolicyGovernance
          NoRun   \* the event that initialised the alias belongs to no run

VARIABLE alias    \* events of the stable alias, in sequence order

Current == alias[Len(alias)].target
Moved(r) == \E i \in DOMAIN alias : alias[i].run = r

\* The policies an alias may be at before, and is at after, the plan's action.
Sources(p) == IF p.action = "promote" THEN {p.baseline}
              ELSE {p.baseline, p.candidate}
Target(p) == IF p.action = "promote" THEN p.candidate ELSE p.baseline
GateAction(p) == IF p.promotable THEN "promote" ELSE "roll_back"

Init == alias = <<>>

Initialize(p) ==
  /\ alias = <<>>
  /\ alias' = <<[run |-> NoRun, target |-> p.baseline]>>

Move(r, p) ==
  /\ alias # <<>>
  /\ ~Moved(r)
  /\ p.action = GateAction(p)
  /\ Current \in Sources(p)
  /\ alias' = Append(alias, [run |-> r, target |-> Target(p)])

Next == \E p \in Plans : Initialize(p) \/ \E r \in Runs : Move(r, p)

Spec == Init /\ [][Next]_alias
=============================================================================
