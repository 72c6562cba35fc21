--------------------------- MODULE PromotionGate ---------------------------
(***************************************************************************)
(* How a measured comparison of two policies becomes a verdict, and how    *)
(* often that verdict is recomputed.                                       *)
(*                                                                         *)
(* Twenty frozen worlds are run with the baseline and with the candidate.  *)
(* evaluate_promotion (evaluation/promotion.py) writes its decision into   *)
(* the artifact; the import recomputes it and refuses an artifact that     *)
(* says otherwise (backend/evaluation_import.py); the review rebuilds the  *)
(* gate's metrics from the evidence, with another formula, and decides     *)
(* again (coordinator/models.py).  A run of one pair is one behaviour:     *)
(* measured, decided, imported, reviewed.                                  *)
(*                                                                         *)
(* Rates are IEEE doubles and the thresholds are exact decimals, so the    *)
(* arithmetic is modelled as it rounds: a number near k/20 is the record   *)
(* [k, e] for (k * 2^57 + e) / (20 * 2^57), and e is a small integer.      *)
(***************************************************************************)
EXTENDS Integers

CONSTANTS Successes,       \* counts of successful deliveries, of twenty
          Collisions,      \* counts of worlds with a body collision
          Falls,           \* falls over the candidate's twenty runs
          Clearances,      \* the candidate's median clearance, in cm
          Efficiencies     \* median path efficiencies, in per cent

VARIABLES pair,            \* what was measured of the two policies
          decision,        \* the artifact's verdict, "none" before it exists
          imported,        \* the import's: "none", "admitted" or "refused"
          verdict          \* the review's: "none", "promote" or "hold"

vars == <<pair, decision, imported, verdict>>

Worlds == 20

Measures == [successes : Successes, collisions : Collisions, falls : Falls,
             clearance : Clearances, efficiency : Efficiencies]

TypeOK ==
  /\ pair \in [baseline : Measures, candidate : Measures]
  /\ decision \in {"none", "promotable", "not_promotable"}
  /\ imported \in {"none", "admitted", "refused"}
  /\ verdict \in {"none", "promote", "hold"}

-----------------------------------------------------------------------------
(* Doubles near k/20, in units of 2^-57.                                   *)

Abs(i) == IF i < 0 THEN -i ELSE i

\* The spacing of doubles at [k, e], for 1/32 <= k/20 <= 1.
AtLeast(k, e, d) == k * d > Worlds \/ (k * d = Worlds /\ e >= 0)
Spacing(k, e) == CASE AtLeast(k, e, 1) -> 32
                   [] AtLeast(k, e, 2) -> 16
                   [] AtLeast(k, e, 4) -> 8
                   [] AtLeast(k, e, 8) -> 4
                   [] AtLeast(k, e, 16) -> 2
                   [] OTHER -> 1

\* k * 2^57 modulo 1280, which every 2 * Worlds * Spacing divides.
Residue(k) == (k * 512) % 1280

\* The double nearest to [k, e], ties to the even neighbour.
Round(k, e) ==
  LET step == Worlds * Spacing(k, e)
      Grid == {x \in (e - step)..(e + step) : (Residue(k) + x) % step = 0}
      Better(x, y) == \/ Abs(x - e) < Abs(y - e)
                      \/ Abs(x - e) = Abs(y - e) /\ (Residue(k) + x) % (2 * step) = 0
  IN  CHOOSE x \in Grid : \A y \in Grid \ {x} : Better(x, y)

Rate == [k \in 0..Worlds |-> [k |-> k, e |-> IF k = 0 THEN 0 ELSE Round(k, 0)]]

Minus(a, b) == LET k == a.k - b.k
               IN  IF k <= 0 THEN [k |-> k, e |-> a.e - b.e]
                   ELSE [k |-> k, e |-> Round(k, a.e - b.e)]

Below(a, b) == a.k < b.k \/ (a.k = b.k /\ a.e < b.e)

-----------------------------------------------------------------------------
(* The gate.                                                               *)

\* summarize_policy_results: what of the runs the gate reads.
Summary(m) == [m EXCEPT !.successes = Rate[m.successes]]

\* Mutant: none fewer than none counts as half.
FewerOfNone(baseline, candidate) == 2 * candidate.collisions <= baseline.collisions
\* At least half the collision episodes fewer.  Both formulas of the code,
\* 1 - c/b and (b - c)/b, are at least 0.5 exactly when 2c <= b: doubling a
\* double is exact and no other ratio of two counts up to 20 is that close.
FewerCollisions(baseline, candidate) ==
  baseline.collisions > 0 /\ 2 * candidate.collisions <= baseline.collisions

\* 1 - candidate/baseline, and 0 when the baseline's efficiency is 0.
RegressionWithin(baseline, candidate) ==
  \/ baseline.efficiency = 0
  \/ 100 * (baseline.efficiency - candidate.efficiency) <= 15 * baseline.efficiency

\* evaluate_promotion: the decision an artifact carries.
Promotable(baseline, candidate) ==
  LET b == Summary(baseline)
      c == Summary(candidate)
  IN  /\ ~Below(c.successes, Rate[16])
      /\ c.falls = 0
      /\ c.collisions <= 2
      /\ c.clearance >= 25
      /\ \/ ~Below(Minus(c.successes, b.successes), Rate[4])
         \/ FewerCollisions(baseline, candidate)
      /\ RegressionWithin(baseline, candidate)

\* The metrics a review builds from admitted evidence: the collision
\* reduction is 0, not absent, when the baseline never collided.
GateMetrics(evidence) ==
  LET b == evidence.baseline
      c == evidence.candidate
  IN  [success |-> Rate[c.successes], collisions |-> c.collisions, falls |-> c.falls,
       clearance |-> c.clearance,
       delta |-> Minus(Rate[c.successes], Rate[b.successes]),
       fewer |-> IF b.collisions = 0 THEN FALSE ELSE 2 * (b.collisions - c.collisions) >= b.collisions,
       regression |-> RegressionWithin(b, c)]

\* PolicyGateMetrics.passes_promotion_gate.
PassesPromotionGate(metrics) ==
  /\ ~Below(metrics.success, Rate[16])
  /\ metrics.falls = 0
  /\ metrics.collisions <= 2
  /\ metrics.clearance >= 25
  /\ ~Below(metrics.delta, Rate[4]) \/ metrics.fewer
  /\ metrics.regression

-----------------------------------------------------------------------------
(* One pair, from the runs to the review.                                  *)

Init ==
  /\ pair \in [baseline : {[successes |-> s, collisions |-> c, falls |-> 0,
                            clearance |-> 25, efficiency |-> e] :
                             s \in Successes, c \in Collisions, e \in Efficiencies},
               candidate : Measures]
  /\ decision = "none"
  /\ imported = "none"
  /\ verdict = "none"

\* The evaluation writes the artifact with its decision.
Decide ==
  /\ decision = "none"
  /\ decision' = IF Promotable(pair.baseline, pair.candidate)
                 THEN "promotable" ELSE "not_promotable"
  /\ UNCHANGED <<pair, imported, verdict>>

\* The import recomputes the decision from the artifact's runs and refuses
\* an artifact whose decision differs.
Import ==
  /\ decision # "none" /\ imported = "none"
  /\ imported' = IF (decision = "promotable") <=> Promotable(pair.baseline, pair.candidate)
                 THEN "admitted" ELSE "refused"
  /\ UNCHANGED <<pair, decision, verdict>>

\* The review measures promotion again, from the evidence alone.
Review ==
  /\ imported = "admitted" /\ verdict = "none"
  /\ verdict' = IF PassesPromotionGate(GateMetrics(pair)) THEN "promote" ELSE "hold"
  /\ UNCHANGED <<pair, decision, imported>>

Next == Decide \/ Import \/ Review

Spec == Init /\ [][Next]_vars

-----------------------------------------------------------------------------
(* What the README asks of a candidate, over the exact counts.             *)

TwentyPointsMore(baseline, candidate) == candidate.successes - baseline.successes >= 4

Documented(baseline, candidate) ==
  /\ 5 * candidate.successes >= 4 * Worlds
  /\ candidate.falls = 0
  /\ 10 * candidate.collisions <= Worlds
  /\ candidate.clearance >= 25
  /\ \/ TwentyPointsMore(baseline, candidate)
     \/ FewerCollisions(baseline, candidate)
  /\ RegressionWithin(baseline, candidate)

\* A review promotes only what the artifact called promotable, and nothing
\* the documented gate refuses: the two implementations of the gate, over
\* rounded rates and with different formulas, never disagree, and rounding, which
\* may hold a candidate back, never lets one through (promotion.py:98, coordinator/models.py:362).
VerdictsAgree ==
  verdict # "none" =>
    /\ verdict = "promote" <=> decision = "promotable"
    /\ verdict = "promote" => Documented(pair.baseline, pair.candidate)
=============================================================================
