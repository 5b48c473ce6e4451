----------------------------- MODULE RiskLedger -----------------------------
(***************************************************************************)
(* What the risk gate of a trading session promises, whatever the strategy *)
(* and the market do: RiskView (portfolio/exposure.py) in front of every   *)
(* submission, apply_fill (portfolio/state.py) behind every execution.     *)
(*                                                                         *)
(* A slot of ex holds what an active order costs and brings if it fills in *)
(* full.  Orders are admitted against the worst case over all fill         *)
(* subsets, fill in any part at no more than their reserved cost, or are   *)
(* released.  TradingSession is shown to implement this module.            *)
(***************************************************************************)
EXTENDS RiskEnvelope

CONSTANTS
  Offers,    \* exposures a strategy may ask for
  Openings   \* portfolios a session may start from

ASSUME OfferAssumption ==
  /\ Offers \subseteq {e \in Exposure : e.qty > 0 /\ e.cost > 0}
  /\ Openings \subseteq Portfolio

VARIABLES
  pf,    \* confirmed portfolio
  ex,    \* order id -> exposure, Idle when the order is not active
  base   \* the portfolio the session started from

vars == <<pf, ex, base>>

Active == {i \in OrderIds : ex[i].qty > 0}

-----------------------------------------------------------------------------

Init ==
  /\ pf \in Openings
  /\ base = pf
  /\ ex = [i \in OrderIds |-> Idle]

Reserve(k) ==
  /\ k \notin Active
  /\ \E e \in Offers : ex' = [ex EXCEPT ![k] = e]
  /\ \E isRecovery \in BOOLEAN : Admits(pf, ex', Active, k, isRecovery)
  /\ UNCHANGED <<pf, base>>

Settle(k) ==
  /\ k \in Active
  /\ ex' = [ex EXCEPT ![k] = Idle]
  /\ \E x \in 0..ex[k].qty : \E paid \in Affordable(ex[k], x) :
       pf' = ApplyFill(pf, ex[k].side, x, paid)
  /\ UNCHANGED base

Release(k) ==
  /\ k \in Active
  /\ ex' = [ex EXCEPT ![k] = Idle]
  /\ UNCHANGED <<pf, base>>

\* A replacement is admitted against the view that excludes the order it
\* replaces.
Replace(k, n) ==
  /\ k \in Active
  /\ n \notin Active
  /\ \E e \in Offers : ex' = [ex EXCEPT ![k] = Idle, ![n] = e]
  /\ \E isRecovery \in BOOLEAN : Admits(pf, ex', Active \ {k}, n, isRecovery)
  /\ UNCHANGED <<pf, base>>

\* An order executed as it is submitted: admitted and settled in one step.
Execute(k) ==
  /\ k \notin Active
  /\ UNCHANGED <<ex, base>>
  /\ \E e \in Offers :
       /\ \E x \in 1..e.qty : \E paid \in Affordable(e, x) :
            pf' = ApplyFill(pf, e.side, x, paid)
       /\ \E isRecovery \in BOOLEAN :
            Admits(pf, [ex EXCEPT ![k] = e], Active, k, isRecovery)

Next ==
  \/ \E k \in OrderIds : Reserve(k) \/ Settle(k) \/ Release(k) \/ Execute(k)
  \/ \E k, n \in OrderIds : Replace(k, n)

Spec == Init /\ [][Next]_vars

-----------------------------------------------------------------------------

TypeOK ==
  /\ pf \in Portfolio
  /\ base \in Portfolio
  /\ ex \in [OrderIds -> Exposure]

\* No combination of fills of the active orders leaves less than f.
EnvelopeAtLeast(f) == \A S \in SUBSET Active : ScenarioG(pf, ex, S) >= f

\* The margin no sequence of fills may go below: the configured floor, or
\* where the session started when it already started below it.
Floor == Lesser(GMin, G(base))

(***************************************************************************)
(* Whatever subset of the active orders fills, the settlement margin does  *)
(* not fall below the floor: the joint guarantee RiskView.admits is        *)
(* written for, across partial fills, releases and replacements.           *)
(***************************************************************************)
EnvelopeFloor == EnvelopeAtLeast(Floor)

(***************************************************************************)
(* A margin that every fill subset respects stays respected, as long as it *)
(* is not above the configured floor: recovery orders never worsen the     *)
(* aggregate envelope, and a repaired session never sinks again.           *)
(***************************************************************************)
EnvelopeNeverWorsens ==
  [][\A f \in Floor..GMin : EnvelopeAtLeast(f) => EnvelopeAtLeast(f)']_vars

(***************************************************************************)
(* Money committed (spent and reserved) stays within the spend cap, or     *)
(* within what was spent before the session started.                       *)
(***************************************************************************)
SpendWithinCap == pf.C + CostOf(ex, Active) <= Greater(SpendCap, base.C)

(***************************************************************************)
(* Shares held and reserved on each side stay within the position limit,   *)
(* or within what was held before the session started.                     *)
(***************************************************************************)
PositionWithinLimit ==
  /\ pf.U + SharesOn(ex, Active, "UP") <= Greater(PositionLimit, base.U)
  /\ pf.D + SharesOn(ex, Active, "DOWN") <= Greater(PositionLimit, base.D)
=============================================================================
