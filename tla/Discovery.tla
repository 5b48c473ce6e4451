------------------------------ MODULE Discovery ------------------------------
(***************************************************************************)
(* What realtime/discovery.py makes of the venue's two answers about one   *)
(* slot of the series: Gamma's entry and CLOB's market info, together a    *)
(* listing.                                                                *)
(***************************************************************************)
EXTENDS Integers

CONSTANT Length \* ROUND_SECONDS

ASSUME LengthAssumption == Length \in Nat \ {0}

Unknown == -1

\* Gamma has an entry for the slot, open or closed, and it has a conditionId;
\* when it says the round starts, counted from the slot, and ends, from its
\* start; the tokens CLOB and Gamma give the outcome labels, if they do; where
\* the tick and the order size come from; the rule it settles on; whether the
\* fee schedule has a rate.
Listing ==
  [listed : BOOLEAN, condition : BOOLEAN,
   starts : Nat \cup {Unknown}, ends : Nat \cup {Unknown},
   clob : UNION {[S -> {"a", "b"}] : S \in SUBSET {"UP", "DOWN", "other"}},
   gamma : UNION {[S -> {"a", "b"}] : S \in SUBSET {"UP", "DOWN", "other"}},
   sized : BOOLEAN, twap : BOOLEAN, window : Nat \cup {Unknown}, rate : BOOLEAN]

\* round_start_for, and the first slot whose full lead is yet to come.
SlotOf(t) == t - (t % Length)

FirstSlot(t, lead) ==
  CHOOSE s \in (SlotOf(t) + Length)..(SlotOf(t) + Length + lead + Length) :
    /\ s % Length = 0
    /\ s - t >= lead
    /\ \A u \in (SlotOf(t) + Length)..(s - 1) : u % Length = 0 => u - t < lead

\* _extract_round_window: the event's own times, or those of the slug.
WindowOf(l, slot) ==
  LET start == IF l.starts # Unknown THEN slot + l.starts ELSE slot
  IN [start |-> start, end |-> start + (IF l.ends # Unknown THEN l.ends ELSE Length)]

\* _map_tokens_to_sides: labels, never the order of the tokens, and both
\* sources must agree.
Mapped(l) ==
  /\ "other" \notin DOMAIN l.clob \cup DOMAIN l.gamma
  /\ ~(DOMAIN l.clob = {} /\ DOMAIN l.gamma = {})
  /\ DOMAIN l.clob # {} /\ DOMAIN l.gamma # {} => l.clob = l.gamma

\* fetch_gamma_market asks for open markets, then for closed ones.
Found(l) == l.listed /\ l.condition

\* build_metadata: the tick and the order size from CLOB, or else from Gamma.
Buildable(l) == Mapped(l) /\ l.sized

\* discover_round raises no MarketDiscoveryError.
Discoverable(l) == Found(l) /\ Buildable(l)

\* topic_for_basis: the reference series a rule settles on, if there is one.
Supported(l) == l.twap => l.window \in {30, 60}

\* Refused by emit_market_config, which raises.
Refused(l) == ~l.rate \/ l.window = Unknown

=============================================================================
