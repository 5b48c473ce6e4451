----------------------------- MODULE LiveCapture -----------------------------
(***************************************************************************)
(* A capture of several rounds: the main loop of realtime/service.py, the  *)
(* round life cycle of realtime/lifecycle.py, and the hooks by which       *)
(* shadow/live.py rides on them to fire decisions and settle on paper.     *)
(*                                                                         *)
(* The main thread discovers the rounds; then, in every pass, it reads the *)
(* clock once, ticks every round, and runs the tick hook.  The clock goes  *)
(* on in between and may jump (a slow request, a suspended process), the   *)
(* venue publishes outcomes when it likes, and Ctrl-C may strike anywhere, *)
(* also halfway through _finalize.                                         *)
(***************************************************************************)
EXTENDS Totals, Discovery

CONSTANTS
  NRounds,   \* n_rounds: slots to capture, numbered in their order
  PreLead,   \* pre_round_lead_s
  PostTail,  \* post_round_tail_s
  Grid,      \* decision offsets into a round
  Begins,    \* when the capture may be started
  Listings,  \* what the venue may list for the slots
  MaxTime    \* bound: the clock stops here, after every round's tail

Rounds == 1..NRounds

ASSUME CaptureAssumption ==
  /\ NRounds \in Nat \ {0}
  /\ {PreLead, PostTail, MaxTime} \subseteq Nat
  /\ Grid \subseteq 0..(Length - 1)
  /\ Begins \subseteq Nat
  /\ Listings \subseteq [Rounds -> Listing]
  /\ \A b \in Begins, L \in Listings, r \in Rounds :
       LET window == WindowOf(L[r], FirstSlot(b, PreLead) + (r - 1) * Length)
       IN /\ \A t \in Grid : window.start + t <= window.end
          /\ window.end + PostTail <= MaxTime

VARIABLES
  listing,   \* slot -> what the venue lists for it
  first,     \* the first slot of the capture
  captures,  \* the rounds discovered
  now,       \* the wall clock
  published, \* rounds whose outcome the venue has published
  loop,      \* where the main thread is
  tick,      \* the time this pass works with
  todo,      \* rounds this pass, or this handler, has yet to visit
  current,   \* the round in _finalize or _apply_resolution
  state,     \* round -> lifecycle.state
  reported,  \* rounds whose capture.reported_outcome is known
  roundRow,  \* round -> state in the store's rounds table
  resultRow, \* round -> its row in round_results
  interrupted,
  hook,      \* on_tick is not None
  shadows,   \* rounds that have a LiveRoundShadow
  fired,     \* round -> decision offsets fired
  stuck,     \* rounds with a delayed taker whose resolution raises
  journal    \* round -> outcome known to settlement and final_resolution

StartTs(r) == WindowOf(listing[r], first + (r - 1) * Length).start

EndTs(r) == WindowOf(listing[r], first + (r - 1) * Length).end

found == <<listing, first, captures>>

captured == <<state, reported, roundRow, resultRow>>

shadowed == <<hook, shadows, fired, stuck, journal>>

control == <<loop, tick, todo, current>>

vars == <<found, now, published, control, captured, interrupted, shadowed>>

RoundStates ==
  {"DISCOVERED", "PRE_ROUND", "ACTIVE", "ENDED", "RESOLVED", "FINALIZED"}

\* Result rows and journal records: absent, written without an outcome,
\* written with one.
Verdicts == {"none", "unknown", "known"}

Verdict(r) == IF r \in reported THEN "known" ELSE "unknown"

Finished(r) == state[r] = "FINALIZED"

Unfinished == {r \in captures : ~Finished(r)}

Init ==
  /\ listing \in Listings
  /\ first = 0 /\ captures = {}
  /\ now \in Begins
  /\ published = {}
  /\ loop = "discover" /\ tick = now /\ todo = {} /\ current = 1
  /\ state = [r \in Rounds |-> "DISCOVERED"]
  /\ reported = {}
  /\ roundRow = [r \in Rounds |-> "none"]
  /\ resultRow = [r \in Rounds |-> "none"]
  /\ interrupted = FALSE
  /\ hook = TRUE
  /\ shadows = {}
  /\ fired = [r \in Rounds |-> {}]
  /\ stuck = {}
  /\ journal = [r \in Rounds |-> [settlement |-> "none", final |-> "none"]]

-----------------------------------------------------------------------------
(***************************************************************************)
(* The world.                                                              *)
(***************************************************************************)

Clock ==
  /\ now' \in (now + 1)..MaxTime
  /\ UNCHANGED <<found, published, control, captured, interrupted, shadowed>>

Publish(r) ==
  /\ r \in captures \ published
  /\ now >= EndTs(r)
  /\ published' = published \cup {r}
  /\ UNCHANGED <<found, now, control, captured, interrupted, shadowed>>

-----------------------------------------------------------------------------
(***************************************************************************)
(* discover.                                                               *)
(***************************************************************************)

\* Each slot in turn, from the first whose lead can still be covered at the
\* time the capture was started; one that cannot be captured is left out.
Discover ==
  /\ loop = "discover"
  /\ first' = FirstSlot(tick, PreLead)
  /\ captures' = {r \in Rounds : Discoverable(listing[r])}
  /\ roundRow' = [r \in Rounds |-> IF r \in captures' THEN "DISCOVERED" ELSE "none"]
  /\ loop' = IF captures' = {} THEN "stopped" ELSE "top"
  /\ UNCHANGED <<listing, now, published, tick, todo, current, state, reported,
                 resultRow, interrupted, shadowed>>

\* A request that fails is no MarketDiscoveryError, and Ctrl-C is not caught
\* here: run() ends with either, after the rows of the rounds before.
DiscoverRaises(r) ==
  /\ loop = "discover"
  /\ first' = FirstSlot(tick, PreLead)
  /\ captures' = {q \in 1..(r - 1) : Discoverable(listing[q])}
  /\ roundRow' = [q \in Rounds |-> IF q \in captures' THEN "DISCOVERED" ELSE "none"]
  /\ loop' = "failed"
  /\ UNCHANGED <<listing, now, published, tick, todo, current, state, reported,
                 resultRow, interrupted, shadowed>>

-----------------------------------------------------------------------------
(***************************************************************************)
(* One pass of run().                                                      *)
(***************************************************************************)

BeginPass ==
  /\ loop = "top"
  /\ Unfinished # {}
  /\ loop' = "rounds"
  /\ tick' = now
  /\ todo' = captures
  /\ UNCHANGED <<found, now, published, current, captured, interrupted, shadowed>>

Visiting(r) == loop = "rounds" /\ r \in todo /\ r = Least(todo)

TickFinished(r) ==
  /\ Visiting(r)
  /\ Finished(r)
  /\ todo' = todo \ {r}
  /\ UNCHANGED <<found, now, published, loop, tick, current, captured,
                 interrupted, shadowed>>

ByClock == {"DISCOVERED", "PRE_ROUND", "ACTIVE"}

TargetState(r) ==
  IF tick < StartTs(r) - PreLead THEN "DISCOVERED"
  ELSE IF tick < StartTs(r) THEN "PRE_ROUND"
  ELSE IF tick < EndTs(r) THEN "ACTIVE" ELSE "ENDED"

\* advance: one legal transition after the other up to what the clock implies.
TickByClock(r) ==
  /\ Visiting(r)
  /\ state[r] \in ByClock
  /\ state' = [state EXCEPT ![r] = TargetState(r)]
  /\ roundRow' = [roundRow EXCEPT ![r] = state'[r]]
  /\ todo' = todo \ {r}
  /\ UNCHANGED <<found, now, published, loop, tick, current, reported,
                 resultRow, interrupted, shadowed>>

\* An answer of Gamma or CLOB, or a market_resolved event, names an outcome
\* once the venue has published one: not while the market is open, not when
\* it has no single winner.
NamesOutcome(r) == r \in published

\* A poll for the outcome may fail, or find nothing yet.
Polled(r) == {reported} \cup (IF NamesOutcome(r) THEN {reported \cup {r}} ELSE {})

\* Mutant: there is no tail window.
NoTail(r) == tick >= EndTs(r)

TailOver(r) == tick >= EndTs(r) + PostTail

TickInTail(r) ==
  /\ Visiting(r)
  /\ state[r] = "ENDED"
  /\ ~TailOver(r)
  /\ reported' \in Polled(r)
  /\ todo' = todo \ {r}
  /\ UNCHANGED <<found, now, published, loop, tick, current, state, roundRow,
                 resultRow, interrupted, shadowed>>

\* With an outcome the round is RESOLVED and finalized by the next pass,
\* without one it is finalized at once.
TickAfterTail(r) ==
  /\ Visiting(r)
  /\ state[r] = "ENDED"
  /\ TailOver(r)
  /\ reported' \in Polled(r)
  /\ \/ /\ r \in reported'
        /\ state' = [state EXCEPT ![r] = "RESOLVED"]
        /\ todo' = todo \ {r}
        /\ UNCHANGED <<loop, current>>
     \/ /\ r \notin reported'
        /\ loop' = "gather"
        /\ current' = r
        /\ UNCHANGED <<state, todo>>
  /\ UNCHANGED <<found, now, published, tick, roundRow, resultRow, interrupted,
                 shadowed>>

\* Mutant: a resolved round is left to the sweep.
TickResolvedLater(r) ==
  /\ Visiting(r)
  /\ state[r] = "RESOLVED"
  /\ todo' = todo \ {r}
  /\ UNCHANGED <<found, now, published, loop, tick, current, captured,
                 interrupted, shadowed>>

TickResolved(r) ==
  /\ Visiting(r)
  /\ state[r] = "RESOLVED"
  /\ loop' = "gather"
  /\ current' = r
  /\ UNCHANGED <<found, now, published, tick, todo, captured, interrupted, shadowed>>

-----------------------------------------------------------------------------
(***************************************************************************)
(* _finalize, in the order of its writes.                                  *)
(***************************************************************************)

\* Mutant: the last poll replaces what was known.
GatherAfresh ==
  /\ loop = "gather"
  /\ \/ reported' = reported \ {current}
     \/ NamesOutcome(current) /\ reported' = reported \cup {current}
  /\ loop' = "result"
  /\ UNCHANGED <<found, now, published, tick, todo, current, state, roundRow,
                 resultRow, interrupted, shadowed>>

\* Final metadata, reconstruction of the label, flush of the recorder.
Gather ==
  /\ loop = "gather"
  /\ reported' \in Polled(current)
  /\ loop' = "result"
  /\ UNCHANGED <<found, now, published, tick, todo, current, state, roundRow,
                 resultRow, interrupted, shadowed>>

WriteResult ==
  /\ loop = "result"
  /\ resultRow' = [resultRow EXCEPT ![current] = Verdict(current)]
  /\ loop' = "transition"
  /\ UNCHANGED <<found, now, published, tick, todo, current, state, reported,
                 roundRow, interrupted, shadowed>>

Finalized ==
  /\ loop = "transition"
  /\ state' = [state EXCEPT ![current] = "FINALIZED"]
  /\ loop' = "row"
  /\ UNCHANGED <<found, now, published, tick, todo, current, reported, roundRow,
                 resultRow, interrupted, shadowed>>

WriteRound ==
  /\ loop = "row"
  /\ roundRow' = [roundRow EXCEPT ![current] = "FINALIZED"]
  /\ loop' = "finalized"
  /\ UNCHANGED <<found, now, published, tick, todo, current, state, reported,
                 resultRow, interrupted, shadowed>>

\* on_round_finalized: with a delayed taker in the queue the drain raises
\* before anything is written, and the service swallows it.
NotifyFinalized ==
  /\ loop = "finalized"
  /\ journal' = IF current \in shadows \ stuck
                THEN [journal EXCEPT ![current].settlement = Verdict(current)]
                ELSE journal
  /\ loop' = IF interrupted THEN "force" ELSE "rounds"
  /\ todo' = todo \ {current}
  /\ UNCHANGED <<found, now, published, tick, current, captured, interrupted,
                 hook, shadows, fired, stuck>>

-----------------------------------------------------------------------------
(***************************************************************************)
(* The tick hook: a shadow for every round beyond DISCOVERED, then every   *)
(* due and unfired decision of every shadow that is not settled.           *)
(***************************************************************************)

PassDone == loop = "rounds" /\ todo = {}

Known == {r \in captures : state[r] # "DISCOVERED"}

\* ensure_round passes over a rule it does not support, before it asks for
\* the parameters emit_market_config refuses to do without.
Misfits == {r \in Known : Supported(listing[r]) /\ Refused(listing[r])}

Tradable(S) == {r \in S : Supported(listing[r]) /\ ~Refused(listing[r])}

\* Mutant: a point that is more than one unit late is given up.
DuePunctual(r) == {t \in Grid : StartTs(r) + t \in (tick - 1)..tick}

\* Mutant: every unit of time is a decision.
DueEver(r) == {t \in 0..Length : StartTs(r) + t <= tick}

Due(r) == {t \in Grid : StartTs(r) + t <= tick}

Settled(r) == journal[r].settlement # "none"

\* A decision that fails counts as fired as well.
FireDue ==
  fired' = [r \in Rounds |-> IF r \in shadows' /\ ~Settled(r)
                             THEN fired[r] \cup Due(r) ELSE fired[r]]

TickHook ==
  /\ PassDone
  /\ hook
  /\ Misfits = {}
  /\ shadows' = shadows \cup Tradable(Known)
  /\ FireDue
  /\ \E S \in SUBSET {r \in Rounds : fired'[r] # fired[r]} :
       stuck' = stuck \cup S
  /\ loop' = "top"
  /\ UNCHANGED <<found, now, published, tick, todo, current, captured, interrupted,
                 hook, journal>>

\* ensure_round raises on the first misfit: the service drops the hook.
TickHookRaises ==
  /\ PassDone
  /\ hook
  /\ Misfits # {}
  /\ shadows' = shadows \cup Tradable({r \in Known : r < Least(Misfits)})
  /\ hook' = FALSE
  /\ loop' = "top"
  /\ UNCHANGED <<found, now, published, tick, todo, current, captured, interrupted,
                 fired, stuck, journal>>

TickHookGone ==
  /\ PassDone
  /\ ~hook
  /\ loop' = "top"
  /\ UNCHANGED <<found, now, published, tick, todo, current, captured, interrupted,
                 shadowed>>

-----------------------------------------------------------------------------
(***************************************************************************)
(* Ctrl-C, once.  Before the sweep every unfinished round is finalized     *)
(* from where it is; during the sweep the capture stops.                   *)
(***************************************************************************)

Interrupt ==
  /\ ~interrupted
  /\ interrupted' = TRUE
  /\ loop \notin {"discover", "failed", "stopped"}
  /\ tick' = now
  /\ IF loop \in {"sweep", "apply", "resolved"}
     THEN loop' = "stopped" /\ UNCHANGED todo
     ELSE loop' = "force" /\ todo' = Unfinished
  /\ UNCHANGED <<found, now, published, current, captured, shadowed>>

\* Mutant: the handler assigns FINALIZED and leaves it at that.
ForceAssigned(r) ==
  /\ loop = "force"
  /\ r \in todo
  /\ r = Least(todo)
  /\ state' = [state EXCEPT ![r] = "FINALIZED"]
  /\ roundRow' = [roundRow EXCEPT ![r] = "FINALIZED"]
  /\ todo' = todo \ {r}
  /\ UNCHANGED <<found, now, published, loop, tick, current, reported, resultRow,
                 interrupted, shadowed>>

\* _force_finalize walks the transitions to ENDED and finalizes.
ForceFinalize(r) ==
  /\ loop = "force"
  /\ r \in todo
  /\ r = Least(todo)
  /\ state' = [state EXCEPT ![r] = IF @ \in ByClock THEN "ENDED" ELSE @]
  /\ loop' = "gather"
  /\ current' = r
  /\ UNCHANGED <<found, now, published, tick, todo, reported, roundRow, resultRow,
                 interrupted, shadowed>>

-----------------------------------------------------------------------------
(***************************************************************************)
(* resolve_pending: rounds finalized without an outcome are asked for      *)
(* again, until all have one or the deadline passes.                       *)
(***************************************************************************)

BeginSweep ==
  /\ \/ loop = "top" /\ Unfinished = {}
     \/ loop = "force" /\ todo = {}
  /\ loop' = "sweep"
  /\ todo' = captures \ reported
  /\ UNCHANGED <<found, now, published, tick, current, captured, interrupted,
                 shadowed>>

Fetch(r) ==
  /\ loop = "sweep"
  /\ r \in todo /\ NamesOutcome(r)
  /\ reported' = reported \cup {r}
  /\ current' = r
  /\ loop' = "apply"
  /\ UNCHANGED <<found, now, published, tick, todo, state, roundRow, resultRow,
                 interrupted, shadowed>>

ApplyResolution ==
  /\ loop = "apply"
  /\ resultRow' = [resultRow EXCEPT ![current] = Verdict(current)]
  /\ loop' = "resolved"
  /\ UNCHANGED <<found, now, published, tick, todo, current, state, reported,
                 roundRow, interrupted, shadowed>>

\* Mutant: the shadow is not told.
NotifyNobody ==
  /\ loop = "resolved"
  /\ todo' = todo \ {current}
  /\ loop' = "sweep"
  /\ UNCHANGED <<found, now, published, tick, current, captured, interrupted,
                 shadowed>>

NotifyResolved ==
  /\ loop = "resolved"
  /\ journal' = IF current \in shadows
                THEN [journal EXCEPT ![current].final = Verdict(current)]
                ELSE journal
  /\ todo' = todo \ {current}
  /\ loop' = "sweep"
  /\ UNCHANGED <<found, now, published, tick, current, captured, interrupted,
                 hook, shadows, fired, stuck>>

\* All resolved, or the deadline passed.
Shutdown ==
  /\ loop = "sweep"
  /\ loop' = "stopped"
  /\ UNCHANGED <<found, now, published, tick, todo, current, captured, interrupted,
                 shadowed>>

-----------------------------------------------------------------------------

TickRound(r) ==
  \/ TickFinished(r) \/ TickByClock(r) \/ TickInTail(r) \/ TickAfterTail(r)
  \/ TickResolved(r)

MainStep ==
  \/ Discover
  \/ BeginPass
  \/ \E r \in Rounds :
       DiscoverRaises(r) \/ TickRound(r) \/ ForceFinalize(r) \/ Fetch(r)
  \/ Gather \/ WriteResult \/ Finalized \/ WriteRound \/ NotifyFinalized
  \/ TickHook \/ TickHookRaises \/ TickHookGone
  \/ BeginSweep \/ ApplyResolution \/ NotifyResolved \/ Shutdown

Next ==
  \/ MainStep
  \/ Clock
  \/ \E r \in Rounds : Publish(r)
  \/ Interrupt

\* The main thread runs, time passes, and the sweep has a deadline.
Fairness == WF_vars(MainStep) /\ WF_vars(Clock) /\ WF_vars(Shutdown)

Spec == Init /\ [][Next]_vars /\ Fairness

-----------------------------------------------------------------------------

TypeOK ==
  /\ listing \in Listings
  /\ captures \subseteq {r \in Rounds : Discoverable(listing[r])}
  /\ now \in 0..MaxTime /\ tick \in 0..now
  /\ {published, reported, shadows, stuck, todo} \subseteq SUBSET Rounds
  /\ current \in Rounds
  /\ loop \in {"discover", "failed", "top", "rounds", "gather", "result",
               "transition", "row", "finalized", "force", "sweep", "apply",
               "resolved", "stopped"}
  /\ state \in [Rounds -> RoundStates]
  /\ roundRow \in [Rounds -> RoundStates \cup {"none"}]
  /\ resultRow \in [Rounds -> Verdicts]
  /\ interrupted \in BOOLEAN /\ hook \in BOOLEAN
  /\ fired \in [Rounds -> SUBSET Grid]
  /\ journal \in [Rounds -> [settlement : Verdicts, final : Verdicts]]

(***************************************************************************)
(* A round settles on paper only after every decision of its grid fired,   *)
(* however late and whatever the clock jumped over: the pass that sees it  *)
(* end still runs the hook, and only a later pass finalizes it.            *)
(***************************************************************************)
SettledAfterItsGrid ==
  \A r \in Rounds : Settled(r) /\ hook /\ ~interrupted => fired[r] = Grid

(***************************************************************************)
(* A round the rounds table calls FINALIZED has its result row, wherever   *)
(* the capture was interrupted, and the capture does not end, interrupted  *)
(* or not, with a round that has none.                                     *)
(***************************************************************************)
FinalizedHasResult ==
  \A r \in captures :
    (roundRow[r] = "FINALIZED" \/ loop \in {"sweep", "stopped"}) =>
      resultRow[r] # "none"

(***************************************************************************)
(* Without an interrupt, no round is finalized before its tail window is   *)
(* over: the closing observations and the settling book are in the log.    *)
(***************************************************************************)
FinalizedAfterTail ==
  \A r \in Rounds : Finished(r) /\ ~interrupted => tick >= EndTs(r) + PostTail

(***************************************************************************)
(* A capture that ran to its end has written every outcome it learned to   *)
(* the store, and every settled shadow has it in its journal, either with  *)
(* the settlement or as a later resolution, and never as both.             *)
(***************************************************************************)
OutcomesArePublished ==
  loop = "stopped" /\ ~interrupted =>
    \A r \in captures :
      /\ resultRow[r] = Verdict(r)
      /\ Settled(r) =>
           (r \in reported <=> \/ journal[r].settlement = "known"
                               \/ journal[r].final = "known")
      /\ ~(journal[r].settlement = "known" /\ journal[r].final = "known")

(***************************************************************************)
(* An outcome once in the store is never overwritten by a row without it,  *)
(* not even by the second finalization an interrupt causes.                *)
(***************************************************************************)
OutcomesAreKept ==
  [][\A r \in Rounds : resultRow[r] = "known" => resultRow'[r] = "known"]_vars

(***************************************************************************)
(* Every capture that gets past its discovery finalizes all its rounds and *)
(* stops.                                                                  *)
(***************************************************************************)
CaptureEnds ==
  <>[](loop = "failed" \/ (loop = "stopped" /\ Unfinished = {}))

(***************************************************************************)
(* live.py: a grid point that comes due while the process is busy "still   *)
(* fires (late, and recorded as such) rather than being skipped".  A       *)
(* market without a fee rate takes the tick hook away from all the others. *)
(***************************************************************************)
NoPointIsSkipped ==
  \A r \in Rounds : Settled(r) /\ ~interrupted => fired[r] = Grid
=============================================================================
