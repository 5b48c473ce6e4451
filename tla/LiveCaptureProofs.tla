------------------------- MODULE LiveCaptureProofs -------------------------
(***************************************************************************)
(* What the main loop writes, in which order, and what an interrupt of it  *)
(* cannot undo.                                                            *)
(***************************************************************************)
EXTENDS LiveCapture, TotalsProofs

\* A number less its remainder is a multiple.
LEMMA Remainder ==
  ASSUME NEW n \in Nat \ {0}, NEW x \in Nat
  PROVE  /\ x % n \in 0..(n - 1)
         /\ x - (x % n) \in Nat
         /\ (x - (x % n)) % n = 0
<1>1. /\ x = n * (x \div n) + (x % n)
      /\ x \div n \in Int /\ x % n \in 0..(n - 1)
  OBVIOUS
<1>2. ASSUME NEW q \in Nat PROVE (n * q) % n = 0
  <2> DEFINE k == (n * q) \div n
             m == (n * q) % n
  <2>1. n * q = n * k + m /\ k \in Int /\ m \in 0..(n - 1)
    OBVIOUS
  <2> HIDE DEF k, m
  <2>2. n * (q - k) = m
    BY <2>1
  <2>3. CASE q - k >= 1
    BY <2>1, <2>2, <2>3
  <2>4. CASE q - k <= -1
    BY <2>1, <2>2, <2>4
  <2>5. CASE q - k = 0
    <3>1. m = 0 BY <2>2, <2>5
    <3> QED BY <3>1 DEF m
  <2> QED BY <2>1, <2>3, <2>4, <2>5
<1>3. x \div n \in Nat
  <2> DEFINE k == x \div n
  <2>1. k \in Int /\ x = n * k + (x % n) /\ x % n \in 0..(n - 1)
    BY <1>1
  <2> HIDE DEF k
  <2>2. ASSUME k <= -1 PROVE FALSE
    <3>1. n * k <= -n
      BY <2>1, <2>2
    <3> QED BY <2>1, <3>1
  <2> QED BY <2>1, <2>2 DEF k
<1>4. x - (x % n) = n * (x \div n)
  BY <1>1
<1> QED
  <2>1. (x - (x % n)) % n = 0
    BY <1>2, <1>3, <1>4
  <2>2. x - (x % n) \in Nat
    BY <1>3, <1>4
  <2> QED BY <1>1, <2>1, <2>2

\* discover's while loop ends at a boundary of the series, after the time it
\* is given.
LEMMA FirstSlotLater ==
  ASSUME NEW t \in Nat, NEW lead \in Nat
  PROVE  /\ FirstSlot(t, lead) \in Nat
         /\ FirstSlot(t, lead) >= t + lead
         /\ FirstSlot(t, lead) >= t
<1> USE LengthAssumption
<1> DEFINE b == SlotOf(t) + Length
           I == b..(b + lead + Length)
           Apt(s) == s % Length = 0 /\ s - t >= lead
           V == {s \in I : Apt(s)}
           x == b + lead + Length
           w == x - (x % Length)
<1>1. b \in Nat /\ b > t
  <2>1. t % Length \in 0..(Length - 1) /\ SlotOf(t) \in Nat
    BY Remainder DEF SlotOf
  <2> QED BY <2>1 DEF SlotOf
<1> HIDE DEF b
<1>2. w \in V
  <2>1. /\ x \in Nat /\ x % Length \in 0..(Length - 1)
        /\ w \in Nat /\ w % Length = 0
    <3>1. x \in Nat
      BY <1>1
    <3> HIDE DEF x
    <3> QED BY <3>1, Remainder
  <2>2. w \in I /\ w - t >= lead
    BY <1>1, <2>1
  <2> QED BY <2>1, <2>2
<1>3. Least(V) \in V /\ \A v \in V : Least(V) <= v
  <2>1. V \subseteq Int /\ V # {} /\ b \in Int /\ \A v \in V : b <= v
    BY <1>1, <1>2
  <2> HIDE DEF V
  <2> QED BY <2>1, LeastInt
<1>4. \A u \in b..(Least(V) - 1) : u % Length = 0 => u - t < lead
  <2> DEFINE l == Least(V)
  <2>1. l \in I /\ \A v \in V : l <= v
    BY <1>3
  <2> HIDE DEF l
  <2> SUFFICES ASSUME NEW u \in b..(l - 1), u % Length = 0, ~(u - t < lead)
               PROVE  FALSE
    BY DEF l
  <2>2. u \in I /\ ~(l <= u)
    BY <1>1, <2>1
  <2>3. u \in V
    BY <1>1, <2>2
  <2> QED BY <2>1, <2>2, <2>3
<1> DEFINE Wanted(s) == /\ s % Length = 0
                        /\ s - t >= lead
                        /\ \A u \in b..(s - 1) : u % Length = 0 => u - t < lead
<1>5. Least(V) \in I /\ Wanted(Least(V))
  BY <1>3, <1>4
<1>6. FirstSlot(t, lead) = CHOOSE s \in I : Wanted(s)
  BY DEF FirstSlot, b
<1>7. FirstSlot(t, lead) \in I /\ FirstSlot(t, lead) - t >= lead
  <2>1. \E s \in I : Wanted(s)
    BY <1>5
  <2> HIDE DEF I, Wanted
  <2>2. (CHOOSE s \in I : Wanted(s)) \in I /\ Wanted(CHOOSE s \in I : Wanted(s))
    BY <2>1
  <2> QED BY <1>6, <2>2 DEF Wanted
<1> QED
  <2> DEFINE f == FirstSlot(t, lead)
  <2>1. f \in I /\ f - t >= lead
    BY <1>7
  <2> HIDE DEF f
  <2>2. f \in Nat /\ f >= t + lead /\ f >= t
    BY <1>1, <2>1
  <2> QED BY <2>2 DEF f

\* The constants are numbers, and there is a first round.
LEMMA Constants ==
  /\ PreLead \in Nat /\ PostTail \in Nat /\ MaxTime \in Nat /\ Grid \subseteq Nat
  /\ Length \in Nat /\ 1 \in Rounds /\ Rounds \subseteq Nat
<1>1. PreLead \in Nat /\ PostTail \in Nat /\ MaxTime \in Nat
  BY CaptureAssumption
<1>2. Length \in Nat /\ 1 \in Rounds /\ Rounds \subseteq Nat
  BY LengthAssumption, CaptureAssumption DEF Rounds
<1>3. Grid \subseteq Nat
  <2>1. Grid \subseteq 0..(Length - 1)
    BY CaptureAssumption
  <2> QED BY <2>1, LengthAssumption
<1> QED
  BY <1>1, <1>2, <1>3

\* Wherever the capture starts, the windows of its rounds come later, every
\* decision of the grid falls into its window, and the bound on the clock
\* leaves room for every tail.
LEMMA WindowsFit ==
  ASSUME NEW b \in Begins, NEW L \in Listings, NEW r \in Rounds,
         NEW w, w = WindowOf(L[r], FirstSlot(b, PreLead) + (r - 1) * Length)
  PROVE  /\ w.start \in Nat /\ w.end \in Nat
         /\ b <= w.start /\ w.start <= w.end /\ w.end + PostTail <= MaxTime
         /\ \A t \in Grid : w.start + t <= w.end
<1> DEFINE slot == FirstSlot(b, PreLead) + (r - 1) * Length
           l == L[r]
           s == IF l.starts # Unknown THEN slot + l.starts ELSE slot
           d == IF l.ends # Unknown THEN l.ends ELSE Length
<1>1. /\ \A t \in Grid : w.start + t <= w.end
      /\ w.end + PostTail <= MaxTime
  <2> DEFINE W(c, M, q) == WindowOf(M[q], FirstSlot(c, PreLead) + (q - 1) * Length)
  <2>1. \A c \in Begins, M \in Listings, q \in Rounds :
          /\ \A t \in Grid : W(c, M, q).start + t <= W(c, M, q).end
          /\ W(c, M, q).end + PostTail <= MaxTime
    BY CaptureAssumption
  <2>2. w = W(b, L, r)
    OBVIOUS
  <2> HIDE DEF W
  <2> QED BY <2>1, <2>2
<1>2. slot \in Nat /\ b <= slot /\ b \in Nat
  <2>1. b \in Nat /\ PreLead \in Nat
    BY CaptureAssumption
  <2>2. FirstSlot(b, PreLead) \in Nat /\ FirstSlot(b, PreLead) >= b
    BY <2>1, FirstSlotLater
  <2>3. (r - 1) * Length \in Nat
    <3>1. r - 1 \in Nat /\ Length \in Nat
      BY LengthAssumption, CaptureAssumption DEF Rounds
    <3> QED BY <3>1
  <2> QED BY <2>1, <2>2, <2>3
<1>3. l.starts \in Nat \cup {Unknown} /\ l.ends \in Nat \cup {Unknown}
  <2>1. l \in Listing
    BY CaptureAssumption
  <2> QED BY <2>1 DEF Listing
<1>4. w.start = s /\ w.end = s + d
  BY DEF WindowOf
<1> HIDE DEF slot, l
<1>5. s \in Nat /\ slot <= s /\ d \in Nat
  <2>1. s \in Nat /\ slot <= s
    <3>1. CASE l.starts = Unknown
      BY <3>1, <1>2
    <3>2. CASE l.starts \in Nat
      BY <3>2, <1>2 DEF Unknown
    <3> QED BY <1>3, <3>1, <3>2
  <2>3. d \in Nat
    BY <1>3, Constants DEF Unknown
  <2> QED BY <2>1, <2>3
<1> HIDE DEF s, d
<1>6. s + d \in Nat /\ s <= s + d /\ b <= s
  BY <1>2, <1>5
<1> QED
  BY <1>1, <1>4, <1>5, <1>6

-----------------------------------------------------------------------------
(***************************************************************************)
(* The inductive invariant.                                                *)
(***************************************************************************)

\* Where the main thread is in the middle of _finalize.
Finalizing == {"gather", "result", "transition", "row", "finalized"}

\* Where it is in resolve_pending.
Sweeping == {"sweep", "apply", "resolved"}

Ended == {"ENDED", "RESOLVED", "FINALIZED"}

\* _finalize is busy with this round.
Handled(r) == loop \in Finalizing /\ r = current

\* The pass has been past this round, and its hook has not run yet.
Visited(r) == loop \in {"rounds"} \cup Finalizing /\ r \notin todo

\* Before discovery nothing happened; after it the first slot is that of the
\* time the capture was started at.
DiscoveredOnce ==
  IF loop = "discover"
  THEN /\ tick \in Begins /\ captures = {} /\ ~interrupted /\ shadows = {}
       /\ \A r \in Rounds :
            /\ state[r] = "DISCOVERED" /\ roundRow[r] = "none"
            /\ resultRow[r] = "none" /\ ~Settled(r) /\ journal[r].final = "none"
  ELSE \E b \in Begins : first = FirstSlot(b, PreLead)

\* A row of FINALIZED, the state and the sweep come after the result row.
ResultFirst ==
  /\ \A r \in Rounds :
       state[r] = "FINALIZED" \/ roundRow[r] = "FINALIZED" => resultRow[r] # "none"
  /\ loop \in {"transition", "row", "finalized"} => resultRow[current] # "none"
  /\ loop \in {"row", "finalized"} => state[current] = "FINALIZED"
  /\ loop \in Sweeping \cup {"stopped"} => Unfinished = {}

\* Ctrl-C leaves every unfinished round to be finalized.
NoneForgotten ==
  /\ loop = "force" => interrupted
  /\ interrupted /\ loop \in {"force"} \cup Finalizing => Unfinished \subseteq todo
  /\ interrupted => loop \notin {"top", "rounds"}

\* The times a round ended and its tail was over.
InTime ==
  ~interrupted =>
    \A r \in Rounds :
      /\ state[r] \in Ended => tick >= EndTs(r)
      /\ state[r] \in {"RESOLVED", "FINALIZED"} \/ Handled(r) =>
           tick >= EndTs(r) + PostTail

\* A round with a shadow has fired its grid when it is to be finalized: in the
\* pass that saw it end the hook still ran.
GridFired ==
  hook /\ ~interrupted =>
    \A r \in shadows :
      state[r] \in Ended /\ ~(state[r] = "ENDED" /\ Visited(r)) =>
        fired[r] = Grid

\* Who is being finalized, and who has settled.
SettledLast ==
  /\ ~interrupted /\ loop \in Finalizing => current \in todo
  /\ ~interrupted /\ loop \in {"gather", "result", "transition"} =>
       state[current] \in {"ENDED", "RESOLVED"}
  /\ \A r \in Rounds : Settled(r) => r \in shadows /\ state[r] = "FINALIZED"

\* What a row and the journal say of an outcome, and what is known of it.
OutcomeKnown ==
  /\ \A r \in Rounds :
       "known" \in {resultRow[r], journal[r].settlement, journal[r].final} =>
         r \in reported
  /\ loop \in {"apply", "resolved"} => current \in reported

\* The row of a finalized round is up to date, but for the one the sweep is
\* resolving.
RowsCurrent ==
  ~interrupted =>
    \A r \in Rounds :
      /\ state[r] = "FINALIZED" \/ (loop = "transition" /\ r = current)
      /\ ~(loop = "apply" /\ r = current)
      => resultRow[r] = Verdict(r)

\* A settled shadow has heard of every outcome but that one, and hears of it
\* once.
JournalCurrent ==
  ~interrupted =>
    /\ \A r \in Rounds :
         /\ Settled(r) /\ r \in reported =>
              \/ journal[r].settlement = "known"
              \/ journal[r].final = "known"
              \/ loop \in {"apply", "resolved"} /\ r = current
         /\ ~(journal[r].settlement = "known" /\ journal[r].final = "known")
         /\ loop \notin Sweeping \cup {"stopped"} => journal[r].final = "none"
    /\ loop = "sweep" => todo \cap reported = {}
    /\ loop \in {"apply", "resolved"} =>
         /\ todo \cap reported \subseteq {current}
         /\ journal[current].settlement # "known"

CaptureInv ==
  /\ TypeOK /\ DiscoveredOnce /\ ResultFirst /\ NoneForgotten /\ InTime /\ GridFired
  /\ SettledLast /\ OutcomeKnown /\ RowsCurrent /\ JournalCurrent

-----------------------------------------------------------------------------

\* The windows of all rounds are known once discovery is over.
Timely ==
  \A r \in Rounds :
    /\ StartTs(r) \in Nat /\ EndTs(r) \in Nat /\ StartTs(r) <= EndTs(r)
    /\ EndTs(r) + PostTail <= MaxTime
    /\ \A t \in Grid : StartTs(r) + t <= EndTs(r)

LEMMA WindowsKnown ==
  ASSUME TypeOK, DiscoveredOnce, loop # "discover"
  PROVE  Timely
<1>1. PICK b \in Begins : first = FirstSlot(b, PreLead)
  BY DEF DiscoveredOnce
<1>2. listing \in Listings
  BY DEF TypeOK
<1> SUFFICES ASSUME NEW r \in Rounds
             PROVE  /\ StartTs(r) \in Nat /\ EndTs(r) \in Nat
                    /\ StartTs(r) <= EndTs(r)
                    /\ EndTs(r) + PostTail <= MaxTime
                    /\ \A t \in Grid : StartTs(r) + t <= EndTs(r)
  BY DEF Timely
<1> DEFINE w == WindowOf(listing[r], FirstSlot(b, PreLead) + (r - 1) * Length)
<1>3. /\ w.start \in Nat /\ w.end \in Nat
      /\ w.start <= w.end /\ w.end + PostTail <= MaxTime
      /\ \A t \in Grid : w.start + t <= w.end
  <2>1. w = WindowOf(listing[r], FirstSlot(b, PreLead) + (r - 1) * Length)
    OBVIOUS
  <2> HIDE DEF w
  <2> QED BY <1>2, <2>1, WindowsFit
<1>4. StartTs(r) = w.start /\ EndTs(r) = w.end
  BY <1>1 DEF StartTs, EndTs
<1> HIDE DEF w
<1> QED
  BY <1>3, <1>4

\* A capture starts early enough for its clock.
LEMMA BeginsInTime ==
  ASSUME NEW b \in Begins, NEW L \in Listings
  PROVE  b \in 0..MaxTime
<1> DEFINE w == WindowOf(L[1], FirstSlot(b, PreLead) + (1 - 1) * Length)
<1>1. w = WindowOf(L[1], FirstSlot(b, PreLead) + (1 - 1) * Length) /\ 1 \in Rounds
  BY Constants
<1> HIDE DEF w
<1>2. w.start \in Nat /\ w.end \in Nat /\ b <= w.start /\ w.start <= w.end
      /\ w.end + PostTail <= MaxTime
  BY <1>1, WindowsFit
<1>3. b \in Nat
  BY CaptureAssumption
<1> QED
  BY <1>2, <1>3, Constants

LEMMA InitInv == Init => CaptureInv
<1> SUFFICES ASSUME Init PROVE CaptureInv
  OBVIOUS
<1> USE DEF Init
<1>1. TypeOK
  <2>1. now \in 0..MaxTime /\ tick \in 0..now
    BY BeginsInTime
  <2> QED BY <2>1, Constants DEF TypeOK, RoundStates, Verdicts
<1>2. DiscoveredOnce
  BY DEF DiscoveredOnce, Settled
<1>3. ResultFirst /\ NoneForgotten
  BY DEF ResultFirst, NoneForgotten, Sweeping, Finalizing
<1>4. InTime /\ GridFired
  BY DEF InTime, GridFired, Ended, Handled, Finalizing
<1>5. SettledLast /\ OutcomeKnown
  BY DEF SettledLast, OutcomeKnown, Settled, Finalizing
<1>6. RowsCurrent /\ JournalCurrent
  BY DEF RowsCurrent, JournalCurrent, Settled, Sweeping
<1> QED
  BY <1>1, <1>2, <1>3, <1>4, <1>5, <1>6 DEF CaptureInv

-----------------------------------------------------------------------------

\* A poll learns at most of this round, and forgets none.
LEMMA PolledGrows ==
  ASSUME NEW r \in Rounds, NEW known \in Polled(r)
  PROVE  known \in {reported, reported \cup {r}}
BY DEF Polled

\* Every step keeps the types; the clock within its bound because the windows
\* are.
LEMMA TypeOKNext ==
  ASSUME CaptureInv, [Next]_vars
  PROVE  TypeOK'
<1>0. TypeOK /\ DiscoveredOnce
  BY DEF CaptureInv
<1> USE Constants
<1> USE DEF TypeOK, RoundStates, Verdicts, found, captured, shadowed, control
<1>1. CASE Discover
  BY <1>0, <1>1 DEF Discover
<1>2. ASSUME NEW r \in Rounds, DiscoverRaises(r) PROVE TypeOK'
  <2>1. 1..(r - 1) \subseteq Rounds
    <3>1. NRounds \in Nat
      BY CaptureAssumption
    <3> QED BY <3>1 DEF Rounds
  <2>2. /\ captures' \subseteq {q \in Rounds : Discoverable(listing'[q])}
        /\ roundRow' \in [Rounds -> RoundStates \cup {"none"}]
    BY <1>0, <1>2, <2>1 DEF DiscoverRaises
  <2> QED BY <1>0, <1>2, <2>2 DEF DiscoverRaises
<1>3. CASE BeginPass
  BY <1>0, <1>3 DEF BeginPass
<1>4. ASSUME NEW r \in Rounds, TickFinished(r) PROVE TypeOK'
  BY <1>0, <1>4 DEF TickFinished
<1>5. ASSUME NEW r \in Rounds, TickByClock(r) PROVE TypeOK'
  BY <1>0, <1>5 DEF TickByClock, Visiting, TargetState
<1>6. ASSUME NEW r \in Rounds, TickInTail(r) PROVE TypeOK'
  <2>1. reported' \subseteq Rounds
    BY <1>0, <1>6, PolledGrows DEF TickInTail
  <2> QED BY <1>0, <1>6, <2>1 DEF TickInTail
<1>7. ASSUME NEW r \in Rounds, TickAfterTail(r) PROVE TypeOK'
  <2>1. reported' \subseteq Rounds
    BY <1>0, <1>7, PolledGrows DEF TickAfterTail
  <2>2. /\ loop' = loop \/ loop' = "gather"
        /\ state' \in [Rounds -> RoundStates]
        /\ todo' \subseteq Rounds /\ current' \in Rounds
    BY <1>0, <1>7 DEF TickAfterTail
  <2> QED BY <1>0, <1>7, <2>1, <2>2 DEF TickAfterTail
<1>8. ASSUME NEW r \in Rounds, TickResolved(r) PROVE TypeOK'
  BY <1>0, <1>8 DEF TickResolved
<1>9. CASE Gather
  BY <1>0, <1>9 DEF Gather, Polled
<1>10. CASE WriteResult
  BY <1>0, <1>10 DEF WriteResult, Verdict
<1>11. CASE Finalized
  BY <1>0, <1>11 DEF Finalized
<1>12. CASE WriteRound
  BY <1>0, <1>12 DEF WriteRound
<1>13. CASE NotifyFinalized
  BY <1>0, <1>13 DEF NotifyFinalized, Verdict
<1>14. CASE TickHook
  BY <1>0, <1>14 DEF TickHook, FireDue, Due, Tradable, Known
<1>15. CASE TickHookRaises
  BY <1>0, <1>15 DEF TickHookRaises, Tradable, Known
<1>16. CASE TickHookGone
  BY <1>0, <1>16 DEF TickHookGone
<1>17. ASSUME NEW r \in Rounds, ForceFinalize(r) PROVE TypeOK'
  BY <1>0, <1>17 DEF ForceFinalize, ByClock
<1>18. CASE BeginSweep
  BY <1>0, <1>18 DEF BeginSweep
<1>19. ASSUME NEW r \in Rounds, Fetch(r) PROVE TypeOK'
  BY <1>0, <1>19 DEF Fetch
<1>20. CASE ApplyResolution
  BY <1>0, <1>20 DEF ApplyResolution, Verdict
<1>21. CASE NotifyResolved
  BY <1>0, <1>21 DEF NotifyResolved, Verdict
<1>22. CASE Shutdown
  BY <1>0, <1>22 DEF Shutdown
<1>23. CASE Clock
  BY <1>0, <1>23 DEF Clock
<1>24. ASSUME NEW r \in Rounds, Publish(r) PROVE TypeOK'
  BY <1>0, <1>24 DEF Publish
<1>25. CASE Interrupt
  <2>1. todo' \subseteq Rounds
    <3>1. Unfinished \subseteq Rounds
      BY <1>0 DEF Unfinished
    <3> QED BY <1>0, <1>25, <3>1 DEF Interrupt
  <2>2. loop' \in {"stopped", "force"}
    BY <1>25 DEF Interrupt
  <2> QED BY <1>0, <1>25, <2>1, <2>2 DEF Interrupt
<1>26. CASE UNCHANGED vars
  BY <1>0, <1>26 DEF vars
<1> QED
  BY <1>1, <1>2, <1>3, <1>4, <1>5, <1>6, <1>7, <1>8, <1>9, <1>10, <1>11,
     <1>12, <1>13, <1>14, <1>15, <1>16, <1>17, <1>18, <1>19, <1>20, <1>21,
     <1>22, <1>23, <1>24, <1>25, <1>26
  DEF Next, MainStep, TickRound

\* _finalize writes the result row, moves the state and then writes the round
\* row; Force and the ticks start it again from the result row.
LEMMA ResultFirstNext ==
  ASSUME CaptureInv, [Next]_vars
  PROVE  ResultFirst'
<1>0. TypeOK /\ DiscoveredOnce /\ ResultFirst /\ NoneForgotten
  BY DEF CaptureInv
<1> USE DEF TypeOK, ResultFirst, found, captured, shadowed, control, Sweeping,
            Unfinished, Finished
<1>1. CASE Discover
  BY <1>0, <1>1 DEF Discover, DiscoveredOnce
<1>2. ASSUME NEW r \in Rounds, DiscoverRaises(r) PROVE ResultFirst'
  BY <1>0, <1>2 DEF DiscoverRaises, DiscoveredOnce
<1>3. CASE BeginPass
  BY <1>0, <1>3 DEF BeginPass
<1>4. ASSUME NEW r \in Rounds, TickByClock(r) PROVE ResultFirst'
  BY <1>0, <1>4 DEF TickByClock, Visiting, TargetState, ByClock
<1>5. ASSUME NEW r \in Rounds, TickAfterTail(r) PROVE ResultFirst'
  BY <1>0, <1>5 DEF TickAfterTail, Visiting
<1>6. ASSUME NEW r \in Rounds, TickResolved(r) PROVE ResultFirst'
  BY <1>0, <1>6 DEF TickResolved
<1>7. CASE Gather
  BY <1>0, <1>7 DEF Gather
<1>8. CASE WriteResult
  BY <1>0, <1>8 DEF WriteResult, Verdict
<1>9. CASE Finalized
  BY <1>0, <1>9 DEF Finalized
<1>10. CASE WriteRound
  BY <1>0, <1>10 DEF WriteRound
<1>11. CASE NotifyFinalized
  BY <1>0, <1>11 DEF NotifyFinalized
<1>12. CASE TickHook
  BY <1>0, <1>12 DEF TickHook
<1>13. CASE TickHookRaises
  BY <1>0, <1>13 DEF TickHookRaises
<1>14. CASE TickHookGone
  BY <1>0, <1>14 DEF TickHookGone
<1>15. CASE Interrupt
  BY <1>0, <1>15 DEF Interrupt
<1>16. ASSUME NEW r \in Rounds, ForceFinalize(r) PROVE ResultFirst'
  BY <1>0, <1>16 DEF ForceFinalize
<1>17. CASE BeginSweep
  BY <1>0, <1>17 DEF BeginSweep, NoneForgotten
<1>18. ASSUME NEW r \in Rounds, Fetch(r) PROVE ResultFirst'
  BY <1>0, <1>18 DEF Fetch
<1>19. CASE ApplyResolution
  BY <1>0, <1>19 DEF ApplyResolution, Verdict
<1>20. CASE NotifyResolved
  BY <1>0, <1>20 DEF NotifyResolved
<1>21. CASE Shutdown
  BY <1>0, <1>21 DEF Shutdown
<1>22. CASE \/ UNCHANGED vars \/ Clock
            \/ \E r \in Rounds : TickFinished(r) \/ TickInTail(r) \/ Publish(r)
  BY <1>0, <1>22 DEF vars, TickFinished, TickInTail, Clock, Publish
<1> QED
  BY <1>1, <1>2, <1>3, <1>4, <1>5, <1>6, <1>7, <1>8, <1>9, <1>10, <1>11,
     <1>12, <1>13, <1>14, <1>15, <1>16, <1>17, <1>18, <1>19, <1>20, <1>21,
     <1>22
  DEF Next, MainStep, TickRound

\* The first slot is chosen once.
LEMMA DiscoveredOnceNext ==
  ASSUME CaptureInv, [Next]_vars
  PROVE  DiscoveredOnce'
<1>0. TypeOK /\ DiscoveredOnce
  BY DEF CaptureInv
<1> USE DEF DiscoveredOnce, found, captured, shadowed, control, Settled
<1>1. CASE Discover
  BY <1>0, <1>1 DEF Discover, TypeOK
<1>2. ASSUME NEW r \in Rounds, DiscoverRaises(r) PROVE DiscoveredOnce'
  BY <1>0, <1>2 DEF DiscoverRaises, TypeOK
<1>3. CASE BeginPass
  BY <1>0, <1>3 DEF BeginPass
<1>4. ASSUME NEW r \in Rounds, TickByClock(r) PROVE DiscoveredOnce'
  BY <1>0, <1>4 DEF TickByClock, Visiting
<1>5. ASSUME NEW r \in Rounds, TickAfterTail(r) PROVE DiscoveredOnce'
  BY <1>0, <1>5 DEF TickAfterTail, Visiting
<1>6. ASSUME NEW r \in Rounds, TickResolved(r) PROVE DiscoveredOnce'
  BY <1>0, <1>6 DEF TickResolved, Visiting
<1>7. CASE Gather
  BY <1>0, <1>7 DEF Gather
<1>8. CASE WriteResult
  BY <1>0, <1>8 DEF WriteResult
<1>9. CASE Finalized
  BY <1>0, <1>9 DEF Finalized
<1>10. CASE WriteRound
  BY <1>0, <1>10 DEF WriteRound
<1>11. CASE NotifyFinalized
  BY <1>0, <1>11 DEF NotifyFinalized
<1>12. CASE TickHook
  BY <1>0, <1>12 DEF TickHook, PassDone
<1>13. CASE TickHookRaises
  BY <1>0, <1>13 DEF TickHookRaises, PassDone
<1>14. CASE TickHookGone
  BY <1>0, <1>14 DEF TickHookGone, PassDone
<1>15. CASE Interrupt
  BY <1>0, <1>15 DEF Interrupt
<1>16. ASSUME NEW r \in Rounds, ForceFinalize(r) PROVE DiscoveredOnce'
  BY <1>0, <1>16 DEF ForceFinalize
<1>17. CASE BeginSweep
  BY <1>0, <1>17 DEF BeginSweep
<1>18. ASSUME NEW r \in Rounds, Fetch(r) PROVE DiscoveredOnce'
  BY <1>0, <1>18 DEF Fetch
<1>19. CASE ApplyResolution
  BY <1>0, <1>19 DEF ApplyResolution
<1>20. CASE NotifyResolved
  BY <1>0, <1>20 DEF NotifyResolved
<1>21. CASE Shutdown
  BY <1>0, <1>21 DEF Shutdown
<1>22. CASE \/ UNCHANGED vars \/ Clock
            \/ \E r \in Rounds : TickFinished(r) \/ TickInTail(r) \/ Publish(r)
  BY <1>0, <1>22 DEF vars, TickFinished, TickInTail, Clock, Publish
<1> QED
  BY <1>1, <1>2, <1>3, <1>4, <1>5, <1>6, <1>7, <1>8, <1>9, <1>10, <1>11,
     <1>12, <1>13, <1>14, <1>15, <1>16, <1>17, <1>18, <1>19, <1>20, <1>21,
     <1>22
  DEF Next, MainStep, TickRound

\* An interrupt turns to every unfinished round, and only _finalize takes one
\* off the list.
LEMMA NoneForgottenNext ==
  ASSUME CaptureInv, [Next]_vars
  PROVE  NoneForgotten'
<1>0. TypeOK /\ DiscoveredOnce /\ NoneForgotten /\ ResultFirst
  BY DEF CaptureInv
<1> USE DEF NoneForgotten, found, captured, shadowed, control, Finalizing,
            Unfinished, Finished
<1>1. CASE Discover
  BY <1>0, <1>1 DEF Discover, DiscoveredOnce
<1>2. ASSUME NEW r \in Rounds, DiscoverRaises(r) PROVE NoneForgotten'
  BY <1>0, <1>2 DEF DiscoverRaises, DiscoveredOnce
<1>3. CASE BeginPass
  BY <1>0, <1>3 DEF BeginPass
<1>4. ASSUME NEW r \in Rounds, TickFinished(r) PROVE NoneForgotten'
  BY <1>0, <1>4 DEF TickFinished, Visiting
<1>5. ASSUME NEW r \in Rounds, TickByClock(r) PROVE NoneForgotten'
  BY <1>0, <1>5 DEF TickByClock, Visiting
<1>6. ASSUME NEW r \in Rounds, TickInTail(r) PROVE NoneForgotten'
  BY <1>0, <1>6 DEF TickInTail, Visiting
<1>7. ASSUME NEW r \in Rounds, TickAfterTail(r) PROVE NoneForgotten'
  BY <1>0, <1>7 DEF TickAfterTail, Visiting
<1>8. ASSUME NEW r \in Rounds, TickResolved(r) PROVE NoneForgotten'
  BY <1>0, <1>8 DEF TickResolved, Visiting
<1>9. CASE Gather
  BY <1>0, <1>9 DEF Gather
<1>10. CASE WriteResult
  BY <1>0, <1>10 DEF WriteResult
<1>11. CASE Finalized
  BY <1>0, <1>11 DEF Finalized, TypeOK
<1>12. CASE WriteRound
  BY <1>0, <1>12 DEF WriteRound
<1>13. CASE NotifyFinalized
  BY <1>0, <1>13 DEF NotifyFinalized, ResultFirst
<1>14. CASE TickHook
  BY <1>0, <1>14 DEF TickHook, PassDone
<1>15. CASE TickHookRaises
  BY <1>0, <1>15 DEF TickHookRaises, PassDone
<1>16. CASE TickHookGone
  BY <1>0, <1>16 DEF TickHookGone, PassDone
<1>17. CASE Interrupt
  BY <1>0, <1>17 DEF Interrupt
<1>18. ASSUME NEW r \in Rounds, ForceFinalize(r) PROVE NoneForgotten'
  BY <1>0, <1>18 DEF ForceFinalize, TypeOK, ByClock
<1>19. CASE BeginSweep
  BY <1>0, <1>19 DEF BeginSweep
<1>20. ASSUME NEW r \in Rounds, Fetch(r) PROVE NoneForgotten'
  BY <1>0, <1>20 DEF Fetch
<1>21. CASE ApplyResolution
  BY <1>0, <1>21 DEF ApplyResolution
<1>22. CASE NotifyResolved
  BY <1>0, <1>22 DEF NotifyResolved
<1>23. CASE Shutdown
  BY <1>0, <1>23 DEF Shutdown
<1>24. CASE \/ UNCHANGED vars \/ Clock
            \/ \E r \in Rounds : Publish(r)
  BY <1>0, <1>24 DEF vars, Clock, Publish
<1> QED
  BY <1>1, <1>2, <1>3, <1>4, <1>5, <1>6, <1>7, <1>8, <1>9, <1>10, <1>11,
     <1>12, <1>13, <1>14, <1>15, <1>16, <1>17, <1>18, <1>19, <1>20, <1>21,
     <1>22, <1>23, <1>24
  DEF Next, MainStep, TickRound

\* Ticks move a state on only when the time of the pass is late enough, and
\* the time of a pass never goes back.
LEMMA InTimeNext ==
  ASSUME CaptureInv, [Next]_vars
  PROVE  InTime'
<1>0. TypeOK /\ DiscoveredOnce /\ InTime /\ NoneForgotten /\ ResultFirst
  BY DEF CaptureInv
<1>a. loop # "discover" => Timely
  BY <1>0, WindowsKnown
<1> USE Constants
<1> USE DEF InTime, found, captured, shadowed, control, Finalizing, Ended,
            Handled, EndTs
<1>1. CASE Discover
  BY <1>0, <1>1 DEF Discover, DiscoveredOnce
<1>2. ASSUME NEW r \in Rounds, DiscoverRaises(r) PROVE InTime'
  BY <1>0, <1>2 DEF DiscoverRaises, DiscoveredOnce
<1>3. CASE BeginPass
  BY <1>0, <1>a, <1>3 DEF BeginPass, TypeOK, Timely
<1>4. ASSUME NEW r \in Rounds, TickByClock(r) PROVE InTime'
  BY <1>0, <1>a, <1>4
  DEF TickByClock, Visiting, TargetState, EndTs, TypeOK, Timely
<1>5. ASSUME NEW r \in Rounds, TickAfterTail(r) PROVE InTime'
  BY <1>0, <1>5 DEF TickAfterTail, Visiting, TailOver, TypeOK
<1>6. ASSUME NEW r \in Rounds, TickResolved(r) PROVE InTime'
  BY <1>0, <1>6 DEF TickResolved, Visiting
<1>7. CASE Gather
  BY <1>0, <1>7 DEF Gather
<1>8. CASE WriteResult
  BY <1>0, <1>8 DEF WriteResult
<1>9. CASE Finalized
  BY <1>0, <1>a, <1>9 DEF Finalized, TypeOK, Timely
<1>10. CASE WriteRound
  BY <1>0, <1>10 DEF WriteRound
<1>11. CASE NotifyFinalized
  BY <1>0, <1>11 DEF NotifyFinalized, ResultFirst
<1>12. CASE TickHook
  BY <1>0, <1>12 DEF TickHook, PassDone
<1>13. CASE TickHookRaises
  BY <1>0, <1>13 DEF TickHookRaises, PassDone
<1>14. CASE TickHookGone
  BY <1>0, <1>14 DEF TickHookGone, PassDone
<1>15. CASE Interrupt
  BY <1>0, <1>15 DEF Interrupt
<1>16. ASSUME NEW r \in Rounds, ForceFinalize(r) PROVE InTime'
  BY <1>0, <1>16 DEF ForceFinalize, NoneForgotten
<1>17. CASE BeginSweep
  BY <1>0, <1>17 DEF BeginSweep
<1>18. ASSUME NEW r \in Rounds, Fetch(r) PROVE InTime'
  BY <1>0, <1>18 DEF Fetch
<1>19. CASE ApplyResolution
  BY <1>0, <1>19 DEF ApplyResolution
<1>20. CASE NotifyResolved
  BY <1>0, <1>20 DEF NotifyResolved
<1>21. CASE Shutdown
  BY <1>0, <1>21 DEF Shutdown
<1>22. CASE \/ UNCHANGED vars \/ Clock
            \/ \E r \in Rounds : TickFinished(r) \/ TickInTail(r) \/ Publish(r)
  BY <1>0, <1>22 DEF vars, TickFinished, TickInTail, Clock, Publish
<1> QED
  BY <1>1, <1>2, <1>3, <1>4, <1>5, <1>6, <1>7, <1>8, <1>9, <1>10, <1>11,
     <1>12, <1>13, <1>14, <1>15, <1>16, <1>17, <1>18, <1>19, <1>20, <1>21,
     <1>22
  DEF Next, MainStep, TickRound

\* Only the last step of _finalize settles.
LEMMA SettledLastNext ==
  ASSUME CaptureInv, [Next]_vars
  PROVE  SettledLast'
<1>0. TypeOK /\ DiscoveredOnce /\ SettledLast /\ NoneForgotten /\ ResultFirst
  BY DEF CaptureInv
<1> USE DEF SettledLast, found, captured, shadowed, control, Finalizing, Settled
<1>1. CASE Discover
  BY <1>0, <1>1 DEF Discover, DiscoveredOnce
<1>2. ASSUME NEW r \in Rounds, DiscoverRaises(r) PROVE SettledLast'
  BY <1>0, <1>2 DEF DiscoverRaises, DiscoveredOnce
<1>3. CASE BeginPass
  BY <1>0, <1>3 DEF BeginPass
<1>4. ASSUME NEW r \in Rounds, TickFinished(r) PROVE SettledLast'
  BY <1>0, <1>4 DEF TickFinished, Visiting
<1>5. ASSUME NEW r \in Rounds, TickByClock(r) PROVE SettledLast'
  BY <1>0, <1>5 DEF TickByClock, Visiting, TypeOK, ByClock
<1>6. ASSUME NEW r \in Rounds, TickInTail(r) PROVE SettledLast'
  BY <1>0, <1>6 DEF TickInTail, Visiting
<1>7. ASSUME NEW r \in Rounds, TickAfterTail(r) PROVE SettledLast'
  BY <1>0, <1>7 DEF TickAfterTail, Visiting, TypeOK
<1>8. ASSUME NEW r \in Rounds, TickResolved(r) PROVE SettledLast'
  BY <1>0, <1>8 DEF TickResolved, Visiting
<1>9. CASE Gather
  BY <1>0, <1>9 DEF Gather
<1>10. CASE WriteResult
  BY <1>0, <1>10 DEF WriteResult
<1>11. CASE Finalized
  BY <1>0, <1>11 DEF Finalized, TypeOK
<1>12. CASE WriteRound
  BY <1>0, <1>12 DEF WriteRound
<1>13. CASE NotifyFinalized
  BY <1>0, <1>13 DEF NotifyFinalized, ResultFirst, TypeOK
<1>14. CASE TickHook
  BY <1>0, <1>14 DEF TickHook, PassDone
<1>15. CASE TickHookRaises
  BY <1>0, <1>15 DEF TickHookRaises, PassDone
<1>16. CASE TickHookGone
  BY <1>0, <1>16 DEF TickHookGone, PassDone
<1>17. CASE Interrupt
  BY <1>0, <1>17 DEF Interrupt
<1>18. ASSUME NEW r \in Rounds, ForceFinalize(r) PROVE SettledLast'
  BY <1>0, <1>18 DEF ForceFinalize, NoneForgotten, TypeOK, ByClock
<1>19. CASE BeginSweep
  BY <1>0, <1>19 DEF BeginSweep
<1>20. ASSUME NEW r \in Rounds, Fetch(r) PROVE SettledLast'
  BY <1>0, <1>20 DEF Fetch
<1>21. CASE ApplyResolution
  BY <1>0, <1>21 DEF ApplyResolution
<1>22. CASE NotifyResolved
  BY <1>0, <1>22 DEF NotifyResolved, TypeOK
<1>23. CASE Shutdown
  BY <1>0, <1>23 DEF Shutdown
<1>24. CASE \/ UNCHANGED vars \/ Clock
            \/ \E r \in Rounds : Publish(r)
  BY <1>0, <1>24 DEF vars, Clock, Publish
<1> QED
  BY <1>1, <1>2, <1>3, <1>4, <1>5, <1>6, <1>7, <1>8, <1>9, <1>10, <1>11,
     <1>12, <1>13, <1>14, <1>15, <1>16, <1>17, <1>18, <1>19, <1>20, <1>21,
     <1>22, <1>23, <1>24
  DEF Next, MainStep, TickRound

\* What is written as known is known; nothing known is forgotten.
LEMMA OutcomeKnownNext ==
  ASSUME CaptureInv, [Next]_vars
  PROVE  OutcomeKnown'
<1>0. TypeOK /\ DiscoveredOnce /\ OutcomeKnown
  BY DEF CaptureInv
<1> USE DEF OutcomeKnown, found, captured, shadowed, control, TypeOK
<1>1. CASE Discover
  BY <1>0, <1>1 DEF Discover
<1>2. ASSUME NEW r \in Rounds, DiscoverRaises(r) PROVE OutcomeKnown'
  BY <1>0, <1>2 DEF DiscoverRaises
<1>3. CASE BeginPass
  BY <1>0, <1>3 DEF BeginPass
<1>4. ASSUME NEW r \in Rounds, TickInTail(r) PROVE OutcomeKnown'
  BY <1>0, <1>4 DEF TickInTail, Visiting, Polled
<1>5. ASSUME NEW r \in Rounds, TickAfterTail(r) PROVE OutcomeKnown'
  BY <1>0, <1>5 DEF TickAfterTail, Visiting, Polled
<1>6. ASSUME NEW r \in Rounds, TickResolved(r) PROVE OutcomeKnown'
  BY <1>0, <1>6 DEF TickResolved, Visiting
<1>7. CASE Gather
  BY <1>0, <1>7 DEF Gather, Polled
<1>8. CASE WriteResult
  BY <1>0, <1>8 DEF WriteResult, Verdict
<1>9. CASE Finalized
  BY <1>0, <1>9 DEF Finalized
<1>10. CASE WriteRound
  BY <1>0, <1>10 DEF WriteRound
<1>11. CASE NotifyFinalized
  BY <1>0, <1>11 DEF NotifyFinalized, Verdict
<1>12. CASE TickHook
  BY <1>0, <1>12 DEF TickHook, PassDone
<1>13. CASE TickHookRaises
  BY <1>0, <1>13 DEF TickHookRaises, PassDone
<1>14. CASE TickHookGone
  BY <1>0, <1>14 DEF TickHookGone, PassDone
<1>15. CASE Interrupt
  BY <1>0, <1>15 DEF Interrupt
<1>16. ASSUME NEW r \in Rounds, ForceFinalize(r) PROVE OutcomeKnown'
  BY <1>0, <1>16 DEF ForceFinalize
<1>17. CASE BeginSweep
  BY <1>0, <1>17 DEF BeginSweep
<1>18. ASSUME NEW r \in Rounds, Fetch(r) PROVE OutcomeKnown'
  BY <1>0, <1>18 DEF Fetch
<1>19. CASE ApplyResolution
  BY <1>0, <1>19 DEF ApplyResolution, Verdict
<1>20. CASE NotifyResolved
  BY <1>0, <1>20 DEF NotifyResolved, Verdict
<1>21. CASE Shutdown
  BY <1>0, <1>21 DEF Shutdown
<1>22. CASE \/ UNCHANGED vars \/ Clock
            \/ \E r \in Rounds :
                  TickFinished(r) \/ TickByClock(r)
                  \/ Publish(r)
  BY <1>0, <1>22 DEF vars, TickFinished, TickByClock, Clock, Publish
<1> QED
  BY <1>1, <1>2, <1>3, <1>4, <1>5, <1>6, <1>7, <1>8, <1>9, <1>10, <1>11,
     <1>12, <1>13, <1>14, <1>15, <1>16, <1>17, <1>18, <1>19, <1>20, <1>21,
     <1>22
  DEF Next, MainStep, TickRound

\* The hook closes every pass: it fires what is left of the grid of every
\* round the pass saw end.
LEMMA GridFiredNext ==
  ASSUME CaptureInv, [Next]_vars
  PROVE  GridFired'
<1>0. /\  TypeOK /\ DiscoveredOnce /\ GridFired /\ SettledLast
      /\ NoneForgotten /\ ResultFirst /\ InTime
  BY DEF CaptureInv
<1> USE DEF GridFired, found, captured, shadowed, control, Finalizing, Ended,
            Visited
<1>1. CASE Discover
  BY <1>0, <1>1 DEF Discover, DiscoveredOnce
<1>2. ASSUME NEW r \in Rounds, DiscoverRaises(r) PROVE GridFired'
  BY <1>0, <1>2 DEF DiscoverRaises, DiscoveredOnce
<1>3. CASE BeginPass
  BY <1>0, <1>3 DEF BeginPass, Visited
<1>4. ASSUME NEW r \in Rounds, TickFinished(r) PROVE GridFired'
  BY <1>0, <1>4 DEF TickFinished, Visiting
<1>5. ASSUME NEW r \in Rounds, TickByClock(r) PROVE GridFired'
  BY <1>0, <1>5 DEF TickByClock, Visiting, TypeOK, ByClock, TargetState
<1>6. ASSUME NEW r \in Rounds, TickInTail(r) PROVE GridFired'
  BY <1>0, <1>6 DEF TickInTail, Visiting
<1>7. ASSUME NEW r \in Rounds, TickAfterTail(r) PROVE GridFired'
  BY <1>0, <1>7 DEF TickAfterTail, Visiting, TypeOK
<1>8. ASSUME NEW r \in Rounds, TickResolved(r) PROVE GridFired'
  BY <1>0, <1>8 DEF TickResolved, Visiting
<1>9. CASE Gather
  BY <1>0, <1>9 DEF Gather
<1>10. CASE WriteResult
  BY <1>0, <1>10 DEF WriteResult
<1>11. CASE Finalized
  BY <1>0, <1>11 DEF Finalized, TypeOK, SettledLast
<1>12. CASE WriteRound
  BY <1>0, <1>12 DEF WriteRound
<1>13. CASE NotifyFinalized
  BY <1>0, <1>13 DEF NotifyFinalized, ResultFirst, TypeOK
<1>14. CASE TickHook
  <2> SUFFICES ASSUME ~interrupted, NEW r \in shadows', state[r] \in Ended
               PROVE  fired'[r] = Grid
    BY <1>14 DEF TickHook
  <2>1. r \in Rounds /\ hook /\ loop = "rounds"
    BY <1>0, <1>14 DEF TickHook, PassDone, Tradable, Known, TypeOK
  <2>2. fired'[r] = IF ~Settled(r) THEN fired[r] \cup Due(r) ELSE fired[r]
    BY <1>14, <2>1 DEF TickHook, FireDue
  <2>3. CASE Settled(r)
    <3>1. r \in shadows /\ state[r] = "FINALIZED"
      BY <1>0, <2>1, <2>3 DEF SettledLast
    <3>2. fired[r] = Grid
      BY <1>0, <2>1, <3>1
    <3> QED BY <2>2, <2>3, <3>2
  <2>4. CASE ~Settled(r)
    <3>1. Timely /\ tick >= EndTs(r) /\ tick \in Int
      BY <1>0, <2>1, WindowsKnown DEF InTime, TypeOK
    <3>2. Due(r) = Grid
      <4>1. ASSUME NEW t \in Grid PROVE StartTs(r) + t <= tick
        <5>1. /\ StartTs(r) \in Nat /\ EndTs(r) \in Nat /\ t \in Nat
              /\ StartTs(r) + t <= EndTs(r)
          BY <2>1, <3>1, Constants DEF Timely
        <5> QED BY <3>1, <5>1
      <4> QED BY <4>1 DEF Due
    <3>3. fired[r] \subseteq Grid
      BY <1>0, <2>1 DEF TypeOK
    <3> QED BY <2>2, <2>4, <3>2, <3>3
  <2> QED BY <2>3, <2>4
<1>15. CASE TickHookRaises
  BY <1>0, <1>15 DEF TickHookRaises, PassDone
<1>16. CASE TickHookGone
  BY <1>0, <1>16 DEF TickHookGone, PassDone
<1>17. CASE Interrupt
  BY <1>0, <1>17 DEF Interrupt
<1>18. ASSUME NEW r \in Rounds, ForceFinalize(r) PROVE GridFired'
  BY <1>0, <1>18 DEF ForceFinalize, NoneForgotten, TypeOK, ByClock
<1>19. CASE BeginSweep
  BY <1>0, <1>19 DEF BeginSweep
<1>20. ASSUME NEW r \in Rounds, Fetch(r) PROVE GridFired'
  BY <1>0, <1>20 DEF Fetch
<1>21. CASE ApplyResolution
  BY <1>0, <1>21 DEF ApplyResolution
<1>22. CASE NotifyResolved
  BY <1>0, <1>22 DEF NotifyResolved, TypeOK
<1>23. CASE Shutdown
  BY <1>0, <1>23 DEF Shutdown
<1>24. CASE \/ UNCHANGED vars \/ Clock
            \/ \E r \in Rounds : Publish(r)
  BY <1>0, <1>24 DEF vars, Clock, Publish
<1> QED
  BY <1>1, <1>2, <1>3, <1>4, <1>5, <1>6, <1>7, <1>8, <1>9, <1>10, <1>11,
     <1>12, <1>13, <1>14, <1>15, <1>16, <1>17, <1>18, <1>19, <1>20, <1>21,
     <1>22, <1>23, <1>24
  DEF Next, MainStep, TickRound

\* A poll that learns an outcome is followed by the row that says so.
LEMMA RowsCurrentNext ==
  ASSUME CaptureInv, [Next]_vars
  PROVE  RowsCurrent'
<1>0. TypeOK /\ DiscoveredOnce /\ RowsCurrent /\ SettledLast /\ NoneForgotten
  BY DEF CaptureInv
<1> USE DEF RowsCurrent, found, captured, shadowed, control, Finalizing, Verdict
<1>1. CASE Discover
  BY <1>0, <1>1 DEF Discover, DiscoveredOnce
<1>2. ASSUME NEW r \in Rounds, DiscoverRaises(r) PROVE RowsCurrent'
  BY <1>0, <1>2 DEF DiscoverRaises, DiscoveredOnce
<1>3. CASE BeginPass
  BY <1>0, <1>3 DEF BeginPass
<1>4. ASSUME NEW r \in Rounds, TickByClock(r) PROVE RowsCurrent'
  BY <1>0, <1>4 DEF TickByClock, Visiting, TypeOK, ByClock, TargetState
<1>5. ASSUME NEW r \in Rounds, TickInTail(r) PROVE RowsCurrent'
  BY <1>0, <1>5 DEF TickInTail, Visiting, Polled
<1>6. ASSUME NEW r \in Rounds, TickAfterTail(r) PROVE RowsCurrent'
  BY <1>0, <1>6 DEF TickAfterTail, Visiting, TypeOK, Polled
<1>7. ASSUME NEW r \in Rounds, TickResolved(r) PROVE RowsCurrent'
  BY <1>0, <1>7 DEF TickResolved, Visiting
<1>8. CASE Gather
  BY <1>0, <1>8 DEF Gather, SettledLast, Polled
<1>9. CASE WriteResult
  BY <1>0, <1>9 DEF WriteResult, TypeOK
<1>10. CASE Finalized
  BY <1>0, <1>10 DEF Finalized, TypeOK
<1>11. CASE WriteRound
  BY <1>0, <1>11 DEF WriteRound
<1>12. CASE NotifyFinalized
  BY <1>0, <1>12 DEF NotifyFinalized
<1>13. CASE TickHook
  BY <1>0, <1>13 DEF TickHook, PassDone
<1>14. CASE TickHookRaises
  BY <1>0, <1>14 DEF TickHookRaises, PassDone
<1>15. CASE TickHookGone
  BY <1>0, <1>15 DEF TickHookGone, PassDone
<1>16. CASE Interrupt
  BY <1>0, <1>16 DEF Interrupt
<1>17. ASSUME NEW r \in Rounds, ForceFinalize(r) PROVE RowsCurrent'
  BY <1>0, <1>17 DEF ForceFinalize, NoneForgotten, TypeOK, ByClock
<1>18. CASE BeginSweep
  BY <1>0, <1>18 DEF BeginSweep
<1>19. ASSUME NEW r \in Rounds, Fetch(r) PROVE RowsCurrent'
  BY <1>0, <1>19 DEF Fetch
<1>20. CASE ApplyResolution
  BY <1>0, <1>20 DEF ApplyResolution, TypeOK
<1>21. CASE NotifyResolved
  BY <1>0, <1>21 DEF NotifyResolved
<1>22. CASE Shutdown
  BY <1>0, <1>22 DEF Shutdown
<1>23. CASE \/ UNCHANGED vars \/ Clock
            \/ \E r \in Rounds : TickFinished(r) \/ Publish(r)
  BY <1>0, <1>23 DEF vars, TickFinished, Clock, Publish
<1> QED
  BY <1>1, <1>2, <1>3, <1>4, <1>5, <1>6, <1>7, <1>8, <1>9, <1>10, <1>11,
     <1>12, <1>13, <1>14, <1>15, <1>16, <1>17, <1>18, <1>19, <1>20, <1>21,
     <1>22, <1>23
  DEF Next, MainStep, TickRound

\* A settled shadow is told of an outcome learned later, and only then.
LEMMA JournalCurrentNext ==
  ASSUME CaptureInv, [Next]_vars
  PROVE  JournalCurrent'
<1>0. /\  TypeOK /\ DiscoveredOnce /\ JournalCurrent
      /\ SettledLast /\ NoneForgotten /\ OutcomeKnown
  BY DEF CaptureInv
<1> USE DEF JournalCurrent, found, captured, shadowed, control, Finalizing,
            Sweeping, Settled
<1>1. CASE Discover
  BY <1>0, <1>1 DEF Discover, DiscoveredOnce
<1>2. ASSUME NEW r \in Rounds, DiscoverRaises(r) PROVE JournalCurrent'
  BY <1>0, <1>2 DEF DiscoverRaises, DiscoveredOnce
<1>3. CASE BeginPass
  BY <1>0, <1>3 DEF BeginPass
<1>4. ASSUME NEW r \in Rounds, TickFinished(r) PROVE JournalCurrent'
  BY <1>0, <1>4 DEF TickFinished, Visiting
<1>5. ASSUME NEW r \in Rounds, TickByClock(r) PROVE JournalCurrent'
  BY <1>0, <1>5 DEF TickByClock, Visiting, TypeOK, ByClock, TargetState
<1>6. ASSUME NEW r \in Rounds, TickInTail(r) PROVE JournalCurrent'
  BY <1>0, <1>6 DEF TickInTail, Visiting, Polled, SettledLast
<1>7. ASSUME NEW r \in Rounds, TickAfterTail(r) PROVE JournalCurrent'
  BY <1>0, <1>7 DEF TickAfterTail, Visiting, TypeOK, SettledLast, Polled
<1>8. ASSUME NEW r \in Rounds, TickResolved(r) PROVE JournalCurrent'
  BY <1>0, <1>8 DEF TickResolved, Visiting
<1>9. CASE Gather
  BY <1>0, <1>9 DEF Gather, SettledLast, Polled
<1>10. CASE WriteResult
  BY <1>0, <1>10 DEF WriteResult, TypeOK
<1>11. CASE Finalized
  BY <1>0, <1>11 DEF Finalized, TypeOK
<1>12. CASE WriteRound
  BY <1>0, <1>12 DEF WriteRound
<1>13. CASE NotifyFinalized
  BY <1>0, <1>13 DEF NotifyFinalized, TypeOK, Verdict, OutcomeKnown
<1>14. CASE TickHook
  BY <1>0, <1>14 DEF TickHook, PassDone
<1>15. CASE TickHookRaises
  BY <1>0, <1>15 DEF TickHookRaises, PassDone
<1>16. CASE TickHookGone
  BY <1>0, <1>16 DEF TickHookGone, PassDone
<1>17. CASE Interrupt
  BY <1>0, <1>17 DEF Interrupt
<1>18. ASSUME NEW r \in Rounds, ForceFinalize(r) PROVE JournalCurrent'
  BY <1>0, <1>18 DEF ForceFinalize, NoneForgotten, TypeOK, ByClock
<1>19. CASE BeginSweep
  BY <1>0, <1>19 DEF BeginSweep
<1>20. ASSUME NEW r \in Rounds, Fetch(r) PROVE JournalCurrent'
  BY <1>0, <1>20 DEF Fetch, OutcomeKnown, TypeOK
<1>21. CASE ApplyResolution
  BY <1>0, <1>21 DEF ApplyResolution, TypeOK
<1>22. CASE NotifyResolved
  <2> SUFFICES ASSUME ~interrupted PROVE JournalCurrent'
    BY <1>22 DEF NotifyResolved
  <2>1. /\ loop = "resolved" /\ loop' = "sweep" /\ todo' = todo \ {current}
        /\ state' = state /\ reported' = reported /\ interrupted' = interrupted
    BY <1>22 DEF NotifyResolved
  <2>2. /\ current \in Rounds /\ current \in reported
        /\ journal[current].settlement # "known"
    BY <1>0, <2>1 DEF TypeOK, OutcomeKnown
  <2>3. \A r \in Rounds :
          /\ journal'[r].settlement = journal[r].settlement
          /\ journal'[r].final = IF r = current /\ r \in shadows THEN "known"
                                 ELSE journal[r].final
    BY <1>0, <1>22, <2>2 DEF NotifyResolved, TypeOK, Verdict
  <2>4. \A r \in Rounds : Settled(r) => r \in shadows
    BY <1>0 DEF SettledLast
  <2>5. todo' \cap reported' = {}
    BY <1>0, <2>1
  <2>6. ASSUME NEW r \in Rounds
        PROVE  /\ Settled(r)' /\ r \in reported' =>
                    journal'[r].settlement = "known" \/ journal'[r].final = "known"
               /\ ~(journal'[r].settlement = "known" /\ journal'[r].final = "known")
    <3>1. CASE r = current
      BY <2>1, <2>2, <2>3, <2>4, <3>1
    <3>2. CASE r # current
      BY <1>0, <2>1, <2>3, <3>2
    <3> QED BY <3>1, <3>2
  <2> QED BY <2>1, <2>5, <2>6
<1>23. CASE Shutdown
  BY <1>0, <1>23 DEF Shutdown
<1>24. CASE \/ UNCHANGED vars \/ Clock
            \/ \E r \in Rounds : Publish(r)
  BY <1>0, <1>24 DEF vars, Clock, Publish
<1> QED
  BY <1>1, <1>2, <1>3, <1>4, <1>5, <1>6, <1>7, <1>8, <1>9, <1>10, <1>11,
     <1>12, <1>13, <1>14, <1>15, <1>16, <1>17, <1>18, <1>19, <1>20, <1>21,
     <1>22, <1>23, <1>24
  DEF Next, MainStep, TickRound

-----------------------------------------------------------------------------

\* The invariant of the main loop: what it has written, and what it knows,
\* wherever a step or an interrupt leaves it.
THEOREM CaptureInvariant == Spec => []CaptureInv
<1>1. Init => CaptureInv
  BY InitInv
<1>2. CaptureInv /\ [Next]_vars => CaptureInv'
  <2> SUFFICES ASSUME CaptureInv, [Next]_vars PROVE CaptureInv'
    OBVIOUS
  <2>1. TypeOK' /\ DiscoveredOnce' /\ ResultFirst' /\ NoneForgotten'
    BY TypeOKNext, DiscoveredOnceNext, ResultFirstNext, NoneForgottenNext
  <2>2. InTime' /\ GridFired' /\ SettledLast'
    BY InTimeNext, GridFiredNext, SettledLastNext
  <2>3. OutcomeKnown' /\ RowsCurrent' /\ JournalCurrent'
    BY OutcomeKnownNext, RowsCurrentNext, JournalCurrentNext
  <2> QED BY <2>1, <2>2, <2>3 DEF CaptureInv
<1> QED
  BY <1>1, <1>2, PTL DEF Spec

\* The clock stays within its bound, and rows, states and journal hold what
\* the store's columns can.
THEOREM CaptureTypeCorrect == Spec => []TypeOK
<1>1. CaptureInv => TypeOK
  BY DEF CaptureInv
<1> QED
  BY <1>1, CaptureInvariant, PTL

\* A shadow settles only after every decision of its grid fired, whatever the
\* clock jumped over: _finalize is reached a pass after the one that saw the
\* round end, whose tick hook caught up.
THEOREM SettledAfterItsGridHolds == Spec => []SettledAfterItsGrid
<1>1. CaptureInv => SettledAfterItsGrid
  BY DEF CaptureInv, SettledAfterItsGrid, SettledLast, GridFired, Ended
<1> QED
  BY <1>1, CaptureInvariant, PTL

\* A round the rounds table calls FINALIZED has its result row, and no capture
\* ends with a round that has none, wherever it was interrupted.
THEOREM FinalizedHasResultHolds == Spec => []FinalizedHasResult
<1>1. CaptureInv => FinalizedHasResult
  <2> SUFFICES ASSUME CaptureInv, NEW r \in captures,
                      roundRow[r] = "FINALIZED" \/ loop \in {"sweep", "stopped"}
               PROVE  resultRow[r] # "none"
    BY DEF FinalizedHasResult
  <2>1. r \in Rounds
    BY DEF CaptureInv, TypeOK
  <2>2. loop \in {"sweep", "stopped"} => state[r] = "FINALIZED"
    BY DEF CaptureInv, ResultFirst, Sweeping, Unfinished, Finished
  <2> QED BY <2>1, <2>2 DEF CaptureInv, ResultFirst
<1> QED
  BY <1>1, CaptureInvariant, PTL

\* Without an interrupt no round is finalized before its tail window is over.
THEOREM FinalizedAfterTailHolds == Spec => []FinalizedAfterTail
<1>1. CaptureInv => FinalizedAfterTail
  BY DEF CaptureInv, InTime, FinalizedAfterTail, Finished
<1> QED
  BY <1>1, CaptureInvariant, PTL

\* A capture that ran to its end has every outcome it learned in the store,
\* and in the journal of every settled shadow exactly once.
THEOREM OutcomesArePublishedHolds == Spec => []OutcomesArePublished
<1>1. CaptureInv => OutcomesArePublished
  <2> SUFFICES ASSUME CaptureInv, loop = "stopped", ~interrupted,
                      NEW r \in captures
               PROVE  /\ resultRow[r] = Verdict(r)
                      /\ Settled(r) =>
                           (r \in reported <=> \/ journal[r].settlement = "known"
                                               \/ journal[r].final = "known")
                      /\ ~(/\ journal[r].settlement = "known"
                           /\ journal[r].final = "known")
    BY DEF OutcomesArePublished
  <2>1. r \in Rounds /\ state[r] = "FINALIZED"
    BY DEF CaptureInv, TypeOK, ResultFirst, Sweeping, Unfinished, Finished
  <2>2. resultRow[r] = Verdict(r)
    BY <2>1 DEF CaptureInv, RowsCurrent
  <2>3. "known" \in {journal[r].settlement, journal[r].final} => r \in reported
    BY <2>1 DEF CaptureInv, OutcomeKnown
  <2>4. /\ Settled(r) /\ r \in reported =>
             journal[r].settlement = "known" \/ journal[r].final = "known"
        /\ ~(journal[r].settlement = "known" /\ journal[r].final = "known")
    BY <2>1 DEF CaptureInv, JournalCurrent
  <2> QED BY <2>2, <2>3, <2>4
<1> QED
  BY <1>1, CaptureInvariant, PTL

\* An outcome once in the store is never overwritten by a row without it, not
\* even by the second finalization an interrupt causes: what is known of a
\* round is never forgotten, and a row says what is known when it is written.
THEOREM OutcomesAreKeptHolds == Spec => OutcomesAreKept
<1>1. CaptureInv /\ [Next]_vars =>
        [\A r \in Rounds : resultRow[r] = "known" => resultRow'[r] = "known"]_vars
  <2> SUFFICES ASSUME CaptureInv, [Next]_vars,
                      NEW r \in Rounds, resultRow[r] = "known"
               PROVE  resultRow'[r] = "known"
    OBVIOUS
  <2>1. r \in reported /\ resultRow \in [Rounds -> Verdicts]
    BY DEF CaptureInv, OutcomeKnown, TypeOK
  <2>2. CASE WriteResult \/ ApplyResolution
    BY <2>1, <2>2 DEF WriteResult, ApplyResolution, Verdict
  <2>3. CASE resultRow' = resultRow
    BY <2>3
  <2>4. \/ WriteResult \/ ApplyResolution
        \/ resultRow' = resultRow
    BY DEF vars, captured, Next, MainStep, TickRound, Discover, DiscoverRaises,
           BeginPass, TickFinished, TickByClock, TickInTail, TickAfterTail,
           TickResolved, Gather, Finalized, WriteRound, NotifyFinalized,
           TickHook, TickHookRaises, TickHookGone, Interrupt, ForceFinalize,
           BeginSweep, Fetch, NotifyResolved, Shutdown, Clock, Publish
  <2> QED BY <2>2, <2>3, <2>4
<1> QED
  BY <1>1, CaptureInvariant, PTL DEF OutcomesAreKept, Spec
=============================================================================
