---------------------------- MODULE MarketStream ----------------------------
(***************************************************************************)
(* realtime/clob_ws.py: one socket that serves the books of every token,   *)
(* the reader thread that keeps it, and the service's thread that adds     *)
(* tokens and compares books with the venue over REST.  The outages are    *)
(* measured by StreamGapTracker (realtime/attribution.py).                 *)
(*                                                                         *)
(* A book's contents are the numbers of the venue's changes it reflects.   *)
(* Frames of different tokens touch different books, so each token has a   *)
(* wire of its own.  A REST response is fetched in one step and applied in *)
(* a later one: no lock is held in between.                                *)
(***************************************************************************)
EXTENDS Integers, Sequences, FiniteSets

CONSTANTS
  Tokens,        \* tokens of all rounds
  Initial,       \* tokens the stream is created with
  StallTimeout,  \* _stall_timeout
  MaxVersion,    \* bound: changes the venue makes to one book
  MaxTouched,    \* bound: tokens whose book changes or market settles
  MaxFaults,     \* bound: faults of network, REST and frames
  MaxTime        \* bound: the clock

ASSUME StreamAssumption ==
  /\ Initial \subseteq Tokens
  /\ StallTimeout \in Nat /\ MaxVersion \in Nat /\ MaxTouched \in Nat
  /\ MaxFaults \in Nat /\ MaxTime \in Nat

VARIABLES
  now,
  venue,      \* changes made to each token's book at the venue
  settled,    \* tokens whose market has settled
  socket,     \* state, subs: tokens it serves, wire: frames under way
  books,      \* _books: the registered tokens' BookState
  reader,     \* the reader thread: pc, todo (bootstrap_all), rest (response
              \* in hand), first, quiet (last_data of the loop)
  connected,  \* _connected
  closed,     \* _closed_by_venue
  caller,     \* the service's thread: pc, todo (tokens of its add_tokens call
              \* that wait for their turn), token and rest (response in hand)
  gaps,       \* StreamGapTracker: last (last_data_ns), start (open_gap)
  faults,     \* faults so far
  seen        \* history, see below

vars == <<now, venue, settled, socket, books, reader, connected, closed,
          caller, gaps, faults, seen>>

None == -1

NoWire == [t \in Tokens |-> <<>>]
NoSocket == [state |-> "none", subs |-> {}, wire |-> NoWire]

NewBook == [awaiting |-> TRUE, gap |-> FALSE, has |-> {}]
Registered == DOMAIN books

\* is_quotable, of a book the market has both sides of.
Quotable(t) == t \in Registered /\ ~books[t].awaiting /\ ~books[t].gap

HasBook(t) == t \in Registered /\ ~books[t].awaiting

Up == socket.state # "none"
Live == socket.state = "live"

Idle == [pc |-> "idle", todo |-> {}, token |-> <<>>, rest |-> <<>>]

\* seen.delivered: the last change of each token the reader was handed;
\* seen.served: tokens that were ever subscribed; seen.missed: tokens that
\* were registered while the reader was past its subscription;
\* seen.suspect: tokens whose book took a response that may be outdated, or
\* lost a frame;
\* seen.lost: when changes of served tokens were lost, until a published
\* outage accounts for them; seen.unsynced: tokens
\* whose last bootstrap failed; seen.forgotten: tokens of an add_tokens call
\* that raised before their turn came, until a bootstrap lists them again.
Init ==
  /\ now = 0
  /\ venue = [t \in Tokens |-> 0]
  /\ settled = {}
  /\ socket = NoSocket
  /\ books = [t \in Initial |-> NewBook]
  /\ reader = [pc |-> "connect", todo |-> {}, rest |-> <<>>, first |-> TRUE, quiet |-> 0]
  /\ connected = FALSE
  /\ closed = FALSE
  /\ caller = Idle
  /\ gaps = [last |-> None, start |-> None]
  /\ faults = 0
  /\ seen = [delivered |-> [t \in Tokens |-> 0], served |-> {}, missed |-> {},
             suspect |-> {}, lost |-> {}, unsynced |-> {}, forgotten |-> {}]

-----------------------------------------------------------------------------
(***************************************************************************)
(* StreamGapTracker.                                                       *)
(***************************************************************************)

\* Mutant: the outage starts when it was noticed.
BeginAtDetection(g) == IF g.start # None THEN g ELSE [g EXCEPT !.start = now]

\* begin: the outage starts at the last data received; one that is open stays.
Begin(g) ==
  IF g.start # None THEN g
  ELSE [g EXCEPT !.start = IF g.last # None THEN g.last ELSE now]

\* close: the interval from g.start to now is published, if one is open.
Close(g) == IF g.start = None THEN g ELSE [last |-> now, start |-> None]

\* What the interval published covers is accounted for.
Accounted(lost) ==
  IF gaps.start = None THEN lost ELSE {at \in lost : at < gaps.start}

NoteData(g) == [Close(g) EXCEPT !.last = now]

-----------------------------------------------------------------------------
(***************************************************************************)
(* BookState.                                                              *)
(***************************************************************************)

\* Mutant: the changes counted on are never made.
SnapshotAhead(b, v) == [awaiting |-> FALSE, gap |-> FALSE, has |-> 0..v]

ApplySnapshot(b, v) == [awaiting |-> FALSE, gap |-> FALSE, has |-> 1..v]

\* A change without a snapshot under it is a known gap.
ApplyPriceChange(b, k) ==
  IF b.awaiting THEN [b EXCEPT !.gap = TRUE]
  ELSE [b EXCEPT !.has = @ \cup {k}]

\* A response older than what the reader was handed, or one for a token the
\* socket does not serve, makes the book suspect.
AfterSnapshot(s, t, v) ==
  [s EXCEPT !.suspect = IF v < s.delivered[t] \/ t \notin socket.subs THEN @ \cup {t} ELSE @ \ {t},
            !.unsynced = @ \ {t}, !.forgotten = @ \ {t}]

-----------------------------------------------------------------------------
(***************************************************************************)
(* The venue and the network.                                              *)
(***************************************************************************)

Tick ==
  /\ now < MaxTime
  /\ now' = now + 1
  /\ UNCHANGED <<venue, settled, socket, books, reader, connected, closed,
                 caller, gaps, faults, seen>>

\* The bound on what the venue does.
MayTouch(t) == Cardinality(settled \cup {u \in Tokens : venue[u] > 0} \cup {t}) <= MaxTouched

\* A change nobody is sent is lost to a token that was being served, once
\* the stream has heard anything at all.
Change(t) ==
  /\ t \notin settled /\ venue[t] < MaxVersion
  /\ MayTouch(t)
  /\ venue' = [venue EXCEPT ![t] = @ + 1]
  /\ IF Live /\ t \in socket.subs
     THEN /\ socket' = [socket EXCEPT !.wire[t] = Append(@, [kind |-> "price_change", v |-> venue'[t]])]
          /\ UNCHANGED seen
     ELSE /\ seen' = [seen EXCEPT !.lost = IF t \in seen.served /\ gaps.last # None
                                           THEN @ \cup {now} ELSE @]
          /\ UNCHANGED socket
  /\ UNCHANGED <<now, settled, books, reader, connected, closed, caller, gaps, faults>>

Settle(t) ==
  /\ t \in Registered \ settled /\ MayTouch(t)
  /\ settled' = settled \cup {t}
  /\ UNCHANGED <<now, venue, socket, books, reader, connected, closed, caller,
                 gaps, faults, seen>>

\* The socket breaks, or stops delivering without raising.
Break ==
  /\ Live /\ faults < MaxFaults
  /\ faults' = faults + 1
  /\ \E s \in {"broken", "silent"} : socket' = [state |-> s, subs |-> {}, wire |-> NoWire]
  /\ seen' = [seen EXCEPT !.lost =
       IF gaps.last # None /\ \E t \in seen.served : socket.wire[t] # <<>>
       THEN @ \cup {now} ELSE @]
  /\ UNCHANGED <<now, venue, settled, books, reader, connected, closed, caller, gaps>>

\* The venue answers a subscription with each book.
Subscribed(s, T) ==
  [s EXCEPT !.subs = @ \cup T,
            !.wire = [t \in Tokens |->
               IF t \in T \ (s.subs \cup settled)
               THEN Append(s.wire[t], [kind |-> "book", v |-> venue[t]]) ELSE s.wire[t]]]

-----------------------------------------------------------------------------
(***************************************************************************)
(* The reader: _run_forever.                                               *)
(***************************************************************************)

\* Mutant: the books stay as they were before the reconnect.
ReconnectKeepsBooks ==
  /\ reader.pc = "connect" /\ ~Up
  /\ socket' = [NoSocket EXCEPT !.state = "live"]
  /\ reader' = [reader EXCEPT !.pc = "opened", !.first = FALSE]
  /\ gaps' = IF reader.first THEN gaps ELSE Begin(gaps)
  /\ UNCHANGED <<now, venue, settled, books, connected, closed, caller, faults, seen>>

\* A reconnect distrusts every book and opens the outage, if the watchdog
\* did not; a failed attempt leaves everything as it is.
Connect ==
  /\ reader.pc = "connect" /\ ~Up
  /\ socket' = [NoSocket EXCEPT !.state = "live"]
  /\ reader' = [reader EXCEPT !.pc = "opened", !.first = FALSE]
  /\ gaps' = IF reader.first THEN gaps ELSE Begin(gaps)
  /\ books' = IF reader.first THEN books
              ELSE [t \in Registered |-> [books[t] EXCEPT !.awaiting = TRUE]]
  /\ UNCHANGED <<now, venue, settled, connected, closed, caller, faults, seen>>

Subscribe ==
  /\ reader.pc = "opened" /\ socket.state \in {"live", "silent"}
  /\ IF Live
     THEN /\ socket' = Subscribed(socket, Registered)
          /\ seen' = [seen EXCEPT !.served = @ \cup Registered, !.missed = @ \ Registered]
     ELSE UNCHANGED <<socket, seen>>
  /\ reader' = [reader EXCEPT !.pc = "subscribed"]
  /\ UNCHANGED <<now, venue, settled, books, connected, closed, caller, gaps, faults>>

\* _connected.set(); bootstrap_all lists the tokens registered by now.
SetConnected ==
  /\ reader.pc = "subscribed"
  /\ connected' = TRUE
  /\ reader' = [reader EXCEPT !.pc = "bootstrap", !.todo = Registered]
  /\ seen' = [seen EXCEPT !.forgotten = @ \ Registered]
  /\ UNCHANGED <<now, venue, settled, socket, books, closed, caller, gaps, faults>>

\* A settled token has no book any more; a failed fetch is a parse failure.
Bootstrap(t) ==
  /\ reader.pc = "bootstrap" /\ reader.rest = <<>> /\ t \in reader.todo
  /\ \/ /\ t \notin settled
        /\ reader' = [reader EXCEPT !.rest = <<t, venue[t]>>]
        /\ UNCHANGED <<faults, seen>>
     \/ /\ t \in settled
        /\ reader' = [reader EXCEPT !.todo = @ \ {t}]
        /\ UNCHANGED <<faults, seen>>
     \/ /\ t \notin settled /\ faults < MaxFaults
        /\ faults' = faults + 1
        /\ reader' = [reader EXCEPT !.todo = @ \ {t}]
        /\ seen' = [seen EXCEPT !.unsynced = @ \cup {t}]
  /\ UNCHANGED <<now, venue, settled, socket, books, connected, closed, caller, gaps>>

ApplyBootstrap ==
  /\ reader.pc = "bootstrap" /\ reader.rest # <<>>
  /\ LET t == reader.rest[1] v == reader.rest[2] IN
       /\ books' = [books EXCEPT ![t] = ApplySnapshot(@, v)]
       /\ seen' = AfterSnapshot(seen, t, v)
       /\ reader' = [reader EXCEPT !.rest = <<>>, !.todo = @ \ {t}]
  /\ UNCHANGED <<now, venue, settled, socket, connected, closed, caller, gaps, faults>>

\* Mutant: the outage ends when the socket is up, before the books are.
CloseEarly ==
  /\ reader.pc = "bootstrap" /\ reader.rest = <<>>
  /\ gaps' = Close(gaps)
  /\ seen' = [seen EXCEPT !.lost = Accounted(@)]
  /\ reader' = [reader EXCEPT !.pc = "stream", !.todo = {}, !.quiet = now]
  /\ UNCHANGED <<now, venue, settled, socket, books, connected, closed, caller, faults>>

\* The outage ends after the resync, whatever became of each bootstrap.
BootstrapDone ==
  /\ reader.pc = "bootstrap" /\ reader.rest = <<>> /\ reader.todo = {}
  /\ gaps' = Close(gaps)
  /\ seen' = [seen EXCEPT !.lost = Accounted(@)]
  /\ reader' = [reader EXCEPT !.pc = "stream", !.quiet = now]
  /\ UNCHANGED <<now, venue, settled, socket, books, connected, closed, caller, faults>>

\* note_data, then handle_message: a frame that does not parse is a parse
\* failure and leaves the book as it is.
Receive(t) ==
  /\ reader.pc = "stream" /\ socket.wire[t] # <<>>
  /\ gaps' = NoteData(gaps)
  /\ reader' = [reader EXCEPT !.quiet = now]
  /\ socket' = [socket EXCEPT !.wire[t] = Tail(@)]
  /\ LET m == Head(socket.wire[t])
         told == [seen EXCEPT !.delivered[t] = IF m.v > @ THEN m.v ELSE @,
                              !.lost = Accounted(@)] IN
       \/ /\ m.kind = "book"
          /\ books' = [books EXCEPT ![t] = ApplySnapshot(@, m.v)]
          /\ seen' = AfterSnapshot(told, t, m.v)
          /\ UNCHANGED faults
       \/ /\ m.kind = "price_change"
          /\ books' = [books EXCEPT ![t] = ApplyPriceChange(@, m.v)]
          /\ seen' = told
          /\ UNCHANGED faults
       \/ /\ faults < MaxFaults
          /\ faults' = faults + 1
          /\ seen' = [told EXCEPT !.suspect = @ \cup {t}]
          /\ UNCHANGED books
  /\ UNCHANGED <<now, venue, settled, connected, closed, caller>>

Hangup ==
  /\ socket' = NoSocket
  /\ connected' = FALSE

\* The watchdog: the socket is up and nothing came for too long.
Stall ==
  /\ reader.pc = "stream" /\ socket.state # "broken"
  /\ \A t \in Tokens : socket.wire[t] = <<>>
  /\ now - reader.quiet > StallTimeout
  /\ gaps' = Begin(gaps)
  /\ Hangup
  /\ reader' = [reader EXCEPT !.pc = "connect"]
  /\ UNCHANGED <<now, venue, settled, books, closed, caller, faults, seen>>

\* The socket raises where the reader uses it: no outage is opened yet.
Drop ==
  /\ reader.pc \in {"opened", "stream"} /\ socket.state = "broken"
  /\ Hangup
  /\ reader' = [reader EXCEPT !.pc = "connect"]
  /\ UNCHANGED <<now, venue, settled, books, closed, caller, gaps, faults, seen>>

\* "all subscribed assets resolved": the reader ends.  The flag and the
\* thread are given up after _connected is cleared, one after the other.
VenueCloses ==
  /\ reader.pc = "stream" /\ Live /\ socket.subs # {}
  /\ socket.subs \subseteq settled
  /\ \A t \in Tokens : socket.wire[t] = <<>>
  /\ Hangup
  /\ reader' = [reader EXCEPT !.pc = "closing"]
  /\ UNCHANGED <<now, venue, settled, books, closed, caller, gaps, faults, seen>>

Exit ==
  /\ \/ /\ reader.pc = "closing"
        /\ closed' = TRUE
        /\ reader' = [reader EXCEPT !.pc = "leaving"]
     \/ /\ reader.pc = "leaving"
        /\ reader' = [reader EXCEPT !.pc = "off"]
        /\ UNCHANGED closed
  /\ UNCHANGED <<now, venue, settled, socket, books, connected, caller, gaps, faults, seen>>

-----------------------------------------------------------------------------
(***************************************************************************)
(* The service's thread.                                                   *)
(***************************************************************************)

\* add_tokens registers what is new of its list under the lock and goes on
\* without it.
AddTokens(T) ==
  /\ caller.pc = "idle" /\ T \cap Registered = {}
  /\ books' = [t \in Registered \cup T |-> IF t \in T THEN NewBook ELSE books[t]]
  /\ caller' = [caller EXCEPT !.pc = "added", !.todo = T]
  /\ UNCHANGED <<now, venue, settled, socket, reader, connected, closed, gaps, faults, seen>>

\* Mutant: the reader that ended is not brought back.
AnnounceNoRestart ==
  /\ caller.pc = "added" /\ ~connected
  /\ caller' = Idle
  /\ UNCHANGED <<now, venue, settled, books, reader, socket, connected, closed, gaps, faults, seen>>

\* A reader that ended is brought back, if its thread is gone; a connected
\* one is sent the whole list, and a send on a socket that is not live is
\* swallowed.
Announce ==
  /\ caller.pc = "added"
  /\ \/ /\ closed
        /\ closed' = FALSE
        /\ caller' = Idle
        /\ IF reader.pc = "off"
           THEN /\ reader' = [reader EXCEPT !.pc = "connect", !.first = TRUE]
                /\ UNCHANGED seen
           ELSE /\ seen' = [seen EXCEPT !.missed = @ \cup caller.todo]
                /\ UNCHANGED reader
        /\ UNCHANGED socket
     \/ /\ ~closed /\ connected
        /\ caller' = [caller EXCEPT !.pc = "fetch"]
        /\ IF Live
           THEN /\ socket' = Subscribed(socket, caller.todo)
                /\ seen' = [seen EXCEPT !.served = @ \cup caller.todo]
           ELSE UNCHANGED <<socket, seen>>
        /\ UNCHANGED <<reader, closed>>
     \/ /\ ~closed /\ ~connected
        /\ caller' = Idle
        /\ seen' = IF reader.pc \in {"subscribed", "closing", "leaving", "off"}
                   THEN [seen EXCEPT !.missed = @ \cup (caller.todo \ socket.subs)] ELSE seen
        /\ UNCHANGED <<reader, socket, closed>>
  /\ UNCHANGED <<now, venue, settled, books, connected, gaps, faults>>

\* _rest_book for the next token of add_tokens; when it raises, for a settled
\* token too, so does add_tokens: nobody fetches the rest of its list.
FetchAdded(t) ==
  /\ caller.pc = "fetch" /\ t \in caller.todo
  /\ \/ /\ t \notin settled
        /\ caller' = [pc |-> "apply", todo |-> caller.todo \ {t}, token |-> t, rest |-> <<venue[t]>>]
        /\ UNCHANGED <<faults, seen>>
     \/ /\ t \in settled \/ faults < MaxFaults
        /\ faults' = IF t \in settled THEN faults ELSE faults + 1
        /\ seen' = [seen EXCEPT !.unsynced = @ \cup {t}, !.forgotten = @ \cup (caller.todo \ {t})]
        /\ caller' = Idle
  /\ UNCHANGED <<now, venue, settled, socket, books, reader, connected, closed, gaps>>

\* check_integrity asks for the book of a token; a failed fetch ends it.
CheckIntegrity(t) ==
  /\ caller.pc = "idle" /\ t \in Registered \ settled
  /\ caller' = [Idle EXCEPT !.pc = "compare", !.token = t, !.rest = <<venue[t]>>]
  /\ UNCHANGED <<now, venue, settled, socket, books, reader, connected, closed,
                 gaps, faults, seen>>

\* The tops of book are compared: equal books match, others need not differ
\* there.
Compare ==
  /\ caller.pc = "compare"
  /\ \/ caller' = Idle
     \/ /\ books[caller.token].has # 1..caller.rest[1]
        /\ caller' = [caller EXCEPT !.pc = "apply"]
  /\ UNCHANGED <<now, venue, settled, socket, books, reader, connected, closed,
                 gaps, faults, seen>>

\* The response in hand becomes the book, whatever the reader did meanwhile;
\* add_tokens goes on to its next token.
ApplyFetched ==
  /\ caller.pc = "apply"
  /\ LET t == caller.token v == caller.rest[1] IN
       /\ books' = [books EXCEPT ![t] = ApplySnapshot(@, v)]
       /\ seen' = AfterSnapshot(seen, t, v)
  /\ caller' = IF caller.todo = {} THEN Idle
               ELSE [Idle EXCEPT !.pc = "fetch", !.todo = caller.todo]
  /\ UNCHANGED <<now, venue, settled, socket, reader, connected, closed, gaps, faults>>

-----------------------------------------------------------------------------

Reads ==
  \/ Connect \/ Subscribe \/ SetConnected
  \/ \E t \in Tokens : Bootstrap(t)
  \/ ApplyBootstrap \/ BootstrapDone
  \/ \E t \in Tokens : Receive(t)
  \/ Stall \/ Drop \/ VenueCloses \/ Exit

Calls ==
  \/ Announce
  \/ \E t \in Tokens : FetchAdded(t)
  \/ Compare \/ ApplyFetched

Next ==
  \/ Tick \/ Break
  \/ \E t \in Tokens : Change(t) \/ Settle(t) \/ CheckIntegrity(t)
  \/ \E T \in SUBSET Tokens \ {{}} : AddTokens(T)
  \/ Reads \/ Calls

Spec == Init /\ [][Next]_vars

-----------------------------------------------------------------------------

TypeOK ==
  /\ now \in 0..MaxTime
  /\ venue \in [Tokens -> 0..MaxVersion]
  /\ settled \subseteq Tokens
  /\ socket.state \in {"none", "live", "silent", "broken"}
  /\ socket.subs \subseteq Registered
  /\ Registered \subseteq Tokens
  /\ \A t \in Registered : books[t].has \subseteq 1..MaxVersion
  /\ reader.pc \in {"connect", "opened", "subscribed", "bootstrap", "stream",
                    "closing", "leaving", "off"}
  /\ caller.pc \in {"idle", "added", "fetch", "compare", "apply"}
  /\ faults \in 0..MaxFaults

\* Changes that are still under way to the reader.
UnderWay(t) ==
  UNION {LET m == socket.wire[t][i] IN IF m.kind = "book" THEN 1..m.v ELSE {m.v} :
           i \in DOMAIN socket.wire[t]}

\* A book the strategy may quote from is served by the live socket and
\* misses no change but those under way: is_quotable (clob_ws.py:184) says
\* so across reconnects, concurrent REST responses and added tokens.  The
\* books that are not are named: those that took a REST response older than
\* the stream, or while they were not served, or lost a frame that did not
\* parse (suspect).
QuotableIsCurrent ==
  Live =>
    \A t \in Tokens \ (seen.suspect \cup settled) :
      Quotable(t) => t \in socket.subs /\ 1..venue[t] \subseteq books[t].has \cup UnderWay(t)

\* Changes a served token lost fall into an outage the tracker published or
\* has open, once the reader is back (attribution.py:472-488).
LossIsInsideGap ==
  Live => \A at \in seen.lost : gaps.start # None /\ gaps.start <= at

\* The tokens add_tokens has the books to fetch of, or check_integrity a
\* response for it to apply.
AtWork == caller.todo \cup IF caller.pc = "apply" THEN {caller.token} ELSE {}

\* When the reader declares an outage over, every book it served has its
\* snapshot, or its REST call failed, or its market settled,
\* or the other thread is about to replace it (clob_ws.py:486-494), or was,
\* when its add_tokens call raised for a token before it (forgotten).
GapEndsResynced ==
  [][ gaps.start # None /\ gaps'.start = None =>
        \A t \in seen.served \ (settled \cup seen.unsynced \cup seen.forgotten \cup AtWork) :
          ~books[t].awaiting ]_vars

\* Nothing is left to do: the reader streams an empty wire or has ended.
AtRest ==
  /\ caller.pc = "idle"
  /\ \/ reader.pc = "stream" /\ Live /\ \A t \in Tokens : socket.wire[t] = <<>>
     \/ reader.pc = "off"

\* Once both threads have done what they had to, each registered token has its
\* book (clob_ws.py:278-305, 543-547).  Four ways to be left without one are
\* named: its market settled; the REST call for it failed; it was added while
\* the reader was past its subscription (missed); the call it was added with
\* raised before its turn, and its first book did not parse (forgotten, suspect).
ServedAtRest ==
  AtRest =>
    \A t \in Registered \ (seen.missed \cup settled \cup seen.unsynced
                            \cup (seen.forgotten \cap seen.suspect)) :
      HasBook(t)

=============================================================================
