------------------------- MODULE MarketStreamProofs -------------------------
(***************************************************************************)
(* That a book fit to be quoted from misses nothing but what is under way, *)
(* that what is lost is inside a published outage, and that no token is    *)
(* forgotten, whatever two threads, the socket and the venue do meanwhile. *)
(***************************************************************************)
EXTENDS MarketStream, TLAPS

-----------------------------------------------------------------------------
(***************************************************************************)
(* The inductive invariant.                                                *)
(***************************************************************************)

\* A frame under way: a book as of change v, or change v.
Frame == [kind : {"book"}, v : 0..MaxVersion] \cup
         [kind : {"price_change"}, v : 1..MaxVersion]

Book == [awaiting : BOOLEAN, gap : BOOLEAN, has : SUBSET (1..MaxVersion)]

Times == {None} \cup 0..now

SocketType ==
  socket \in [state : {"none", "live", "silent", "broken"},
              subs : SUBSET Tokens, wire : [Tokens -> Seq(Frame)]]

BooksType ==
  /\ Registered \subseteq Tokens
  /\ books \in [Registered -> Book]

ReaderType ==
  /\ reader \in [pc : {"connect", "opened", "subscribed", "bootstrap", "stream",
                       "closing", "leaving", "off"},
                 todo : SUBSET Tokens,
                 rest : {<<>>} \cup (Tokens \X (0..MaxVersion)),
                 first : BOOLEAN, quiet : Nat]
  /\ connected \in BOOLEAN /\ closed \in BOOLEAN

CallerType ==
  /\ caller \in [pc : {"idle", "added", "fetch", "compare", "apply"},
                 todo : SUBSET Tokens, token : {<<>>} \cup Tokens,
                 rest : {<<>>} \cup {<<v>> : v \in 0..MaxVersion}]
  /\ caller.pc \in {"compare", "apply"} => caller.rest # <<>>
  /\ caller.pc \in {"idle", "compare"} => caller.todo = {}

GapsType == gaps \in [last : Times, start : Times]

History ==
  [delivered : [Tokens -> 0..MaxVersion], served : SUBSET Tokens,
   missed : SUBSET Tokens, suspect : SUBSET Tokens, lost : SUBSET Nat,
   unsynced : SUBSET Tokens, forgotten : SUBSET Tokens]

SeenType == seen \in History

\* What the threads have in hand and the socket serves is registered.
HandsRegistered ==
  /\ seen.served \subseteq Registered /\ reader.todo \subseteq Registered
  /\ reader.rest # <<>> => reader.rest[1] \in Registered
  /\ caller.todo \subseteq Registered
  /\ caller.pc \in {"compare", "apply"} => caller.token \in Registered

\* Which tokens the socket serves, and where the reader is with it.
Serving ==
  /\ socket.subs \subseteq seen.served
  /\ ~Live => socket.subs = {}
  /\ \A t \in Tokens \ socket.subs : socket.wire[t] = <<>>
  /\ reader.pc \in {"connect", "closing", "leaving", "off"} => ~Up
  /\ reader.pc = "opened" => socket.subs = {}
  /\ Live /\ reader.pc # "opened" => seen.served \subseteq socket.subs

\* The flags of the reader say where it is.
Flags ==
  /\ connected <=> reader.pc \in {"bootstrap", "stream"}
  /\ closed => reader.pc \in {"leaving", "off"}
  /\ reader.first => reader.pc = "connect"

\* What was lost since the last outage that was published lies in the one that
\* is open, or after the last data received.
LossFollowsData ==
  \A at \in seen.lost :
    IF gaps.start # None THEN gaps.start <= at ELSE gaps.last # None /\ gaps.last <= at

\* When no outage is open nothing was lost that the reader does not yet know
\* to be: it has not noticed, or every token served has settled.
LossOpensGap ==
  /\ reader.pc = "stream" => gaps.start = None
  /\ Live /\ gaps.start = None => seen.lost = {}
  /\ Live /\ gaps.start = None /\ reader.pc = "opened" => seen.served \subseteq settled
  /\ reader.first \/ reader.pc \in {"closing", "leaving", "off"} =>
       seen.lost = {} /\ seen.served \subseteq settled

\* A book that waits for its snapshot is on the list of the resync.
ResyncListed ==
  reader.pc = "bootstrap" =>
    \A t \in seen.served \ (settled \cup seen.unsynced \cup seen.forgotten \cup AtWork) :
      books[t].awaiting => t \in reader.todo

\* The reader is yet to list the tokens, or to fetch this one.
ReaderFetches(t) ==
  \/ reader.pc \in {"connect", "opened", "subscribed"}
  \/ reader.pc = "bootstrap" /\ t \in reader.todo

BookOn(s) == \E i \in DOMAIN s : s[i].kind = "book"

\* Someone is yet to fetch every book that waits, but those of a call that
\* raised.
SomeoneFetches ==
  \A t \in Registered \ (seen.missed \cup settled \cup seen.unsynced
                          \cup seen.forgotten \cup AtWork) :
    books[t].awaiting => ReaderFetches(t)

\* A book that waits is fetched by the reader, or on the wire, unless nothing
\* is sent on it, or the token is yet to be announced.
BookComes ==
  \A t \in Registered \ (seen.missed \cup settled \cup seen.unsynced \cup seen.suspect) :
    books[t].awaiting =>
      \/ ReaderFetches(t)
      \/ caller.pc = "added" /\ t \in caller.todo \ socket.subs
      \/ reader.pc \in {"bootstrap", "stream"} /\ ~Live
      \/ BookOn(socket.wire[t])

\* A book nobody serves is waiting or suspect.
UnservedIsSuspect ==
  \A t \in Registered : Quotable(t) => t \in seen.served \cup seen.suspect

\* What the reader was not handed is under way to it.
WireIsComplete ==
  Live => \A t \in socket.subs \ settled :
    (seen.delivered[t] + 1)..venue[t] \subseteq UnderWay(t)

\* A book that may be quoted from is served and misses only what is under way.
QuotableIsServed ==
  Live => \A t \in Registered \ (seen.suspect \cup settled) :
    Quotable(t) => t \in socket.subs /\ 1..venue[t] \subseteq books[t].has \cup UnderWay(t)

StreamInv ==
  /\ TypeOK /\ SocketType /\ BooksType /\ ReaderType /\ CallerType
  /\ GapsType /\ SeenType /\ HandsRegistered
  /\ Serving /\ Flags /\ LossFollowsData /\ LossOpensGap /\ ResyncListed
  /\ SomeoneFetches /\ BookComes /\ UnservedIsSuspect /\ WireIsComplete /\ QuotableIsServed

-----------------------------------------------------------------------------
(***************************************************************************)
(* Frames under way.                                                       *)
(***************************************************************************)

\* The changes a frame carries, and those of all frames of a wire.
Of(m) == IF m.kind = "book" THEN 1..m.v ELSE {m.v}

Carried(s) == UNION {Of(s[i]) : i \in DOMAIN s}

LEMMA UnderWayCarried ==
  ASSUME NEW t
  PROVE  /\ UnderWay(t) = Carried(socket.wire[t])
         /\ UnderWay(t)' = Carried(socket'.wire[t])
BY DEF UnderWay, Carried, Of

LEMMA NothingCarried == Carried(<<>>) = {}
BY DEF Carried

\* A frame that is sent is carried, and so is all that was.
LEMMA CarriedMore ==
  ASSUME NEW s \in Seq(Frame), NEW m \in Frame
  PROVE  Carried(Append(s, m)) = Carried(s) \cup Of(m)
<1> DEFINE a == Append(s, m)
<1>1. /\ Len(s) \in Nat /\ DOMAIN s = 1..Len(s) /\ DOMAIN a = 1..(Len(s) + 1)
      /\ a[Len(s) + 1] = m /\ \A i \in DOMAIN s : a[i] = s[i]
  OBVIOUS
<1> HIDE DEF a
<1>2. ASSUME NEW k \in Carried(a) PROVE k \in Carried(s) \cup Of(m)
  <2>1. PICK i \in DOMAIN a : k \in Of(a[i])
    BY <1>2 DEF Carried
  <2>2. CASE i = Len(s) + 1
    BY <1>1, <2>1, <2>2
  <2>3. CASE i \in DOMAIN s
    BY <1>1, <2>1, <2>3 DEF Carried
  <2> QED BY <1>1, <2>2, <2>3
<1>3. Carried(s) \subseteq Carried(a)
  <2>1. ASSUME NEW i \in DOMAIN s PROVE i \in DOMAIN a /\ a[i] = s[i]
    BY <1>1
  <2> QED BY <2>1 DEF Carried
<1>4. Of(m) \subseteq Carried(a)
  <2>1. Len(s) + 1 \in DOMAIN a
    BY <1>1
  <2> QED BY <1>1, <2>1 DEF Carried
<1> QED
  BY <1>2, <1>3, <1>4 DEF a

\* What is not carried by the frame received is still under way.
LEMMA CarriedRest ==
  ASSUME NEW s \in Seq(Frame), s # <<>>
  PROVE  /\ Head(s) \in Frame /\ Tail(s) \in Seq(Frame)
         /\ Carried(s) \subseteq Of(Head(s)) \cup Carried(Tail(s))
<1> DEFINE b == Tail(s)
<1>1. /\ Len(s) \in Nat \ {0} /\ DOMAIN s = 1..Len(s) /\ DOMAIN b = 1..(Len(s) - 1)
      /\ Head(s) = s[1] /\ \A i \in DOMAIN b : b[i] = s[i + 1]
  OBVIOUS
<1>2. Head(s) \in Frame /\ b \in Seq(Frame)
  OBVIOUS
<1> HIDE DEF b
<1>3. ASSUME NEW k \in Carried(s) PROVE k \in Of(Head(s)) \cup Carried(b)
  <2>1. PICK i \in DOMAIN s : k \in Of(s[i])
    BY <1>3 DEF Carried
  <2>2. CASE i = 1
    BY <1>1, <2>1, <2>2
  <2>3. CASE i # 1
    <3>1. i - 1 \in DOMAIN b /\ b[i - 1] = s[i]
      BY <1>1, <2>3
    <3> QED BY <2>1, <3>1 DEF Carried
  <2> QED BY <2>2, <2>3
<1> QED
  BY <1>2, <1>3 DEF b

\* A book on the wire stays there until it is received.
LEMMA BookOnRest ==
  ASSUME NEW s \in Seq(Frame), s # <<>>, Head(s).kind # "book", BookOn(s)
  PROVE  BookOn(Tail(s))
<1> DEFINE b == Tail(s)
<1>1. /\ Len(s) \in Nat \ {0} /\ DOMAIN s = 1..Len(s) /\ DOMAIN b = 1..(Len(s) - 1)
      /\ Head(s) = s[1] /\ \A i \in DOMAIN b : b[i] = s[i + 1]
  OBVIOUS
<1> HIDE DEF b
<1>2. PICK i \in DOMAIN s : s[i].kind = "book"
  BY DEF BookOn
<1>3. i # 1
  BY <1>1, <1>2
<1>4. i - 1 \in DOMAIN b /\ b[i - 1] = s[i]
  BY <1>1, <1>3
<1> QED
  BY <1>2, <1>4 DEF BookOn, b

LEMMA BookOnMore ==
  ASSUME NEW s \in Seq(Frame), NEW m \in Frame
  PROVE  /\ BookOn(s) => BookOn(Append(s, m))
         /\ m.kind = "book" => BookOn(Append(s, m))
<1> DEFINE a == Append(s, m)
<1>1. /\ Len(s) \in Nat /\ DOMAIN s = 1..Len(s) /\ DOMAIN a = 1..(Len(s) + 1)
      /\ a[Len(s) + 1] = m /\ \A i \in DOMAIN s : a[i] = s[i]
  OBVIOUS
<1> HIDE DEF a
<1>2. \A i \in DOMAIN s : i \in DOMAIN a
  BY <1>1
<1>3. Len(s) + 1 \in DOMAIN a
  BY <1>1
<1> QED
  BY <1>1, <1>2, <1>3 DEF BookOn, a

-----------------------------------------------------------------------------
(***************************************************************************)
(* The parts of a step.                                                    *)
(***************************************************************************)

LEMMA BookFrame ==
  ASSUME NEW v \in 0..MaxVersion
  PROVE  [kind |-> "book", v |-> v] \in Frame
BY DEF Frame

LEMMA SnapshotIsBook ==
  ASSUME NEW b, NEW v \in 0..MaxVersion
  PROVE  /\ ApplySnapshot(b, v) \in Book
         /\ ~ApplySnapshot(b, v).awaiting /\ ~ApplySnapshot(b, v).gap
         /\ ApplySnapshot(b, v).has = 1..v
<1>1. 1..v \subseteq 1..MaxVersion
  BY StreamAssumption
<1> QED
  BY <1>1 DEF ApplySnapshot, Book

\* The responses the threads hold.
LEMMA BootstrapInHand ==
  ASSUME ReaderType, HandsRegistered, reader.rest # <<>>
  PROVE  reader.rest[1] \in Registered /\ reader.rest[2] \in 0..MaxVersion
<1>1. reader.rest \in Tokens \X (0..MaxVersion)
  BY DEF ReaderType
<1> QED
  BY <1>1 DEF HandsRegistered

LEMMA ResponseInHand ==
  ASSUME CallerType, HandsRegistered, caller.pc \in {"compare", "apply"}
  PROVE  caller.token \in Registered /\ caller.rest[1] \in 0..MaxVersion
<1>1. caller.rest \in {<<v>> : v \in 0..MaxVersion}
  BY DEF CallerType
<1> QED
  BY <1>1 DEF HandsRegistered

\* A subscription adds tokens, and the book of each that was not served and
\* has not settled.
LEMMA SubscriptionSends ==
  ASSUME TypeOK, SocketType, NEW T, T \subseteq Tokens,
         NEW n, n = Subscribed(socket, T)
  PROVE  /\ n \in [state : {"none", "live", "silent", "broken"},
                   subs : SUBSET Tokens, wire : [Tokens -> Seq(Frame)]]
         /\ n.state = socket.state /\ n.subs = socket.subs \cup T
         /\ \A t \in Tokens :
              n.wire[t] = IF t \in T \ (socket.subs \cup settled)
                          THEN Append(socket.wire[t], [kind |-> "book", v |-> venue[t]])
                          ELSE socket.wire[t]
<1> DEFINE W == [t \in Tokens |->
                   IF t \in T \ (socket.subs \cup settled)
                   THEN Append(socket.wire[t], [kind |-> "book", v |-> venue[t]])
                   ELSE socket.wire[t]]
<1>1. W \in [Tokens -> Seq(Frame)]
  <2> SUFFICES ASSUME NEW t \in Tokens PROVE W[t] \in Seq(Frame)
    OBVIOUS
  <2>1. socket.wire[t] \in Seq(Frame) /\ [kind |-> "book", v |-> venue[t]] \in Frame
    BY BookFrame DEF TypeOK, SocketType
  <2> QED BY <2>1
<1>2. \A t \in Tokens :
        W[t] = IF t \in T \ (socket.subs \cup settled)
               THEN Append(socket.wire[t], [kind |-> "book", v |-> venue[t]])
               ELSE socket.wire[t]
  OBVIOUS
<1>3. n = [socket EXCEPT !.subs = socket.subs \cup T, !.wire = W]
  BY DEF Subscribed
<1> HIDE DEF W
<1>4. /\ n \in [state : {"none", "live", "silent", "broken"},
                subs : SUBSET Tokens, wire : [Tokens -> Seq(Frame)]]
      /\ n.state = socket.state /\ n.subs = socket.subs \cup T /\ n.wire = W
  BY <1>1, <1>3 DEF SocketType
<1> QED
  BY <1>2, <1>4

-----------------------------------------------------------------------------

LEMMA InitInv == Init => StreamInv
<1> SUFFICES ASSUME Init PROVE StreamInv
  OBVIOUS
<1> USE StreamAssumption
<1> USE DEF Init, Registered, NoSocket, NoWire, NewBook, Idle, None
<1>1. Registered = Initial /\ Initial \subseteq Tokens
  OBVIOUS
<1>2. TypeOK
  BY <1>1 DEF TypeOK
<1>3. SocketType /\ BooksType
  BY <1>1 DEF SocketType, BooksType, Book
<1>4. ReaderType /\ CallerType
  <2>1. reader.rest = <<>> /\ caller.rest = <<>> /\ caller.token = <<>>
    OBVIOUS
  <2>2. ReaderType
    BY <2>1 DEF ReaderType
  <2>3. CallerType
    BY <2>1 DEF CallerType
  <2> QED BY <2>2, <2>3
<1>5. GapsType /\ SeenType
  BY DEF GapsType, SeenType, History, Times
<1>6. HandsRegistered
  BY DEF HandsRegistered
<1>7. Serving /\ Flags
  BY DEF Serving, Flags, Live, Up
<1>8. LossFollowsData /\ LossOpensGap
  BY DEF LossFollowsData, LossOpensGap
<1>9. ResyncListed /\ SomeoneFetches /\ BookComes
  BY DEF ResyncListed, SomeoneFetches, BookComes, ReaderFetches
<1>10. UnservedIsSuspect
  BY DEF UnservedIsSuspect, Quotable
<1>11. WireIsComplete /\ QuotableIsServed
  BY DEF WireIsComplete, QuotableIsServed, Live
<1> QED
  BY <1>2, <1>3, <1>4, <1>5, <1>6, <1>7, <1>8, <1>9, <1>10, <1>11 DEF StreamInv

\* What travels stays a frame.
LEMMA SocketTypeNext ==
  ASSUME StreamInv, [Next]_vars
  PROVE  SocketType'
<1>0. TypeOK /\ SocketType /\ BooksType /\ CallerType /\ HandsRegistered
  BY DEF StreamInv
<1> USE StreamAssumption
<1> USE DEF SocketType, Registered, Live, NoSocket, NoWire, Hangup
<1>1. CASE Break
  BY <1>0, <1>1 DEF Break
<1>2. ASSUME NEW t \in Tokens, Change(t) PROVE SocketType'
  <2>1. venue[t] + 1 \in 1..MaxVersion /\ venue'[t] = venue[t] + 1
    BY <1>0, <1>2 DEF Change, TypeOK
  <2>2. [kind |-> "price_change", v |-> venue'[t]] \in Frame
    BY <2>1 DEF Frame
  <2>3. socket.wire[t] \in Seq(Frame)
    BY <1>0
  <2> DEFINE a == Append(socket.wire[t], [kind |-> "price_change", v |-> venue'[t]])
  <2>4. a \in Seq(Frame)
    BY <2>2, <2>3
  <2>5. socket' = [socket EXCEPT !.wire[t] = a] \/ socket' = socket
    BY <1>2 DEF Change
  <2> HIDE DEF a
  <2>6. CASE socket' = [socket EXCEPT !.wire[t] = a]
    <3>1. SocketType
      BY <1>0
    <3> QED BY <2>4, <2>6, <3>1
  <2> QED BY <1>0, <2>1, <2>5, <2>6
<1>3. CASE Connect
  <2>1. [t \in Tokens |-> <<>>] \in [Tokens -> Seq(Frame)]
    OBVIOUS
  <2> QED BY <1>3, <2>1 DEF Connect
<1>4. CASE Subscribe
  <2> DEFINE n == Subscribed(socket, Registered)
  <2>1. /\ n \in [state : {"none", "live", "silent", "broken"},
                  subs : SUBSET Tokens, wire : [Tokens -> Seq(Frame)]]
    <3>1. Registered \subseteq Tokens
      BY <1>0 DEF BooksType
    <3> QED BY <1>0, <3>1, SubscriptionSends
  <2>2. socket' = n \/ socket' = socket
    BY <1>4 DEF Subscribe
  <2> HIDE DEF n
  <2> QED BY <1>0, <2>1, <2>2
<1>5. ASSUME NEW t \in Tokens, Receive(t) PROVE SocketType'
  <2>1. socket.wire[t] \in Seq(Frame) /\ socket.wire[t] # <<>>
    BY <1>0, <1>5 DEF Receive
  <2>2. Tail(socket.wire[t]) \in Seq(Frame)
    BY <2>1, CarriedRest
  <2> QED BY <1>0, <1>5, <2>2 DEF Receive
<1>6. CASE Stall
  BY <1>0, <1>6 DEF Stall
<1>7. CASE Drop
  BY <1>0, <1>7 DEF Drop
<1>8. CASE VenueCloses
  BY <1>0, <1>8 DEF VenueCloses
<1>9. CASE Announce
  <2> DEFINE n == Subscribed(socket, caller.todo)
  <2>1. caller.todo \subseteq Tokens
    BY <1>0 DEF HandsRegistered, BooksType
  <2>2. /\ n \in [state : {"none", "live", "silent", "broken"},
                  subs : SUBSET Tokens, wire : [Tokens -> Seq(Frame)]]
    BY <1>0, <2>1, SubscriptionSends
  <2>3. socket' = n \/ socket' = socket
    BY <1>9 DEF Announce
  <2> HIDE DEF n
  <2> QED BY <1>0, <2>2, <2>3
<1>10. CASE \/ UNCHANGED vars \/ Tick \/ SetConnected \/ ApplyBootstrap
            \/ BootstrapDone \/ Exit \/ Compare \/ ApplyFetched
            \/ \E t \in Tokens : Settle(t) \/ CheckIntegrity(t) \/ Bootstrap(t) \/ FetchAdded(t)
            \/ \E T \in SUBSET Tokens \ {{}} : AddTokens(T)
  BY <1>0, <1>10
  DEF vars, Tick, Settle, AddTokens, CheckIntegrity, SetConnected,
      Bootstrap, ApplyBootstrap, BootstrapDone, Exit, FetchAdded,
      Compare, ApplyFetched
<1> QED
  BY <1>1, <1>2, <1>3, <1>4, <1>5, <1>6, <1>7, <1>8, <1>9, <1>10
  DEF Next, Reads, Calls

\* Every book stays one.
LEMMA BooksTypeNext ==
  ASSUME StreamInv, [Next]_vars
  PROVE  BooksType'
<1>0. SocketType /\ BooksType /\ ReaderType /\ CallerType /\ HandsRegistered
  BY DEF StreamInv
<1> USE DEF BooksType, Registered
<1>1. ASSUME NEW T \in SUBSET Tokens, AddTokens(T) PROVE BooksType'
  <2>1. NewBook \in Book
    BY DEF Book, NewBook
  <2>2. books' = [u \in Registered \cup T |-> IF u \in T THEN NewBook ELSE books[u]]
    BY <1>1 DEF AddTokens
  <2> QED BY <1>0, <2>1, <2>2
<1>2. CASE Connect
  <2>1. \A t \in Registered : [books[t] EXCEPT !.awaiting = TRUE] \in Book
    BY <1>0 DEF Book
  <2> QED BY <1>0, <1>2, <2>1 DEF Connect
<1>3. CASE ApplyBootstrap
  <2> DEFINE t == reader.rest[1]
             v == reader.rest[2]
  <2>1. t \in Registered /\ v \in 0..MaxVersion
    BY <1>0, <1>3, BootstrapInHand DEF ApplyBootstrap
  <2>2. books' = [books EXCEPT ![t] = ApplySnapshot(@, v)]
    BY <1>3 DEF ApplyBootstrap
  <2> HIDE DEF t, v
  <2>3. ApplySnapshot(books[t], v) \in Book
    BY <2>1, SnapshotIsBook
  <2> QED BY <1>0, <2>1, <2>2, <2>3
<1>4. ASSUME NEW t \in Tokens, Receive(t) PROVE BooksType'
  <2> DEFINE m == Head(socket.wire[t])
  <2>1. m \in Frame
    <3>1. socket.wire[t] \in Seq(Frame) /\ socket.wire[t] # <<>>
      BY <1>0, <1>4 DEF Receive, SocketType
    <3> QED BY <3>1, CarriedRest
  <2>2. \/ m.kind = "book" /\ books' = [books EXCEPT ![t] = ApplySnapshot(@, m.v)]
        \/ /\ m.kind = "price_change"
           /\ books' = [books EXCEPT ![t] = ApplyPriceChange(@, m.v)]
        \/ books' = books
    BY <1>4 DEF Receive
  <2> HIDE DEF m
  <2>3. m.v \in 0..MaxVersion /\ (m.kind = "price_change" => m.v \in 1..MaxVersion)
    BY <2>1, StreamAssumption DEF Frame
  <2>4. ASSUME t \in Registered
        PROVE  /\ ApplySnapshot(books[t], m.v) \in Book
               /\ m.kind = "price_change" => ApplyPriceChange(books[t], m.v) \in Book
    <3>1. books[t] \in Book
      BY <1>0, <2>4
    <3>2. m.kind = "price_change" => ApplyPriceChange(books[t], m.v) \in Book
      BY <2>3, <3>1 DEF ApplyPriceChange, Book
    <3> QED BY <2>3, <3>2, SnapshotIsBook
  <2>5. CASE m.kind = "book" /\ books' = [books EXCEPT ![t] = ApplySnapshot(@, m.v)]
    BY <1>0, <2>4, <2>5
  <2>6. CASE /\ m.kind = "price_change"
             /\ books' = [books EXCEPT ![t] = ApplyPriceChange(@, m.v)]
    BY <1>0, <2>4, <2>6
  <2> QED BY <1>0, <2>2, <2>5, <2>6
<1>5. CASE ApplyFetched
  <2> DEFINE t == caller.token
             v == caller.rest[1]
  <2>1. t \in Registered /\ v \in 0..MaxVersion
    BY <1>0, <1>5, ResponseInHand DEF ApplyFetched
  <2>2. books' = [books EXCEPT ![t] = ApplySnapshot(@, v)]
    BY <1>5 DEF ApplyFetched
  <2> HIDE DEF t, v
  <2>3. ApplySnapshot(books[t], v) \in Book
    BY <2>1, SnapshotIsBook
  <2> QED BY <1>0, <2>1, <2>2, <2>3
<1>6. CASE \/ UNCHANGED vars \/ Tick \/ Break \/ Subscribe \/ SetConnected
           \/ BootstrapDone \/ Stall \/ Drop \/ VenueCloses \/ Exit
           \/ Announce \/ Compare
           \/ \E t \in Tokens : \/ Change(t) \/ Settle(t) \/ CheckIntegrity(t)
                                \/ Bootstrap(t) \/ FetchAdded(t)
  BY <1>0, <1>6
  DEF vars, Tick, Break, Change, Settle, CheckIntegrity,
      Subscribe, SetConnected, Bootstrap, BootstrapDone, Stall,
      Drop, VenueCloses, Exit, Announce, FetchAdded, Compare
<1> QED
  BY <1>1, <1>2, <1>3, <1>4, <1>5, <1>6
  DEF Next, Reads, Calls

-----------------------------------------------------------------------------

\* What a snapshot that is applied changes of the history.
LEMMA SnapshotNoted ==
  ASSUME NEW s \in History, NEW t \in Tokens, NEW v, NEW n, n = AfterSnapshot(s, t, v)
  PROVE  /\ n \in History /\ n.delivered = s.delivered /\ n.served = s.served
         /\ n.missed = s.missed /\ n.lost = s.lost
         /\ n.suspect = IF v < s.delivered[t] \/ t \notin socket.subs
                        THEN s.suspect \cup {t} ELSE s.suspect \ {t}
         /\ n.unsynced = s.unsynced \ {t} /\ n.forgotten = s.forgotten \ {t}
BY DEF AfterSnapshot, History

\* The frame the reader takes.
LEMMA FrameInHand ==
  ASSUME SocketType, NEW t \in Tokens, socket.wire[t] # <<>>
  PROVE  /\ Head(socket.wire[t]) \in Frame
         /\ Head(socket.wire[t]).v \in 0..MaxVersion
<1> DEFINE m == Head(socket.wire[t])
<1>1. socket.wire[t] \in Seq(Frame)
  BY DEF SocketType
<1>2. m \in Frame
  BY <1>1, CarriedRest
<1> HIDE DEF m
<1>3. m.v \in 0..MaxVersion
  BY <1>2, StreamAssumption DEF Frame
<1> QED
  BY <1>2, <1>3 DEF m

\* What a frame that is handed over changes of the history.
LEMMA DeliveryNoted ==
  ASSUME NEW s \in History, NEW t \in Tokens, NEW v \in 0..MaxVersion, NEW n,
         n = [s EXCEPT !.delivered[t] = IF v > @ THEN v ELSE @,
                       !.lost = Accounted(@)]
  PROVE  /\ n \in History /\ n.served = s.served /\ n.missed = s.missed
         /\ n.suspect = s.suspect /\ n.unsynced = s.unsynced
         /\ n.forgotten = s.forgotten /\ n.lost = Accounted(s.lost)
         /\ n.delivered = [s.delivered EXCEPT ![t] = IF v > @ THEN v ELSE @]
<1>1. Accounted(s.lost) \subseteq Nat
  BY DEF Accounted, History
<1>2. [s.delivered EXCEPT ![t] = IF v > @ THEN v ELSE @] \in [Tokens -> 0..MaxVersion]
  BY DEF History
<1> QED
  BY <1>1, <1>2 DEF History

\* Registered tokens stay registered, and the caller is at work on a new one.
LEMMA RegisteredGrows ==
  ASSUME [Next]_vars
  PROVE  \/ Registered' = Registered
         \/ \E T \in SUBSET Tokens \ {{}} : /\ AddTokens(T)
                                            /\ Registered' = Registered \cup T
<1> USE DEF Registered
<1>1. CASE Connect
  BY <1>1 DEF Connect
<1>2. CASE ApplyBootstrap
  BY <1>2 DEF ApplyBootstrap
<1>3. ASSUME NEW t \in Tokens, Receive(t) PROVE Registered' = Registered
  BY <1>3 DEF Receive
<1>4. CASE ApplyFetched
  BY <1>4 DEF ApplyFetched
<1>5. ASSUME NEW T, AddTokens(T) PROVE Registered' = Registered \cup T
  BY <1>5 DEF AddTokens
<1>6. CASE books' = books
  BY <1>6
<1>7. \/ Connect \/ ApplyBootstrap \/ ApplyFetched \/ books' = books
      \/ \E t \in Tokens : Receive(t)
      \/ \E T \in SUBSET Tokens \ {{}} : AddTokens(T)
  BY DEF vars, Next, Reads, Calls, Tick, Break, Change, Settle, CheckIntegrity,
         Subscribe, SetConnected, Bootstrap, BootstrapDone, Stall, Drop,
         VenueCloses, Exit, Announce, FetchAdded, Compare
<1> QED
  BY <1>1, <1>2, <1>3, <1>4, <1>5, <1>6, <1>7

\* The reader is where its loop can be.
LEMMA ReaderTypeNext ==
  ASSUME StreamInv, [Next]_vars
  PROVE  ReaderType'
<1>0. TypeOK /\ ReaderType /\ BooksType
  BY DEF StreamInv
<1> USE DEF ReaderType, TypeOK, Registered, Hangup
<1>1. CASE Connect
  BY <1>0, <1>1 DEF Connect
<1>2. CASE Subscribe
  BY <1>0, <1>2 DEF Subscribe
<1>3. CASE SetConnected
  BY <1>0, <1>3 DEF SetConnected
<1>4. ASSUME NEW t \in Tokens, Bootstrap(t) PROVE ReaderType'
  BY <1>0, <1>4 DEF Bootstrap
<1>5. CASE ApplyBootstrap
  BY <1>0, <1>5 DEF ApplyBootstrap
<1>6. CASE BootstrapDone
  <2>1. /\ reader' = [reader EXCEPT !.pc = "stream", !.quiet = now]
        /\ connected' = connected /\ closed' = closed
    BY <1>6 DEF BootstrapDone
  <2>2. now \in Nat
    BY <1>0
  <2> QED BY <1>0, <2>1, <2>2
<1>7. ASSUME NEW t \in Tokens, Receive(t) PROVE ReaderType'
  BY <1>0, <1>7 DEF Receive
<1>8. CASE Stall
  BY <1>0, <1>8 DEF Stall
<1>9. CASE Drop
  BY <1>0, <1>9 DEF Drop
<1>10. CASE VenueCloses
  BY <1>0, <1>10 DEF VenueCloses
<1>11. CASE Exit
  BY <1>0, <1>11 DEF Exit
<1>12. CASE Announce
  BY <1>0, <1>12 DEF Announce
<1>13. CASE \/ UNCHANGED vars \/ Tick \/ Break \/ Compare \/ ApplyFetched
            \/ \E t \in Tokens : Change(t) \/ Settle(t) \/ CheckIntegrity(t) \/ FetchAdded(t)
            \/ \E T \in SUBSET Tokens \ {{}} : AddTokens(T)
  BY <1>0, <1>13
  DEF vars, Tick, Break, Change, Settle, AddTokens,
      CheckIntegrity, FetchAdded, Compare, ApplyFetched
<1> QED
  BY <1>1, <1>2, <1>3, <1>4, <1>5, <1>6, <1>7, <1>8, <1>9, <1>10, <1>11,
     <1>12, <1>13
  DEF Next, Reads, Calls

\* So is the caller.
LEMMA CallerTypeNext ==
  ASSUME StreamInv, [Next]_vars
  PROVE  CallerType'
<1>0. TypeOK /\ CallerType /\ BooksType /\ HandsRegistered
  BY DEF StreamInv
<1> USE DEF CallerType, TypeOK, Registered, Idle
<1>1. ASSUME NEW T \in SUBSET Tokens, AddTokens(T) PROVE CallerType'
  <2>1. caller' = [caller EXCEPT !.pc = "added", !.todo = T]
    BY <1>1 DEF AddTokens
  <2> QED BY <1>0, <2>1
<1>2. ASSUME NEW t \in Tokens, CheckIntegrity(t) PROVE CallerType'
  <2>1. caller' = [Idle EXCEPT !.pc = "compare", !.token = t, !.rest = <<venue[t]>>]
    BY <1>2 DEF CheckIntegrity
  <2>2. <<venue[t]>> \in {<<v>> : v \in 0..MaxVersion} /\ <<venue[t]>> # <<>>
    BY <1>0
  <2> DEFINE rest == <<venue[t]>>
  <2>3. caller' = [pc |-> "compare", todo |-> {}, token |-> t, rest |-> rest]
    BY <2>1
  <2>4. rest \in {<<v>> : v \in 0..MaxVersion} /\ rest # <<>>
    BY <2>2
  <2> HIDE DEF rest
  <2> QED BY <2>3, <2>4
<1>3. CASE Announce
  <2>1. caller' = Idle \/ caller' = [caller EXCEPT !.pc = "fetch"]
    BY <1>3 DEF Announce
  <2> QED BY <1>0, <2>1
<1>4. ASSUME NEW t \in Tokens, FetchAdded(t) PROVE CallerType'
  <2> DEFINE rest == <<venue[t]>>
             todo == caller.todo \ {t}
  <2>1. \/ caller' = Idle
        \/ caller' = [pc |-> "apply", todo |-> todo, token |-> t, rest |-> rest]
    BY <1>4 DEF FetchAdded
  <2>2. rest \in {<<v>> : v \in 0..MaxVersion} /\ rest # <<>> /\ todo \in SUBSET Tokens
    BY <1>0
  <2> HIDE DEF rest, todo
  <2> QED BY <2>1, <2>2
<1>5. CASE Compare
  BY <1>0, <1>5 DEF Compare
<1>6. CASE ApplyFetched
  <2>1. \/ caller' = Idle
        \/ caller' = [pc |-> "fetch", todo |-> caller.todo, token |-> <<>>, rest |-> <<>>]
    BY <1>6 DEF ApplyFetched
  <2>2. caller.todo \in SUBSET Tokens
    BY <1>0
  <2>3. CASE caller' = Idle
    BY <2>3
  <2>4. CASE caller' = [pc |-> "fetch", todo |-> caller.todo, token |-> <<>>, rest |-> <<>>]
    <3>1. /\ caller'.pc = "fetch" /\ caller'.rest = <<>>
          /\ caller' \in [pc : {"idle", "added", "fetch", "compare", "apply"},
                          todo : SUBSET Tokens, token : {<<>>} \cup Tokens,
                          rest : {<<>>} \cup {<<v>> : v \in 0..MaxVersion}]
      BY <2>2, <2>4
    <3> QED BY <3>1
  <2> QED BY <2>1, <2>3, <2>4
<1>7. CASE \/ UNCHANGED vars \/ Tick \/ Break \/ Connect \/ Subscribe
           \/ SetConnected \/ ApplyBootstrap \/ BootstrapDone \/ Stall \/ Drop
           \/ VenueCloses \/ Exit
           \/ \E t \in Tokens : Change(t) \/ Settle(t) \/ Bootstrap(t) \/ Receive(t)
  BY <1>0, <1>7
  DEF vars, Tick, Break, Change, Settle, Connect, Subscribe,
      SetConnected, Bootstrap, ApplyBootstrap, BootstrapDone,
      Receive, Stall, Drop, VenueCloses, Exit
<1> QED
  BY <1>1, <1>2, <1>3, <1>4, <1>5, <1>6, <1>7
  DEF Next, Reads, Calls

\* Data and outages are not in the future.
LEMMA GapsTypeNext ==
  ASSUME StreamInv, [Next]_vars
  PROVE  GapsType'
<1>0. TypeOK /\ GapsType
  BY DEF StreamInv
<1> USE DEF GapsType, Times, TypeOK, None
<1>1. CASE Tick
  BY <1>0, <1>1 DEF Tick
<1>2. CASE Connect
  BY <1>0, <1>2 DEF Connect, Begin
<1>3. CASE BootstrapDone
  BY <1>0, <1>3 DEF BootstrapDone, Close
<1>4. ASSUME NEW t \in Tokens, Receive(t) PROVE GapsType'
  BY <1>0, <1>4 DEF Receive, NoteData, Close
<1>5. CASE Stall
  BY <1>0, <1>5 DEF Stall, Begin
<1>6. CASE \/ UNCHANGED vars \/ Break \/ Subscribe \/ SetConnected
           \/ ApplyBootstrap \/ Drop \/ VenueCloses \/ Exit \/ Announce
           \/ Compare \/ ApplyFetched
           \/ \E t \in Tokens : \/ Change(t) \/ Settle(t) \/ CheckIntegrity(t)
                                \/ Bootstrap(t) \/ FetchAdded(t)
           \/ \E T \in SUBSET Tokens \ {{}} : AddTokens(T)
  BY <1>0, <1>6
  DEF vars, Break, Change, Settle, AddTokens, CheckIntegrity,
      Subscribe, SetConnected, Bootstrap, ApplyBootstrap, Drop,
      VenueCloses, Exit, Announce, FetchAdded, Compare,
      ApplyFetched
<1> QED
  BY <1>1, <1>2, <1>3, <1>4, <1>5, <1>6
  DEF Next, Reads, Calls

\* The history is one of tokens and times.
LEMMA SeenTypeNext ==
  ASSUME StreamInv, [Next]_vars
  PROVE  SeenType'
<1>0. /\ TypeOK /\ SocketType /\ BooksType /\ ReaderType
      /\ CallerType /\ SeenType /\ HandsRegistered
  BY DEF StreamInv
<1> USE DEF SeenType
<1>1. CASE Break
  <2>1. now \in Nat
    BY <1>0 DEF TypeOK
  <2>2. PICK lost \in {seen.lost, seen.lost \cup {now}} :
          seen' = [seen EXCEPT !.lost = lost]
    BY <1>1 DEF Break
  <2>3. lost \subseteq Nat
    BY <1>0, <2>1, <2>2 DEF History
  <2> QED BY <1>0, <2>2, <2>3 DEF History
<1>2. ASSUME NEW t \in Tokens, Change(t) PROVE SeenType'
  <2>1. now \in Nat
    BY <1>0 DEF TypeOK
  <2>2. \/ seen' = seen
        \/ \E lost \in {seen.lost, seen.lost \cup {now}} :
             seen' = [seen EXCEPT !.lost = lost]
    BY <1>2 DEF Change
  <2>3. CASE seen' = seen
    BY <1>0, <2>3
  <2>4. ASSUME NEW lost \in {seen.lost, seen.lost \cup {now}},
               seen' = [seen EXCEPT !.lost = lost]
        PROVE  SeenType'
    <3>1. lost \subseteq Nat
      BY <1>0, <2>1, <2>4 DEF History
    <3> QED BY <1>0, <2>4, <3>1 DEF History
  <2> QED BY <2>2, <2>3, <2>4
<1>3. CASE Subscribe
  <2>1. \/ seen' = seen
        \/ seen' = [seen EXCEPT !.served = @ \cup Registered, !.missed = @ \ Registered]
    BY <1>3 DEF Subscribe
  <2>2. Registered \subseteq Tokens
    BY <1>0 DEF BooksType
  <2> QED BY <1>0, <2>1, <2>2 DEF History
<1>4. ASSUME NEW t \in Tokens, Bootstrap(t) PROVE SeenType'
  BY <1>0, <1>4 DEF Bootstrap, History
<1>5. CASE ApplyBootstrap
  <2> DEFINE t == reader.rest[1]
             v == reader.rest[2]
  <2>1. t \in Tokens /\ seen' = AfterSnapshot(seen, t, v)
    BY <1>0, <1>5, BootstrapInHand DEF ApplyBootstrap, BooksType
  <2> HIDE DEF t, v
  <2> QED BY <1>0, <2>1, SnapshotNoted
<1>6. CASE BootstrapDone
  <2>1. Accounted(seen.lost) \subseteq Nat
    BY <1>0 DEF Accounted, History
  <2>2. seen' = [seen EXCEPT !.lost = Accounted(@)]
    BY <1>6 DEF BootstrapDone
  <2> QED BY <1>0, <2>1, <2>2 DEF History
<1>7. ASSUME NEW t \in Tokens, Receive(t) PROVE SeenType'
  <2> DEFINE m == Head(socket.wire[t])
             told == [seen EXCEPT !.delivered[t] = IF m.v > @ THEN m.v ELSE @,
                                  !.lost = Accounted(@)]
  <2>1. m.v \in 0..MaxVersion
    BY <1>0, <1>7, FrameInHand DEF Receive
  <2>2. \/ seen' = AfterSnapshot(told, t, m.v)
        \/ seen' = told
        \/ seen' = [told EXCEPT !.suspect = @ \cup {t}]
    BY <1>7 DEF Receive
  <2> HIDE DEF m
  <2>3. told \in History
    BY <1>0, <2>1, DeliveryNoted
  <2> HIDE DEF told
  <2>4. CASE seen' = AfterSnapshot(told, t, m.v)
    BY <2>3, <2>4, SnapshotNoted
  <2>5. CASE seen' = [told EXCEPT !.suspect = @ \cup {t}]
    BY <2>3, <2>5 DEF History
  <2> QED BY <2>2, <2>3, <2>4, <2>5
<1>8. CASE Announce
  <2> DEFINE T == caller.todo
             M == caller.todo \ socket.subs
  <2>1. \/ seen' = seen
        \/ seen' = [seen EXCEPT !.missed = @ \cup T]
        \/ seen' = [seen EXCEPT !.served = @ \cup T]
        \/ seen' = [seen EXCEPT !.missed = @ \cup M]
    BY <1>8 DEF Announce
  <2>2. T \subseteq Tokens /\ M \subseteq Tokens
    BY <1>0 DEF CallerType
  <2> HIDE DEF T, M
  <2>3. CASE seen' = [seen EXCEPT !.missed = @ \cup T]
    BY <1>0, <2>2, <2>3 DEF History
  <2>4. CASE seen' = [seen EXCEPT !.served = @ \cup T]
    BY <1>0, <2>2, <2>4 DEF History
  <2>5. CASE seen' = [seen EXCEPT !.missed = @ \cup M]
    BY <1>0, <2>2, <2>5 DEF History
  <2> QED BY <1>0, <2>1, <2>3, <2>4, <2>5
<1>9. ASSUME NEW t \in Tokens, FetchAdded(t) PROVE SeenType'
  <2> DEFINE rest == caller.todo \ {t}
  <2>1. \/ seen' = seen
        \/ seen' = [seen EXCEPT !.unsynced = @ \cup {t}, !.forgotten = @ \cup rest]
    BY <1>9 DEF FetchAdded
  <2>2. rest \subseteq Tokens
    BY <1>0 DEF CallerType
  <2> HIDE DEF rest
  <2>3. CASE seen' = [seen EXCEPT !.unsynced = @ \cup {t}, !.forgotten = @ \cup rest]
    BY <1>0, <2>2, <2>3 DEF History
  <2> QED BY <1>0, <2>1, <2>3
<1>10. CASE ApplyFetched
  <2> DEFINE t == caller.token
             v == caller.rest[1]
  <2>1. t \in Tokens /\ seen' = AfterSnapshot(seen, t, v)
    BY <1>0, <1>10, ResponseInHand DEF ApplyFetched, BooksType
  <2> HIDE DEF t, v
  <2> QED BY <1>0, <2>1, SnapshotNoted
<1>11. CASE SetConnected
  <2>1. seen' = [seen EXCEPT !.forgotten = @ \ Registered]
    BY <1>11 DEF SetConnected
  <2> QED BY <1>0, <2>1 DEF History
<1>12. CASE \/ UNCHANGED vars \/ Tick \/ Connect \/ Stall
            \/ Drop \/ VenueCloses \/ Exit \/ Compare
            \/ \E t \in Tokens : Settle(t) \/ CheckIntegrity(t)
            \/ \E T \in SUBSET Tokens \ {{}} : AddTokens(T)
  BY <1>0, <1>12
  DEF vars, Tick, Settle, AddTokens, CheckIntegrity, Connect,
      Stall, Drop, VenueCloses, Exit, Compare
<1> QED
  BY <1>1, <1>2, <1>3, <1>4, <1>5, <1>6, <1>7, <1>8, <1>9, <1>10, <1>11, <1>12
  DEF Next, Reads, Calls

-----------------------------------------------------------------------------
(***************************************************************************)
(* What each step does, field by field.                                    *)
(***************************************************************************)

SameHistory(s, n) ==
  /\ n.delivered = s.delivered /\ n.served = s.served /\ n.missed = s.missed
  /\ n.suspect = s.suspect /\ n.unsynced = s.unsynced /\ n.forgotten = s.forgotten

SameReader(r, n) ==
  n.todo = r.todo /\ n.rest = r.rest /\ n.first = r.first

LEMMA BreakDoes ==
  ASSUME StreamInv, Break
  PROVE  /\ Live /\ ~Live' /\ Up' /\ socket'.subs = {}
         /\ \A t \in Tokens : socket'.wire[t] = <<>>
         /\ SameHistory(seen, seen')
         /\ \/ seen'.lost = seen.lost
            \/ gaps.last # None /\ seen'.lost = seen.lost \cup {now}
         /\ UNCHANGED <<now, venue, settled, books, reader, connected, closed,
                        caller, gaps>>
<1>0. SeenType
  BY DEF StreamInv
<1>1. PICK lost \in {seen.lost, seen.lost \cup {now}} :
        /\ seen' = [seen EXCEPT !.lost = lost]
        /\ lost = seen.lost \/ gaps.last # None
  BY DEF Break
<1>2. SameHistory(seen, seen') /\ seen'.lost = lost
  BY <1>0, <1>1 DEF SeenType, History, SameHistory
<1>3. /\ socket'.state \in {"broken", "silent"} /\ socket'.subs = {}
      /\ \A t \in Tokens : socket'.wire[t] = <<>>
  BY DEF Break, NoWire
<1>4. /\ Live /\ UNCHANGED <<now, venue, settled, books, reader, connected,
                             closed, caller, gaps>>
  BY DEF Break
<1> QED
  BY <1>1, <1>2, <1>3, <1>4 DEF Live, Up

LEMMA ChangeDoes ==
  ASSUME StreamInv, NEW t \in Tokens, Change(t)
  PROVE  /\ t \notin settled /\ venue[t] + 1 \in 1..MaxVersion
         /\ venue'[t] = venue[t] + 1
         /\ \A u \in Tokens \ {t} : venue'[u] = venue[u]
         /\ socket'.state = socket.state /\ socket'.subs = socket.subs
         /\ \A u \in Tokens \ {t} : socket'.wire[u] = socket.wire[u]
         /\ SameHistory(seen, seen')
         /\ UNCHANGED <<now, settled, books, reader, connected, closed, caller, gaps>>
         /\ \/ /\ Live /\ t \in socket.subs /\ seen' = seen
               /\ socket'.wire[t] =
                    Append(socket.wire[t], [kind |-> "price_change", v |-> venue[t] + 1])
            \/ /\ ~(Live /\ t \in socket.subs) /\ socket' = socket
               /\ seen'.lost = IF t \in seen.served /\ gaps.last # None
                               THEN seen.lost \cup {now} ELSE seen.lost
<1>0. TypeOK /\ SocketType /\ SeenType
  BY DEF StreamInv
<1>1. /\ t \notin settled /\ venue[t] + 1 \in 1..MaxVersion
      /\ venue'[t] = venue[t] + 1 /\ \A u \in Tokens \ {t} : venue'[u] = venue[u]
  BY <1>0, StreamAssumption DEF Change, TypeOK
<1>2. UNCHANGED <<now, settled, books, reader, connected, closed, caller, gaps>>
  BY DEF Change
<1>3. CASE Live /\ t \in socket.subs
  <2> DEFINE a == Append(socket.wire[t], [kind |-> "price_change", v |-> venue[t] + 1])
  <2>1. socket' = [socket EXCEPT !.wire[t] = a] /\ seen' = seen
    BY <1>1, <1>3 DEF Change
  <2> HIDE DEF a
  <2>2. /\ socket'.state = socket.state /\ socket'.subs = socket.subs
        /\ socket'.wire[t] = a
        /\ \A u \in Tokens \ {t} : socket'.wire[u] = socket.wire[u]
    BY <1>0, <2>1 DEF SocketType
  <2> QED BY <1>1, <1>2, <1>3, <2>1, <2>2 DEF a, SameHistory
<1>4. CASE ~(Live /\ t \in socket.subs)
  <2> DEFINE lost == IF t \in seen.served /\ gaps.last # None
                     THEN seen.lost \cup {now} ELSE seen.lost
  <2>1. seen' = [seen EXCEPT !.lost = lost] /\ socket' = socket
    BY <1>4 DEF Change
  <2> HIDE DEF lost
  <2>2. SameHistory(seen, seen') /\ seen'.lost = lost
    BY <1>0, <2>1 DEF SeenType, History, SameHistory
  <2> QED BY <1>1, <1>2, <1>4, <2>1, <2>2 DEF lost
<1> QED
  BY <1>3, <1>4

LEMMA ConnectDoes ==
  ASSUME StreamInv, Connect
  PROVE  /\ reader.pc = "connect" /\ ~Up /\ Live' /\ socket'.subs = {}
         /\ \A t \in Tokens : socket'.wire[t] = <<>>
         /\ reader'.pc = "opened" /\ ~reader'.first
         /\ reader'.todo = reader.todo /\ reader'.rest = reader.rest
         /\ gaps' = IF reader.first THEN gaps ELSE Begin(gaps)
         /\ Registered' = Registered
         /\ reader.first => books' = books
         /\ ~reader.first => \A t \in Registered : books'[t].awaiting
         /\ UNCHANGED <<now, venue, settled, connected, closed, caller, seen>>
<1>0. ReaderType /\ BooksType
  BY DEF StreamInv
<1>1. /\ reader' = [reader EXCEPT !.pc = "opened", !.first = FALSE]
      /\ reader.pc = "connect" /\ ~Up /\ socket' = [NoSocket EXCEPT !.state = "live"]
  BY DEF Connect
<1>2. /\ reader'.pc = "opened" /\ ~reader'.first
      /\ reader'.todo = reader.todo /\ reader'.rest = reader.rest
  BY <1>0, <1>1 DEF ReaderType
<1>3. /\ Live' /\ socket'.subs = {} /\ \A t \in Tokens : socket'.wire[t] = <<>>
  BY <1>1 DEF NoSocket, NoWire, Live
<1>4. /\ Registered' = Registered
      /\ reader.first => books' = books
      /\ ~reader.first => \A t \in Registered : books'[t].awaiting
  <2>1. CASE reader.first
    BY <2>1 DEF Connect, Registered
  <2>2. CASE ~reader.first
    <3>1. books' = [t \in Registered |-> [books[t] EXCEPT !.awaiting = TRUE]]
      BY <2>2 DEF Connect
    <3>2. \A t \in Registered : [books[t] EXCEPT !.awaiting = TRUE].awaiting
      BY <1>0 DEF BooksType, Book
    <3> QED BY <2>2, <3>1, <3>2 DEF Registered
  <2> QED BY <2>1, <2>2, <1>0 DEF ReaderType
<1>5. /\ gaps' = IF reader.first THEN gaps ELSE Begin(gaps)
      /\ UNCHANGED <<now, venue, settled, connected, closed, caller, seen>>
  BY DEF Connect
<1> QED
  BY <1>1, <1>2, <1>3, <1>4, <1>5

\* A subscription of the tokens in T.
Subscribes(T) ==
  /\ socket'.state = socket.state /\ socket'.subs = socket.subs \cup T
  /\ \A t \in Tokens :
       socket'.wire[t] = IF t \in T \ (socket.subs \cup settled)
                         THEN Append(socket.wire[t], [kind |-> "book", v |-> venue[t]])
                         ELSE socket.wire[t]
  /\ seen'.delivered = seen.delivered /\ seen'.served = seen.served \cup T
  /\ seen'.suspect = seen.suspect /\ seen'.unsynced = seen.unsynced
  /\ seen'.forgotten = seen.forgotten /\ seen'.lost = seen.lost

LEMMA SubscribeDoes ==
  ASSUME StreamInv, Subscribe
  PROVE  /\ reader.pc = "opened" /\ reader'.pc = "subscribed"
         /\ SameReader(reader, reader') /\ Up /\ Up'
         /\ \/ /\ Live /\ Live' /\ Subscribes(Registered)
               /\ seen'.missed = seen.missed \ Registered
            \/ ~Live /\ socket' = socket /\ seen' = seen
         /\ UNCHANGED <<now, venue, settled, books, connected, closed, caller, gaps>>
<1>0. TypeOK /\ SocketType /\ BooksType /\ ReaderType /\ SeenType
  BY DEF StreamInv
<1>1. /\ reader.pc = "opened" /\ reader'.pc = "subscribed"
      /\ SameReader(reader, reader') /\ Up
      /\ UNCHANGED <<now, venue, settled, books, connected, closed, caller, gaps>>
  BY <1>0 DEF Subscribe, ReaderType, SameReader, Up
<1>2. CASE ~Live
  BY <1>1, <1>2 DEF Subscribe, Up
<1>3. CASE Live
  <2> DEFINE n == Subscribed(socket, Registered)
  <2>1. /\ socket' = n
        /\ seen' = [seen EXCEPT !.served = @ \cup Registered, !.missed = @ \ Registered]
    BY <1>3 DEF Subscribe
  <2>2. Registered \subseteq Tokens
    BY <1>0 DEF BooksType
  <2>3. /\ n.state = socket.state /\ n.subs = socket.subs \cup Registered
        /\ \A t \in Tokens :
             n.wire[t] = IF t \in Registered \ (socket.subs \cup settled)
                         THEN Append(socket.wire[t], [kind |-> "book", v |-> venue[t]])
                         ELSE socket.wire[t]
    BY <1>0, <2>2, SubscriptionSends
  <2> HIDE DEF n
  <2>4. /\ seen'.delivered = seen.delivered /\ seen'.served = seen.served \cup Registered
        /\ seen'.suspect = seen.suspect /\ seen'.unsynced = seen.unsynced
        /\ seen'.forgotten = seen.forgotten
        /\ seen'.lost = seen.lost /\ seen'.missed = seen.missed \ Registered
    BY <1>0, <2>1 DEF SeenType, History
  <2>5. Subscribes(Registered)
    BY <2>1, <2>3, <2>4 DEF Subscribes
  <2> QED BY <1>1, <1>3, <2>1, <2>3, <2>4, <2>5 DEF Live, Up
<1> QED
  BY <1>2, <1>3

LEMMA SetConnectedDoes ==
  ASSUME StreamInv, SetConnected
  PROVE  /\ reader.pc = "subscribed" /\ reader'.pc = "bootstrap" /\ connected'
         /\ reader'.todo = Registered /\ reader'.rest = reader.rest
         /\ reader'.first = reader.first
         /\ UNCHANGED <<now, venue, settled, socket, books, closed, caller, gaps>>
         /\ seen'.delivered = seen.delivered /\ seen'.served = seen.served
         /\ seen'.missed = seen.missed /\ seen'.suspect = seen.suspect
         /\ seen'.unsynced = seen.unsynced /\ seen'.lost = seen.lost
         /\ seen'.forgotten = seen.forgotten \ Registered
BY DEF StreamInv, SetConnected, ReaderType, SeenType, History

LEMMA BootstrapDoes ==
  ASSUME StreamInv, NEW t \in Tokens, Bootstrap(t)
  PROVE  /\ reader.pc = "bootstrap" /\ reader'.pc = "bootstrap"
         /\ reader.rest = <<>> /\ t \in reader.todo
         /\ reader'.first = reader.first
         /\ UNCHANGED <<now, venue, settled, socket, books, connected, closed,
                        caller, gaps>>
         /\ seen'.delivered = seen.delivered /\ seen'.served = seen.served
         /\ seen'.missed = seen.missed /\ seen'.suspect = seen.suspect
         /\ seen'.forgotten = seen.forgotten /\ seen'.lost = seen.lost
         /\ \/ /\ t \notin settled /\ seen' = seen
               /\ reader'.todo = reader.todo /\ reader'.rest = <<t, venue[t]>>
            \/ /\ t \in settled /\ seen' = seen
               /\ reader'.todo = reader.todo \ {t} /\ reader'.rest = reader.rest
            \/ /\ seen'.unsynced = seen.unsynced \cup {t}
               /\ reader'.todo = reader.todo \ {t} /\ reader'.rest = reader.rest
<1>0. ReaderType /\ SeenType
  BY DEF StreamInv
<1>1. /\ reader.pc = "bootstrap" /\ reader.rest = <<>> /\ t \in reader.todo
      /\ UNCHANGED <<now, venue, settled, socket, books, connected, closed,
                     caller, gaps>>
  BY DEF Bootstrap
<1> DEFINE r == <<t, venue[t]>>
<1>2. \/ /\ t \notin settled /\ seen' = seen
         /\ reader' = [reader EXCEPT !.rest = r]
      \/ /\ t \in settled /\ seen' = seen
         /\ reader' = [reader EXCEPT !.todo = @ \ {t}]
      \/ /\ seen' = [seen EXCEPT !.unsynced = @ \cup {t}]
         /\ reader' = [reader EXCEPT !.todo = @ \ {t}]
  BY DEF Bootstrap
<1> HIDE DEF r
<1>3. CASE t \notin settled /\ seen' = seen /\ reader' = [reader EXCEPT !.rest = r]
  <2>1. /\ reader'.pc = reader.pc /\ reader'.first = reader.first
        /\ reader'.todo = reader.todo /\ reader'.rest = r
    BY <1>0, <1>3 DEF ReaderType
  <2> QED BY <1>1, <1>3, <2>1 DEF r
<1>4. CASE reader' = [reader EXCEPT !.todo = @ \ {t}]
  <2>1. /\ reader'.pc = reader.pc /\ reader'.first = reader.first
        /\ reader'.todo = reader.todo \ {t} /\ reader'.rest = reader.rest
    BY <1>0, <1>4 DEF ReaderType
  <2>2. CASE t \in settled /\ seen' = seen
    BY <1>1, <2>1, <2>2
  <2>3. CASE seen' = [seen EXCEPT !.unsynced = @ \cup {t}]
    <3>1. /\ seen'.delivered = seen.delivered /\ seen'.served = seen.served
          /\ seen'.missed = seen.missed /\ seen'.suspect = seen.suspect
          /\ seen'.forgotten = seen.forgotten
          /\ seen'.lost = seen.lost /\ seen'.unsynced = seen.unsynced \cup {t}
      BY <1>0, <2>3 DEF SeenType, History
    <3> QED BY <1>1, <2>1, <3>1
  <2>4. CASE t \notin settled /\ seen' = seen /\ reader' = [reader EXCEPT !.rest = r]
    BY <1>3, <2>4
  <2> QED BY <1>2, <2>2, <2>3, <2>4
<1> QED
  BY <1>2, <1>3, <1>4

\* A response of REST that becomes the book of token t, as of change v.
Replaces(t, v) ==
  /\ t \in Registered /\ v \in 0..MaxVersion
  /\ Registered' = Registered
  /\ ~books'[t].awaiting /\ ~books'[t].gap /\ books'[t].has = 1..v
  /\ \A u \in Registered \ {t} : books'[u] = books[u]

\* What is noted of it.
Noted(t, v) ==
  /\ seen'.delivered = seen.delivered /\ seen'.served = seen.served
  /\ seen'.missed = seen.missed /\ seen'.lost = seen.lost
  /\ seen'.suspect = IF v < seen.delivered[t] \/ t \notin socket.subs
                     THEN seen.suspect \cup {t} ELSE seen.suspect \ {t}
  /\ seen'.unsynced = seen.unsynced \ {t}
  /\ seen'.forgotten = seen.forgotten \ {t}

LEMMA SnapshotReplaces ==
  ASSUME BooksType, NEW t \in Registered, NEW v \in 0..MaxVersion,
         books' = [books EXCEPT ![t] = ApplySnapshot(@, v)]
  PROVE  Replaces(t, v)
<1> DEFINE b == ApplySnapshot(books[t], v)
<1>1. ~b.awaiting /\ ~b.gap /\ b.has = 1..v
  BY SnapshotIsBook
<1> HIDE DEF b
<1>2. /\ Registered' = Registered /\ books'[t] = b
      /\ \A u \in Registered \ {t} : books'[u] = books[u]
  BY DEF BooksType, Registered, b
<1> QED
  BY <1>1, <1>2 DEF Replaces

LEMMA ApplyBootstrapDoes ==
  ASSUME StreamInv, ApplyBootstrap
  PROVE  /\ reader.pc = "bootstrap" /\ reader'.pc = "bootstrap"
         /\ reader'.rest = <<>> /\ reader'.first = reader.first
         /\ \E t \in Tokens : \E v \in 0..MaxVersion :
              Replaces(t, v) /\ Noted(t, v) /\ reader'.todo = reader.todo \ {t}
         /\ UNCHANGED <<now, venue, settled, socket, connected, closed, caller, gaps>>
<1>0. BooksType /\ ReaderType /\ SeenType /\ HandsRegistered
  BY DEF StreamInv
<1>1. /\ reader.pc = "bootstrap" /\ reader.rest # <<>>
      /\ UNCHANGED <<now, venue, settled, socket, connected, closed, caller, gaps>>
  BY DEF ApplyBootstrap
<1> DEFINE t == reader.rest[1]
           v == reader.rest[2]
<1>2. t \in Registered /\ v \in 0..MaxVersion
  BY <1>0, <1>1, BootstrapInHand
<1>3. /\ books' = [books EXCEPT ![t] = ApplySnapshot(@, v)]
      /\ seen' = AfterSnapshot(seen, t, v)
      /\ reader' = [reader EXCEPT !.rest = <<>>, !.todo = @ \ {t}]
  BY DEF ApplyBootstrap
<1> HIDE DEF t, v
<1>4. /\ reader'.pc = reader.pc /\ reader'.rest = <<>> /\ reader'.first = reader.first
      /\ reader'.todo = reader.todo \ {t}
  BY <1>0, <1>3 DEF ReaderType
<1>5. Replaces(t, v)
  BY <1>0, <1>2, <1>3, SnapshotReplaces
<1>6. t \in Tokens /\ seen \in History
  BY <1>0, <1>2 DEF BooksType, SeenType
<1>7. Noted(t, v)
  <2>1. seen' = AfterSnapshot(seen, t, v)
    BY <1>3
  <2> QED BY <1>6, <2>1 DEF Noted, AfterSnapshot, History
<1> QED
  BY <1>1, <1>2, <1>4, <1>5, <1>6, <1>7

LEMMA ApplyFetchedDoes ==
  ASSUME StreamInv, ApplyFetched
  PROVE  /\ caller.pc = "apply" /\ caller'.todo = caller.todo
         /\ \/ caller' = Idle
            \/ caller'.pc = "fetch"
         /\ \E v \in 0..MaxVersion :
              Replaces(caller.token, v) /\ Noted(caller.token, v)
         /\ caller.token \in Tokens
         /\ UNCHANGED <<now, venue, settled, socket, reader, connected, closed, gaps>>
<1>0. BooksType /\ CallerType /\ SeenType /\ HandsRegistered
  BY DEF StreamInv
<1>1. /\ caller.pc = "apply"
      /\ UNCHANGED <<now, venue, settled, socket, reader, connected, closed, gaps>>
  BY DEF ApplyFetched
<1>7. caller'.todo = caller.todo /\ (caller' = Idle \/ caller'.pc = "fetch")
  BY DEF ApplyFetched, Idle
<1> DEFINE t == caller.token
           v == caller.rest[1]
<1>2. t \in Registered /\ v \in 0..MaxVersion
  BY <1>0, <1>1, ResponseInHand
<1>3. /\ books' = [books EXCEPT ![t] = ApplySnapshot(@, v)]
      /\ seen' = AfterSnapshot(seen, t, v)
  BY DEF ApplyFetched
<1> HIDE DEF t, v
<1>4. Replaces(t, v)
  BY <1>0, <1>2, <1>3, SnapshotReplaces
<1>5. t \in Tokens /\ seen \in History
  BY <1>0, <1>2 DEF BooksType, SeenType
<1>6. Noted(t, v)
  <2>1. seen' = AfterSnapshot(seen, t, v)
    BY <1>3
  <2> QED BY <1>5, <2>1 DEF Noted, AfterSnapshot, History
<1> QED
  BY <1>1, <1>2, <1>4, <1>5, <1>6, <1>7 DEF t

LEMMA BootstrapDoneDoes ==
  ASSUME StreamInv, BootstrapDone
  PROVE  /\ reader.pc = "bootstrap" /\ reader'.pc = "stream"
         /\ reader.rest = <<>> /\ reader.todo = {}
         /\ SameReader(reader, reader')
         /\ gaps' = Close(gaps) /\ SameHistory(seen, seen')
         /\ seen'.lost = Accounted(seen.lost)
         /\ UNCHANGED <<now, venue, settled, socket, books, connected, closed, caller>>
<1>0. ReaderType /\ SeenType
  BY DEF StreamInv
<1>1. /\ reader.pc = "bootstrap" /\ reader.rest = <<>> /\ reader.todo = {}
      /\ gaps' = Close(gaps)
      /\ reader' = [reader EXCEPT !.pc = "stream", !.quiet = now]
      /\ seen' = [seen EXCEPT !.lost = Accounted(@)]
      /\ UNCHANGED <<now, venue, settled, socket, books, connected, closed, caller>>
  BY DEF BootstrapDone
<1>2. reader'.pc = "stream" /\ SameReader(reader, reader')
  BY <1>0, <1>1 DEF ReaderType, SameReader
<1>3. SameHistory(seen, seen') /\ seen'.lost = Accounted(seen.lost)
  BY <1>0, <1>1 DEF SeenType, History, SameHistory
<1> QED
  BY <1>1, <1>2, <1>3

\* The outcomes of a frame that is handed over, a book or change v of token t.
Delivered(t, v) ==
  /\ \A u \in Tokens \ {t} : seen'.delivered[u] = seen.delivered[u]
  /\ seen'.delivered[t] = IF v > seen.delivered[t] THEN v ELSE seen.delivered[t]
  /\ seen'.served = seen.served /\ seen'.missed = seen.missed
  /\ seen'.lost = Accounted(seen.lost)

\* A change is added to the book, or marks it as gapped.
Adds(t, v) ==
  /\ Registered' = Registered
  /\ \A u \in Registered \ {t} : books'[u] = books[u]
  /\ t \in Registered =>
       /\ books'[t].awaiting = books[t].awaiting
       /\ books[t].awaiting => books'[t].gap
       /\ ~books[t].awaiting =>
            books'[t].gap = books[t].gap /\ books'[t].has = books[t].has \cup {v}

LEMMA ReceiveDoes ==
  ASSUME StreamInv, NEW t \in Tokens, Receive(t)
  PROVE  /\ reader.pc = "stream" /\ reader'.pc = "stream" /\ SameReader(reader, reader')
         /\ t \in socket.subs /\ t \in Registered /\ Live
         /\ gaps' = NoteData(gaps)
         /\ socket'.state = socket.state /\ socket'.subs = socket.subs
         /\ \A u \in Tokens \ {t} : socket'.wire[u] = socket.wire[u]
         /\ UNCHANGED <<now, venue, settled, connected, closed, caller>>
         /\ \E m \in Frame :
              /\ m.v \in 0..MaxVersion /\ Delivered(t, m.v)
              /\ Carried(socket.wire[t]) \subseteq Of(m) \cup Carried(socket'.wire[t])
              /\ m.kind = "book" \/ (BookOn(socket.wire[t]) => BookOn(socket'.wire[t]))
              /\ \/ /\ m.kind = "book" /\ Replaces(t, m.v)
                    /\ seen'.unsynced = seen.unsynced \ {t}
                    /\ seen'.forgotten = seen.forgotten \ {t}
                    /\ seen'.suspect = IF m.v < seen'.delivered[t]
                                       THEN seen.suspect \cup {t} ELSE seen.suspect \ {t}
                 \/ /\ m.kind = "price_change" /\ Adds(t, m.v)
                    /\ seen'.unsynced = seen.unsynced /\ seen'.suspect = seen.suspect
                    /\ seen'.forgotten = seen.forgotten
                 \/ /\ books' = books /\ Registered' = Registered
                    /\ seen'.unsynced = seen.unsynced /\ seen'.forgotten = seen.forgotten
                    /\ seen'.suspect = seen.suspect \cup {t}
<1>0. /\ TypeOK /\ SocketType /\ BooksType /\ ReaderType /\ SeenType /\ Serving
      /\ HandsRegistered
  BY DEF StreamInv
<1>1. /\ reader.pc = "stream" /\ socket.wire[t] # <<>>
      /\ gaps' = NoteData(gaps) /\ reader' = [reader EXCEPT !.quiet = now]
      /\ socket' = [socket EXCEPT !.wire[t] = Tail(@)]
      /\ UNCHANGED <<now, venue, settled, connected, closed, caller>>
  BY DEF Receive
<1>2. t \in socket.subs /\ t \in Registered /\ Live
  BY <1>0, <1>1 DEF Serving, HandsRegistered
<1>3. reader'.pc = "stream" /\ SameReader(reader, reader')
  BY <1>0, <1>1 DEF ReaderType, SameReader
<1> DEFINE m == Head(socket.wire[t])
           told == [seen EXCEPT !.delivered[t] = IF m.v > @ THEN m.v ELSE @,
                                !.lost = Accounted(@)]
<1>4. /\ m \in Frame /\ m.v \in 0..MaxVersion
      /\ Carried(socket.wire[t]) \subseteq Of(m) \cup Carried(Tail(socket.wire[t]))
      /\ m.kind = "book" \/ (BookOn(socket.wire[t]) => BookOn(Tail(socket.wire[t])))
  <2>1. socket.wire[t] \in Seq(Frame)
    BY <1>0 DEF SocketType
  <2> QED BY <1>0, <1>1, <2>1, CarriedRest, FrameInHand, BookOnRest
<1>5. /\ socket'.state = socket.state /\ socket'.subs = socket.subs
      /\ socket'.wire[t] = Tail(socket.wire[t])
      /\ \A u \in Tokens \ {t} : socket'.wire[u] = socket.wire[u]
  BY <1>0, <1>1 DEF SocketType
<1>6. \/ /\ m.kind = "book" /\ books' = [books EXCEPT ![t] = ApplySnapshot(@, m.v)]
         /\ seen' = AfterSnapshot(told, t, m.v)
      \/ /\ m.kind = "price_change" /\ seen' = told
         /\ books' = [books EXCEPT ![t] = ApplyPriceChange(@, m.v)]
      \/ books' = books /\ seen' = [told EXCEPT !.suspect = @ \cup {t}]
  BY DEF Receive
<1> HIDE DEF m
<1>7. /\ told \in History /\ told.served = seen.served /\ told.missed = seen.missed
      /\ told.suspect = seen.suspect /\ told.unsynced = seen.unsynced
      /\ told.forgotten = seen.forgotten /\ told.lost = Accounted(seen.lost)
      /\ told.delivered = [seen.delivered EXCEPT ![t] = IF m.v > @ THEN m.v ELSE @]
  <2>1. seen \in History
    BY <1>0 DEF SeenType
  <2> DEFINE lost == Accounted(seen.lost)
             d == [seen.delivered EXCEPT ![t] = IF m.v > @ THEN m.v ELSE @]
  <2>2. lost \in SUBSET Nat
    BY <2>1 DEF Accounted, History
  <2>3. d \in [Tokens -> 0..MaxVersion]
    BY <1>4, <2>1 DEF History
  <2>4. told = [seen EXCEPT !.delivered = d, !.lost = lost]
    BY <2>1 DEF History
  <2> HIDE DEF lost, d, told
  <2>5. /\ told \in History /\ told.served = seen.served /\ told.missed = seen.missed
        /\ told.suspect = seen.suspect /\ told.unsynced = seen.unsynced
        /\ told.forgotten = seen.forgotten /\ told.lost = lost /\ told.delivered = d
    BY <2>1, <2>2, <2>3, <2>4 DEF History
  <2> QED BY <2>5 DEF lost, d
<1> HIDE DEF told
<1>8. /\ \A u \in Tokens \ {t} : told.delivered[u] = seen.delivered[u]
      /\ told.delivered[t] = IF m.v > seen.delivered[t] THEN m.v ELSE seen.delivered[t]
  BY <1>0, <1>7 DEF SeenType, History
<1>10. CASE /\ m.kind = "book" /\ books' = [books EXCEPT ![t] = ApplySnapshot(@, m.v)]
            /\ seen' = AfterSnapshot(told, t, m.v)
  <2>1. Replaces(t, m.v)
    BY <1>0, <1>2, <1>4, <1>10, SnapshotReplaces
  <2>2. seen' = AfterSnapshot(told, t, m.v) /\ told \in History
    BY <1>7, <1>10
  <2>3. /\ seen'.delivered = told.delivered /\ seen'.served = told.served
        /\ seen'.missed = told.missed /\ seen'.lost = told.lost
        /\ seen'.suspect = IF m.v < told.delivered[t] \/ t \notin socket.subs
                           THEN told.suspect \cup {t} ELSE told.suspect \ {t}
        /\ seen'.unsynced = told.unsynced \ {t} /\ seen'.forgotten = told.forgotten \ {t}
    BY <2>2 DEF AfterSnapshot, History
  <2>4. Delivered(t, m.v)
    BY <1>7, <1>8, <2>3 DEF Delivered
  <2>5. /\ seen'.unsynced = seen.unsynced \ {t} /\ seen'.forgotten = seen.forgotten \ {t}
        /\ seen'.suspect = IF m.v < seen'.delivered[t] THEN seen.suspect \cup {t}
                           ELSE seen.suspect \ {t}
    BY <1>2, <1>7, <2>3
  <2> QED BY <1>1, <1>2, <1>3, <1>4, <1>5, <1>10, <2>1, <2>4, <2>5
<1>11. CASE /\ m.kind = "price_change" /\ seen' = told
            /\ books' = [books EXCEPT ![t] = ApplyPriceChange(@, m.v)]
  <2> DEFINE b == ApplyPriceChange(books[t], m.v)
  <2>1. /\ b.awaiting = books[t].awaiting
        /\ books[t].awaiting => b.gap
        /\ ~books[t].awaiting => b.gap = books[t].gap /\ b.has = books[t].has \cup {m.v}
    <3>1. books[t] \in Book
      BY <1>0, <1>2 DEF BooksType
    <3> QED BY <3>1 DEF ApplyPriceChange, Book
  <2> HIDE DEF b
  <2>2. /\ Registered' = Registered /\ books'[t] = b
        /\ \A u \in Registered \ {t} : books'[u] = books[u]
    BY <1>0, <1>2, <1>11 DEF BooksType, Registered, b
  <2>3. Adds(t, m.v)
    BY <2>1, <2>2 DEF Adds
  <2>4. /\ Delivered(t, m.v) /\ seen'.unsynced = seen.unsynced
        /\ seen'.suspect = seen.suspect /\ seen'.forgotten = seen.forgotten
    BY <1>7, <1>8, <1>11 DEF Delivered
  <2> QED BY <1>1, <1>2, <1>3, <1>4, <1>5, <1>11, <2>3, <2>4
<1>12. CASE books' = books /\ seen' = [told EXCEPT !.suspect = @ \cup {t}]
  <2>1. Registered' = Registered
    BY <1>12 DEF Registered
  <2>2. /\ seen'.delivered = told.delivered /\ seen'.served = told.served
        /\ seen'.missed = told.missed /\ seen'.lost = told.lost
        /\ seen'.suspect = told.suspect \cup {t} /\ seen'.unsynced = told.unsynced
        /\ seen'.forgotten = told.forgotten
    BY <1>7, <1>12 DEF History
  <2>3. Delivered(t, m.v)
    BY <1>7, <1>8, <2>2 DEF Delivered
  <2> QED BY <1>1, <1>2, <1>3, <1>4, <1>5, <1>7, <1>12, <2>1, <2>2, <2>3
<1> QED
  BY <1>6, <1>10, <1>11, <1>12

LEMMA AddTokensDoes ==
  ASSUME StreamInv, NEW T \in SUBSET Tokens \ {{}}, AddTokens(T)
  PROVE  /\ caller.pc = "idle" /\ T \cap Registered = {}
         /\ Registered' = Registered \cup T
         /\ \A t \in T : books'[t].awaiting
         /\ \A u \in Registered : books'[u] = books[u]
         /\ caller.todo = {} /\ caller'.pc = "added" /\ caller'.todo = T
         /\ UNCHANGED <<now, venue, settled, socket, reader, connected, closed,
                        gaps, seen>>
<1>0. BooksType /\ CallerType
  BY DEF StreamInv
<1>1. /\ caller.pc = "idle" /\ T \cap Registered = {}
      /\ books' = [u \in Registered \cup T |-> IF u \in T THEN NewBook ELSE books[u]]
      /\ caller' = [caller EXCEPT !.pc = "added", !.todo = T]
      /\ UNCHANGED <<now, venue, settled, socket, reader, connected, closed,
                     gaps, seen>>
  BY DEF AddTokens
<1>2. caller.todo = {} /\ caller'.pc = "added" /\ caller'.todo = T
  BY <1>0, <1>1 DEF CallerType
<1>3. /\ Registered' = Registered \cup T
      /\ \A t \in T : books'[t].awaiting
      /\ \A u \in Registered : books'[u] = books[u]
  BY <1>0, <1>1 DEF Registered, NewBook
<1> QED
  BY <1>1, <1>2, <1>3

LEMMA AnnounceDoes ==
  ASSUME StreamInv, Announce
  PROVE  /\ caller.pc = "added" /\ caller.todo \subseteq Registered
         /\ UNCHANGED <<now, venue, settled, books, connected, gaps>>
         /\ Registered' = Registered
         /\ \/ /\ closed /\ ~closed' /\ caller' = Idle /\ socket' = socket
               /\ reader.pc = "off" /\ seen' = seen
               /\ reader'.pc = "connect" /\ reader'.first
               /\ reader'.todo = reader.todo /\ reader'.rest = reader.rest
            \/ /\ caller' = Idle /\ socket' = socket /\ reader' = reader
               /\ closed \/ ~connected
               /\ closed' = FALSE
               /\ \/ seen'.missed = seen.missed \cup caller.todo
                  \/ /\ ~closed /\ seen'.missed = seen.missed \cup (caller.todo \ socket.subs)
               /\ seen'.delivered = seen.delivered /\ seen'.served = seen.served
               /\ seen'.suspect = seen.suspect /\ seen'.unsynced = seen.unsynced
               /\ seen'.forgotten = seen.forgotten /\ seen'.lost = seen.lost
            \/ /\ caller'.pc = "fetch" /\ caller'.todo = caller.todo
               /\ connected /\ closed' = closed /\ reader' = reader
               /\ \/ /\ Live /\ Live' /\ Subscribes(caller.todo)
                     /\ seen'.missed = seen.missed
                  \/ ~Live /\ socket' = socket /\ seen' = seen
            \/ /\ caller' = Idle /\ socket' = socket /\ reader' = reader
               /\ ~closed /\ closed' = closed /\ seen' = seen
               /\ reader.pc \in {"connect", "opened"}
<1>0. /\ TypeOK /\ SocketType /\ BooksType /\ ReaderType /\ CallerType /\ SeenType
      /\ HandsRegistered /\ Flags
  BY DEF StreamInv
<1>1. /\ caller.pc = "added" /\ UNCHANGED <<now, venue, settled, books, connected, gaps>>
  BY DEF Announce
<1>2. caller.todo \subseteq Registered /\ caller.todo \subseteq Tokens /\ Registered' = Registered
  BY <1>0, <1>1 DEF HandsRegistered, BooksType, Registered
<1> DEFINE T == caller.todo
           M == caller.todo \ socket.subs
           n == Subscribed(socket, T)
<1>3. \/ /\ closed /\ closed' = FALSE /\ caller' = Idle /\ socket' = socket
         /\ reader.pc = "off" /\ seen' = seen
         /\ reader' = [reader EXCEPT !.pc = "connect", !.first = TRUE]
      \/ /\ closed' = FALSE /\ caller' = Idle /\ socket' = socket /\ reader' = reader
         /\ closed \/ ~connected
         /\ \/ seen' = [seen EXCEPT !.missed = @ \cup T]
            \/ ~closed /\ seen' = [seen EXCEPT !.missed = @ \cup M]
      \/ /\ caller' = [caller EXCEPT !.pc = "fetch"]
         /\ connected /\ closed' = closed /\ reader' = reader
         /\ \/ Live /\ socket' = n /\ seen' = [seen EXCEPT !.served = @ \cup T]
            \/ ~Live /\ socket' = socket /\ seen' = seen
      \/ /\ caller' = Idle /\ socket' = socket /\ reader' = reader
         /\ ~closed /\ closed' = closed /\ seen' = seen /\ ~connected
         /\ reader.pc \notin {"subscribed", "closing", "leaving", "off"}
  BY <1>0 DEF Announce, Flags
<1>4. CASE /\ closed /\ closed' = FALSE /\ caller' = Idle /\ socket' = socket
           /\ reader.pc = "off" /\ seen' = seen
           /\ reader' = [reader EXCEPT !.pc = "connect", !.first = TRUE]
  <2>1. /\ reader'.pc = "connect" /\ reader'.first
        /\ reader'.todo = reader.todo /\ reader'.rest = reader.rest
    BY <1>0, <1>4 DEF ReaderType
  <2> QED BY <1>1, <1>2, <1>4, <2>1
<1>5. CASE /\ closed' = FALSE /\ caller' = Idle /\ socket' = socket /\ reader' = reader
           /\ closed \/ ~connected
           /\ \/ seen' = [seen EXCEPT !.missed = @ \cup T]
              \/ ~closed /\ seen' = [seen EXCEPT !.missed = @ \cup M]
  <2> HIDE DEF T, M
  <2>1. /\ \/ seen'.missed = seen.missed \cup T
           \/ ~closed /\ seen'.missed = seen.missed \cup M
        /\ seen'.delivered = seen.delivered /\ seen'.served = seen.served
        /\ seen'.suspect = seen.suspect /\ seen'.unsynced = seen.unsynced
        /\ seen'.forgotten = seen.forgotten /\ seen'.lost = seen.lost
    BY <1>0, <1>5 DEF SeenType, History
  <2> QED BY <1>1, <1>2, <1>5, <2>1 DEF T, M
<1>6. CASE /\ caller' = [caller EXCEPT !.pc = "fetch"]
           /\ connected /\ closed' = closed /\ reader' = reader
           /\ Live /\ socket' = n /\ seen' = [seen EXCEPT !.served = @ \cup T]
  <2>1. caller'.pc = "fetch" /\ caller'.todo = caller.todo
    BY <1>0, <1>6 DEF CallerType
  <2>2. /\ n.state = socket.state /\ n.subs = socket.subs \cup T
        /\ \A t \in Tokens :
             n.wire[t] = IF t \in T \ (socket.subs \cup settled)
                         THEN Append(socket.wire[t], [kind |-> "book", v |-> venue[t]])
                         ELSE socket.wire[t]
    <3>1. T \subseteq Tokens
      BY <1>2
    <3> HIDE DEF T
    <3> QED BY <1>0, <3>1, SubscriptionSends
  <2> HIDE DEF n, T
  <2>3. /\ seen'.delivered = seen.delivered /\ seen'.served = seen.served \cup T
        /\ seen'.suspect = seen.suspect /\ seen'.unsynced = seen.unsynced
        /\ seen'.forgotten = seen.forgotten
        /\ seen'.lost = seen.lost /\ seen'.missed = seen.missed
    BY <1>0, <1>6 DEF SeenType, History
  <2>4. Subscribes(T) /\ Live'
    BY <1>6, <2>2, <2>3 DEF Subscribes, Live
  <2> QED BY <1>1, <1>2, <1>6, <2>1, <2>3, <2>4 DEF T
<1>7. CASE /\ caller' = [caller EXCEPT !.pc = "fetch"]
           /\ connected /\ closed' = closed /\ reader' = reader
           /\ ~Live /\ socket' = socket /\ seen' = seen
  <2>1. caller'.pc = "fetch" /\ caller'.todo = caller.todo
    BY <1>0, <1>7 DEF CallerType
  <2> QED BY <1>1, <1>2, <1>7, <2>1
<1>8. CASE /\ caller' = Idle /\ socket' = socket /\ reader' = reader
           /\ ~closed /\ closed' = closed /\ seen' = seen /\ ~connected
           /\ reader.pc \notin {"subscribed", "closing", "leaving", "off"}
  <2>1. reader.pc \notin {"bootstrap", "stream"}
    BY <1>0, <1>8 DEF Flags
  <2>2. reader.pc \in {"connect", "opened"}
    BY <1>0, <1>8, <2>1 DEF ReaderType
  <2> QED BY <1>1, <1>2, <1>8, <2>2
<1> QED
  BY <1>3, <1>4, <1>5, <1>6, <1>7, <1>8

LEMMA FetchAddedDoes ==
  ASSUME StreamInv, NEW t \in Tokens, FetchAdded(t)
  PROVE  /\ caller.pc = "fetch" /\ t \in caller.todo /\ t \in Registered
         /\ UNCHANGED <<now, venue, settled, socket, books, reader, connected,
                        closed, gaps>>
         /\ seen'.delivered = seen.delivered /\ seen'.served = seen.served
         /\ seen'.missed = seen.missed /\ seen'.suspect = seen.suspect
         /\ seen'.lost = seen.lost
         /\ \/ /\ caller'.pc = "apply" /\ caller'.token = t
               /\ caller'.todo = caller.todo \ {t} /\ seen' = seen
            \/ /\ caller' = Idle
               /\ seen'.unsynced = seen.unsynced \cup {t}
               /\ seen'.forgotten = seen.forgotten \cup (caller.todo \ {t})
<1>0. CallerType /\ SeenType /\ HandsRegistered
  BY DEF StreamInv
<1>1. /\ caller.pc = "fetch" /\ t \in caller.todo
      /\ UNCHANGED <<now, venue, settled, socket, books, reader, connected,
                     closed, gaps>>
  BY DEF FetchAdded
<1>2. t \in Registered
  BY <1>0, <1>1 DEF HandsRegistered
<1> DEFINE r == <<venue[t]>>
           todo == caller.todo \ {t}
<1>3. \/ seen' = seen /\ caller' = [pc |-> "apply", todo |-> todo, token |-> t, rest |-> r]
      \/ /\ caller' = Idle
         /\ seen' = [seen EXCEPT !.unsynced = @ \cup {t}, !.forgotten = @ \cup todo]
  BY DEF FetchAdded
<1> HIDE DEF r, todo
<1>4. CASE seen' = seen /\ caller' = [pc |-> "apply", todo |-> todo, token |-> t, rest |-> r]
  <2>1. caller'.pc = "apply" /\ caller'.token = t /\ caller'.todo = todo
    BY <1>4
  <2> QED BY <1>1, <1>2, <1>4, <2>1 DEF todo
<1>5. CASE /\ caller' = Idle
           /\ seen' = [seen EXCEPT !.unsynced = @ \cup {t}, !.forgotten = @ \cup todo]
  <2>1. /\ seen'.delivered = seen.delivered /\ seen'.served = seen.served
        /\ seen'.missed = seen.missed /\ seen'.suspect = seen.suspect
        /\ seen'.lost = seen.lost /\ seen'.unsynced = seen.unsynced \cup {t}
        /\ seen'.forgotten = seen.forgotten \cup todo
    BY <1>0, <1>5 DEF SeenType, History
  <2> QED BY <1>1, <1>2, <1>5, <2>1 DEF todo
<1> QED
  BY <1>3, <1>4, <1>5

LEMMA CheckIntegrityDoes ==
  ASSUME StreamInv, NEW t \in Tokens, CheckIntegrity(t)
  PROVE  /\ caller.pc = "idle" /\ t \in Registered /\ caller.todo = {}
         /\ caller'.pc = "compare" /\ caller'.token = t /\ caller'.todo = {}
         /\ UNCHANGED <<now, venue, settled, socket, books, reader, connected,
                        closed, gaps, seen>>
BY DEF StreamInv, CallerType, CheckIntegrity, Idle

LEMMA CompareDoes ==
  ASSUME StreamInv, Compare
  PROVE  /\ caller.pc = "compare" /\ caller.todo = {} /\ caller'.todo = {}
         /\ \/ caller' = Idle
            \/ caller'.pc = "apply" /\ caller'.token = caller.token
         /\ UNCHANGED <<now, venue, settled, socket, books, reader, connected,
                        closed, gaps, seen>>
BY DEF StreamInv, Compare, CallerType, Idle

\* The socket is given up.
LEMMA HangupDoes ==
  ASSUME StreamInv, Stall \/ Drop \/ VenueCloses
  PROVE  /\ ~Up' /\ ~Live' /\ ~connected' /\ socket'.subs = {}
         /\ \A t \in Tokens : socket'.wire[t] = <<>>
         /\ SameReader(reader, reader')
         /\ UNCHANGED <<now, venue, settled, books, closed, caller, seen>>
         /\ \/ /\ reader.pc = "stream" /\ reader'.pc = "connect" /\ gaps' = Begin(gaps)
            \/ /\ reader.pc \in {"opened", "stream"} /\ reader'.pc = "connect"
               /\ gaps' = gaps /\ ~Live
            \/ /\ reader.pc = "stream" /\ Live /\ socket.subs \subseteq settled
               /\ reader'.pc = "closing" /\ gaps' = gaps
<1>0. ReaderType
  BY DEF StreamInv
<1>1. /\ ~Up' /\ ~Live' /\ ~connected' /\ socket'.subs = {}
      /\ \A t \in Tokens : socket'.wire[t] = <<>>
  BY DEF Stall, Drop, VenueCloses, Hangup, NoSocket, NoWire, Live, Up
<1>2. UNCHANGED <<now, venue, settled, books, closed, caller, seen>>
  BY DEF Stall, Drop, VenueCloses
<1>3. CASE Stall
  BY <1>0, <1>1, <1>2, <1>3 DEF Stall, ReaderType, SameReader
<1>4. CASE Drop
  BY <1>0, <1>1, <1>2, <1>4 DEF Drop, ReaderType, SameReader, Live
<1>5. CASE VenueCloses
  BY <1>0, <1>1, <1>2, <1>5 DEF VenueCloses, ReaderType, SameReader
<1> QED
  BY <1>3, <1>4, <1>5

LEMMA ExitDoes ==
  ASSUME StreamInv, Exit
  PROVE  /\ SameReader(reader, reader')
         /\ \/ reader.pc = "closing" /\ reader'.pc = "leaving" /\ closed'
            \/ reader.pc = "leaving" /\ reader'.pc = "off" /\ closed' = closed
         /\ UNCHANGED <<now, venue, settled, socket, books, connected, caller,
                        gaps, seen>>
BY DEF StreamInv, Exit, ReaderType, SameReader

\* Only what is registered is served, listed or asked for.
LEMMA HandsRegisteredNext ==
  ASSUME StreamInv, [Next]_vars
  PROVE  HandsRegistered'
<1>0. /\ SocketType /\ BooksType /\ ReaderType /\ CallerType /\ SeenType
      /\ HandsRegistered
  BY DEF StreamInv
<1>a. Registered \subseteq Registered'
  BY RegisteredGrows
<1>1. CASE Break
  BY <1>0, <1>a, <1>1, BreakDoes
  DEF HandsRegistered, SameHistory, SameReader, Idle
<1>2. ASSUME NEW t \in Tokens, Change(t) PROVE HandsRegistered'
  BY <1>0, <1>a, <1>2, ChangeDoes
  DEF HandsRegistered, SameHistory, SameReader, Idle
<1>3. ASSUME NEW T \in SUBSET Tokens \ {{}}, AddTokens(T) PROVE HandsRegistered'
  BY <1>0, <1>a, <1>3, AddTokensDoes
  DEF HandsRegistered, SameHistory, SameReader, Idle
<1>4. ASSUME NEW t \in Tokens, CheckIntegrity(t) PROVE HandsRegistered'
  BY <1>0, <1>a, <1>4, CheckIntegrityDoes
  DEF HandsRegistered, SameHistory, SameReader, Idle
<1>5. CASE Connect
  BY <1>0, <1>a, <1>5, ConnectDoes
  DEF HandsRegistered, SameHistory, SameReader, Idle
<1>6. CASE Subscribe
  BY <1>0, <1>a, <1>6, SubscribeDoes
  DEF HandsRegistered, SameReader, Subscribes
<1>7. CASE SetConnected
  BY <1>0, <1>a, <1>7, SetConnectedDoes DEF HandsRegistered, Registered
<1>8. ASSUME NEW t \in Tokens, Bootstrap(t) PROVE HandsRegistered'
  BY <1>0, <1>a, <1>8, BootstrapDoes
  DEF HandsRegistered, SameHistory, SameReader, Idle
<1>9. CASE ApplyBootstrap
  BY <1>0, <1>a, <1>9, ApplyBootstrapDoes DEF HandsRegistered, Noted
<1>10. CASE BootstrapDone
  BY <1>0, <1>a, <1>10, BootstrapDoneDoes
  DEF HandsRegistered, SameHistory, SameReader, Idle
<1>11. ASSUME NEW t \in Tokens, Receive(t) PROVE HandsRegistered'
  BY <1>0, <1>a, <1>11, ReceiveDoes DEF HandsRegistered, SameReader, Delivered
<1>12. CASE Stall \/ Drop \/ VenueCloses
  BY <1>0, <1>a, <1>12, HangupDoes
  DEF HandsRegistered, SameHistory, SameReader, Idle
<1>13. CASE Exit
  BY <1>0, <1>a, <1>13, ExitDoes
  DEF HandsRegistered, SameHistory, SameReader, Idle
<1>14. CASE Announce
  <2>1. /\ caller.todo \subseteq Registered /\ Registered' = Registered
        /\ reader'.todo = reader.todo /\ reader'.rest = reader.rest
    BY <1>14, AnnounceDoes
  <2>2. seen'.served \subseteq seen.served \cup caller.todo
    BY <1>14, AnnounceDoes DEF Subscribes
  <2>3. \/ caller' = Idle
        \/ caller'.pc = "fetch" /\ caller'.todo = caller.todo
    BY <1>14, AnnounceDoes
  <2>4. /\ caller'.todo \subseteq Registered'
        /\ caller'.pc \in {"compare", "apply"} => caller'.token \in Registered'
    BY <2>1, <2>3 DEF Idle
  <2> QED BY <1>0, <2>1, <2>2, <2>4 DEF HandsRegistered
<1>15. ASSUME NEW t \in Tokens, FetchAdded(t) PROVE HandsRegistered'
  BY <1>0, <1>a, <1>15, FetchAddedDoes
  DEF HandsRegistered, SameHistory, SameReader, Idle
<1>16. CASE Compare
  BY <1>0, <1>a, <1>16, CompareDoes
  DEF HandsRegistered, SameHistory, SameReader, Idle
<1>17. CASE ApplyFetched
  BY <1>0, <1>a, <1>17, ApplyFetchedDoes DEF HandsRegistered, Noted, Idle
<1>18. CASE \/ UNCHANGED vars \/ Tick
            \/ \E t \in Tokens : Settle(t)
  BY <1>0, <1>a, <1>18
  DEF vars, Tick, Settle, HandsRegistered, SameHistory, SameReader, Idle
<1> QED
  BY <1>1, <1>2, <1>3, <1>4, <1>5, <1>6, <1>7, <1>8, <1>9, <1>10, <1>11,
     <1>12, <1>13, <1>14, <1>15, <1>16, <1>17, <1>18
  DEF Next, Reads, Calls

\* The socket serves what was subscribed on it, and nothing is under way else.
LEMMA ServingNext ==
  ASSUME StreamInv, [Next]_vars
  PROVE  Serving'
<1>0. /\ SocketType /\ BooksType /\ ReaderType /\ SeenType
      /\ HandsRegistered /\ Flags /\ Serving
  BY DEF StreamInv
<1>1. CASE Break
  BY <1>0, <1>1, BreakDoes
  DEF Serving, Live, Up, SameHistory, SameReader, Noted
<1>2. ASSUME NEW t \in Tokens, Change(t) PROVE Serving'
  BY <1>0, <1>2, ChangeDoes
  DEF Serving, Live, Up, SameHistory, SameReader, Noted
<1>3. CASE Connect
  BY <1>0, <1>3, ConnectDoes
  DEF Serving, Live, Up, SameHistory, SameReader, Noted
<1>4. CASE Subscribe
  <2>1. CASE Live /\ Live' /\ Subscribes(Registered)
    <3>1. reader.pc = "opened" /\ reader'.pc = "subscribed"
      BY <1>4, SubscribeDoes
    <3>2. socket.subs = {} /\ socket'.subs = Registered /\ seen'.served = Registered
      BY <1>0, <2>1, <3>1 DEF Serving, HandsRegistered, Subscribes
    <3>3. \A u \in Tokens \ Registered : socket'.wire[u] = <<>>
      BY <1>0, <2>1, <3>2 DEF Serving, Subscribes
    <3> QED BY <2>1, <3>1, <3>2, <3>3 DEF Serving
  <2>2. CASE ~Live /\ socket' = socket /\ seen' = seen
    BY <1>0, <1>4, <2>2, SubscribeDoes DEF Serving, Live, Up
  <2> QED BY <1>4, <2>1, <2>2, SubscribeDoes
<1>5. CASE SetConnected
  BY <1>0, <1>5, SetConnectedDoes
  DEF Serving, Live, Up, SameHistory, SameReader, Noted
<1>6. ASSUME NEW t \in Tokens, Bootstrap(t) PROVE Serving'
  BY <1>0, <1>6, BootstrapDoes
  DEF Serving, Live, Up, SameHistory, SameReader, Noted
<1>7. CASE ApplyBootstrap
  BY <1>0, <1>7, ApplyBootstrapDoes
  DEF Serving, Live, Up, SameHistory, SameReader, Noted
<1>8. CASE BootstrapDone
  BY <1>0, <1>8, BootstrapDoneDoes
  DEF Serving, Live, Up, SameHistory, SameReader, Noted
<1>9. ASSUME NEW t \in Tokens, Receive(t) PROVE Serving'
  BY <1>0, <1>9, ReceiveDoes DEF Serving, Live, Up, SameReader, Delivered
<1>10. CASE Stall \/ Drop \/ VenueCloses
  BY <1>0, <1>10, HangupDoes
  DEF Serving, Live, Up, SameHistory, SameReader, Noted
<1>11. CASE Exit
  BY <1>0, <1>11, ExitDoes
  DEF Serving, Live, Up, SameHistory, SameReader, Noted
<1>12. CASE Announce
  <2>1. CASE /\ connected /\ reader' = reader
             /\ Live /\ Live' /\ Subscribes(caller.todo)
    <3>1. reader.pc \in {"bootstrap", "stream"}
      BY <1>0, <2>1 DEF Flags
    <3>2. /\ socket'.subs = socket.subs \cup caller.todo
          /\ seen'.served = seen.served \cup caller.todo
      BY <2>1 DEF Subscribes
    <3>3. \A u \in Tokens \ socket'.subs : socket'.wire[u] = <<>>
      BY <1>0, <2>1, <3>2 DEF Serving, Subscribes
    <3> QED BY <1>0, <2>1, <3>1, <3>2, <3>3 DEF Serving
  <2>2. CASE socket' = socket /\ seen'.served = seen.served
    <3>1. \/ reader' = reader
          \/ reader.pc = "off" /\ reader'.pc = "connect"
      BY <1>12, AnnounceDoes
    <3> QED BY <1>0, <2>2, <3>1 DEF Serving, Live, Up
  <2> QED BY <1>12, <2>1, <2>2, AnnounceDoes
<1>13. CASE \/ UNCHANGED vars \/ Tick \/ Compare \/ ApplyFetched
            \/ \E t \in Tokens : FetchAdded(t)
            \/ \E t \in Tokens : Settle(t) \/ CheckIntegrity(t)
            \/ \E T \in SUBSET Tokens \ {{}} : AddTokens(T)
  BY <1>0, <1>13, AddTokensDoes, CheckIntegrityDoes, FetchAddedDoes,
     CompareDoes, ApplyFetchedDoes
  DEF vars, Tick, Settle, Serving, Live, Up, SameHistory, SameReader, Noted
<1> QED
  BY <1>1, <1>2, <1>3, <1>4, <1>5, <1>6, <1>7, <1>8, <1>9, <1>10, <1>11,
     <1>12, <1>13
  DEF Next, Reads, Calls

\* The flags follow the reader.
LEMMA FlagsNext ==
  ASSUME StreamInv, [Next]_vars
  PROVE  Flags'
<1>0. ReaderType /\ Flags
  BY DEF StreamInv
<1>1. CASE Break
  BY <1>0, <1>1, BreakDoes DEF Flags, SameReader
<1>2. ASSUME NEW t \in Tokens, Change(t) PROVE Flags'
  BY <1>0, <1>2, ChangeDoes DEF Flags, SameReader
<1>3. CASE Connect
  BY <1>0, <1>3, ConnectDoes DEF Flags, SameReader
<1>4. CASE Subscribe
  BY <1>0, <1>4, SubscribeDoes DEF Flags, SameReader
<1>5. CASE SetConnected
  BY <1>0, <1>5, SetConnectedDoes DEF Flags, SameReader
<1>6. ASSUME NEW t \in Tokens, Bootstrap(t) PROVE Flags'
  BY <1>0, <1>6, BootstrapDoes DEF Flags, SameReader
<1>7. CASE ApplyBootstrap
  BY <1>0, <1>7, ApplyBootstrapDoes DEF Flags, SameReader
<1>8. CASE BootstrapDone
  BY <1>0, <1>8, BootstrapDoneDoes DEF Flags, SameReader
<1>9. ASSUME NEW t \in Tokens, Receive(t) PROVE Flags'
  BY <1>0, <1>9, ReceiveDoes DEF Flags, SameReader
<1>10. CASE Stall \/ Drop \/ VenueCloses
  BY <1>0, <1>10, HangupDoes DEF Flags, SameReader
<1>11. CASE Exit
  BY <1>0, <1>11, ExitDoes DEF Flags, SameReader
<1>12. CASE Announce
  <2>1. connected' = connected /\ (~closed' \/ closed' = closed)
    BY <1>12, AnnounceDoes
  <2>2. \/ reader' = reader
        \/ reader.pc = "off" /\ reader'.pc = "connect" /\ ~closed'
    BY <1>12, AnnounceDoes
  <2> QED BY <1>0, <2>1, <2>2 DEF Flags
<1>13. CASE \/ UNCHANGED vars \/ Tick \/ Compare \/ ApplyFetched
            \/ \E t \in Tokens : FetchAdded(t)
            \/ \E t \in Tokens : Settle(t) \/ CheckIntegrity(t)
            \/ \E T \in SUBSET Tokens \ {{}} : AddTokens(T)
  <2>1. UNCHANGED <<reader, connected, closed>>
    BY <1>13
    DEF vars, Tick, Settle, AddTokens, CheckIntegrity, FetchAdded, Compare,
        ApplyFetched
  <2> QED BY <1>0, <2>1 DEF Flags, SameReader
<1> QED
  BY <1>1, <1>2, <1>3, <1>4, <1>5, <1>6, <1>7, <1>8, <1>9, <1>10, <1>11,
     <1>12, <1>13
  DEF Next, Reads, Calls

\* The types together, of the variables no other lemma speaks of.
LEMMA TypeOKNext ==
  ASSUME StreamInv, [Next]_vars
  PROVE  TypeOK'
<1>0. TypeOK
  BY DEF StreamInv
<1> USE StreamAssumption
<1>1. now' \in 0..MaxTime
  <2>1. now' = now \/ Tick
    BY DEF vars, Next, Reads, Calls, Break, Change, Settle, AddTokens,
           CheckIntegrity, Connect, Subscribe, SetConnected, Bootstrap,
           ApplyBootstrap, BootstrapDone, Receive, Stall, Drop, VenueCloses,
           Exit, Announce, FetchAdded, Compare, ApplyFetched
  <2> QED BY <1>0, <2>1 DEF TypeOK, Tick
<1>2. venue' \in [Tokens -> 0..MaxVersion]
  <2>1. venue' = venue \/ \E t \in Tokens : Change(t)
    BY DEF vars, Next, Reads, Calls, Tick, Break, Settle, AddTokens,
           CheckIntegrity, Connect, Subscribe, SetConnected, Bootstrap,
           ApplyBootstrap, BootstrapDone, Receive, Stall, Drop, VenueCloses,
           Exit, Announce, FetchAdded, Compare, ApplyFetched
  <2>2. ASSUME NEW t \in Tokens, Change(t) PROVE venue' \in [Tokens -> 0..MaxVersion]
    <3>1. venue' = [venue EXCEPT ![t] = venue[t] + 1] /\ venue[t] < MaxVersion
      BY <2>2 DEF Change
    <3>2. venue[t] + 1 \in 0..MaxVersion
      BY <1>0, <3>1 DEF TypeOK
    <3> QED BY <1>0, <3>1, <3>2 DEF TypeOK
  <2> QED BY <1>0, <2>1, <2>2 DEF TypeOK
<1>3. settled' \subseteq Tokens
  <2>1. settled' = settled \/ \E t \in Tokens : Settle(t)
    BY DEF vars, Next, Reads, Calls, Tick, Break, Change, AddTokens,
           CheckIntegrity, Connect, Subscribe, SetConnected, Bootstrap,
           ApplyBootstrap, BootstrapDone, Receive, Stall, Drop, VenueCloses,
           Exit, Announce, FetchAdded, Compare, ApplyFetched
  <2> QED BY <1>0, <2>1 DEF TypeOK, Settle
<1>4. faults' \in 0..MaxFaults
  <2>1. faults' = faults \/ (faults < MaxFaults /\ faults' = faults + 1)
    BY DEF vars, Next, Reads, Calls, Tick, Break, Change, Settle, AddTokens,
           CheckIntegrity, Connect, Subscribe, SetConnected, Bootstrap,
           ApplyBootstrap, BootstrapDone, Receive, Stall, Drop, VenueCloses,
           Exit, Announce, FetchAdded, Compare, ApplyFetched
  <2> QED BY <1>0, <2>1 DEF TypeOK
<1>5. SocketType' /\ BooksType' /\ ReaderType' /\ CallerType'
  BY SocketTypeNext, BooksTypeNext, ReaderTypeNext, CallerTypeNext
<1>6. Serving' /\ HandsRegistered'
  BY ServingNext, HandsRegisteredNext
<1>7. socket'.state \in {"none", "live", "silent", "broken"}
  BY <1>5 DEF SocketType
<1>8. (socket.subs \subseteq Registered)'
  BY <1>6 DEF Serving, HandsRegistered
<1>9. (Registered \subseteq Tokens /\ \A t \in Registered : books[t].has \subseteq 1..MaxVersion)'
  BY <1>5 DEF BooksType, Book
<1>10. reader'.pc \in {"connect", "opened", "subscribed", "bootstrap", "stream",
                       "closing", "leaving", "off"}
  BY <1>5 DEF ReaderType
<1>11. caller'.pc \in {"idle", "added", "fetch", "compare", "apply"}
  BY <1>5 DEF CallerType
<1> QED
  BY <1>1, <1>2, <1>3, <1>4, <1>7, <1>8, <1>9, <1>10, <1>11 DEF TypeOK

\* An outage that is begun starts no later than what was lost before it.
LEMMA BeginCovers ==
  ASSUME StreamInv, gaps' = Begin(gaps)
  PROVE  /\ gaps'.start # None
         /\ \A at \in seen.lost : gaps'.start <= at
<1>0. TypeOK /\ GapsType /\ SeenType /\ LossFollowsData
  BY DEF StreamInv
<1>t. /\ now \in Nat /\ gaps.start \in {None} \cup 0..now /\ gaps.last \in {None} \cup 0..now
      /\ None \notin Nat /\ seen.lost \subseteq Nat
  BY <1>0 DEF TypeOK, GapsType, Times, None, SeenType, History
<1>1. CASE gaps.start # None
  BY <1>0, <1>1 DEF Begin, LossFollowsData
<1>2. CASE gaps.start = None
  <2> DEFINE b == IF gaps.last # None THEN gaps.last ELSE now
  <2>1. gaps' = [gaps EXCEPT !.start = b]
    BY <1>2 DEF Begin
  <2> HIDE DEF b
  <2>2. gaps'.start = b
    BY <1>0, <2>1 DEF GapsType
  <2>3. b # None /\ \A at \in seen.lost : b <= at
    BY <1>0, <1>t, <1>2 DEF b, LossFollowsData
  <2> QED BY <2>2, <2>3
<1> QED
  BY <1>1, <1>2

\* An outage that is published accounts for all that was lost.
LEMMA CloseAccounts ==
  ASSUME StreamInv, gaps.start = None => seen.lost = {}
  PROVE  Accounted(seen.lost) = {}
<1>0. TypeOK /\ GapsType /\ SeenType /\ LossFollowsData
  BY DEF StreamInv
<1>t. /\ now \in Nat /\ gaps.start \in {None} \cup 0..now /\ gaps.last \in {None} \cup 0..now
      /\ None \notin Nat /\ seen.lost \subseteq Nat
  BY <1>0 DEF TypeOK, GapsType, Times, None, SeenType, History
<1>1. CASE gaps.start = None
  BY <1>1 DEF Accounted
<1>2. CASE gaps.start # None
  <2>1. \A at \in seen.lost : gaps.start <= at
    BY <1>0, <1>2 DEF LossFollowsData
  <2> QED BY <1>t, <1>2, <2>1 DEF Accounted
<1> QED
  BY <1>1, <1>2

\* A loss follows the start of its outage, or the last data.
LEMMA LossFollowsDataNext ==
  ASSUME StreamInv, [Next]_vars
  PROVE  LossFollowsData'
<1>0. /\ TypeOK /\ GapsType /\ SeenType /\ Serving /\ LossFollowsData
      /\ LossOpensGap
  BY DEF StreamInv
<1>t. /\ now \in Nat /\ gaps.start \in {None} \cup 0..now /\ gaps.last \in {None} \cup 0..now
      /\ None \notin Nat /\ seen.lost \subseteq Nat
  BY <1>0 DEF TypeOK, GapsType, Times, None, SeenType, History
<1>1. CASE Break
  BY <1>0, <1>t, <1>1, BreakDoes DEF LossFollowsData, SameHistory
<1>2. ASSUME NEW t \in Tokens, Change(t) PROVE LossFollowsData'
  <2>1. /\ gaps' = gaps
        /\ \/ seen'.lost = seen.lost
           \/ gaps.last # None /\ seen'.lost = seen.lost \cup {now}
    BY <1>2, ChangeDoes
  <2> QED BY <1>0, <1>t, <2>1 DEF LossFollowsData
<1>3. CASE Connect
  <2>1. seen' = seen /\ gaps' = IF reader.first THEN gaps ELSE Begin(gaps)
    BY <1>3, ConnectDoes
  <2>2. CASE gaps' = gaps
    BY <1>0, <2>1, <2>2 DEF LossFollowsData
  <2>3. CASE gaps' = Begin(gaps)
    BY <2>1, <2>3, BeginCovers DEF LossFollowsData
  <2> QED BY <2>1, <2>2, <2>3
<1>4. CASE Subscribe
  <2>1. gaps' = gaps /\ seen'.lost = seen.lost
    BY <1>4, SubscribeDoes DEF Subscribes
  <2> QED BY <1>0, <2>1 DEF LossFollowsData
<1>5. ASSUME NEW t \in Tokens, Bootstrap(t) PROVE LossFollowsData'
  BY <1>0, <1>t, <1>5, BootstrapDoes DEF LossFollowsData, SameHistory
<1>6. CASE ApplyBootstrap
  BY <1>0, <1>t, <1>6, ApplyBootstrapDoes DEF LossFollowsData, Noted
<1>7. CASE BootstrapDone
  <2>1. gaps' = Close(gaps) /\ seen'.lost = Accounted(seen.lost)
    BY <1>7, BootstrapDoneDoes
  <2>2. CASE gaps.start = None
    BY <1>0, <2>1, <2>2 DEF Close, Accounted, LossFollowsData
  <2>3. CASE gaps.start # None
    BY <2>1, <2>3, CloseAccounts DEF LossFollowsData
  <2> QED BY <2>2, <2>3
<1>8. ASSUME NEW t \in Tokens, Receive(t) PROVE LossFollowsData'
  <2>1. reader.pc = "stream" /\ Live /\ seen'.lost = Accounted(seen.lost)
    BY <1>8, ReceiveDoes DEF Delivered
  <2>2. seen.lost = {}
    BY <1>0, <2>1 DEF LossOpensGap
  <2> QED BY <2>1, <2>2, CloseAccounts DEF LossFollowsData
<1>9. CASE Stall \/ Drop \/ VenueCloses
  <2>1. seen' = seen /\ (gaps' = gaps \/ gaps' = Begin(gaps))
    BY <1>9, HangupDoes
  <2>2. CASE gaps' = gaps
    BY <1>0, <2>1, <2>2 DEF LossFollowsData
  <2>3. CASE gaps' = Begin(gaps)
    BY <2>1, <2>3, BeginCovers DEF LossFollowsData
  <2> QED BY <2>1, <2>2, <2>3
<1>10. CASE Announce
  <2>1. gaps' = gaps /\ seen'.lost = seen.lost
    BY <1>10, AnnounceDoes DEF Subscribes
  <2> QED BY <1>0, <2>1 DEF LossFollowsData
<1>11. ASSUME NEW t \in Tokens, FetchAdded(t) PROVE LossFollowsData'
  BY <1>0, <1>t, <1>11, FetchAddedDoes DEF LossFollowsData, SameHistory
<1>12. CASE ApplyFetched
  BY <1>0, <1>t, <1>12, ApplyFetchedDoes DEF LossFollowsData, Noted
<1>13. CASE \/ UNCHANGED vars \/ Tick \/ Exit \/ Compare
            \/ \E t \in Tokens : Settle(t) \/ CheckIntegrity(t)
            \/ \E T \in SUBSET Tokens \ {{}} : AddTokens(T)
  <2>1. UNCHANGED <<gaps, seen>>
    BY <1>13
    DEF vars, Tick, Settle, AddTokens, CheckIntegrity, Exit, Compare
  <2> QED BY <1>0, <1>t, <2>1 DEF LossFollowsData, SameHistory
<1>14. CASE SetConnected
  BY <1>0, <1>14, SetConnectedDoes DEF LossFollowsData
<1> QED
  BY <1>1, <1>2, <1>3, <1>4, <1>5, <1>6, <1>7, <1>8, <1>9, <1>10, <1>11,
     <1>12, <1>13, <1>14
  DEF Next, Reads, Calls

\* While no outage is open nothing is lost that the reader could know of.
LEMMA LossOpensGapNext ==
  ASSUME StreamInv, [Next]_vars
  PROVE  LossOpensGap'
<1>0. /\ TypeOK /\ SocketType /\ GapsType /\ ReaderType /\ SeenType
      /\ Serving /\ Flags /\ LossFollowsData /\ LossOpensGap
  BY DEF StreamInv
<1>1. CASE Break
  <2>1. Live /\ ~Live' /\ reader' = reader /\ gaps' = gaps
    BY <1>1, BreakDoes
  <2>2. ~reader.first /\ reader.pc \notin {"closing", "leaving", "off"}
    BY <1>0, <2>1 DEF Serving, Flags, Live, Up
  <2> QED BY <1>0, <2>1, <2>2 DEF LossOpensGap
<1>2. ASSUME NEW t \in Tokens, Change(t) PROVE LossOpensGap'
  <2>1. /\ t \notin settled /\ socket'.state = socket.state
        /\ UNCHANGED <<settled, reader, gaps>> /\ seen'.served = seen.served
    BY <1>2, ChangeDoes DEF SameHistory
  <2>2. CASE seen'.lost = seen.lost
    BY <1>0, <2>1, <2>2 DEF LossOpensGap, Live
  <2>3. CASE t \in seen.served /\ ~(Live /\ t \in socket.subs)
    <3>1. ~(Live /\ gaps.start = None)
      BY <1>0, <2>1, <2>3 DEF Serving, LossOpensGap
    <3>2. ~(reader.first \/ reader.pc \in {"closing", "leaving", "off"})
      BY <1>0, <2>1, <2>3 DEF LossOpensGap
    <3> QED BY <1>0, <2>1, <3>1, <3>2 DEF LossOpensGap, Live
  <2> QED BY <1>2, <2>2, <2>3, ChangeDoes
<1>3. ASSUME NEW t \in Tokens, Settle(t) PROVE LossOpensGap'
  BY <1>0, <1>3 DEF Settle, LossOpensGap, Live, Up, SameHistory, SameReader
<1>4. CASE Connect
  <2>1. /\ reader'.pc = "opened" /\ ~reader'.first /\ seen' = seen
        /\ settled' = settled /\ gaps' = IF reader.first THEN gaps ELSE Begin(gaps)
    BY <1>4, ConnectDoes
  <2>2. CASE reader.first
    BY <1>0, <2>1, <2>2 DEF LossOpensGap
  <2>3. CASE ~reader.first
    <3>1. gaps'.start # None
      BY <2>1, <2>3, BeginCovers
    <3> QED BY <2>1, <3>1 DEF LossOpensGap
  <2> QED BY <2>2, <2>3
<1>5. CASE Subscribe
  <2>1. /\ reader.pc = "opened" /\ reader'.pc = "subscribed" /\ gaps' = gaps
        /\ reader'.first = reader.first /\ socket'.state = socket.state
        /\ seen'.lost = seen.lost
    BY <1>5, SubscribeDoes DEF SameReader, Subscribes
  <2> QED BY <1>0, <2>1 DEF LossOpensGap, Flags, Live
<1>6. CASE SetConnected
  BY <1>0, <1>6, SetConnectedDoes
  DEF LossOpensGap, Live, Up, SameHistory, SameReader
<1>7. ASSUME NEW t \in Tokens, Bootstrap(t) PROVE LossOpensGap'
  BY <1>0, <1>7, BootstrapDoes
  DEF LossOpensGap, Live, Up, SameHistory, SameReader
<1>8. CASE ApplyBootstrap
  BY <1>0, <1>8, ApplyBootstrapDoes DEF LossOpensGap, Live, Up, Noted
<1>9. CASE BootstrapDone
  <2>1. /\ reader.pc = "bootstrap" /\ reader'.pc = "stream" /\ gaps' = Close(gaps)
        /\ reader'.first = reader.first /\ socket' = socket
        /\ seen'.lost = Accounted(seen.lost)
    BY <1>9, BootstrapDoneDoes DEF SameReader
  <2>2. gaps'.start = None
    BY <2>1 DEF Close
  <2>3. Live => seen'.lost = {}
    BY <1>0, <2>1, CloseAccounts DEF LossOpensGap
  <2> QED BY <1>0, <2>1, <2>2, <2>3 DEF LossOpensGap, Flags, Live
<1>10. ASSUME NEW t \in Tokens, Receive(t) PROVE LossOpensGap'
  <2>1. /\ reader.pc = "stream" /\ reader'.pc = "stream" /\ gaps' = NoteData(gaps)
        /\ reader'.first = reader.first /\ seen'.lost = Accounted(seen.lost) /\ Live
    BY <1>10, ReceiveDoes DEF SameReader, Delivered
  <2>2. gaps'.start = None
    BY <1>0, <2>1 DEF NoteData, Close, GapsType
  <2>3. seen'.lost = {}
    BY <1>0, <2>1, CloseAccounts DEF LossOpensGap
  <2> QED BY <1>0, <2>1, <2>2, <2>3 DEF LossOpensGap, Flags
<1>11. CASE Stall \/ Drop \/ VenueCloses
  <2>1. /\ ~Live' /\ UNCHANGED <<settled, seen>> /\ reader'.first = reader.first
        /\ reader.pc \in {"opened", "stream"}
    BY <1>11, HangupDoes DEF SameReader
  <2>2. ~reader.first
    BY <1>0, <2>1 DEF Flags
  <2>3. CASE reader'.pc = "connect"
    BY <2>1, <2>2, <2>3 DEF LossOpensGap
  <2>4. CASE reader.pc = "stream" /\ Live /\ socket.subs \subseteq settled /\ reader'.pc = "closing"
    <3>1. seen.lost = {} /\ seen.served \subseteq settled
      BY <1>0, <2>4 DEF LossOpensGap, Serving
    <3> QED BY <2>1, <2>4, <3>1 DEF LossOpensGap
  <2> QED BY <1>11, <2>3, <2>4, HangupDoes
<1>12. CASE Exit
  BY <1>0, <1>12, ExitDoes DEF LossOpensGap, Live, Up, SameHistory, SameReader
<1>13. CASE Announce
  <2>1. UNCHANGED <<settled, gaps>> /\ seen'.lost = seen.lost
    BY <1>13, AnnounceDoes DEF Subscribes
  <2>2. CASE connected /\ reader' = reader /\ (Live' => Live)
    <3>1. reader.pc \in {"bootstrap", "stream"} /\ ~reader.first
      BY <1>0, <2>2 DEF Flags
    <3> QED BY <1>0, <2>1, <2>2, <3>1 DEF LossOpensGap
  <2>3. CASE reader.pc = "off" /\ seen' = seen /\ socket' = socket /\ reader'.pc = "connect"
    BY <1>0, <2>1, <2>3 DEF LossOpensGap, Live, Serving, Up
  <2>4. CASE reader' = reader /\ socket' = socket /\ seen'.served = seen.served
    BY <1>0, <2>1, <2>4 DEF LossOpensGap, Live
  <2> QED BY <1>13, <2>2, <2>3, <2>4, AnnounceDoes
<1>14. ASSUME NEW t \in Tokens, FetchAdded(t) PROVE LossOpensGap'
  BY <1>0, <1>14, FetchAddedDoes
  DEF LossOpensGap, Live, Up, SameHistory, SameReader
<1>15. CASE ApplyFetched
  BY <1>0, <1>15, ApplyFetchedDoes DEF LossOpensGap, Live, Up, Noted
<1>16. CASE \/ UNCHANGED vars \/ Tick \/ Compare
            \/ \E t \in Tokens : CheckIntegrity(t)
            \/ \E T \in SUBSET Tokens \ {{}} : AddTokens(T)
  <2>1. UNCHANGED <<socket, reader, gaps, seen, settled>>
    BY <1>16 DEF vars, Tick, AddTokens, CheckIntegrity, Compare
  <2> QED BY <1>0, <2>1 DEF LossOpensGap, Live, Up, SameHistory, SameReader
<1> QED
  BY <1>1, <1>2, <1>3, <1>4, <1>5, <1>6, <1>7, <1>8, <1>9, <1>10, <1>11,
     <1>12, <1>13, <1>14, <1>15, <1>16
  DEF Next, Reads, Calls

\* Every book that waits is on the list until its turn comes.
LEMMA ResyncListedNext ==
  ASSUME StreamInv, [Next]_vars
  PROVE  ResyncListed'
<1>0. /\ SocketType /\ BooksType /\ ReaderType /\ SeenType
      /\ HandsRegistered /\ Serving /\ Flags /\ ResyncListed
  BY DEF StreamInv
<1>w. seen.served \subseteq Registered
  BY <1>0 DEF HandsRegistered
<1>1. CASE Break
  <2>1. /\ UNCHANGED <<books, settled, caller>> /\ seen'.served = seen.served
        /\ seen'.unsynced = seen.unsynced /\ seen'.forgotten = seen.forgotten
        /\ reader'.todo = reader.todo
        /\ reader'.pc = "bootstrap" => reader.pc = "bootstrap"
    BY <1>1, BreakDoes DEF SameReader, SameHistory
  <2> QED BY <1>0, <2>1 DEF ResyncListed, AtWork
<1>2. ASSUME NEW t \in Tokens, Change(t) PROVE ResyncListed'
  <2>1. /\ UNCHANGED <<books, settled, caller, reader>> /\ seen'.served = seen.served
        /\ seen'.unsynced = seen.unsynced /\ seen'.forgotten = seen.forgotten
    BY <1>2, ChangeDoes DEF SameHistory
  <2> QED BY <1>0, <2>1 DEF ResyncListed, AtWork
<1>3. ASSUME NEW t \in Tokens, Settle(t) PROVE ResyncListed'
  BY <1>0, <1>w, <1>3
  DEF Settle, ResyncListed, AtWork, SameHistory, SameReader
<1>4. ASSUME NEW T \in SUBSET Tokens \ {{}}, AddTokens(T) PROVE ResyncListed'
  <2>1. /\ \A u \in Registered : books'[u] = books[u]
        /\ caller.pc = "idle" /\ caller.todo = {} /\ UNCHANGED <<settled, reader, seen>>
    BY <1>4, AddTokensDoes
  <2> QED BY <1>0, <1>w, <2>1 DEF ResyncListed, AtWork
<1>5. ASSUME NEW t \in Tokens, CheckIntegrity(t) PROVE ResyncListed'
  BY <1>0, <1>w, <1>5, CheckIntegrityDoes
  DEF ResyncListed, AtWork, SameHistory, SameReader
<1>6. CASE Connect
  <2>1. reader'.pc # "bootstrap"
    BY <1>6, ConnectDoes
  <2> QED BY <2>1 DEF ResyncListed
<1>7. CASE Subscribe
  <2>1. reader'.pc # "bootstrap"
    BY <1>7, SubscribeDoes
  <2> QED BY <2>1 DEF ResyncListed
<1>8. CASE SetConnected
  <2>1. /\ reader'.todo = Registered /\ UNCHANGED <<books, settled, caller>>
        /\ seen'.served = seen.served
    BY <1>8, SetConnectedDoes
  <2> QED BY <1>w, <2>1 DEF ResyncListed
<1>9. ASSUME NEW t \in Tokens, Bootstrap(t) PROVE ResyncListed'
  <2>1. /\ UNCHANGED <<books, settled, caller>> /\ seen'.served = seen.served
        /\ reader.pc = "bootstrap"
        /\ \/ reader'.todo = reader.todo /\ seen' = seen
           \/ t \in settled /\ reader'.todo = reader.todo \ {t} /\ seen' = seen
           \/ /\ reader'.todo = reader.todo \ {t} /\ seen'.unsynced = seen.unsynced \cup {t}
              /\ seen'.forgotten = seen.forgotten
    BY <1>9, BootstrapDoes
  <2> QED BY <1>0, <2>1 DEF ResyncListed, AtWork
<1>10. CASE ApplyBootstrap
  <2>1. PICK t \in Tokens, v \in 0..MaxVersion :
          Replaces(t, v) /\ Noted(t, v) /\ reader'.todo = reader.todo \ {t}
    BY <1>10, ApplyBootstrapDoes
  <2>2. UNCHANGED <<settled, caller>> /\ reader.pc = "bootstrap"
    BY <1>10, ApplyBootstrapDoes
  <2>3. /\ ~books'[t].awaiting /\ \A u \in Registered \ {t} : books'[u] = books[u]
        /\ seen'.served = seen.served /\ seen'.unsynced = seen.unsynced \ {t}
        /\ seen'.forgotten = seen.forgotten \ {t}
    BY <2>1 DEF Replaces, Noted
  <2> QED BY <1>0, <1>w, <2>1, <2>2, <2>3 DEF ResyncListed, AtWork
<1>11. CASE BootstrapDone
  <2>1. reader'.pc # "bootstrap"
    BY <1>11, BootstrapDoneDoes
  <2> QED BY <2>1 DEF ResyncListed
<1>12. ASSUME NEW t \in Tokens, Receive(t) PROVE ResyncListed'
  <2>1. reader'.pc # "bootstrap"
    BY <1>12, ReceiveDoes
  <2> QED BY <2>1 DEF ResyncListed
<1>13. CASE Stall \/ Drop \/ VenueCloses
  <2>1. reader'.pc # "bootstrap"
    BY <1>13, HangupDoes
  <2> QED BY <2>1 DEF ResyncListed
<1>14. CASE Exit
  <2>1. reader'.pc # "bootstrap"
    BY <1>14, ExitDoes
  <2> QED BY <2>1 DEF ResyncListed
<1>15. CASE Announce
  <2>1. UNCHANGED <<books, settled>> /\ caller.pc = "added"
    BY <1>15, AnnounceDoes
  <2>2. CASE reader'.pc # "bootstrap"
    BY <2>2 DEF ResyncListed
  <2>3. CASE reader' = reader /\ reader.pc # "bootstrap"
    BY <2>3 DEF ResyncListed
  <2>4. CASE /\ reader' = reader /\ caller'.pc = "fetch" /\ caller'.todo = caller.todo
             /\ seen'.unsynced = seen.unsynced /\ seen'.forgotten = seen.forgotten
             /\ seen'.served \subseteq seen.served \cup caller.todo
    BY <1>0, <2>1, <2>4 DEF ResyncListed, AtWork
  <2>5. reader.pc = "bootstrap" => connected /\ ~closed
    BY <1>0 DEF Flags
  <2>6. \/ reader'.pc # "bootstrap"
        \/ reader' = reader /\ reader.pc # "bootstrap"
        \/ /\ reader' = reader /\ caller'.pc = "fetch" /\ caller'.todo = caller.todo
           /\ seen'.unsynced = seen.unsynced /\ seen'.forgotten = seen.forgotten
           /\ seen'.served \subseteq seen.served \cup caller.todo
    BY <2>5, <1>15, AnnounceDoes DEF Subscribes
  <2> QED BY <2>2, <2>3, <2>4, <2>6
<1>16. ASSUME NEW t \in Tokens, FetchAdded(t) PROVE ResyncListed'
  <2>1. /\ UNCHANGED <<books, settled, reader>> /\ seen'.served = seen.served
        /\ caller.pc = "fetch"
        /\ \/ /\ caller'.pc = "apply" /\ caller'.token = t
              /\ caller'.todo = caller.todo \ {t} /\ seen' = seen
           \/ /\ seen'.unsynced = seen.unsynced \cup {t}
              /\ seen'.forgotten = seen.forgotten \cup (caller.todo \ {t})
    BY <1>16, FetchAddedDoes
  <2> QED BY <1>0, <2>1 DEF ResyncListed, AtWork
<1>17. CASE Compare
  BY <1>0, <1>w, <1>17, CompareDoes
  DEF ResyncListed, AtWork, SameHistory, SameReader
<1>18. CASE ApplyFetched
  <2> DEFINE t == caller.token
  <2>1. PICK v \in 0..MaxVersion : Replaces(t, v) /\ Noted(t, v)
    BY <1>18, ApplyFetchedDoes
  <2>2. UNCHANGED <<settled, reader>> /\ caller.pc = "apply" /\ caller'.todo = caller.todo
    BY <1>18, ApplyFetchedDoes
  <2>3. /\ ~books'[t].awaiting /\ \A u \in Registered \ {t} : books'[u] = books[u]
        /\ seen'.served = seen.served /\ seen'.unsynced = seen.unsynced \ {t}
        /\ seen'.forgotten = seen.forgotten \ {t}
    BY <2>1 DEF Replaces, Noted
  <2> QED BY <1>0, <1>w, <2>2, <2>3 DEF ResyncListed, AtWork
<1>19. CASE \/ UNCHANGED vars \/ Tick
  <2>1. UNCHANGED <<books, settled, reader, caller, seen>>
    BY <1>19 DEF vars, Tick
  <2> QED BY <1>0, <1>w, <2>1 DEF ResyncListed, AtWork, SameHistory, SameReader
<1> QED
  BY <1>1, <1>2, <1>3, <1>4, <1>5, <1>6, <1>7, <1>8, <1>9, <1>10, <1>11,
     <1>12, <1>13, <1>14, <1>15, <1>16, <1>17, <1>18, <1>19
  DEF Next, Reads, Calls

\* Whoever is to fetch a book that waits is still there.
LEMMA SomeoneFetchesNext ==
  ASSUME StreamInv, [Next]_vars
  PROVE  SomeoneFetches'
<1>0. /\ SocketType /\ BooksType /\ ReaderType /\ SeenType
      /\ HandsRegistered /\ Serving /\ Flags /\ SomeoneFetches
  BY DEF StreamInv
<1>1. CASE Break
  BY <1>0, <1>1, BreakDoes
  DEF SomeoneFetches, ReaderFetches, AtWork, Registered, SameHistory, SameReader, Idle
<1>2. ASSUME NEW t \in Tokens, Change(t) PROVE SomeoneFetches'
  <2>1. /\ UNCHANGED <<books, settled, caller, reader>>
        /\ seen'.missed = seen.missed /\ seen'.unsynced = seen.unsynced
        /\ seen'.forgotten = seen.forgotten
    BY <1>2, ChangeDoes DEF SameHistory
  <2> QED BY <1>0, <2>1 DEF SomeoneFetches, ReaderFetches, AtWork, Registered
<1>3. ASSUME NEW t \in Tokens, Settle(t) PROVE SomeoneFetches'
  <2>1. UNCHANGED <<books, caller, reader, seen>> /\ settled \subseteq settled'
    BY <1>3 DEF Settle
  <2> QED BY <1>0, <2>1 DEF SomeoneFetches, ReaderFetches, AtWork, Registered
<1>4. ASSUME NEW T \in SUBSET Tokens \ {{}}, AddTokens(T) PROVE SomeoneFetches'
  <2>1. /\ Registered' = Registered \cup T /\ \A u \in Registered : books'[u] = books[u]
        /\ caller.pc = "idle" /\ caller.todo = {} /\ caller'.pc = "added" /\ caller'.todo = T
        /\ UNCHANGED <<settled, reader, seen>>
    BY <1>4, AddTokensDoes
  <2> QED BY <1>0, <2>1 DEF SomeoneFetches, ReaderFetches, AtWork
<1>5. ASSUME NEW t \in Tokens, CheckIntegrity(t) PROVE SomeoneFetches'
  BY <1>0, <1>5, CheckIntegrityDoes
  DEF SomeoneFetches, ReaderFetches, AtWork, Registered, SameHistory, SameReader, Idle
<1>6. CASE Connect
  <2>1. reader'.pc \in {"connect", "opened", "subscribed"}
    BY <1>6, ConnectDoes
  <2> QED BY <2>1 DEF SomeoneFetches, ReaderFetches
<1>7. CASE Subscribe
  <2>1. reader'.pc \in {"connect", "opened", "subscribed"}
    BY <1>7, SubscribeDoes
  <2> QED BY <2>1 DEF SomeoneFetches, ReaderFetches
<1>8. CASE SetConnected
  <2>1. reader'.pc = "bootstrap" /\ reader'.todo = Registered /\ Registered' = Registered
    BY <1>8, SetConnectedDoes DEF Registered
  <2> QED BY <2>1 DEF SomeoneFetches, ReaderFetches
<1>9. ASSUME NEW t \in Tokens, Bootstrap(t) PROVE SomeoneFetches'
  <2>1. /\ UNCHANGED <<books, settled, caller>> /\ seen'.missed = seen.missed
        /\ reader.pc = "bootstrap" /\ reader'.pc = "bootstrap"
        /\ \/ reader'.todo = reader.todo /\ seen' = seen
           \/ t \in settled /\ reader'.todo = reader.todo \ {t} /\ seen' = seen
           \/ /\ reader'.todo = reader.todo \ {t} /\ seen'.unsynced = seen.unsynced \cup {t}
              /\ seen'.forgotten = seen.forgotten
    BY <1>9, BootstrapDoes
  <2> QED BY <1>0, <2>1 DEF SomeoneFetches, ReaderFetches, AtWork, Registered
<1>10. CASE ApplyBootstrap
  <2>1. PICK t \in Tokens, v \in 0..MaxVersion :
          Replaces(t, v) /\ Noted(t, v) /\ reader'.todo = reader.todo \ {t}
    BY <1>10, ApplyBootstrapDoes
  <2>2. UNCHANGED <<settled, caller>> /\ reader.pc = "bootstrap" /\ reader'.pc = "bootstrap"
    BY <1>10, ApplyBootstrapDoes
  <2>3. /\ Registered' = Registered /\ ~books'[t].awaiting
        /\ \A u \in Registered \ {t} : books'[u] = books[u]
        /\ seen'.missed = seen.missed /\ seen'.unsynced = seen.unsynced \ {t}
        /\ seen'.forgotten = seen.forgotten \ {t}
    BY <2>1 DEF Replaces, Noted
  <2> QED BY <1>0, <2>1, <2>2, <2>3 DEF SomeoneFetches, ReaderFetches, AtWork
<1>11. CASE BootstrapDone
  <2>1. /\ UNCHANGED <<books, settled, caller>> /\ reader.pc = "bootstrap" /\ reader.todo = {}
        /\ seen'.missed = seen.missed /\ seen'.unsynced = seen.unsynced
        /\ seen'.forgotten = seen.forgotten
    BY <1>11, BootstrapDoneDoes DEF SameHistory
  <2> QED BY <1>0, <2>1 DEF SomeoneFetches, ReaderFetches, AtWork, Registered
<1>12. ASSUME NEW t \in Tokens, Receive(t) PROVE SomeoneFetches'
  <2>1. /\ reader.pc = "stream" /\ Registered' = Registered
        /\ UNCHANGED <<settled, caller>> /\ seen'.missed = seen.missed
        /\ \A u \in Tokens \ {t} : u \in seen.unsynced => u \in seen'.unsynced
        /\ \A u \in Tokens \ {t} : u \in seen.forgotten => u \in seen'.forgotten
    BY <1>12, ReceiveDoes DEF Replaces, Adds, Delivered
  <2>2. \A u \in Registered \ {t} : books'[u] = books[u]
    BY <1>12, ReceiveDoes DEF Replaces, Adds
  <2>3. \/ ~books'[t].awaiting
        \/ /\ books'[t].awaiting = books[t].awaiting
           /\ seen'.unsynced = seen.unsynced /\ seen'.forgotten = seen.forgotten
    BY <1>12, ReceiveDoes DEF Replaces, Adds
  <2>4. Registered \subseteq Tokens
    BY <1>0 DEF BooksType
  <2>5. AtWork' = AtWork
    BY <2>1 DEF AtWork
  <2> SUFFICES ASSUME NEW u \in Registered \ (seen'.missed \cup settled \cup seen'.unsynced
                                                \cup seen'.forgotten \cup AtWork),
                      books'[u].awaiting
               PROVE  FALSE
    BY <2>1, <2>5 DEF SomeoneFetches
  <2>6. u \notin seen.unsynced \cup seen.forgotten /\ books[u].awaiting
    <3>1. CASE u = t
      BY <2>3, <3>1
    <3>2. CASE u # t
      <4>1. u \in Tokens \ {t} /\ books'[u] = books[u]
        BY <2>2, <2>4, <3>2
      <4>2. u \notin seen.unsynced \cup seen.forgotten
        BY <2>1, <4>1
      <4> QED BY <4>1, <4>2
    <3> QED BY <3>1, <3>2
  <2> QED BY <1>0, <2>1, <2>6 DEF SomeoneFetches, ReaderFetches
<1>13. CASE Stall \/ Drop \/ VenueCloses
  <2>1. UNCHANGED <<books, settled, caller, seen>>
    BY <1>13, HangupDoes
  <2>2. reader'.pc = "connect" \/ reader.pc = "stream"
    BY <1>13, HangupDoes
  <2> QED BY <1>0, <2>1, <2>2 DEF SomeoneFetches, ReaderFetches, AtWork, Registered
<1>14. CASE Exit
  BY <1>0, <1>14, ExitDoes
  DEF SomeoneFetches, ReaderFetches, AtWork, Registered, SameHistory, SameReader, Idle
<1>15. CASE Announce
  <2> DEFINE T == caller.todo
  <2>1. /\ UNCHANGED <<books, settled>> /\ caller.pc = "added" /\ Registered' = Registered
        /\ seen'.unsynced = seen.unsynced /\ seen'.forgotten = seen.forgotten
    BY <1>15, AnnounceDoes DEF Subscribes
  <2>2. CASE reader'.pc \in {"connect", "opened", "subscribed"}
    BY <2>2 DEF SomeoneFetches, ReaderFetches
  <2>3. CASE reader' = reader /\ seen'.missed = seen.missed \cup T
    BY <1>0, <2>1, <2>3 DEF SomeoneFetches, ReaderFetches, AtWork
  <2>4. CASE /\ caller'.pc = "fetch" /\ caller'.todo = T /\ reader' = reader
             /\ seen'.missed = seen.missed
    BY <1>0, <2>1, <2>4 DEF SomeoneFetches, ReaderFetches, AtWork
  <2>5. CASE /\ reader' = reader /\ ~connected
             /\ seen'.missed = seen.missed \cup (T \ socket.subs)
    <3>1. CASE T \cap socket.subs = {}
      <4>1. T \ socket.subs = T
        BY <3>1
      <4> QED BY <2>3, <2>5, <4>1
    <3>2. CASE T \cap socket.subs # {}
      <4>1. Up
        BY <1>0, <3>2 DEF Serving, Live, Up
      <4>2. reader.pc \in {"connect", "opened", "subscribed"}
        BY <1>0, <2>5, <4>1 DEF Serving, Flags, ReaderType
      <4> QED BY <2>2, <2>5, <4>2
    <3> QED BY <3>1, <3>2
  <2> QED BY <1>15, <2>2, <2>3, <2>4, <2>5, AnnounceDoes DEF Subscribes
<1>16. ASSUME NEW t \in Tokens, FetchAdded(t) PROVE SomeoneFetches'
  <2>1. /\ UNCHANGED <<books, settled, reader>> /\ caller.pc = "fetch"
        /\ seen'.missed = seen.missed
        /\ \/ /\ caller'.pc = "apply" /\ caller'.token = t
              /\ caller'.todo = caller.todo \ {t} /\ seen' = seen
           \/ /\ seen'.unsynced = seen.unsynced \cup {t}
              /\ seen'.forgotten = seen.forgotten \cup (caller.todo \ {t})
    BY <1>16, FetchAddedDoes
  <2> QED BY <1>0, <2>1 DEF SomeoneFetches, ReaderFetches, AtWork, Registered
<1>17. CASE Compare
  BY <1>0, <1>17, CompareDoes
  DEF SomeoneFetches, ReaderFetches, AtWork, Registered, SameHistory, SameReader, Idle
<1>18. CASE ApplyFetched
  <2> DEFINE t == caller.token
  <2>1. PICK v \in 0..MaxVersion : Replaces(t, v) /\ Noted(t, v)
    BY <1>18, ApplyFetchedDoes
  <2>2. UNCHANGED <<settled, reader>> /\ caller.pc = "apply" /\ caller'.todo = caller.todo
    BY <1>18, ApplyFetchedDoes
  <2>3. /\ Registered' = Registered /\ ~books'[t].awaiting
        /\ \A u \in Registered \ {t} : books'[u] = books[u]
        /\ seen'.missed = seen.missed /\ seen'.unsynced = seen.unsynced \ {t}
        /\ seen'.forgotten = seen.forgotten \ {t}
    BY <2>1 DEF Replaces, Noted
  <2> QED BY <1>0, <2>2, <2>3 DEF SomeoneFetches, ReaderFetches, AtWork
<1>19. CASE \/ UNCHANGED vars \/ Tick
  <2>1. UNCHANGED <<books, settled, reader, caller, seen>>
    BY <1>19 DEF vars, Tick
  <2> QED BY <1>0, <2>1
  DEF SomeoneFetches, ReaderFetches, AtWork, Registered, SameHistory, SameReader, Idle
<1> QED
  BY <1>1, <1>2, <1>3, <1>4, <1>5, <1>6, <1>7, <1>8, <1>9, <1>10, <1>11,
     <1>12, <1>13, <1>14, <1>15, <1>16, <1>17, <1>18, <1>19
  DEF Next, Reads, Calls

\* A book that waits and is fetched by nobody is on the wire, and stays there.
LEMMA BookComesNext ==
  ASSUME StreamInv, [Next]_vars
  PROVE  BookComes'
<1>0. /\ TypeOK /\ SocketType /\ BooksType /\ ReaderType /\ CallerType /\ SeenType
      /\ HandsRegistered /\ Serving /\ Flags /\ BookComes
  BY DEF StreamInv
<1>w. Registered \subseteq Tokens /\ caller.todo \subseteq Registered
  BY <1>0 DEF BooksType, HandsRegistered
<1> USE DEF BookComes, ReaderFetches
<1>1. CASE Break
  <2>1. /\ UNCHANGED <<books, settled, caller, reader>> /\ ~Live'
        /\ SameHistory(seen, seen')
    BY <1>1, BreakDoes
  <2>2. Live /\ Up
    BY <1>1, BreakDoes DEF Live, Up
  <2>3. reader.pc \in {"opened", "subscribed", "bootstrap", "stream"}
    BY <1>0, <2>2 DEF Serving, ReaderType
  <2> QED BY <2>1, <2>3
<1>2. ASSUME NEW t \in Tokens, Change(t) PROVE BookComes'
  <2>1. /\ UNCHANGED <<books, settled, caller, reader>> /\ SameHistory(seen, seen')
        /\ socket'.state = socket.state /\ socket'.subs = socket.subs
        /\ \A u \in Tokens \ {t} : socket'.wire[u] = socket.wire[u]
        /\ venue[t] + 1 \in 1..MaxVersion
    BY <1>2, ChangeDoes
  <2> DEFINE m == [kind |-> "price_change", v |-> venue[t] + 1]
  <2>2. socket'.wire[t] = Append(socket.wire[t], m) \/ socket' = socket
    BY <1>2, ChangeDoes
  <2>3. m \in Frame /\ socket.wire[t] \in Seq(Frame)
    BY <1>0, <2>1 DEF Frame, SocketType
  <2> HIDE DEF m
  <2>4. BookOn(socket.wire[t]) => BookOn(socket'.wire[t])
    BY <2>2, <2>3, BookOnMore
  <2>5. \A u \in Registered : BookOn(socket.wire[u]) => BookOn(socket'.wire[u])
    BY <1>w, <2>1, <2>4
  <2> QED BY <1>0, <2>1, <2>5 DEF SameHistory, Registered, Live
<1>3. ASSUME NEW t \in Tokens, Settle(t) PROVE BookComes'
  <2>1. UNCHANGED <<books, caller, reader, socket, seen>> /\ settled \subseteq settled'
    BY <1>3 DEF Settle
  <2> QED BY <1>0, <2>1 DEF Registered, Live
<1>4. ASSUME NEW T \in SUBSET Tokens \ {{}}, AddTokens(T) PROVE BookComes'
  <2>1. /\ Registered' = Registered \cup T /\ \A u \in Registered : books'[u] = books[u]
        /\ T \cap Registered = {} /\ caller.pc = "idle"
        /\ caller'.pc = "added" /\ caller'.todo = T
        /\ UNCHANGED <<settled, socket, reader, seen>>
    BY <1>4, AddTokensDoes
  <2>2. T \cap socket.subs = {}
    BY <1>0, <2>1 DEF Serving, HandsRegistered
  <2> QED BY <1>0, <2>1, <2>2 DEF Live
<1>5. ASSUME NEW t \in Tokens, CheckIntegrity(t) PROVE BookComes'
  <2>1. caller.pc = "idle" /\ UNCHANGED <<books, settled, socket, reader, seen>>
    BY <1>5, CheckIntegrityDoes
  <2> QED BY <1>0, <2>1 DEF Registered, Live
<1>6. CASE Connect \/ Subscribe
  <2>1. reader'.pc \in {"connect", "opened", "subscribed"}
    BY <1>6, ConnectDoes, SubscribeDoes
  <2> QED BY <2>1
<1>7. CASE SetConnected
  <2>1. reader'.pc = "bootstrap" /\ reader'.todo = Registered /\ Registered' = Registered
    BY <1>7, SetConnectedDoes DEF Registered
  <2> QED BY <2>1
<1>8. ASSUME NEW t \in Tokens, Bootstrap(t) PROVE BookComes'
  <2>1. /\ UNCHANGED <<books, settled, caller, socket>> /\ seen'.missed = seen.missed
        /\ seen'.suspect = seen.suspect
        /\ reader.pc = "bootstrap" /\ reader'.pc = "bootstrap"
        /\ \/ reader'.todo = reader.todo /\ seen' = seen
           \/ t \in settled /\ reader'.todo = reader.todo \ {t} /\ seen' = seen
           \/ reader'.todo = reader.todo \ {t} /\ seen'.unsynced = seen.unsynced \cup {t}
    BY <1>8, BootstrapDoes
  <2> QED BY <1>0, <2>1 DEF Registered, Live
<1>9. CASE ApplyBootstrap
  <2>1. PICK t \in Tokens, v \in 0..MaxVersion :
          Replaces(t, v) /\ Noted(t, v) /\ reader'.todo = reader.todo \ {t}
    BY <1>9, ApplyBootstrapDoes
  <2>2. /\ UNCHANGED <<settled, caller, socket>>
        /\ reader.pc = "bootstrap" /\ reader'.pc = "bootstrap"
    BY <1>9, ApplyBootstrapDoes
  <2>3. /\ Registered' = Registered /\ ~books'[t].awaiting
        /\ \A u \in Registered \ {t} : books'[u] = books[u]
        /\ seen'.missed = seen.missed /\ seen'.unsynced = seen.unsynced \ {t}
        /\ seen.suspect \subseteq seen'.suspect \cup {t}
    BY <2>1 DEF Replaces, Noted
  <2> QED BY <1>0, <2>1, <2>2, <2>3 DEF Live
<1>10. CASE BootstrapDone
  <2>1. /\ UNCHANGED <<books, settled, caller, socket>>
        /\ reader.pc = "bootstrap" /\ reader.todo = {} /\ reader'.pc = "stream"
        /\ SameHistory(seen, seen')
    BY <1>10, BootstrapDoneDoes
  <2> QED BY <1>0, <2>1 DEF SameHistory, Registered, Live
<1>11. ASSUME NEW t \in Tokens, Receive(t) PROVE BookComes'
  <2>1. /\ reader.pc = "stream" /\ Registered' = Registered /\ Live
        /\ reader'.pc = "stream" /\ socket'.subs = socket.subs
        /\ UNCHANGED <<settled, caller>> /\ seen'.missed = seen.missed
        /\ \A u \in Tokens \ {t} : socket'.wire[u] = socket.wire[u]
        /\ \A u \in Tokens \ {t} : u \in seen.unsynced => u \in seen'.unsynced
        /\ \A u \in Tokens \ {t} : u \in seen.suspect => u \in seen'.suspect
    BY <1>11, ReceiveDoes DEF Replaces, Adds, Delivered
  <2>2. \A u \in Registered \ {t} : books'[u] = books[u]
    BY <1>11, ReceiveDoes DEF Replaces, Adds
  <2>3. \/ ~books'[t].awaiting
        \/ t \in seen'.suspect
        \/ /\ books'[t].awaiting = books[t].awaiting
           /\ seen'.unsynced = seen.unsynced /\ seen'.suspect = seen.suspect
           /\ BookOn(socket.wire[t]) => BookOn(socket'.wire[t])
    BY <1>11, ReceiveDoes DEF Replaces, Adds
  <2> SUFFICES ASSUME NEW u \in Registered \ (seen'.missed \cup settled \cup seen'.unsynced
                                                \cup seen'.suspect),
                      books'[u].awaiting
               PROVE  \/ caller.pc = "added" /\ u \in caller.todo \ socket.subs
                      \/ BookOn(socket'.wire[u])
    BY <2>1
  <2>4. u \notin seen.missed \cup settled \cup seen.unsynced \cup seen.suspect /\ books[u].awaiting
    <3>1. CASE u = t
      BY <2>1, <2>3, <3>1
    <3>2. CASE u # t
      <4>1. u \in Tokens \ {t} /\ books'[u] = books[u]
        BY <1>w, <2>2, <3>2
      <4>2. u \notin seen.unsynced \cup seen.suspect
        BY <2>1, <4>1
      <4> QED BY <2>1, <4>1, <4>2
    <3> QED BY <3>1, <3>2
  <2>5. \/ caller.pc = "added" /\ u \in caller.todo \ socket.subs
        \/ BookOn(socket.wire[u])
    BY <1>0, <2>1, <2>4
  <2> QED BY <1>w, <2>1, <2>3, <2>5
<1>12. CASE Stall \/ Drop \/ VenueCloses
  <2>1. CASE reader'.pc = "connect"
    BY <2>1
  <2>2. CASE VenueCloses
    <3>1. /\ reader.pc = "stream" /\ Live /\ \A t \in Tokens : socket.wire[t] = <<>>
          /\ socket'.subs = {}
      BY <2>2 DEF VenueCloses, Hangup, NoSocket
    <3>2. UNCHANGED <<books, settled, caller, seen>>
      BY <2>2 DEF VenueCloses
    <3>3. \A t \in Registered : ~BookOn(socket.wire[t])
      BY <1>w, <3>1 DEF BookOn
    <3> QED BY <1>0, <3>1, <3>2, <3>3 DEF Registered
  <2> QED BY <1>0, <1>12, <2>1, <2>2 DEF Stall, Drop, Hangup, ReaderType
<1>13. CASE Exit
  <2>1. /\ UNCHANGED <<books, settled, caller, socket, seen>>
        /\ reader.pc \in {"closing", "leaving"}
    BY <1>13, ExitDoes
  <2> QED BY <1>0, <2>1 DEF Registered, Live
<1>14. CASE Announce
  <2> DEFINE T == caller.todo
  <2>1. /\ UNCHANGED <<books, settled>> /\ caller.pc = "added" /\ Registered' = Registered
        /\ seen'.unsynced = seen.unsynced /\ seen'.suspect = seen.suspect
    BY <1>14, AnnounceDoes DEF Subscribes
  <2>2. CASE reader'.pc \in {"connect", "opened", "subscribed"}
    BY <2>2
  <2>3. CASE /\ reader' = reader /\ socket' = socket
             /\ \/ seen'.missed = seen.missed \cup T
                \/ seen'.missed = seen.missed \cup (T \ socket.subs)
    BY <1>0, <2>1, <2>3 DEF Live
  <2>4. CASE /\ reader' = reader /\ Live /\ Live' /\ Subscribes(T)
             /\ seen'.missed = seen.missed
    <3>1. \A u \in Registered \ settled :
            /\ BookOn(socket.wire[u]) => BookOn(socket'.wire[u])
            /\ u \in T \ socket.subs => BookOn(socket'.wire[u])
      <4> SUFFICES ASSUME NEW u \in Registered \ settled
                   PROVE  /\ BookOn(socket.wire[u]) => BookOn(socket'.wire[u])
                          /\ u \in T \ socket.subs => BookOn(socket'.wire[u])
        OBVIOUS
      <4> DEFINE m == [kind |-> "book", v |-> venue[u]]
      <4>1. socket'.wire[u] = IF u \in T \ (socket.subs \cup settled)
                              THEN Append(socket.wire[u], m) ELSE socket.wire[u]
        BY <1>w, <2>4 DEF Subscribes
      <4>2. m \in Frame /\ m.kind = "book" /\ socket.wire[u] \in Seq(Frame)
        BY <1>0, <1>w, BookFrame DEF TypeOK, SocketType
      <4> HIDE DEF m
      <4> QED BY <4>1, <4>2, BookOnMore
    <3> QED BY <1>0, <2>1, <2>4, <3>1
  <2>5. CASE reader' = reader /\ connected /\ ~Live /\ socket' = socket
    <3>1. reader.pc \in {"bootstrap", "stream"}
      BY <1>0, <2>5 DEF Flags
    <3> QED BY <2>5, <3>1 DEF Live
  <2> QED BY <1>14, <2>2, <2>3, <2>4, <2>5, AnnounceDoes
<1>15. ASSUME NEW t \in Tokens, FetchAdded(t) PROVE BookComes'
  <2>1. /\ UNCHANGED <<books, settled, reader, socket>> /\ caller.pc = "fetch"
        /\ seen'.missed = seen.missed /\ seen'.suspect = seen.suspect
        /\ seen.unsynced \subseteq seen'.unsynced
    BY <1>15, FetchAddedDoes
  <2> QED BY <1>0, <2>1 DEF Registered, Live
<1>16. CASE Compare
  <2>1. caller.pc = "compare" /\ UNCHANGED <<books, settled, reader, socket, seen>>
    BY <1>16, CompareDoes
  <2> QED BY <1>0, <2>1 DEF Registered, Live
<1>17. CASE ApplyFetched
  <2> DEFINE t == caller.token
  <2>1. PICK v \in 0..MaxVersion : Replaces(t, v) /\ Noted(t, v)
    BY <1>17, ApplyFetchedDoes
  <2>2. UNCHANGED <<settled, reader, socket>> /\ caller.pc = "apply"
    BY <1>17, ApplyFetchedDoes
  <2>3. /\ Registered' = Registered /\ ~books'[t].awaiting
        /\ \A u \in Registered \ {t} : books'[u] = books[u]
        /\ seen'.missed = seen.missed /\ seen'.unsynced = seen.unsynced \ {t}
        /\ seen.suspect \subseteq seen'.suspect \cup {t}
    BY <2>1 DEF Replaces, Noted
  <2> QED BY <1>0, <2>2, <2>3 DEF Live
<1>18. CASE UNCHANGED vars \/ Tick
  <2>1. UNCHANGED <<books, settled, reader, caller, socket, seen>>
    BY <1>18 DEF vars, Tick
  <2> QED BY <1>0, <2>1 DEF Registered, Live
<1> QED
  BY <1>1, <1>2, <1>3, <1>4, <1>5, <1>6, <1>7, <1>8, <1>9, <1>10, <1>11,
     <1>12, <1>13, <1>14, <1>15, <1>16, <1>17, <1>18
  DEF Next, Reads, Calls

\* A book is quoted from only once it was served or is suspect.
LEMMA UnservedIsSuspectNext ==
  ASSUME StreamInv, [Next]_vars
  PROVE  UnservedIsSuspect'
<1>0. /\ SocketType /\ BooksType /\ ReaderType /\ SeenType
      /\ HandsRegistered /\ Serving /\ UnservedIsSuspect
  BY DEF StreamInv
<1>1. CASE Break
  BY <1>0, <1>1, BreakDoes
  DEF UnservedIsSuspect, Quotable, Registered, SameHistory
<1>2. ASSUME NEW t \in Tokens, Change(t) PROVE UnservedIsSuspect'
  <2>1. books' = books /\ seen'.served = seen.served /\ seen'.suspect = seen.suspect
    BY <1>2, ChangeDoes DEF SameHistory
  <2> QED BY <1>0, <2>1 DEF UnservedIsSuspect, Quotable, Registered
<1>3. ASSUME NEW T \in SUBSET Tokens \ {{}}, AddTokens(T) PROVE UnservedIsSuspect'
  <2>1. /\ Registered' = Registered \cup T /\ \A u \in Registered : books'[u] = books[u]
        /\ \A u \in T : books'[u].awaiting
        /\ seen' = seen
    BY <1>3, AddTokensDoes
  <2> QED BY <1>0, <2>1 DEF UnservedIsSuspect, Quotable
<1>4. CASE Connect
  <2>1. /\ Registered' = Registered /\ seen' = seen
        /\ books' = books \/ \A u \in Registered : books'[u].awaiting
    BY <1>0, <1>4, ConnectDoes DEF ReaderType
  <2> QED BY <1>0, <2>1 DEF UnservedIsSuspect, Quotable
<1>5. CASE Subscribe
  <2>1. books' = books /\ seen.served \subseteq seen'.served /\ seen'.suspect = seen.suspect
    BY <1>5, SubscribeDoes DEF Subscribes
  <2> QED BY <1>0, <2>1 DEF UnservedIsSuspect, Quotable, Registered
<1>6. ASSUME NEW t \in Tokens, Bootstrap(t) PROVE UnservedIsSuspect'
  BY <1>0, <1>6, BootstrapDoes
  DEF UnservedIsSuspect, Quotable, Registered, SameHistory
<1>7. CASE ApplyBootstrap
  <2>1. PICK t \in Tokens, v \in 0..MaxVersion :
          Replaces(t, v) /\ Noted(t, v) /\ reader'.todo = reader.todo \ {t}
    BY <1>7, ApplyBootstrapDoes
  <2>2. /\ Registered' = Registered /\ \A u \in Registered \ {t} : books'[u] = books[u]
        /\ t \in seen'.served \cup seen'.suspect /\ seen'.served = seen.served
        /\ seen.suspect \subseteq seen'.suspect \cup {t}
    BY <1>0, <2>1 DEF Replaces, Noted, Serving
  <2> QED BY <1>0, <2>2 DEF UnservedIsSuspect, Quotable
<1>8. CASE BootstrapDone
  BY <1>0, <1>8, BootstrapDoneDoes
  DEF UnservedIsSuspect, Quotable, Registered, SameHistory
<1>9. ASSUME NEW t \in Tokens, Receive(t) PROVE UnservedIsSuspect'
  <2>1. /\ Registered' = Registered /\ \A u \in Registered \ {t} : books'[u] = books[u]
        /\ t \in socket.subs /\ seen'.served = seen.served
        /\ seen.suspect \subseteq seen'.suspect \cup {t}
    BY <1>9, ReceiveDoes DEF Replaces, Adds, Delivered
  <2> QED BY <1>0, <2>1 DEF UnservedIsSuspect, Quotable, Serving
<1>10. CASE Announce
  <2>1. books' = books /\ seen.served \subseteq seen'.served /\ seen'.suspect = seen.suspect
    BY <1>10, AnnounceDoes DEF Subscribes
  <2> QED BY <1>0, <2>1 DEF UnservedIsSuspect, Quotable, Registered
<1>11. ASSUME NEW t \in Tokens, FetchAdded(t) PROVE UnservedIsSuspect'
  BY <1>0, <1>11, FetchAddedDoes
  DEF UnservedIsSuspect, Quotable, Registered, SameHistory
<1>12. CASE ApplyFetched
  <2> DEFINE t == caller.token
  <2>1. PICK v \in 0..MaxVersion : Replaces(t, v) /\ Noted(t, v)
    BY <1>12, ApplyFetchedDoes
  <2>2. /\ Registered' = Registered /\ \A u \in Registered \ {t} : books'[u] = books[u]
        /\ t \in seen'.served \cup seen'.suspect /\ seen'.served = seen.served
        /\ seen.suspect \subseteq seen'.suspect \cup {t}
    BY <1>0, <2>1 DEF Replaces, Noted, Serving
  <2> QED BY <1>0, <2>2 DEF UnservedIsSuspect, Quotable
<1>13. CASE \/ UNCHANGED vars \/ Tick \/ Stall \/ Drop \/ VenueCloses \/ Exit \/ Compare
            \/ \E t \in Tokens : Settle(t) \/ CheckIntegrity(t)
  <2>1. UNCHANGED <<books, seen>>
    BY <1>13
    DEF vars, Tick, Settle, CheckIntegrity, Exit, Compare,
        Stall, Drop, VenueCloses, Hangup
  <2> QED BY <1>0, <2>1 DEF UnservedIsSuspect, Quotable, Registered, SameHistory
<1>14. CASE SetConnected
  BY <1>0, <1>14, SetConnectedDoes DEF UnservedIsSuspect, Quotable, Registered
<1> QED
  BY <1>1, <1>2, <1>3, <1>4, <1>5, <1>6, <1>7, <1>8, <1>9, <1>10, <1>11,
     <1>12, <1>13, <1>14
  DEF Next, Reads, Calls

\* A subscription sends the books of tokens that were not served, and no frame
\* of the others is lost.
LEMMA SubscriptionCompletes ==
  ASSUME StreamInv, NEW T \in SUBSET Tokens, Subscribes(T), Live,
         UNCHANGED <<venue, settled>>
  PROVE  WireIsComplete'
<1>0. TypeOK /\ SocketType /\ SeenType /\ WireIsComplete
  BY DEF StreamInv
<1> SUFFICES ASSUME NEW t \in socket'.subs \ settled
             PROVE  (seen'.delivered[t] + 1)..venue'[t] \subseteq UnderWay(t)'
  BY DEF WireIsComplete
<1>1. /\ t \in Tokens /\ venue[t] \in 0..MaxVersion /\ socket.wire[t] \in Seq(Frame)
      /\ seen'.delivered[t] = seen.delivered[t] /\ seen.delivered[t] \in 0..MaxVersion
  BY <1>0 DEF Subscribes, TypeOK, SocketType, SeenType, History
<1>2. CASE t \in socket.subs
  <2>1. socket'.wire[t] = socket.wire[t]
    BY <1>1, <1>2 DEF Subscribes
  <2> QED BY <1>0, <1>1, <1>2, <2>1, UnderWayCarried DEF WireIsComplete
<1>3. CASE t \notin socket.subs
  <2> DEFINE m == [kind |-> "book", v |-> venue[t]]
  <2>1. socket'.wire[t] = Append(socket.wire[t], m)
    BY <1>1, <1>3 DEF Subscribes
  <2>2. m \in Frame /\ Of(m) = 1..venue[t]
    BY <1>1, BookFrame DEF Of
  <2> HIDE DEF m
  <2>3. Of(m) \subseteq Carried(socket'.wire[t])
    BY <1>1, <2>1, <2>2, CarriedMore
  <2>4. (seen.delivered[t] + 1)..venue[t] \subseteq 1..venue[t]
    BY <1>1
  <2> QED BY <1>1, <2>2, <2>3, <2>4, UnderWayCarried
<1> QED
  BY <1>2, <1>3

\* What the reader was not handed stays under way.
LEMMA WireIsCompleteNext ==
  ASSUME StreamInv, [Next]_vars
  PROVE  WireIsComplete'
<1>0. /\ TypeOK /\ SocketType /\ BooksType /\ ReaderType /\ SeenType
      /\ HandsRegistered /\ Serving /\ WireIsComplete
  BY DEF StreamInv
<1>1. CASE Break
  <2>1. ~Live'
    BY <1>1, BreakDoes
  <2> QED BY <2>1 DEF WireIsComplete
<1>2. ASSUME NEW t \in Tokens, Change(t) PROVE WireIsComplete'
  <2>1. /\ settled' = settled /\ socket'.subs = socket.subs /\ socket'.state = socket.state
        /\ venue'[t] = venue[t] + 1 /\ seen'.delivered = seen.delivered
        /\ \A u \in Tokens \ {t} : venue'[u] = venue[u] /\ socket'.wire[u] = socket.wire[u]
    BY <1>2, ChangeDoes DEF SameHistory
  <2> SUFFICES ASSUME Live, NEW u \in socket.subs \ settled
               PROVE  (seen.delivered[u] + 1)..venue'[u] \subseteq UnderWay(u)'
    BY <2>1 DEF WireIsComplete, Live
  <2>2. u \in Tokens
    BY <1>0 DEF SocketType
  <2>3. CASE u # t
    BY <1>0, <2>1, <2>2, <2>3, UnderWayCarried DEF WireIsComplete
  <2>4. CASE u = t
    <3> DEFINE m == [kind |-> "price_change", v |-> venue[t] + 1]
    <3>1. socket'.wire[t] = Append(socket.wire[t], m)
      BY <1>2, <2>4, ChangeDoes
    <3>2. m \in Frame /\ Of(m) = {venue[t] + 1}
      BY <1>2, ChangeDoes DEF Frame, Of
    <3>3. socket.wire[t] \in Seq(Frame)
      BY <1>0 DEF SocketType
    <3> HIDE DEF m
    <3>4. Carried(socket'.wire[t]) = Carried(socket.wire[t]) \cup {venue[t] + 1}
      BY <3>1, <3>2, <3>3, CarriedMore
    <3>5. venue[t] \in Nat /\ seen.delivered[t] \in Nat
      BY <1>0, StreamAssumption DEF TypeOK, SeenType, History
    <3>6. (seen.delivered[t] + 1)..(venue[t] + 1)
            \subseteq ((seen.delivered[t] + 1)..venue[t]) \cup {venue[t] + 1}
      BY <3>5
    <3>7. (seen.delivered[t] + 1)..venue[t] \subseteq Carried(socket.wire[t])
      BY <1>0, <2>4, UnderWayCarried DEF WireIsComplete
    <3> QED BY <2>1, <2>4, <3>4, <3>6, <3>7, UnderWayCarried
  <2> QED BY <2>3, <2>4
<1>3. ASSUME NEW t \in Tokens, Settle(t) PROVE WireIsComplete'
  <2>1. UNCHANGED <<venue, socket, seen>> /\ settled \subseteq settled'
    BY <1>3 DEF Settle
  <2> QED BY <1>0, <2>1 DEF WireIsComplete, Live, UnderWay
<1>4. CASE Connect
  <2>1. socket'.subs = {}
    BY <1>4, ConnectDoes
  <2> QED BY <2>1 DEF WireIsComplete
<1>5. CASE Subscribe
  <2>1. UNCHANGED <<venue, settled>> /\ Registered \in SUBSET Tokens
    BY <1>0, <1>5, SubscribeDoes DEF BooksType
  <2>2. CASE Live /\ Subscribes(Registered)
    BY <2>1, <2>2, SubscriptionCompletes
  <2>3. CASE ~Live /\ socket' = socket
    BY <2>3 DEF WireIsComplete, Live
  <2> QED BY <1>5, <2>2, <2>3, SubscribeDoes
<1>6. ASSUME NEW t \in Tokens, Bootstrap(t) PROVE WireIsComplete'
  BY <1>0, <1>6, BootstrapDoes
  DEF WireIsComplete, UnderWay, Live, SameHistory, Noted
<1>7. CASE ApplyBootstrap
  <2>1. UNCHANGED <<venue, settled, socket>> /\ seen'.delivered = seen.delivered
    BY <1>7, ApplyBootstrapDoes DEF Noted
  <2> QED BY <1>0, <2>1 DEF WireIsComplete, Live, UnderWay
<1>8. CASE BootstrapDone
  BY <1>0, <1>8, BootstrapDoneDoes
  DEF WireIsComplete, UnderWay, Live, SameHistory, Noted
<1>9. ASSUME NEW t \in Tokens, Receive(t) PROVE WireIsComplete'
  <2>1. /\ UNCHANGED <<venue, settled>> /\ Live /\ socket'.subs = socket.subs
        /\ \A u \in Tokens \ {t} : socket'.wire[u] = socket.wire[u]
    BY <1>9, ReceiveDoes
  <2>2. PICK m \in Frame :
          /\ m.v \in 0..MaxVersion /\ Delivered(t, m.v)
          /\ Carried(socket.wire[t]) \subseteq Of(m) \cup Carried(socket'.wire[t])
    BY <1>9, ReceiveDoes
  <2>3. /\ \A u \in Tokens \ {t} : seen'.delivered[u] = seen.delivered[u]
        /\ seen'.delivered[t] = IF m.v > seen.delivered[t] THEN m.v ELSE seen.delivered[t]
    BY <2>2 DEF Delivered
  <2> SUFFICES ASSUME NEW u \in socket.subs \ settled
               PROVE  (seen'.delivered[u] + 1)..venue[u] \subseteq UnderWay(u)'
    BY <2>1 DEF WireIsComplete
  <2>4. u \in Tokens
    BY <1>0 DEF SocketType
  <2>5. CASE u # t
    BY <1>0, <2>1, <2>3, <2>4, <2>5, UnderWayCarried DEF WireIsComplete
  <2>6. CASE u = t
    <3>1. /\ seen.delivered[t] \in Nat /\ seen'.delivered[t] \in Nat /\ venue[t] \in Nat
          /\ m.v \in Nat
      BY <1>0, <2>2, <2>3, StreamAssumption DEF TypeOK, SeenType, History
    <3>2. \A k \in Of(m) : k <= m.v
      BY <2>2, <3>1 DEF Of
    <3>3. (seen.delivered[t] + 1)..venue[t] \subseteq Carried(socket.wire[t])
      BY <1>0, <2>1, <2>6, UnderWayCarried DEF WireIsComplete
    <3>4. ASSUME NEW k \in (seen'.delivered[t] + 1)..venue[t]
          PROVE  k \in Carried(socket'.wire[t])
      <4>1. k \in (seen.delivered[t] + 1)..venue[t] /\ k > m.v
        BY <2>3, <3>1, <3>4
      <4>2. k \notin Of(m)
        BY <3>1, <3>2, <4>1
      <4> QED BY <2>2, <3>3, <4>1, <4>2
    <3> QED BY <2>6, <3>4, UnderWayCarried
  <2> QED BY <2>5, <2>6
<1>10. CASE Stall \/ Drop \/ VenueCloses
  <2>1. ~Live'
    BY <1>10, HangupDoes
  <2> QED BY <2>1 DEF WireIsComplete
<1>11. CASE Announce
  <2>1. UNCHANGED <<venue, settled>> /\ caller.todo \in SUBSET Tokens
    BY <1>0, <1>11, AnnounceDoes DEF BooksType
  <2>2. CASE Live /\ Subscribes(caller.todo)
    BY <2>1, <2>2, SubscriptionCompletes
  <2>3. CASE socket' = socket /\ seen'.delivered = seen.delivered
    BY <1>0, <2>1, <2>3 DEF WireIsComplete, Live, UnderWay
  <2> QED BY <1>11, <2>2, <2>3, AnnounceDoes
<1>12. ASSUME NEW t \in Tokens, FetchAdded(t) PROVE WireIsComplete'
  BY <1>0, <1>12, FetchAddedDoes
  DEF WireIsComplete, UnderWay, Live, SameHistory, Noted
<1>13. CASE ApplyFetched
  <2>1. UNCHANGED <<venue, settled, socket>> /\ seen'.delivered = seen.delivered
    BY <1>13, ApplyFetchedDoes DEF Noted
  <2> QED BY <1>0, <2>1 DEF WireIsComplete, Live, UnderWay
<1>14. CASE \/ UNCHANGED vars \/ Tick \/ Exit \/ Compare
            \/ \E t \in Tokens : CheckIntegrity(t)
            \/ \E T \in SUBSET Tokens \ {{}} : AddTokens(T)
  <2>1. UNCHANGED <<venue, settled, socket, seen>>
    BY <1>14
    DEF vars, Tick, AddTokens, CheckIntegrity, Exit, Compare
  <2> QED BY <1>0, <2>1 DEF WireIsComplete, UnderWay, Live, SameHistory, Noted
<1>15. CASE SetConnected
  BY <1>0, <1>15, SetConnectedDoes DEF WireIsComplete, UnderWay, Live
<1> QED
  BY <1>1, <1>2, <1>3, <1>4, <1>5, <1>6, <1>7, <1>8, <1>9, <1>10, <1>11,
     <1>12, <1>13, <1>14, <1>15
  DEF Next, Reads, Calls

\* A response that is no older than what the reader was handed completes the
\* book, if the socket serves it; any other makes the book suspect.
LEMMA ResponseCompletes ==
  ASSUME StreamInv, NEW t \in Tokens, NEW v \in 0..MaxVersion,
         Replaces(t, v), Noted(t, v), UNCHANGED <<venue, settled, socket>>
  PROVE  QuotableIsServed'
<1>0. TypeOK /\ SocketType /\ SeenType /\ WireIsComplete /\ QuotableIsServed
  BY DEF StreamInv
<1>1. /\ Registered' = Registered /\ books'[t].has = 1..v
      /\ \A u \in Registered \ {t} : books'[u] = books[u]
  BY DEF Replaces
<1>2. /\ seen.suspect \subseteq seen'.suspect \cup {t}
      /\ t \notin seen'.suspect => seen.delivered[t] <= v /\ t \in socket.subs
  <2>1. /\ seen'.suspect = IF v < seen.delivered[t] \/ t \notin socket.subs
                           THEN seen.suspect \cup {t} ELSE seen.suspect \ {t}
    BY DEF Noted
  <2>2. seen.delivered[t] \in Nat /\ v \in Nat
    BY <1>0, StreamAssumption DEF SeenType, History
  <2> QED BY <2>1, <2>2
<1> SUFFICES ASSUME Live, NEW u \in Registered \ (seen'.suspect \cup settled), Quotable(u)'
             PROVE  /\ u \in socket.subs
                    /\ 1..venue[u] \subseteq books'[u].has \cup UnderWay(u)
  BY <1>1 DEF QuotableIsServed, Live, UnderWay
<1>3. CASE u # t
  BY <1>0, <1>1, <1>2, <1>3 DEF QuotableIsServed, Quotable
<1>4. CASE u = t
  <2>1. seen.delivered[t] <= v /\ t \in socket.subs
    BY <1>2, <1>4
  <2>2. (seen.delivered[t] + 1)..venue[t] \subseteq UnderWay(t)
    BY <1>0, <1>4, <2>1 DEF WireIsComplete
  <2>3. venue[t] \in Nat /\ seen.delivered[t] \in Nat /\ v \in Nat
    BY <1>0, StreamAssumption DEF TypeOK, SeenType, History
  <2>4. 1..venue[t] \subseteq 1..v \cup ((seen.delivered[t] + 1)..venue[t])
    BY <2>1, <2>3
  <2> QED BY <1>1, <1>4, <2>1, <2>2, <2>4
<1> QED
  BY <1>3, <1>4

\* A subscription touches no frame of the tokens that were served.
LEMMA SubscriptionKeeps ==
  ASSUME StreamInv, NEW T \in SUBSET Tokens, Subscribes(T), Live, Live',
         UNCHANGED <<venue, settled, books>>
  PROVE  QuotableIsServed'
<1>0. SocketType /\ QuotableIsServed
  BY DEF StreamInv
<1>1. \A t \in socket.subs : t \in socket'.subs /\ socket'.wire[t] = socket.wire[t]
  BY <1>0 DEF Subscribes, SocketType
<1>2. Registered' = Registered /\ seen'.suspect = seen.suspect
  BY DEF Registered, Subscribes
<1>3. \A t \in Registered : Quotable(t)' => Quotable(t)
  BY <1>2 DEF Quotable
<1>4. \A t \in socket.subs : UnderWay(t)' = UnderWay(t)
  BY <1>1, UnderWayCarried
<1> QED
  BY <1>0, <1>1, <1>2, <1>3, <1>4 DEF QuotableIsServed

\* What may be quoted from is served, and complete up to the wire.
LEMMA QuotableIsServedNext ==
  ASSUME StreamInv, [Next]_vars
  PROVE  QuotableIsServed'
<1>0. /\ TypeOK /\ SocketType /\ BooksType /\ ReaderType /\ SeenType
      /\ HandsRegistered /\ Serving /\ LossOpensGap /\ UnservedIsSuspect
      /\ WireIsComplete /\ QuotableIsServed
  BY DEF StreamInv
<1>1. CASE Break
  <2>1. ~Live'
    BY <1>1, BreakDoes
  <2> QED BY <2>1 DEF QuotableIsServed
<1>2. ASSUME NEW t \in Tokens, Change(t) PROVE QuotableIsServed'
  <2>1. /\ UNCHANGED <<settled, books>> /\ seen'.suspect = seen.suspect
        /\ socket'.subs = socket.subs /\ socket'.state = socket.state
        /\ venue'[t] = venue[t] + 1
        /\ \A u \in Tokens \ {t} : venue'[u] = venue[u] /\ socket'.wire[u] = socket.wire[u]
    BY <1>2, ChangeDoes DEF SameHistory
  <2> SUFFICES ASSUME Live, NEW u \in Registered \ (seen.suspect \cup settled), Quotable(u)
               PROVE  /\ u \in socket.subs
                      /\ 1..venue'[u] \subseteq books[u].has \cup UnderWay(u)'
    BY <2>1 DEF QuotableIsServed, Live, Quotable, Registered
  <2>2. /\ u \in Tokens /\ u \in socket.subs
        /\ 1..venue[u] \subseteq books[u].has \cup UnderWay(u)
    BY <1>0 DEF BooksType, QuotableIsServed
  <2>3. CASE u # t
    BY <2>1, <2>2, <2>3, UnderWayCarried
  <2>4. CASE u = t
    <3> DEFINE m == [kind |-> "price_change", v |-> venue[t] + 1]
    <3>1. socket'.wire[t] = Append(socket.wire[t], m)
      BY <1>2, <2>2, <2>4, ChangeDoes
    <3>2. m \in Frame /\ Of(m) = {venue[t] + 1}
      BY <1>2, ChangeDoes DEF Frame, Of
    <3>3. socket.wire[t] \in Seq(Frame)
      BY <1>0 DEF SocketType
    <3> HIDE DEF m
    <3>4. Carried(socket'.wire[t]) = Carried(socket.wire[t]) \cup {venue[t] + 1}
      BY <3>1, <3>2, <3>3, CarriedMore
    <3>5. venue[t] \in Nat
      BY <1>0, StreamAssumption DEF TypeOK
    <3>6. 1..(venue[t] + 1) \subseteq (1..venue[t]) \cup {venue[t] + 1}
      BY <3>5
    <3> QED BY <2>1, <2>2, <2>4, <3>4, <3>6, UnderWayCarried
  <2> QED BY <2>3, <2>4
<1>3. ASSUME NEW t \in Tokens, Settle(t) PROVE QuotableIsServed'
  <2>1. UNCHANGED <<venue, socket, seen, books>> /\ settled \subseteq settled'
    BY <1>3 DEF Settle
  <2> QED BY <1>0, <2>1 DEF QuotableIsServed, Live, UnderWay, Quotable, Registered
<1>4. ASSUME NEW T \in SUBSET Tokens \ {{}}, AddTokens(T) PROVE QuotableIsServed'
  <2>1. /\ Registered' = Registered \cup T /\ \A u \in Registered : books'[u] = books[u]
        /\ \A u \in T : books'[u].awaiting
        /\ UNCHANGED <<venue, settled, socket, seen>>
    BY <1>4, AddTokensDoes
  <2>2. \A u \in Registered' : Quotable(u)' => u \in Registered /\ Quotable(u)
    BY <2>1 DEF Quotable
  <2> QED BY <1>0, <2>1, <2>2 DEF QuotableIsServed, Live, UnderWay
<1>5. CASE Connect
  <2>1. /\ Registered' = Registered /\ UNCHANGED <<settled, seen>>
    BY <1>5, ConnectDoes
  <2>2. CASE reader.first /\ books' = books
    <3>1. seen.served \subseteq settled
      BY <1>0, <2>2 DEF LossOpensGap
    <3>2. \A u \in Registered : Quotable(u) => u \in settled \cup seen.suspect
      BY <1>0, <3>1 DEF UnservedIsSuspect
    <3> QED BY <2>1, <2>2, <3>2 DEF QuotableIsServed, Quotable
  <2>3. CASE \A u \in Registered : books'[u].awaiting
    BY <2>1, <2>3 DEF QuotableIsServed, Quotable
  <2> QED BY <1>0, <1>5, <2>2, <2>3, ConnectDoes DEF ReaderType
<1>6. CASE Subscribe
  <2>1. UNCHANGED <<venue, settled, books>> /\ Registered \in SUBSET Tokens
    BY <1>0, <1>6, SubscribeDoes DEF BooksType
  <2>2. CASE Live /\ Live' /\ Subscribes(Registered)
    BY <2>1, <2>2, SubscriptionKeeps
  <2>3. CASE ~Live /\ socket' = socket
    BY <2>3 DEF QuotableIsServed, Live
  <2> QED BY <1>6, <2>2, <2>3, SubscribeDoes
<1>7. ASSUME NEW t \in Tokens, Bootstrap(t) PROVE QuotableIsServed'
  BY <1>0, <1>7, BootstrapDoes
  DEF QuotableIsServed, UnderWay, Live, Quotable, Registered, SameHistory
<1>8. CASE ApplyBootstrap
  <2>1. PICK t \in Tokens, v \in 0..MaxVersion : Replaces(t, v) /\ Noted(t, v)
    BY <1>8, ApplyBootstrapDoes
  <2>2. UNCHANGED <<venue, settled, socket>>
    BY <1>8, ApplyBootstrapDoes
  <2> QED BY <2>1, <2>2, ResponseCompletes
<1>9. CASE BootstrapDone
  BY <1>0, <1>9, BootstrapDoneDoes
  DEF QuotableIsServed, UnderWay, Live, Quotable, Registered, SameHistory
<1>10. ASSUME NEW t \in Tokens, Receive(t) PROVE QuotableIsServed'
  <2>1. /\ UNCHANGED <<venue, settled>> /\ Live /\ Live' /\ socket'.subs = socket.subs
        /\ t \in socket.subs /\ t \in Registered
        /\ \A u \in Tokens \ {t} : socket'.wire[u] = socket.wire[u]
    BY <1>10, ReceiveDoes DEF Live
  <2>2. PICK m \in Frame :
          /\ m.v \in 0..MaxVersion /\ Delivered(t, m.v)
          /\ Carried(socket.wire[t]) \subseteq Of(m) \cup Carried(socket'.wire[t])
          /\ \/ /\ m.kind = "book" /\ Replaces(t, m.v)
                /\ seen'.suspect = IF m.v < seen'.delivered[t]
                                   THEN seen.suspect \cup {t} ELSE seen.suspect \ {t}
             \/ /\ m.kind = "price_change" /\ Adds(t, m.v)
                /\ seen'.suspect = seen.suspect
             \/ /\ books' = books /\ Registered' = Registered
                /\ seen'.suspect = seen.suspect \cup {t}
    BY <1>10, ReceiveDoes
  <2>3. /\ Registered' = Registered /\ \A u \in Registered \ {t} : books'[u] = books[u]
        /\ seen.suspect \subseteq seen'.suspect \cup {t}
    BY <2>2 DEF Replaces, Adds
  <2> SUFFICES ASSUME NEW u \in Registered \ (seen'.suspect \cup settled), Quotable(u)'
               PROVE  /\ u \in socket.subs
                      /\ 1..venue[u] \subseteq books'[u].has \cup UnderWay(u)'
    BY <2>1, <2>3 DEF QuotableIsServed
  <2>4. CASE u # t
    <3>1. u \in Tokens /\ Quotable(u) /\ u \notin seen.suspect \cup settled
      BY <1>0, <2>3, <2>4 DEF BooksType, Quotable
    <3>2. UnderWay(u)' = UnderWay(u)
      BY <2>1, <2>4, <3>1, UnderWayCarried
    <3> QED BY <1>0, <2>1, <2>3, <2>4, <3>1, <3>2 DEF QuotableIsServed
  <2>5. CASE /\ u = t /\ m.kind = "book" /\ Replaces(t, m.v)
             /\ seen'.suspect = IF m.v < seen'.delivered[t]
                                THEN seen.suspect \cup {t} ELSE seen.suspect \ {t}
    <3>1. WireIsComplete' /\ SeenType' /\ TypeOK
      BY <1>0, WireIsCompleteNext, SeenTypeNext
    <3>2. (seen'.delivered[t] + 1)..venue[t] \subseteq UnderWay(t)'
      BY <2>1, <2>5, <3>1 DEF WireIsComplete
    <3>3. venue[t] \in Nat /\ seen'.delivered[t] \in Nat /\ m.v \in Nat
      BY <2>2, <3>1, StreamAssumption DEF TypeOK, SeenType, History
    <3>4. seen'.delivered[t] <= m.v
      BY <2>5, <3>3
    <3>5. 1..venue[t] \subseteq 1..m.v \cup ((seen'.delivered[t] + 1)..venue[t])
      BY <3>3, <3>4
    <3>6. books'[t].has = 1..m.v
      BY <2>5 DEF Replaces
    <3> QED BY <2>1, <2>5, <3>2, <3>5, <3>6
  <2>6. CASE /\ u = t /\ m.kind = "price_change" /\ Adds(t, m.v)
             /\ seen'.suspect = seen.suspect
    <3>1. ~books'[t].awaiting /\ ~books'[t].gap
      BY <2>6 DEF Quotable
    <3>2. /\ ~books[t].awaiting /\ ~books[t].gap
          /\ books'[t].has = books[t].has \cup {m.v}
      BY <2>1, <2>6, <3>1 DEF Adds
    <3>3. 1..venue[t] \subseteq books[t].has \cup UnderWay(t)
      BY <1>0, <2>1, <2>6, <3>2 DEF QuotableIsServed, Quotable
    <3>4. Of(m) = {m.v}
      BY <2>6 DEF Of
    <3> QED BY <2>1, <2>2, <2>6, <3>2, <3>3, <3>4, UnderWayCarried
  <2>7. ~(u = t /\ seen'.suspect = seen.suspect \cup {t})
    OBVIOUS
  <2> QED BY <2>2, <2>4, <2>5, <2>6, <2>7
<1>11. CASE Stall \/ Drop \/ VenueCloses
  <2>1. ~Live'
    BY <1>11, HangupDoes
  <2> QED BY <2>1 DEF QuotableIsServed
<1>12. CASE Announce
  <2>1. UNCHANGED <<venue, settled, books>> /\ caller.todo \in SUBSET Tokens
    BY <1>0, <1>12, AnnounceDoes DEF BooksType
  <2>2. CASE Live /\ Live' /\ Subscribes(caller.todo)
    BY <2>1, <2>2, SubscriptionKeeps
  <2>3. CASE socket' = socket /\ seen'.suspect = seen.suspect
    BY <1>0, <2>1, <2>3 DEF QuotableIsServed, Live, UnderWay, Quotable, Registered
  <2> QED BY <1>12, <2>2, <2>3, AnnounceDoes
<1>13. ASSUME NEW t \in Tokens, FetchAdded(t) PROVE QuotableIsServed'
  BY <1>0, <1>13, FetchAddedDoes
  DEF QuotableIsServed, UnderWay, Live, Quotable, Registered, SameHistory
<1>14. CASE ApplyFetched
  <2> DEFINE t == caller.token
  <2>1. t \in Tokens /\ UNCHANGED <<venue, settled, socket>>
    BY <1>14, ApplyFetchedDoes
  <2>2. PICK v \in 0..MaxVersion : Replaces(t, v) /\ Noted(t, v)
    BY <1>14, ApplyFetchedDoes
  <2> QED BY <2>1, <2>2, ResponseCompletes
<1>15. CASE \/ UNCHANGED vars \/ Tick \/ Exit \/ Compare
            \/ \E t \in Tokens : CheckIntegrity(t)
  <2>1. UNCHANGED <<venue, settled, socket, seen, books>>
    BY <1>15 DEF vars, Tick, CheckIntegrity, Exit, Compare
  <2> QED BY <1>0, <2>1
  DEF QuotableIsServed, UnderWay, Live, Quotable, Registered, SameHistory
<1>16. CASE SetConnected
  BY <1>0, <1>16, SetConnectedDoes DEF QuotableIsServed, UnderWay, Live, Quotable, Registered
<1> QED
  BY <1>1, <1>2, <1>3, <1>4, <1>5, <1>6, <1>7, <1>8, <1>9, <1>10, <1>11,
     <1>12, <1>13, <1>14, <1>15, <1>16
  DEF Next, Reads, Calls

-----------------------------------------------------------------------------
(***************************************************************************)
(* The theorems.                                                           *)
(***************************************************************************)

\* Every reachable state of the stream satisfies the inductive invariant.
THEOREM StreamInvariant == Spec => []StreamInv
<1>1. Init => StreamInv
  BY InitInv
<1>2. StreamInv /\ [Next]_vars => StreamInv'
  BY TypeOKNext, SocketTypeNext, BooksTypeNext, ReaderTypeNext, CallerTypeNext,
     GapsTypeNext, SeenTypeNext, HandsRegisteredNext, ServingNext, FlagsNext,
     LossFollowsDataNext, LossOpensGapNext, ResyncListedNext, SomeoneFetchesNext, BookComesNext,
     UnservedIsSuspectNext, WireIsCompleteNext, QuotableIsServedNext
  DEF StreamInv
<1> QED
  BY <1>1, <1>2, PTL DEF Spec

\* The variables of the stream keep their types.
THEOREM StreamTypeCorrect == Spec => []TypeOK
<1>1. StreamInv => TypeOK
  BY DEF StreamInv
<1> QED
  BY <1>1, StreamInvariant, PTL

\* is_quotable is right (clob_ws.py:184): whatever the reader, the service's
\* thread and the venue do in between, a book that may be quoted from, and is
\* not suspect, is served and misses nothing but what is under way.
THEOREM QuotableIsCurrentHolds == Spec => []QuotableIsCurrent
<1>1. StreamInv => QuotableIsCurrent
  BY DEF StreamInv, QuotableIsServed, QuotableIsCurrent, Quotable
<1> QED
  BY <1>1, StreamInvariant, PTL

\* The tracker of outages covers every loss by the time the reader is back
\* (attribution.py:472-488).
THEOREM LossIsInsideGapHolds == Spec => []LossIsInsideGap
<1>1. StreamInv => LossIsInsideGap
  BY DEF StreamInv, LossOpensGap, LossFollowsData, LossIsInsideGap
<1> QED
  BY <1>1, StreamInvariant, PTL

\* Once both threads are done, every registered token has its book, but those
\* the property names (clob_ws.py:278-305).
THEOREM ServedAtRestHolds == Spec => []ServedAtRest
<1>1. ASSUME StreamInv PROVE ServedAtRest
  <2>1. SomeoneFetches /\ BookComes /\ CallerType /\ BooksType
    BY <1>1 DEF StreamInv
  <2> SUFFICES ASSUME AtRest,
                      NEW t \in Registered \ (seen.missed \cup settled \cup seen.unsynced
                                              \cup (seen.forgotten \cap seen.suspect)),
                      books[t].awaiting
               PROVE  FALSE
    BY DEF ServedAtRest, HasBook
  <2>2. AtWork = {} /\ caller.pc = "idle" /\ ~ReaderFetches(t)
    BY <2>1 DEF AtRest, AtWork, CallerType, ReaderFetches
  <2>3. CASE t \notin seen.forgotten
    BY <2>1, <2>2, <2>3 DEF SomeoneFetches
  <2>4. CASE t \notin seen.suspect
    <3>1. \/ reader.pc \in {"bootstrap", "stream"} /\ ~Live
          \/ BookOn(socket.wire[t])
      BY <2>1, <2>2, <2>4 DEF BookComes
    <3>2. CASE reader.pc = "stream" /\ Live /\ socket.wire[t] = <<>>
      BY <3>1, <3>2 DEF BookOn
    <3>3. CASE reader.pc = "off"
      <4>1. Serving /\ t \in Tokens
        BY <1>1, <2>1 DEF StreamInv, BooksType
      <4>2. socket.wire[t] = <<>>
        BY <3>3, <4>1 DEF Serving, Up, Live
      <4> QED BY <3>1, <3>3, <4>2 DEF BookOn
    <3> QED BY <2>1, <3>2, <3>3 DEF AtRest, BooksType
  <2> QED BY <2>3, <2>4
<1> QED
  BY <1>1, StreamInvariant, PTL

\* An outage that is declared over left no served book without its snapshot,
\* but those the property names (clob_ws.py:486-494).
THEOREM GapEndsResyncedHolds == Spec => GapEndsResynced
<1>1. ASSUME StreamInv, [Next]_vars, gaps.start # None, gaps'.start = None,
             NEW t \in seen.served \ (settled \cup seen.unsynced \cup seen.forgotten \cup AtWork)
      PROVE  ~books[t].awaiting
  <2>1. LossOpensGap /\ ResyncListed
    BY <1>1 DEF StreamInv
  <2>2. CASE BootstrapDone
    <3>1. reader.pc = "bootstrap" /\ reader.todo = {}
      BY <2>2 DEF BootstrapDone
    <3> QED BY <1>1, <2>1, <3>1 DEF ResyncListed
  <2>3. ASSUME NEW u \in Tokens, Receive(u) PROVE FALSE
    <3>1. reader.pc = "stream"
      BY <2>3 DEF Receive
    <3> QED BY <1>1, <2>1, <3>1 DEF LossOpensGap
  <2>4. CASE gaps' = gaps \/ gaps' = Begin(gaps)
    BY <1>1, <2>4 DEF Begin
  <2>5. \/ gaps' = gaps \/ gaps' = Begin(gaps) \/ BootstrapDone
        \/ \E u \in Tokens : Receive(u)
    BY <1>1
    DEF vars, Next, Reads, Calls, Tick, Break, Change, Settle, AddTokens,
        CheckIntegrity, Connect, Subscribe, SetConnected, Bootstrap,
        ApplyBootstrap, Stall, Drop, VenueCloses, Exit, Announce, FetchAdded,
        Compare, ApplyFetched
  <2> QED BY <2>2, <2>3, <2>4, <2>5
<1>2. StreamInv /\ [Next]_vars =>
        [ gaps.start # None /\ gaps'.start = None =>
            \A t \in seen.served \ (settled \cup seen.unsynced \cup seen.forgotten
                                    \cup AtWork) :
              ~books[t].awaiting ]_vars
  BY <1>1
<1> QED
  BY <1>2, StreamInvariant, PTL DEF Spec, GapEndsResynced

=============================================================================
