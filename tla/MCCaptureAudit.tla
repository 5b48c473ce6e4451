--------------------------- MODULE MCCaptureAudit ---------------------------
(***************************************************************************)
(* Two rounds, two series, and a price that falls in the first round and   *)
(* stays in the second.  In one world the venue publishes the first        *)
(* outcome at once and contradicts itself about the basis of the second    *)
(* round; in the other the first outcome comes late.                       *)
(***************************************************************************)
EXTENDS TrainingSet

MCSeries == {"twap", "spot"}

MCPrice == [s \in 0..MaxTime |-> IF s <= FirstStart THEN 1 ELSE 0]

\* One frame; its details are those of the kinds that have them.
MCFrame(type, side, source, recv) ==
  [type |-> type, side |-> side, source |-> source, recv |-> recv,
   part |-> "none", price |-> 0, size |-> 0, tick |-> 0, bids |-> {}, asks |-> {}]

MCBook(side, source, recv, bids, asks) ==
  [MCFrame("book", side, source, recv) EXCEPT !.bids = bids, !.asks = asks]

MCDelta(source, recv, part, price, size) ==
  [MCFrame("price_change", "UP", source, recv) EXCEPT !.part = part, !.price = price, !.size = size]

MCTick(source, recv, tick) ==
  [MCFrame("tick_size_change", "UP", source, recv) EXCEPT !.tick = tick]

\* The book, of a given age at the open, loses a side and regains it late;
\* the tick changes, announced twice; some frames are of no side, undated or
\* of no interest.
MCMarket(r, age) ==
  LET open == Start(r) * Parts IN
    [complete |-> TRUE, found |-> open - 5, tick |-> 2,
     frames |-> <<MCFrame("last_trade_price", "UP", open - 5, open - 5),
                  MCBook("UP", open - age, open - age, {1}, {3}),
                  MCBook("DOWN", open - age, open - age, {1}, {}),
                  MCBook("none", open, open, {1}, {3}),
                  MCTick(None, open, 1), MCTick(open, open, 1), MCTick(open, open + 1, 1),
                  MCDelta(open, open, "none", 1, 0),
                  MCDelta(open, open, "bids", 1, 0),
                  MCDelta(open + 1, open + 2, "bids", 2, 5)>>]

\* Found too late for the first decision, and for its book.
MCLate(r) ==
  LET found == Start(r) * Parts + 2 IN
    [MCMarket(r, 1) EXCEPT !.found = found,
                           !.frames = SelectSeq(@, LAMBDA f : f.recv >= found)]

MCWorlds ==
  {[price |-> MCPrice, outcome |-> <<"DOWN", "UP">>, early |-> {1},
    text |-> <<"agrees", "contradicts">>,
    market |-> <<MCLate(1), MCMarket(2, 1)>>, unreadable |-> "exact", faults |-> 2],
   [price |-> MCPrice, outcome |-> <<"DOWN", "UP">>, early |-> {2},
    text |-> <<"absent", "agrees">>,
    market |-> <<MCMarket(1, 1), MCMarket(2, 4)>>, unreadable |-> "garbage", faults |-> 1]}

MCGrid == {0, 1, 2}
=============================================================================
