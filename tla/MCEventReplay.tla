--------------------------- MODULE MCEventReplay ---------------------------
(***************************************************************************)
(* Three events of one side's book and of one order, over four instants,   *)
(* each of which may have been a while on the wire, snapshots longest.     *)
(***************************************************************************)
EXTENDS EventReplay

CONSTANT o1

Wire == {<<0, 2>>, <<1, 1>>, <<1, 3>>, <<2, 2>>}

Ask(p) == [q \in {p} |-> 1]

MCOffers ==
  { [kind |-> "BOOK_SNAPSHOT", src |-> w[1], recv |-> w[2], levels |-> Ask(1)] : w \in Wire }
    \cup { [kind |-> "BOOK_DELTA", src |-> w[1], recv |-> w[2], price |-> 1, size |-> 0] : w \in Wire \ {<<1, 3>>} }
    \cup { [kind |-> "BOOK_DELTA", src |-> w[1], recv |-> w[2], price |-> 2, size |-> 1] : w \in Wire \ {<<1, 3>>} }
    \cup { [kind |-> k, src |-> w[1], recv |-> w[2], order |-> o1] :
             k \in {"ORDER_SUBMIT", "FILL"}, w \in {<<1, 1>>, <<2, 2>>} }
=============================================================================
