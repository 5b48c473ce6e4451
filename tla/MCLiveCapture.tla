--------------------------- MODULE MCLiveCapture ---------------------------
(***************************************************************************)
(* Two rounds of three time units with two decisions each, with a lead     *)
(* longer than a round, so that both are recorded at once, captured from   *)
(* before the first lead to after the second tail.                         *)
(***************************************************************************)
EXTENDS LiveCapture

sides == [UP |-> "a", DOWN |-> "b"]

good == [listed |-> TRUE, condition |-> TRUE, starts |-> 0, ends |-> Length,
         clob |-> sides, gamma |-> sides, sized |-> TRUE,
         twap |-> TRUE, window |-> 60, rate |-> TRUE]

\* Not live yet, and its times are those of its slug.
young == [good EXCEPT !.starts = Unknown, !.ends = Unknown, !.clob = <<>>]

\* Its event starts later than its slug says.
shifted == [good EXCEPT !.starts = 1]

conflicting == [good EXCEPT !.gamma = [UP |-> "b", DOWN |-> "a"]]

\* The shadow passes over the first of these and is dropped at the other two.
unsupported == [good EXCEPT !.window = 45]

unpriced == [good EXCEPT !.rate = FALSE]

untimed == [good EXCEPT !.twap = FALSE, !.window = Unknown]

MCListings ==
  {<<good, young>>, <<shifted, unpriced>>, <<unsupported, good>>,
   <<conflicting, good>>, <<untimed, conflicting>>,
   <<[good EXCEPT !.listed = FALSE], conflicting>>}
=============================================================================
