--------------------------- MODULE MCRideSettlement ---------------------------
(* Values of the constants of RideSettlement for TLC. *)
EXTENDS RideSettlement, RideFares, TLC

MCFares == {-1, 0, 7}       \* a missing fare, a free ride and a proper one
MCFaresSome == {-1, 7}      \* a missing fare and a proper one
MCFaresTwo == {5, 7}        \* two proper fares
Symmetry == Permutations(Threads) \cup Permutations(Riders) \cup Permutations(Drivers)

\* Fares given as text are read as written, or the text has a sign or separates
\* thousands (parseFareAmount).  A fact about inputs: the first state shows it.
FaresReadAsWritten == Init => \A w \in Written : ReadAsWritten(w)
=============================================================================
