---------------------------- MODULE MCLocationStore ----------------------------
(* Values of the constants of LocationStore for TLC: a grid of 30 degrees, two *)
(* places and five centres.  From the first a place within 60 degrees lies     *)
(* across the antimeridian; the second is a pole; from the third one place is  *)
(* inside the box and not the circle, the other inside both though further in  *)
(* longitude than the radius; from the fourth one is inside the circle and not *)
(* the box, whose width ignores the pole; round the last both are found, one   *)
(* nearer.                                                                     *)
EXTENDS LocationStore, TLC

\* The square of the sine of 15 degrees times k, in thousandths.
MCHav ==
    LET half == <<0, 67, 250, 500, 750, 933, 1000>>
    IN  [k \in 0 .. 12 |-> half[IF k <= 6 THEN k + 1 ELSE 13 - k]]

MCPositions == {[lat |-> 2, lng |-> 5], [lat |-> 0, lng |-> 4]}

MCCentres == {[lat |-> 0, lng |-> -6], [lat |-> 3, lng |-> 0], [lat |-> 2, lng |-> 2],
              [lat |-> 2, lng |-> 0], [lat |-> 1, lng |-> 5]}

Symmetry == Permutations(Threads)
=============================================================================
