-------------------------- MODULE MCFlightProducts --------------------------
(***************************************************************************)
(* Two flights of one day: the first has a binary, the second a binary and *)
(* a table of the same stream.  The second upload, of whatever file, is    *)
(* damaged.                                                                *)
(***************************************************************************)
EXTENDS FlightProducts

CONSTANTS a, b, c

TwoFlights == {1, 2}
Streams == [f \in TwoFlights |-> IF f = 1 THEN {{a}} ELSE {{b, c}}]
Damaged == {2}

=============================================================================
