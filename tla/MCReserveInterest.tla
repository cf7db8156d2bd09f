------------------------- MODULE MCReserveInterest -------------------------
(***************************************************************************)
(* A reserve of a few tokens for TLC, numbers in ten-thousandths, with the     *)
(* curves of the tests of reserve.rs with transitions that so few tokens   *)
(* can cross: three segments, two segments, and one with a flat segment    *)
(* and a steep one between close transitions.                              *)
(***************************************************************************)
EXTENDS ReserveInterest

CurveOf(u1, u2, b0, b1, b2, b3) ==
    [utilization_rate_1 |-> u1, utilization_rate_2 |-> u2, borrow_rate_0 |-> b0,
     borrow_rate_1 |-> b1, borrow_rate_2 |-> b2, borrow_rate_3 |-> b3]

TestCurves == {CurveOf(4000, 7000, 50, 300, 2000, 9000),
               CurveOf(5000, 10000, 50, 300, 9000, 0),
               CurveOf(6000, 6500, 0, 0, 20000, 20000)}
=============================================================================
