------------------------------- MODULE Pricing -------------------------------
(***************************************************************************)
(* The fare of a ride: 100 cents for the first 15 minutes and 50 cents for *)
(* each further quarter of an hour that was begun.                         *)
(***************************************************************************)
EXTENDS Integers

base_sec == 15 * 60
step_sec == 15 * 60

\* pricing.cpp: compute_fee, for a duration that is not negative.
compute_fee(duration_sec) ==
    IF duration_sec <= base_sec
    THEN 100
    ELSE 100 + ((duration_sec - base_sec + step_sec - 1) \div step_sec) * 50
=============================================================================
