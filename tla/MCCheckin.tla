----------------------------- MODULE MCCheckin -----------------------------
(* TLC instances of Checkin. *)
EXTENDS Checkin

CONSTANTS a1, a2, m1

\* One retry a day, an instant after the attempt.
MCRetryDelays == <<1>>
=============================================================================
