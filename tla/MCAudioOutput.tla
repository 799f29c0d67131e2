----------------------------- MODULE MCAudioOutput -----------------------------
(***************************************************************************)
(* AudioOutput for TLC.  No property says anything of the states after two *)
(* selects have overlapped and something has been lost, and both stay so:  *)
(* TLC does not go on from there.                                          *)
(***************************************************************************)
EXTENDS AudioOutput

Told == ~(overlapped /\ lost)

=============================================================================
