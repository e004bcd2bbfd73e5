---------------------------- MODULE MCStormQueue ----------------------------
(***************************************************************************)
(* StormQueue with delays of zero and one unit of time: one job can be     *)
(* due at once while the other has to wait for the poller.                 *)
(***************************************************************************)
EXTENDS StormQueue

MCDelays == {0, 1}
=============================================================================
