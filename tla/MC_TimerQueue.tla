---------------------------- MODULE MC_TimerQueue ----------------------------
(***************************************************************************)
(* Connections are interchangeable in the safety properties.               *)
(***************************************************************************)
EXTENDS TimerQueue, TLC

Symmetric == Permutations(Conns)
=============================================================================
