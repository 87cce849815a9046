---------------------------- MODULE MCInstruments ----------------------------
(* Three objects, two contract ids and two requests, none of which differs   *)
(* from the others of its kind.                                              *)
EXTENDS Instruments, TLC

Symmetry == Permutations(Instrument) \cup Permutations(Id) \cup Permutations(Request)
=============================================================================
