---------------------------- MODULE MCDecoderLock ----------------------------
(* A small instance of DecoderLock for TLC: three contexts, so that two can *)
(* wait for the third, over and over; the number of one is used again after *)
(* its death.                                                              *)
EXTENDS DecoderLock, TLC

CONSTANTS c1, c2, c3

MCDeaths == c1 :> 2 @@ c2 :> 1 @@ c3 :> 0
=============================================================================
