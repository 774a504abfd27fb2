---------------------------- MODULE DecoderMutex ----------------------------
(***************************************************************************)
(* What the decoder lock of the SAREA promises to the XvMC contexts that   *)
(* share the MPEG decoder, without the futex word that implements it: one  *)
(* context holds the decoder at a time, and the lock remembers who held it *)
(* last so that the next holder can tell whether the decoder still has its *)
(* state (grabDecoder's hadLastLock, src/xvmc/viaXvMC.c).                  *)
(***************************************************************************)
CONSTANTS Contexts,   \* DRM contexts, one per XvMC context
          NoCtx       \* the empty lock word, no context

VARIABLES holder,     \* the context that has the decoder, or NoCtx
          last        \* the context that had it last, NoCtx once it is gone

mutexVars == <<holder, last>>

MutexInit == holder = NoCtx /\ last = NoCtx

(* A context takes the free decoder.                                       *)
Acquire(c) == /\ holder = NoCtx
              /\ holder' = c
              /\ last' = c

(* Only the holder gives it back, and the lock remembers it.               *)
Release(c) == /\ holder = c
              /\ holder' = NoCtx
              /\ UNCHANGED last

(* A context disappears: the decoder is free if it held it, and nobody who *)
(* later gets the same context number is taken for it.                     *)
Vanish(c) == /\ holder' = IF holder = c THEN NoCtx ELSE holder
             /\ last' = IF last = c THEN NoCtx ELSE last

MutexNext == \E c \in Contexts : Acquire(c) \/ Release(c) \/ Vanish(c)

MutexSpec == MutexInit /\ [][MutexNext]_mutexVars
=============================================================================
