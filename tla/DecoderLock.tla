----------------------------- MODULE DecoderLock -----------------------------
(***************************************************************************)
(* The futex lock that serialises the XvMC contexts on the MPEG decoder:   *)
(* UNICHROME_LOCK and UNICHROME_UNLOCK (src/via_drmclient.h) one memory    *)
(* access or system call per step, called by grabDecoder and releaseDecoder*)
(* (src/xvmc/viaXvMC.c).  The lock word lives in the SAREA, shared by every *)
(* client process, the X server and the kernel.                            *)
(*                                                                         *)
(* External: the VIA_FUTEX_WAIT / VIA_FUTEX_WAKE ioctls of the DRM module   *)
(* (a waiter sleeps while the word equals fx.val, for at most fx.ms) and    *)
(* its clean-up when a DRM context is destroyed or its client dies.        *)
(***************************************************************************)
EXTENDS Naturals

CONSTANTS Contexts,   \* DRM contexts, one per XvMC context
          NoCtx,      \* context number 0: a lock word nobody has used
          MaxDeaths   \* bound: how often each context goes away

ASSUME LockAssumption == /\ NoCtx \notin Contexts
                         /\ MaxDeaths \in [Contexts -> Nat]

VARIABLES
  lock,       \* the SAREA word: context number, DRM_LOCK_HELD, DRM_LOCK_CONT
  pc,         \* where each context is in the two macros
  lockVal,    \* the macro's local copy of the word
  futexVal,   \* fx.val, what the kernel compares the word with
  woken,      \* sleepers a wake-up has reached that have not run yet
  hadLast,    \* grabDecoder's *hadLastLock
  prior,      \* history: the grab that preceded the one of each context
  lastGrab,   \* history: the latest grab, as <<context, life>>
  life        \* which life of the context number this is

vars == <<lock, pc, lockVal, futexVal, woken, hadLast, prior, lastGrab, life>>

Word == [ctx : Contexts \cup {NoCtx}, held : BOOLEAN, cont : BOOLEAN]

FreeWord(c) == [ctx |-> c, held |-> FALSE, cont |-> FALSE]
HeldWord(c) == [ctx |-> c, held |-> TRUE, cont |-> FALSE]
ContWord(w) == [ctx |-> w.ctx, held |-> w.held, cont |-> TRUE]

Locking   == {"load", "cas", "reload", "mark", "remark", "remarkMiss", "wait",
              "asleep"}
Unlocking == {"guard", "clear", "clearCont", "wake"}
PCs       == Locking \cup Unlocking \cup {"idle", "have", "dead"}

Grabs == (Contexts \X Nat) \cup {<<NoCtx, 0>>}

(* A word that is contended is held: DRM_LOCK_CONT left on a free word      *)
(* would make every compare-and-swap of LOCK fail for ever.                *)
TypeOK == /\ lock \in Word
          /\ lock.cont => lock.held
          /\ pc \in [Contexts -> PCs]
          /\ lockVal \in [Contexts -> Word]
          /\ futexVal \in [Contexts -> Word]
          /\ woken \in SUBSET Contexts
          /\ hadLast \in [Contexts -> BOOLEAN]
          /\ prior \in [Contexts -> Grabs]
          /\ lastGrab \in Grabs
          /\ life \in [Contexts -> Nat]

-----------------------------------------------------------------------------
(* ViaInitXVMC zeroes the word when the server starts.                     *)
Init == /\ lock = FreeWord(NoCtx)
        /\ pc = [c \in Contexts |-> "idle"]
        /\ lockVal = [c \in Contexts |-> FreeWord(NoCtx)]
        /\ futexVal = [c \in Contexts |-> FreeWord(NoCtx)]
        /\ woken = {}
        /\ hadLast = [c \in Contexts |-> FALSE]
        /\ prior = [c \in Contexts |-> <<NoCtx, 0>>]
        /\ lastGrab = <<NoCtx, 0>>
        /\ life = [c \in Contexts |-> 1]

Goto(c, from, to) == pc[c] = from /\ pc' = [pc EXCEPT ![c] = to]

LocalUnchanged == UNCHANGED <<futexVal, woken, hadLast, prior, lastGrab, life>>

(* The macro's local variables do not outlive a turn of its loop.          *)
LocalsGone(c) == /\ lockVal' = [lockVal EXCEPT ![c] = FreeWord(NoCtx)]
                 /\ futexVal' = [futexVal EXCEPT ![c] = FreeWord(NoCtx)]

(* grabDecoder of a context without the decoder enters UNICHROME_LOCK.     *)
Grab(c) == /\ Goto(c, "idle", "load")
           /\ UNCHANGED <<lock, lockVal>> /\ LocalUnchanged

(* The macro reads the word and forgets the two flag bits.                 *)
LoadWord(c) == /\ Goto(c, "load", "cas")
               /\ lockVal' = [lockVal EXCEPT ![c] = FreeWord(lock.ctx)]
               /\ UNCHANGED lock /\ LocalUnchanged

(* The compare-and-swap of a free word takes the decoder; the old word says *)
(* who had it last.                                                        *)
CasAcquire_IgnoresHolder(c) ==
  /\ Goto(c, "cas", "have")
  /\ lock' = HeldWord(c)
  /\ hadLast' = [hadLast EXCEPT ![c] = lockVal[c].ctx = c]
  /\ prior' = [prior EXCEPT ![c] = lastGrab]
  /\ lastGrab' = <<c, life[c]>>
  /\ LocalsGone(c)
  /\ UNCHANGED <<woken, life>>

CasAcquire(c) ==
  /\ Goto(c, "cas", "have")
  /\ lock = lockVal[c]
  /\ lock' = HeldWord(c)
  /\ hadLast' = [hadLast EXCEPT ![c] = lockVal[c].ctx = c]
  /\ prior' = [prior EXCEPT ![c] = lastGrab]
  /\ lastGrab' = <<c, life[c]>>
  /\ LocalsGone(c)
  /\ UNCHANGED <<woken, life>>

CasMiss(c) == /\ Goto(c, "cas", "reload")
              /\ lock # lockVal[c]
              /\ UNCHANGED <<lock, lockVal>> /\ LocalUnchanged

(* Read again: a word no longer held restarts the macro, one held by this  *)
(* very context ends it with the lock, any other is to be marked contended.*)
Reload(c) ==
  /\ pc[c] = "reload"
  /\ lockVal' = [lockVal EXCEPT ![c] = IF lock.held /\ lock.ctx # c THEN lock
                                       ELSE FreeWord(NoCtx)]
  /\ pc' = [pc EXCEPT ![c] = IF ~ lock.held THEN "load"
                             ELSE IF lock.ctx = c THEN "have" ELSE "mark"]
  /\ hadLast' = [hadLast EXCEPT ![c] = lock.held /\ lock.ctx = c]
  /\ UNCHANGED <<lock, futexVal, woken, prior, lastGrab, life>>

(* Set DRM_LOCK_CONT unless the word has changed since it was read.        *)
MarkContended(c) ==
  /\ pc[c] = "mark"
  /\ futexVal' = [futexVal EXCEPT ![c] = ContWord(lockVal[c])]
  /\ IF lock = lockVal[c]
       THEN lock' = ContWord(lock) /\ pc' = [pc EXCEPT ![c] = "remark"]
       ELSE UNCHANGED lock /\ pc' = [pc EXCEPT ![c] = "remarkMiss"]
  /\ UNCHANGED <<lockVal, woken, hadLast, prior, lastGrab, life>>

(* The word is read once more whether or not the mark went in, a value     *)
(* that only a failed attempt returns; only a mark that went in leads to   *)
(* the wait.                                                               *)
Remark(c) == /\ \/ /\ Goto(c, "remark", "wait")
                   /\ UNCHANGED futexVal
                   /\ lockVal' = [lockVal EXCEPT ![c] = FreeWord(NoCtx)]
                \/ Goto(c, "remarkMiss", "load") /\ LocalsGone(c)
             /\ UNCHANGED <<lock, woken, hadLast, prior, lastGrab, life>>

(* VIA_FUTEX_WAIT: the kernel compares the word and sleeps in one step.    *)
FutexWait(c) ==
  /\ pc[c] = "wait"
  /\ IF lock = futexVal[c]
       THEN pc' = [pc EXCEPT ![c] = "asleep"] /\ UNCHANGED <<lockVal, futexVal>>
       ELSE pc' = [pc EXCEPT ![c] = "load"] /\ LocalsGone(c)
  /\ UNCHANGED <<lock, woken, hadLast, prior, lastGrab, life>>

(* A sleeper that was woken looks at the word again: it goes back to sleep *)
(* if the word is the one it waits on, and to the top of the macro if not. *)
FutexRecheck(c) ==
  /\ pc[c] = "asleep" /\ c \in woken
  /\ woken' = woken \ {c}
  /\ IF lock = futexVal[c]
       THEN UNCHANGED <<pc, lockVal, futexVal>>
       ELSE pc' = [pc EXCEPT ![c] = "load"] /\ LocalsGone(c)
  /\ UNCHANGED <<lock, hadLast, prior, lastGrab, life>>

(* fx.ms have passed: with the word unchanged the ioctl fails, the macro   *)
(* ends with an error and XvMCBeginSurface answers BadAlloc; otherwise the  *)
(* wait has succeeded.                                                     *)
FutexTimeout_Retries(c) ==
  /\ pc[c] = "asleep"
  /\ woken' = woken \ {c}
  /\ pc' = [pc EXCEPT ![c] = "load"]
  /\ UNCHANGED <<lock, lockVal, futexVal, hadLast, prior, lastGrab, life>>

FutexTimeout(c) ==
  /\ pc[c] = "asleep"
  /\ woken' = woken \ {c}
  /\ pc' = [pc EXCEPT ![c] = IF lock = futexVal[c] THEN "idle" ELSE "load"]
  /\ LocalsGone(c)
  /\ UNCHANGED <<lock, hadLast, prior, lastGrab, life>>

-----------------------------------------------------------------------------
(* releaseDecoder enters UNICHROME_UNLOCK, from XvMCFlushSurface with the  *)
(* decoder or from XvMCDestroyContext with or without it; hadDecoderLast   *)
(* was a local of the call that took it.                                   *)
StartRelease(c) == /\ \/ Goto(c, "have", "guard")
                      \/ Goto(c, "idle", "guard")
                   /\ hadLast' = [hadLast EXCEPT ![c] = FALSE]
                   /\ prior' = [prior EXCEPT ![c] = <<NoCtx, 0>>]
                   /\ UNCHANGED <<lock, lockVal, futexVal, woken, lastGrab, life>>

(* Does the word, contended or not, say that this context holds it?        *)
GuardRead(c) ==
  /\ Goto(c, "guard", IF lock.held /\ lock.ctx = c THEN "clear" ELSE "idle")
  /\ UNCHANGED <<lock, lockVal>> /\ LocalUnchanged

(* First try the uncontended word; a miss means that somebody waits.       *)
Clear_NoSlowPath(c) ==
  /\ Goto(c, "clear", "idle")
  /\ lock' = FreeWord(c)
  /\ UNCHANGED lockVal /\ LocalUnchanged

Clear(c) ==
  /\ pc[c] = "clear"
  /\ IF lock = HeldWord(c)
       THEN lock' = FreeWord(c) /\ pc' = [pc EXCEPT ![c] = "idle"]
       ELSE UNCHANGED lock /\ pc' = [pc EXCEPT ![c] = "clearCont"]
  /\ UNCHANGED lockVal /\ LocalUnchanged

ClearContended(c) ==
  /\ Goto(c, "clearCont", "wake")
  /\ lock' = IF lock = ContWord(HeldWord(c)) THEN FreeWord(c) ELSE lock
  /\ UNCHANGED lockVal /\ LocalUnchanged

(* VIA_FUTEX_WAKE reaches every sleeper of this lock.                      *)
Asleep == {d \in Contexts : pc[d] = "asleep"}

FutexWake(c) ==
  /\ Goto(c, "wake", "idle")
  /\ woken' = woken \cup Asleep
  /\ UNCHANGED <<lock, lockVal, futexVal, hadLast, prior, lastGrab, life>>

-----------------------------------------------------------------------------
(* What a client keeps in its own memory is gone with it.                  *)
Forget(c) == /\ LocalsGone(c)
             /\ hadLast' = [hadLast EXCEPT ![c] = FALSE]
             /\ prior' = [prior EXCEPT ![c] = <<NoCtx, 0>>]

(* A DRM context goes away, by XvMCDestroyContext or with its process at   *)
(* any step; the kernel then clears a word that names it, and wakes the    *)
(* sleepers of a word it held contended.                                   *)
ContextGone_KeepsWord(c) ==
  /\ pc[c] # "dead" /\ life[c] <= MaxDeaths[c]
  /\ pc' = [pc EXCEPT ![c] = "dead"]
  /\ lock' = IF lock.ctx = c THEN FreeWord(c) ELSE lock
  /\ woken' = (IF lock.ctx = c /\ lock.held /\ lock.cont
                 THEN woken \cup Asleep ELSE woken) \ {c}
  /\ Forget(c)
  /\ UNCHANGED <<lastGrab, life>>

ContextGone(c) ==
  /\ pc[c] # "dead" /\ life[c] <= MaxDeaths[c]
  /\ pc' = [pc EXCEPT ![c] = "dead"]
  /\ lock' = IF lock.ctx = c THEN FreeWord(NoCtx) ELSE lock
  /\ woken' = (IF lock.ctx = c /\ lock.held /\ lock.cont
                 THEN woken \cup Asleep ELSE woken) \ {c}
  /\ Forget(c)
  /\ UNCHANGED <<lastGrab, life>>

(* The server gives the number to a new context (uniDRICreateContext).     *)
ContextCreated(c) ==
  /\ Goto(c, "dead", "idle")
  /\ life' = [life EXCEPT ![c] = @ + 1]
  /\ UNCHANGED <<lock, lockVal, futexVal, woken, hadLast, prior, lastGrab>>

(* The steps a scheduled client thread, or the kernel for it, goes through *)
(* once it has entered one of the macros.                                  *)
MacroStep(c) ==
  \/ LoadWord(c) \/ CasAcquire(c) \/ CasMiss(c) \/ Reload(c)
  \/ MarkContended(c) \/ Remark(c) \/ FutexWait(c) \/ FutexRecheck(c)
  \/ FutexTimeout(c) \/ GuardRead(c) \/ Clear(c) \/ ClearContended(c)
  \/ FutexWake(c)

Next == \E c \in Contexts : \/ Grab(c) \/ StartRelease(c) \/ MacroStep(c)
                            \/ ContextGone(c) \/ ContextCreated(c)

Spec == Init /\ [][Next]_vars

(* The scheduler runs every thread and the kernel's timers fire; nothing   *)
(* obliges a holder to release, a context to be destroyed or created.      *)
FairSpec == Spec /\ \A c \in Contexts : WF_vars(MacroStep(c))

-----------------------------------------------------------------------------
(* At most one context is between taking the decoder and giving it back    *)
(* (UNICHROME_LOCK to the release of UNICHROME_UNLOCK), whatever waits,     *)
(* times out or dies in between.                                           *)
Holding == {"have", "clear", "clearCont"}

MutualExclusion == \A c, d \in Contexts :
                      pc[c] \in Holding /\ pc[d] \in Holding => c = d

(* A context told that it had the lock last really is the one, in this     *)
(* life, that held the decoder just before: only then may XvMCBeginSurface *)
(* count on the state it left in the decoder.  A context number used again *)
(* after its owner died must not inherit the answer.                       *)
HadLastIsMine == \A c \in Contexts :
                    pc[c] = "have" /\ hadLast[c] => prior[c] = <<c, life[c]>>

(* A sleeper whose word has changed has been woken, or the context that    *)
(* changed it is about to call VIA_FUTEX_WAKE; a context killed between the *)
(* two leaves a sleeper to its time-out, which is what fx.ms is for.       *)
NoLostWakeup ==
  \A c \in Contexts :
     pc[c] = "asleep" /\ c \notin woken /\ lock # futexVal[c]
       => \E d \in Contexts : pc[d] \in {"wake", "dead"} \/ life[d] > 1

(* An attempt at the lock ends, with the decoder, the time-out error or    *)
(* the death of the context, even if a holder never gives the decoder      *)
(* back, unless other contexts take the decoder from under it again and    *)
(* again.  The time-out is one of each wait, not of the attempt: a context *)
(* that always finds the word changed reads it anew for ever.              *)
TakenFrom(c) == \E d \in Contexts \ {c} : CasAcquire(d)

AttemptEndsUnlessOvertaken ==
  \A c \in Contexts : \/ []<>(pc[c] \notin Locking)
                      \/ []<><<TakenFrom(c)>>_vars

(* The word implements the abstract lock: the holder is the context whose  *)
(* number it carries with DRM_LOCK_HELD, the last holder that number.      *)
Mutex == INSTANCE DecoderMutex
           WITH holder <- IF lock.held THEN lock.ctx ELSE NoCtx,
                last <- lock.ctx

ImplementsMutex == Mutex!MutexSpec
=============================================================================
