--------------------------- MODULE DecoderSession ---------------------------
(***************************************************************************)
(* The life of pictures in the MPEG decoder: XvMCBeginSurface, PutSlice,   *)
(* FlushSurface, SyncSurface and LoadQMatrix of src/xvmc/viaXvMC.c for     *)
(* contexts that share the decoder through the lock of DecoderMutex, over  *)
(* the AGP command path of src/xvmc/viaLowLevel.c (use_agp): commands are  *)
(* collected in a buffer of the context, copied into the one ring by a     *)
(* flush, and executed from there in order while the client runs on.  Time *)
(* stamps in the ring tell a client how far the ring has come.             *)
(*                                                                         *)
(* A client call is one step (ctxMutex admits one call of a context at a   *)
(* time) but for XvMCBeginSurface, which other contexts and the hardware   *)
(* can interleave with after the grab and after the flush of a time stamp. *)
(* A wait for the hardware is a guard: the hardware answers before the     *)
(* time-outs of viaLowLevel.c.                                             *)
(*                                                                         *)
(* External: the DRM ring, and the decoder, which takes a new picture only *)
(* when idle, keeps the quantiser matrices it was last given, and decodes  *)
(* slices on its own.                                                      *)
(*                                                                         *)
(* There are four matrices, each sent when a flag of the context says that *)
(* the decoder lacks it.  The flags of intra and non-intra (Luma) are      *)
(* cleared when the decoder comes from another context, those of chroma    *)
(* intra and chroma non-intra (Chroma) are not, and are set from the start.*)
(***************************************************************************)
EXTENDS Integers, Sequences

CONSTANTS Contexts,   \* XvMC contexts
          NoCtx,      \* the empty lock word
          Surfaces,   \* decoding targets
          NoSrf,      \* a rendSurf of 0
          Owner,      \* the context each surface was created in
          Luma,       \* matrices sent again to a decoder that was another's
          Chroma,     \* matrices sent when the client loads them
          Features,   \* what the client of each context does and meets:
                      \* "again" begins a picture before the last is flushed,
                      \* "early" syncs a surface before it is flushed,
                      \* "reflush" flushes another surface than the one it
                      \* renders, "refs" names reference surfaces, "chroma"
                      \* loads chroma matrices, "fail" has flushes refused,
                      \* "junk" found a large number in the
                      \* lastReadTimeStamp nobody initialises
          MaxStamp,   \* bound: time stamps each context may emit
          MaxLoads,   \* bound: loads of each matrix of each context
          BufSize,    \* commands a context's buffer holds (LL_AGP_CMDBUF_SIZE)
          RingSize    \* commands the ring holds

ASSUME SessionAssumption == /\ NoCtx \notin Contexts
                            /\ NoSrf \notin Surfaces
                            /\ Owner \in [Surfaces -> Contexts]
                            /\ Luma \cap Chroma = {}
                            /\ DOMAIN Features = Contexts
                            /\ MaxStamp \in [Contexts -> Nat]
                            /\ MaxLoads \in Nat
                            /\ BufSize \in Nat \ {0} /\ RingSize \in Nat \ {0}

VARIABLES
  holder, last,   \* the decoder lock, see DecoderMutex
  pc,             \* idle, or where a context is in XvMCBeginSurface
  target,         \* its target_surface
  hadLast,        \* its hadDecoderLast
  haveDecoder,    \* the context believes that it owns the decoder
  rendSurf,       \* rendSurf[0], the surface being rendered
  qMatrix,        \* version of each of the context's quantiser matrices, 0
                  \* for one its client has not loaded
  loaded,         \* intraLoaded, ...: matrices whose flag is set
  decoderOn,      \* a picture has been begun in this context
  timeStamp,      \* the context's last time stamp that covers the decoder
  curTimeStamp,   \* the low level's next time stamp
  agpSync,        \* time stamp the next flush waits for, or NoSync
  buffer,         \* agp_buffer: commands not flushed
  needsSync,      \* surfaces a sync has something to wait for
  srfStamp,       \* the surface's timeStamp
  dropped,        \* history: surfaces whose sync a later picture has dropped
  ring,           \* submitted commands the hardware has not executed
  tsP,            \* the time stamp each context reads back
  session,        \* decoder: the picture being decoded, as its begin command
  matrices,       \* decoder: whose quantiser matrices it has
  busy            \* decoder: it is decoding

lockVars == <<holder, last>>
callVars == <<pc, target, hadLast>>
ctxVars  == <<haveDecoder, rendSurf, qMatrix, loaded, decoderOn, timeStamp>>
lowVars  == <<curTimeStamp, agpSync, buffer>>
srfVars  == <<needsSync, srfStamp, dropped>>
hwVars   == <<tsP, session, matrices, busy>>
vars == <<lockVars, callVars, ctxVars, lowVars, srfVars, ring, hwVars>>

Mutex == INSTANCE DecoderMutex

NoSync    == -1
NoPicture == [op |-> "none"]

Matrices == Luma \cup Chroma

(* Contexts as XvMCCreateContext leaves them, setAGPSyncLowLevel(xl, 1, 0) *)
(* included, with surfaces whose timeStamp nobody has written: 0 stands    *)
(* for a value read as long past.                                          *)
Init ==
  /\ Mutex!MutexInit
  /\ pc = [c \in Contexts |-> "idle"]
  /\ target = [c \in Contexts |-> NoSrf]
  /\ hadLast = [c \in Contexts |-> FALSE]
  /\ haveDecoder = [c \in Contexts |-> FALSE]
  /\ rendSurf = [c \in Contexts |-> NoSrf]
  /\ qMatrix = [c \in Contexts |-> [m \in Matrices |-> 0]]
  /\ loaded = [c \in Contexts |-> Chroma]
  /\ decoderOn = [c \in Contexts |-> FALSE]
  /\ timeStamp = [c \in Contexts |-> 0]
  /\ curTimeStamp = [c \in Contexts |-> 1]
  /\ agpSync = [c \in Contexts |-> 0]
  /\ buffer = [c \in Contexts |-> <<>>]
  /\ needsSync = {} /\ dropped = {}
  /\ srfStamp = [s \in Surfaces |-> 0]
  /\ ring = <<>>
  /\ tsP = [c \in Contexts |-> 0]
  /\ session = NoPicture
  /\ matrices = [m \in Matrices |-> <<NoCtx, 0>>]
  /\ busy = FALSE

-----------------------------------------------------------------------------
(* agpFlush of the commands buf: wait for the agpSync time stamp and an    *)
(* idle decoder, then hand the commands to the kernel, again as long as it *)
(* answers -EAGAIN for a full ring.  If it refuses them they stay in the   *)
(* buffer, and the wait is not repeated.                                   *)
(* viaDMAWaitTimeStamp reads tsP only for a stamp above the last one it    *)
(* read, which is whatever malloc has left until it reads one.             *)
Passed(c, stamp) == "junk" \in Features[c] \/ tsP[c] >= stamp

Waited_Strictly(c) == agpSync[c] # NoSync => tsP[c] > agpSync[c] /\ ~ busy

Waited(c) == agpSync[c] # NoSync => Passed(c, agpSync[c]) /\ ~ busy

Flush_NoSync(c, buf, ok) ==
  /\ ring' = IF ok THEN ring \o buf ELSE ring
  /\ buffer' = [buffer EXCEPT ![c] = IF ok THEN <<>> ELSE buf]
  /\ agpSync' = [agpSync EXCEPT ![c] = NoSync]

Flush(c, buf, ok) ==
  /\ buf # <<>> => Waited(c)
  /\ ok => Len(ring) + Len(buf) <= RingSize
  /\ ring' = IF ok THEN ring \o buf ELSE ring
  /\ buffer' = [buffer EXCEPT ![c] = IF ok THEN <<>> ELSE buf]
  /\ agpSync' = [agpSync EXCEPT ![c] = IF buf = <<>> THEN @ ELSE NoSync]

Outcomes(c) == IF "fail" \in Features[c] THEN BOOLEAN ELSE {TRUE}

(* releaseDecoder does nothing for a context that does not hold the lock.  *)
ReleaseDecoder(c) == IF holder = c THEN Mutex!Release(c) ELSE UNCHANGED lockVars

StampCmd(c) == [op |-> "stamp", ctx |-> c, ts |-> curTimeStamp[c]]

(* XvMCBeginSurface: a context that thinks it has the decoder flushes what *)
(* it has and goes on as the last holder, any other takes the lock.  A time *)
(* stamp of its own must be emitted unless it was the last holder.         *)
BeginSurface(c, s) ==
  /\ pc[c] = "idle" /\ Owner[s] = c
  /\ "again" \in Features[c] \/ ~ haveDecoder[c]
  /\ curTimeStamp[c] <= MaxStamp[c]
  /\ IF haveDecoder[c]
       THEN /\ \E ok \in Outcomes(c) : Flush(c, buffer[c], ok)
            /\ hadLast' = [hadLast EXCEPT ![c] = TRUE]
            /\ UNCHANGED lockVars
       ELSE /\ Mutex!Acquire(c)
            /\ hadLast' = [hadLast EXCEPT ![c] = last = c]
            /\ UNCHANGED <<ring, buffer, agpSync>>
  /\ haveDecoder' = [haveDecoder EXCEPT ![c] = TRUE]
  /\ target' = [target EXCEPT ![c] = s]
  /\ pc' = [pc EXCEPT ![c] = IF ~ hadLast'[c] \/ timeStamp[c] = 0 THEN "stamp"
                             ELSE "picture"]
  /\ UNCHANGED <<rendSurf, qMatrix, loaded, decoderOn, timeStamp, curTimeStamp,
                 srfVars, hwVars>>

(* A flush that fails gives the lock back and ends the call, and leaves    *)
(* haveDecoder as it is.                                                   *)
BeginStamp(c) ==
  /\ pc[c] = "stamp"
  /\ curTimeStamp' = [curTimeStamp EXCEPT ![c] = @ + 1]
  /\ \E ok \in Outcomes(c) :
       /\ Flush(c, Append(buffer[c], StampCmd(c)), ok)
       /\ IF ok THEN /\ timeStamp' = [timeStamp EXCEPT ![c] = curTimeStamp[c]]
                     /\ pc' = [pc EXCEPT ![c] = "picture"]
                     /\ UNCHANGED lockVars
                ELSE /\ pc' = [pc EXCEPT ![c] = "idle"]
                     /\ ReleaseDecoder(c)
                     /\ UNCHANGED timeStamp
  /\ UNCHANGED <<target, hadLast, haveDecoder, rendSurf, qMatrix, loaded,
                 decoderOn, srfVars, hwVars>>

(* The rest of XvMCBeginSurface: reset and begin commands, with the        *)
(* matrices that are not known to be in the decoder, to be flushed only    *)
(* after the time stamp has passed.  Reference surfaces need no sync any   *)
(* more.                                                                   *)
Known(c) == IF hadLast[c] /\ decoderOn[c] THEN loaded[c] ELSE loaded[c] \ Luma

BeginCmd(c, known) ==
  [op |-> "begin", ctx |-> c, srf |-> target[c], load |-> Matrices \ known,
   want |-> [m \in Matrices |-> <<c, qMatrix[c][m]>>]]

BeginPicture_TrustsLoaded(c, refs) ==
  /\ pc[c] = "picture"
  /\ pc' = [pc EXCEPT ![c] = "idle"]
  /\ agpSync' = [agpSync EXCEPT ![c] = timeStamp[c]]
  /\ buffer' = [buffer EXCEPT ![c] = Append(@, BeginCmd(c, loaded[c]))]
  /\ loaded' = [loaded EXCEPT ![c] = Matrices]
  /\ decoderOn' = [decoderOn EXCEPT ![c] = TRUE]
  /\ rendSurf' = [rendSurf EXCEPT ![c] = target[c]]
  /\ needsSync' = (needsSync \ refs) \cup {target[c]}
  /\ dropped' = (dropped \cup (refs \cap needsSync)) \ {target[c]}
  /\ UNCHANGED <<lockVars, target, hadLast, haveDecoder, qMatrix, timeStamp,
                 curTimeStamp, srfStamp, ring, hwVars>>

BeginPicture(c, refs) ==
  /\ pc[c] = "picture"
  /\ pc' = [pc EXCEPT ![c] = "idle"]
  /\ agpSync' = [agpSync EXCEPT ![c] = timeStamp[c]]
  /\ buffer' = [buffer EXCEPT ![c] = Append(@, BeginCmd(c, Known(c)))]
  /\ loaded' = [loaded EXCEPT ![c] = Matrices]
  /\ decoderOn' = [decoderOn EXCEPT ![c] = TRUE]
  /\ rendSurf' = [rendSurf EXCEPT ![c] = target[c]]
  /\ needsSync' = (needsSync \ refs) \cup {target[c]}
  /\ dropped' = (dropped \cup (refs \cap needsSync)) \ {target[c]}
  /\ UNCHANGED <<lockVars, target, hadLast, haveDecoder, qMatrix, timeStamp,
                 curTimeStamp, srfStamp, ring, hwVars>>

(* XvMCPutSlice and XvMCPutSlice2, for the surface begun last; refused     *)
(* without the decoder.  A full buffer is flushed on the way, and an error *)
(* of that flush is not looked at.                                         *)
Slice(c) == [op |-> "slice", ctx |-> c, srf |-> target[c]]

PutSlice_Unchecked(c) ==
  /\ pc[c] = "idle" /\ target[c] # NoSrf /\ Len(buffer[c]) < BufSize
  /\ buffer' = [buffer EXCEPT ![c] = Append(@, Slice(c))]
  /\ UNCHANGED <<agpSync, ring>>
  /\ UNCHANGED <<lockVars, callVars, ctxVars, curTimeStamp, srfVars, hwVars>>

PutSlice(c) ==
  /\ pc[c] = "idle" /\ haveDecoder[c] /\ target[c] # NoSrf
  /\ \/ /\ Len(buffer[c]) < BufSize
        /\ buffer' = [buffer EXCEPT ![c] = Append(@, Slice(c))]
        /\ UNCHANGED <<agpSync, ring>>
     \/ /\ Len(buffer[c]) = BufSize
        /\ \E ok \in Outcomes(c) : Flush(c, buffer[c], ok)
  /\ UNCHANGED <<lockVars, callVars, ctxVars, curTimeStamp, srfVars, hwVars>>

(* XvMCFlushSurface: a time stamp behind the slices if the surface needs a *)
(* sync, the flush, and the decoder given back if this surface is the one  *)
(* being rendered.                                                         *)
FlushSurface_KeepsHaveDecoder(c, s) ==
  /\ pc[c] = "idle" /\ Owner[s] = c
  /\ "reflush" \in Features[c] \/ rendSurf[c] = s
  /\ IF s \in needsSync
       THEN /\ curTimeStamp[c] <= MaxStamp[c]
            /\ curTimeStamp' = [curTimeStamp EXCEPT ![c] = @ + 1]
            /\ timeStamp' = [timeStamp EXCEPT ![c] = curTimeStamp[c]]
            /\ srfStamp' = [srfStamp EXCEPT ![s] = curTimeStamp[c]]
       ELSE UNCHANGED <<curTimeStamp, timeStamp, srfStamp>>
  /\ \E ok \in Outcomes(c) :
       Flush(c, IF s \in needsSync THEN Append(buffer[c], StampCmd(c))
                                   ELSE buffer[c], ok)
  /\ IF rendSurf[c] = s
       THEN /\ UNCHANGED haveDecoder
            /\ ReleaseDecoder(c)
       ELSE UNCHANGED <<haveDecoder, lockVars>>
  /\ UNCHANGED <<callVars, rendSurf, qMatrix, loaded, decoderOn, needsSync,
                 dropped, hwVars>>

FlushSurface_NoRelease(c, s) ==
  /\ pc[c] = "idle" /\ Owner[s] = c
  /\ "reflush" \in Features[c] \/ rendSurf[c] = s
  /\ IF s \in needsSync
       THEN /\ curTimeStamp[c] <= MaxStamp[c]
            /\ curTimeStamp' = [curTimeStamp EXCEPT ![c] = @ + 1]
            /\ timeStamp' = [timeStamp EXCEPT ![c] = curTimeStamp[c]]
            /\ srfStamp' = [srfStamp EXCEPT ![s] = curTimeStamp[c]]
       ELSE UNCHANGED <<curTimeStamp, timeStamp, srfStamp>>
  /\ \E ok \in Outcomes(c) :
       Flush(c, IF s \in needsSync THEN Append(buffer[c], StampCmd(c))
                                   ELSE buffer[c], ok)
  /\ IF rendSurf[c] = s
       THEN /\ haveDecoder' = [haveDecoder EXCEPT ![c] = FALSE]
            /\ UNCHANGED lockVars
       ELSE UNCHANGED <<haveDecoder, lockVars>>
  /\ UNCHANGED <<callVars, rendSurf, qMatrix, loaded, decoderOn, needsSync,
                 dropped, hwVars>>

FlushSurface(c, s) ==
  /\ pc[c] = "idle" /\ Owner[s] = c
  /\ "reflush" \in Features[c] \/ rendSurf[c] = s
  /\ IF s \in needsSync
       THEN /\ curTimeStamp[c] <= MaxStamp[c]
            /\ curTimeStamp' = [curTimeStamp EXCEPT ![c] = @ + 1]
            /\ timeStamp' = [timeStamp EXCEPT ![c] = curTimeStamp[c]]
            /\ srfStamp' = [srfStamp EXCEPT ![s] = curTimeStamp[c]]
       ELSE UNCHANGED <<curTimeStamp, timeStamp, srfStamp>>
  /\ \E ok \in Outcomes(c) :
       Flush(c, IF s \in needsSync THEN Append(buffer[c], StampCmd(c))
                                   ELSE buffer[c], ok)
  /\ IF rendSurf[c] = s
       THEN /\ haveDecoder' = [haveDecoder EXCEPT ![c] = FALSE]
            /\ ReleaseDecoder(c)
       ELSE UNCHANGED <<haveDecoder, lockVars>>
  /\ UNCHANGED <<callVars, rendSurf, qMatrix, loaded, decoderOn, needsSync,
                 dropped, hwVars>>

(* XvMCSyncSurface waits for the surface's time stamp and, unless a later  *)
(* picture has been flushed since, for an idle decoder.                    *)
Synced(c, s) == /\ Passed(c, srfStamp[s])
                /\ srfStamp[s] < timeStamp[c] \/ ~ busy

SyncSurface_StampOnly(c, s) ==
  /\ pc[c] = "idle" /\ Owner[s] = c
  /\ "early" \in Features[c] \/ ~ (haveDecoder[c] /\ rendSurf[c] = s)
  /\ s \in needsSync => Passed(c, srfStamp[s])
  /\ needsSync' = needsSync \ {s}
  /\ rendSurf' = [rendSurf EXCEPT ![c] = IF @ = s THEN NoSrf ELSE @]
  /\ UNCHANGED <<lockVars, callVars, haveDecoder, qMatrix, loaded, decoderOn,
                 timeStamp, lowVars, srfStamp, dropped, ring, hwVars>>

SyncSurface(c, s) ==
  /\ pc[c] = "idle" /\ Owner[s] = c
  /\ "early" \in Features[c] \/ ~ (haveDecoder[c] /\ rendSurf[c] = s)
  /\ s \in needsSync => Synced(c, s)
  /\ needsSync' = needsSync \ {s}
  /\ rendSurf' = [rendSurf EXCEPT ![c] = IF @ = s THEN NoSrf ELSE @]
  /\ UNCHANGED <<lockVars, callVars, haveDecoder, qMatrix, loaded, decoderOn,
                 timeStamp, lowVars, srfStamp, dropped, ring, hwVars>>

(* XvMCLoadQMatrix: some new matrices, for the next picture.               *)
LoadQMatrix_KeepsChromaFlags(c, ms) ==
  /\ pc[c] = "idle" /\ \A m \in ms : qMatrix[c][m] < MaxLoads
  /\ qMatrix' = [qMatrix EXCEPT ![c] =
                   [m \in Matrices |-> IF m \in ms THEN @[m] + 1 ELSE @[m]]]
  /\ loaded' = [loaded EXCEPT ![c] = @ \ (ms \cap Luma)]
  /\ UNCHANGED <<lockVars, callVars, haveDecoder, rendSurf, decoderOn, timeStamp,
                 lowVars, srfVars, ring, hwVars>>

LoadQMatrix(c, ms) ==
  /\ pc[c] = "idle" /\ \A m \in ms : qMatrix[c][m] < MaxLoads
  /\ qMatrix' = [qMatrix EXCEPT ![c] =
                   [m \in Matrices |-> IF m \in ms THEN @[m] + 1 ELSE @[m]]]
  /\ loaded' = [loaded EXCEPT ![c] = @ \ ms]
  /\ UNCHANGED <<lockVars, callVars, haveDecoder, rendSurf, decoderOn, timeStamp,
                 lowVars, srfVars, ring, hwVars>>

-----------------------------------------------------------------------------
(* The hardware executes the ring in order.                                *)
Execute(op) == /\ ring # <<>> /\ Head(ring).op = op
               /\ ring' = Tail(ring)

ExecStamp == /\ Execute("stamp")
             /\ tsP' = [tsP EXCEPT ![Head(ring).ctx] = Head(ring).ts]
             /\ UNCHANGED <<lockVars, callVars, ctxVars, lowVars, srfVars, session,
                            matrices, busy>>

ExecBegin == /\ Execute("begin")
             /\ session' = Head(ring)
             /\ matrices' = [m \in Matrices |->
                    IF m \in Head(ring).load THEN Head(ring).want[m] ELSE matrices[m]]
             /\ UNCHANGED <<lockVars, callVars, ctxVars, lowVars, srfVars, tsP, busy>>

ExecSlice == /\ Execute("slice")
             /\ busy' = TRUE
             /\ UNCHANGED <<lockVars, callVars, ctxVars, lowVars, srfVars, tsP,
                            session, matrices>>

DecoderIdle == /\ busy
               /\ busy' = FALSE
               /\ UNCHANGED <<lockVars, callVars, ctxVars, lowVars, srfVars, ring, tsP,
                              session, matrices>>

Hardware == ExecStamp \/ ExecBegin \/ ExecSlice \/ DecoderIdle

References(c) == IF "refs" \in Features[c]
                   THEN SUBSET {s \in Surfaces : Owner[s] = c /\ s # target[c]}
                   ELSE {{}}

Loads(c) == SUBSET (IF "chroma" \in Features[c] THEN Matrices ELSE Luma) \ {{}}

Client(c) ==
  \/ BeginStamp(c) \/ PutSlice(c)
  \/ \E ms \in Loads(c) : LoadQMatrix(c, ms)
  \/ \E refs \in References(c) : BeginPicture(c, refs)
  \/ \E s \in Surfaces : BeginSurface(c, s) \/ FlushSurface(c, s) \/ SyncSurface(c, s)

Next == Hardware \/ \E c \in Contexts : Client(c)

Spec == Init /\ [][Next]_vars

(* The hardware works and a call that has begun goes on; no client is      *)
(* obliged to make a call.                                                 *)
FairSpec == /\ Spec /\ WF_vars(Hardware)
            /\ \A c \in Contexts :
                 /\ WF_vars(BeginStamp(c))
                 /\ WF_vars(\E refs \in References(c) : BeginPicture(c, refs))

-----------------------------------------------------------------------------
(* A context that believes it owns the decoder does hold the lock, and     *)
(* nobody else ("Does this context own decoder?", viaXvMCPriv.h).          *)
HaveMeansHold == \A c \in Contexts : haveDecoder[c] => holder = c

(* A context whose client flushes what it renders before it syncs it holds *)
(* the decoder only for a surface whose XvMCFlushSurface will give it back, *)
(* or for a begin call in progress, whatever the other clients do.         *)
HeldForRendering ==
  \A c \in Contexts : holder = c /\ pc[c] = "idle" /\ "early" \notin Features[c]
                         => rendSurf[c] # NoSrf

(* The hardware queues no picture: it is never told to begin one while it  *)
(* decodes, whoever's slices those are.                                    *)
BeginWhenIdle == [][ExecBegin => ~ busy]_vars

(* A slice is decoded into the surface its own context has begun, not into *)
(* a picture another context has set up meanwhile.                         *)
SliceInOwnPicture ==
  [][ExecSlice => /\ session.op = "begin"
                  /\ session.ctx = Head(ring).ctx
                  /\ session.srf = Head(ring).srf]_vars

(* A picture is decoded with the intra and non-intra matrices its context  *)
(* had when it began it, although they are sent only when the context      *)
(* thinks that the decoder lacks them.                                     *)
MatricesOfPicture ==
  session.op = "begin" => \A m \in Luma : matrices[m] = session.want[m]

(* So it is with the chroma matrices of a client that has loaded some, as  *)
(* long as no other client loads chroma matrices: that their flags survive *)
(* when the decoder is handed on (viaXvMC.c:985-988) has no other effect   *)
(* on pictures whose chroma is 4:2:0, which have no use for them.          *)
ChromaOfPicture ==
  session.op = "begin" =>
     \A m \in Chroma :
        \/ session.want[m] = <<session.ctx, 0>>
        \/ \E d \in Contexts \ {session.ctx} : "chroma" \in Features[d]
        \/ matrices[m] = session.want[m]

(* Not so if two clients load chroma matrices.                             *)
ChromaOfEveryPicture ==
  session.op = "begin" =>
     \A m \in Chroma : session.want[m] # <<session.ctx, 0>> => matrices[m] = session.want[m]

(* Slices of surface s that are not decoded yet.                           *)
Undecoded(s) ==
  \/ busy /\ session.op = "begin" /\ session.srf = s
  \/ \E i \in 1..Len(ring) : ring[i].op = "slice" /\ ring[i].srf = s
  \/ \E i \in 1..Len(buffer[Owner[s]]) :
        LET q == buffer[Owner[s]][i] IN q.op = "slice" /\ q.srf = s

(* A surface that needs no sync has been decoded completely, so it is after *)
(* XvMCSyncSurface and XvMCPutSurface may show it, whatever other clients  *)
(* do, if its own client flushes a surface before it syncs it, flushes no  *)
(* other, and has not begun a picture that refers to it since.             *)
SyncedIsDecoded ==
  \A s \in Surfaces : /\ s \notin needsSync
                       /\ s \notin dropped
                       /\ {"early", "reflush"} \cap Features[Owner[s]] = {}
                       => ~ Undecoded(s)

(* A begin call that has the decoder ends: the time stamps it waits for    *)
(* are in the ring, and nobody else can keep the decoder busy.             *)
BeginEnds == \A c \in Contexts : pc[c] # "idle" ~> pc[c] = "idle"
=============================================================================
