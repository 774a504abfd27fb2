------------------------- MODULE DecoderSessionProofs -------------------------
(***************************************************************************)
(* Safety of decoding sessions, for any contexts, surfaces and bounds.     *)
(*                                                                         *)
(* Most of it is about the ring: what is in it, behind what, and of whom.  *)
(* The parts of the invariant say it of the commands of the ring one by    *)
(* one, so that the hardware, which takes the first, and a flush, which    *)
(* adds some at the end, change little.                                    *)
(***************************************************************************)
EXTENDS DecoderSession, SequenceTheorems, TLAPS

Stamps   == [op : {"stamp"}, ctx : Contexts, ts : Nat]
Pictures == {p \in [op : {"begin"}, ctx : Contexts, srf : Surfaces,
                    want : [Matrices -> Contexts \X Nat], load : SUBSET Matrices] :
               Owner[p.srf] = p.ctx}
Slices   == {p \in [op : {"slice"}, ctx : Contexts, srf : Surfaces] : Owner[p.srf] = p.ctx}
Commands == Stamps \cup Pictures \cup Slices

SessionTypeOK ==
  /\ holder \in Contexts \cup {NoCtx} /\ last \in Contexts \cup {NoCtx}
  /\ pc \in [Contexts -> {"idle", "stamp", "picture"}]
  /\ target \in [Contexts -> Surfaces \cup {NoSrf}]
  /\ hadLast \in [Contexts -> BOOLEAN]
  /\ haveDecoder \in [Contexts -> BOOLEAN]
  /\ rendSurf \in [Contexts -> Surfaces \cup {NoSrf}]
  /\ qMatrix \in [Contexts -> [Matrices -> Nat]]
  /\ loaded \in [Contexts -> SUBSET Matrices]
  /\ decoderOn \in [Contexts -> BOOLEAN]
  /\ timeStamp \in [Contexts -> Nat] /\ curTimeStamp \in [Contexts -> Nat]
  /\ agpSync \in [Contexts -> Nat \cup {NoSync}]
  /\ buffer \in [Contexts -> Seq(Commands)]
  /\ needsSync \subseteq Surfaces /\ dropped \subseteq Surfaces
  /\ srfStamp \in [Surfaces -> Nat]
  /\ ring \in Seq(Commands)
  /\ tsP \in [Contexts -> Nat]
  /\ session \in Pictures \cup {NoPicture}
  /\ matrices \in [Matrices -> (Contexts \cup {NoCtx}) \X Nat]
  /\ busy \in BOOLEAN
  /\ \A c \in Contexts : /\ pc[c] # "idle" => target[c] \in Surfaces
                         /\ target[c] \in Surfaces => Owner[target[c]] = c
                         /\ rendSurf[c] \in Surfaces => Owner[rendSurf[c]] = c

-----------------------------------------------------------------------------
(* The holder knows it, and holds the lock for a call in progress or for a *)
(* surface its client has begun and not synced.                            *)
HolderKnows ==
  /\ holder \in Contexts => haveDecoder[holder]
  /\ \A c \in Contexts :
       /\ pc[c] # "idle" => haveDecoder[c]
       /\ holder = c /\ pc[c] = "idle" /\ "early" \notin Features[c]
            => rendSurf[c] # NoSrf

(* Nobody's flushes fail. *)
NoneFails == \A c \in Contexts : "fail" \notin Features[c]

(* Who has the decoder, and what may be in a buffer: commands of the       *)
(* picture its context renders, which start with its begin command.        *)
BeginFirst(c) == buffer[c] # <<>> /\ buffer[c][1].op = "begin"

HoldInv ==
  /\ HaveMeansHold
  /\ holder \in Contexts => last = holder
  /\ \A c \in Contexts :
       /\ pc[c] # "idle" => haveDecoder[c]
       /\ holder = c /\ pc[c] = "idle" => target[c] \in Surfaces
       /\ holder = c /\ pc[c] = "idle" /\ rendSurf[c] # NoSrf
            => rendSurf[c] = target[c] /\ target[c] \in needsSync
       /\ buffer[c] # <<>> => holder = c /\ pc[c] = "idle"
       /\ \A i \in 1..Len(buffer[c]) :
            /\ buffer[c][i].op \in {"begin", "slice"}
            /\ buffer[c][i].ctx = c /\ buffer[c][i].srf = target[c]
            /\ buffer[c][i].op = "begin" => i = 1

(* The picture the decoder has when it has executed the first n commands   *)
(* of q, if it has v now, is one of P.                                     *)
NoBegin(q, m, n) == \A j \in m..n : q[j].op # "begin"

InForce(q, v, n, P) ==
  /\ NoBegin(q, 1, n) => v \in P
  /\ \A k \in 1..n : q[k].op = "begin" /\ NoBegin(q, k + 1, n) => q[k] \in P

PictureOf(c, s) == {p \in Pictures : p.ctx = c /\ p.srf = s}
Wanting(m, w) == {p \in Pictures : p.want[m] = w}

(* Slices follow the begin command of their picture, in the ring and what  *)
(* the holder is about to write.                                           *)
PicEnd(c) ==
  holder = c /\ pc[c] = "idle" /\ ~ BeginFirst(c)
    => InForce(ring, session, Len(ring), PictureOf(c, target[c]))

PicInv ==
  /\ \A i \in 1..Len(ring) :
       ring[i].op = "slice" =>
         InForce(ring, session, i - 1, PictureOf(ring[i].ctx, ring[i].srf))
  /\ \A c \in Contexts : PicEnd(c)

(* A context that was the last holder finds its intra and non-intra        *)
(* matrices behind all that is in the ring, unless it has loaded others.   *)
Current(c, m) == <<c, qMatrix[c][m]>>

MatEnd(c, m) ==
  /\ BeginFirst(c) /\ m \notin buffer[c][1].load
       => InForce(ring, session, Len(ring), Wanting(m, buffer[c][1].want[m]))
  /\ BeginFirst(c) /\ m \in loaded[c] => buffer[c][1].want[m] = Current(c, m)
  /\ m \in loaded[c] /\ ~ BeginFirst(c)
       /\ (IF pc[c] = "idle" THEN last = c ELSE hadLast[c])
       => InForce(ring, session, Len(ring), Wanting(m, Current(c, m)))

MatInv ==
  /\ MatricesOfPicture
  /\ \A i \in 1..Len(ring) : \A m \in Luma :
       ring[i].op = "begin" /\ m \notin ring[i].load =>
         InForce(ring, session, i - 1, Wanting(m, ring[i].want[m]))
  /\ \A c \in Contexts : \A m \in Luma : MatEnd(c, m)

-----------------------------------------------------------------------------
(* Clients that may name references, sync early and flush surfaces again,  *)
(* but flush each surface before they begin the next, with a low level     *)
(* whose last time stamp is set, and whose flushes do not fail.            *)
Orderly == \A c \in Contexts : {"again", "junk", "fail"} \cap Features[c] = {}

StampOf(i, c) == ring[i].op = "stamp" /\ ring[i].ctx = c
IsSlice(i) == ring[i].op = "slice"

(* The stamps of a context come in order, and those in the ring are to be  *)
(* read yet.                                                               *)
StampInv ==
  \A c \in Contexts :
     /\ timeStamp[c] < curTimeStamp[c] /\ tsP[c] < curTimeStamp[c]
     /\ agpSync[c] < curTimeStamp[c]
     /\ \A i \in 1..Len(ring) :
          StampOf(i, c) =>
            /\ tsP[c] < ring[i].ts /\ ring[i].ts < curTimeStamp[c]
            /\ \A j \in 1..(i - 1) : StampOf(j, c) => ring[j].ts < ring[i].ts

(* A stamp of c that is no later than its time stamp follows every slice.  *)
Covered(c) ==
  \A i \in 1..Len(ring) :
     IsSlice(i) => \E j \in (i + 1)..Len(ring) : StampOf(j, c) /\ ring[j].ts <= timeStamp[c]

(* What is left to decode is of context c.                                 *)
Sole(c) ==
  /\ \A i \in 1..Len(ring) : IsSlice(i) => ring[i].ctx = c
  /\ busy => session.op = "begin" /\ session.ctx = c

(* A picture is begun behind all slices of others: a context with a begin  *)
(* command to flush waits for a stamp behind them.                         *)
BeginsClear ==
  \A i \in 1..Len(ring) :
     ring[i].op = "begin" => ~ busy /\ \A j \in 1..(i - 1) : ~ IsSlice(j)

Clear == ~ busy /\ \A i \in 1..Len(ring) : ~ IsSlice(i)

(* No slice of context c is left to decode.                                *)
Absent(c) ==
  /\ \A i \in 1..Len(ring) : IsSlice(i) => ring[i].ctx # c
  /\ busy => session.ctx # c

Standing(c) ==
  /\ pc[c] = "stamp" => IF hadLast[c] THEN timeStamp[c] = 0 ELSE Absent(c)
  /\ pc[c] = "picture" => Covered(c)
  /\ BeginFirst(c) => Covered(c) /\ agpSync[c] = timeStamp[c]
  /\ holder = c /\ pc[c] = "idle" /\ ~ BeginFirst(c) => Sole(c)

QueueInv ==
  /\ BeginsClear
  /\ holder = NoCtx /\ last \in Contexts => Covered(last) /\ Sole(last)
  /\ last = NoCtx => Clear
  /\ \A c \in Contexts : Standing(c)

(* What a surface of a tidy client has in the ring is followed by its      *)
(* stamp, unless it is being rendered, and its stamp is the context's last *)
(* until all of it has been decoded.                                       *)
Tidy(c) == {"early", "reflush"} \cap Features[c] = {}

Rendering(c, s) == holder = c /\ pc[c] = "idle" /\ rendSurf[c] = s

SliceOf(i, s) == IsSlice(i) /\ ring[i].srf = s

Decoding(s) == busy /\ session.op = "begin" /\ session.srf = s

DoneFor(s) ==
  /\ srfStamp[s] <= timeStamp[Owner[s]]
  /\ \A i \in 1..Len(ring) : SliceOf(i, s) /\ ~ Rendering(Owner[s], s) =>
       /\ \E j \in (i + 1)..Len(ring) : StampOf(j, Owner[s]) /\ ring[j].ts <= srfStamp[s]
       /\ srfStamp[s] = timeStamp[Owner[s]]
  /\ Decoding(s) /\ ~ Rendering(Owner[s], s) =>
       srfStamp[s] = timeStamp[Owner[s]] /\ srfStamp[s] > 0
  /\ pc[Owner[s]] = "idle" /\ rendSurf[Owner[s]] \notin {s, NoSrf}
       /\ ~ BeginFirst(Owner[s])
       => ~ Decoding(s) /\ \A i \in 1..Len(ring) : ~ SliceOf(i, s)
  /\ s \notin needsSync /\ s \notin dropped => ~ Undecoded(s)

DoneInv == \A s \in Surfaces : Tidy(Owner[s]) => DoneFor(s)

-----------------------------------------------------------------------------
(* Lemmas about the ring and the buffers.                                  *)

(* What a flush of the commands b makes of the ring.                       *)
Grown(b) ==
  /\ ring' \in Seq(Commands)
  /\ Len(ring') = Len(ring) + Len(b)
  /\ \A i \in 1..Len(ring) : ring'[i] = ring[i]
  /\ \A i \in 1..Len(b) : ring'[Len(ring) + i] = b[i]

(* A flush leaves what was in the ring where it was.                       *)
LEMMA RingGrows ==
  ASSUME ring \in Seq(Commands), NEW b \in Seq(Commands), ring' = ring \o b
  PROVE  Grown(b)
<1>1. /\ Len(ring) \in Nat /\ Len(b) \in Nat
  BY LenProperties
<1>2. /\ ring' \in Seq(Commands)
      /\ Len(ring') = Len(ring) + Len(b)
      /\ \A i \in 1..(Len(ring) + Len(b)) :
            ring'[i] = IF i <= Len(ring) THEN ring[i] ELSE b[i - Len(ring)]
  BY ConcatProperties
<1>3. ASSUME NEW i \in 1..Len(b) PROVE ring'[Len(ring) + i] = b[i]
  <2>1. /\ Len(ring) + i \in 1..(Len(ring) + Len(b))
        /\ ~ (Len(ring) + i <= Len(ring)) /\ Len(ring) + i - Len(ring) = i
    BY <1>1
  <2> QED BY <1>2, <2>1
<1>4. ASSUME NEW i \in 1..Len(ring) PROVE ring'[i] = ring[i]
  BY <1>1, <1>2
<1> QED BY <1>2, <1>3, <1>4 DEF Grown

(* What the hardware makes of the ring when it executes a command.         *)
Shrunk(op) ==
  /\ ring' \in Seq(Commands)
  /\ Len(ring) \in Nat \ {0} /\ Len(ring') = Len(ring) - 1
  /\ Head(ring) = ring[1] /\ ring[1] \in Commands /\ ring[1].op = op
  /\ \A i \in 1..Len(ring') : i + 1 \in 2..Len(ring) /\ ring'[i] = ring[i + 1]

(* Executing a command takes it from the front.                            *)
LEMMA RingShrinks ==
  ASSUME ring \in Seq(Commands), NEW op, Execute(op)
  PROVE  Shrunk(op)
<1>1. ring # <<>> /\ ring' = Tail(ring) /\ Head(ring).op = op
  BY DEF Execute
<1>2. /\ Len(ring) \in Nat \ {0} /\ Head(ring) = ring[1] /\ ring[1] \in Commands
  BY <1>1, EmptySeq, ElementOfSeq
<1>3. /\ ring' \in Seq(Commands) /\ Len(ring') = Len(ring) - 1
      /\ \A i \in 1..Len(ring') : ring'[i] = ring[i + 1]
  BY <1>1, HeadTailProperties
<1>4. \A i \in 1..Len(ring') : i + 1 \in 2..Len(ring)
  BY <1>2, <1>3
<1> QED BY <1>1, <1>2, <1>3, <1>4 DEF Shrunk

(* A buffer with one more command.                                         *)
LEMMA Appended ==
  ASSUME NEW q \in Seq(Commands), NEW e \in Commands
  PROVE  /\ Append(q, e) \in Seq(Commands)
         /\ Len(q) \in Nat /\ Len(Append(q, e)) = Len(q) + 1
         /\ Append(q, e)[Len(q) + 1] = e
         /\ \A i \in 1..Len(q) : Append(q, e)[i] = q[i]
         /\ Append(q, e) # <<>>
<1>1. Len(q) \in Nat /\ Append(q, e) \in Seq(Commands) /\ Len(Append(q, e)) = Len(q) + 1
  BY AppendProperties, LenProperties
<1>2. Append(q, e) # <<>>
  BY <1>1, EmptySeq
<1> QED BY <1>1, <1>2, AppendProperties

(* The commands the calls write are commands.                              *)
LEMMA CommandsOK ==
  ASSUME SessionTypeOK, NEW c \in Contexts
  PROVE  /\ StampCmd(c) \in Commands
         /\ target[c] # NoSrf => Slice(c) \in Commands
<1>1. target[c] # NoSrf => target[c] \in Surfaces /\ Owner[target[c]] = c
  BY DEF SessionTypeOK
<1>2. StampCmd(c) \in Stamps
  BY DEF SessionTypeOK, StampCmd, Stamps
<1>3. target[c] # NoSrf => Slice(c) \in Slices
  BY <1>1 DEF Slice, Slices
<1> QED BY <1>2, <1>3 DEF Commands

-----------------------------------------------------------------------------
(* Types.                                                                  *)

(* The types a flush changes.                                              *)
LEMMA FlushTypes ==
  ASSUME SessionTypeOK, NEW c \in Contexts, NEW buf \in Seq(Commands),
         NEW ok \in BOOLEAN, Flush(c, buf, ok)
  PROVE  /\ ring' \in Seq(Commands)
         /\ buffer' \in [Contexts -> Seq(Commands)]
         /\ agpSync' \in [Contexts -> Nat \cup {NoSync}]
<1>1. ring \o buf \in Seq(Commands) /\ <<>> \in Seq(Commands)
  BY ConcatProperties, EmptySeq DEF SessionTypeOK
<1> QED BY <1>1 DEF SessionTypeOK, Flush

(* Outcomes are Booleans.                                                  *)
LEMMA OutcomesOK == \A c \in Contexts : Outcomes(c) \subseteq BOOLEAN
BY DEF Outcomes

(* The initial state is well typed.                                        *)
LEMMA InitTypes == Init => SessionTypeOK
<1> SUFFICES ASSUME Init PROVE SessionTypeOK
  OBVIOUS
<1>1. <<>> \in Seq(Commands)
  BY EmptySeq
<1>2. holder \in Contexts \cup {NoCtx} /\ last \in Contexts \cup {NoCtx}
  BY DEF Init, Mutex!MutexInit
<1>3. /\ qMatrix \in [Contexts -> [Matrices -> Nat]]
      /\ loaded \in [Contexts -> SUBSET Matrices]
      /\ matrices \in [Matrices -> (Contexts \cup {NoCtx}) \X Nat]
  BY DEF Init, Matrices
<1> QED BY <1>1, <1>2, <1>3, SessionAssumption
        DEF Init, SessionTypeOK, NoPicture, NoSync

(* Each step of a client keeps the types.                                  *)
LEMMA BeginSurfaceTypes ==
  ASSUME SessionTypeOK, NEW c \in Contexts, NEW s \in Surfaces, BeginSurface(c, s)
  PROVE  SessionTypeOK'
<1>1. /\ holder' \in Contexts \cup {NoCtx} /\ last' \in Contexts \cup {NoCtx}
      /\ hadLast' \in [Contexts -> BOOLEAN]
      /\ ring' \in Seq(Commands) /\ buffer' \in [Contexts -> Seq(Commands)]
      /\ agpSync' \in [Contexts -> Nat \cup {NoSync}]
  <2>1. CASE haveDecoder[c]
    <3>1. PICK ok \in Outcomes(c) : Flush(c, buffer[c], ok)
      BY <2>1 DEF BeginSurface
    <3>2. buffer[c] \in Seq(Commands) /\ ok \in BOOLEAN
      BY OutcomesOK DEF SessionTypeOK
    <3>3. holder' = holder /\ last' = last /\ hadLast' = [hadLast EXCEPT ![c] = TRUE]
      BY <2>1 DEF BeginSurface, lockVars
    <3>4. /\ ring' \in Seq(Commands) /\ buffer' \in [Contexts -> Seq(Commands)]
          /\ agpSync' \in [Contexts -> Nat \cup {NoSync}]
      BY <3>1, <3>2, FlushTypes
    <3> QED BY <3>3, <3>4 DEF SessionTypeOK
  <2>2. CASE ~ haveDecoder[c]
    <3>1. /\ holder' = c /\ last' = c /\ hadLast' = [hadLast EXCEPT ![c] = last = c]
          /\ ring' = ring /\ buffer' = buffer /\ agpSync' = agpSync
      BY <2>2 DEF BeginSurface, Mutex!Acquire
    <3> QED BY <3>1 DEF SessionTypeOK
  <2> QED BY <2>1, <2>2
<1>2. /\ pc' \in [Contexts -> {"idle", "stamp", "picture"}]
      /\ target' \in [Contexts -> Surfaces \cup {NoSrf}]
      /\ haveDecoder' \in [Contexts -> BOOLEAN]
  BY DEF SessionTypeOK, BeginSurface
<1>3. \A d \in Contexts : /\ pc'[d] # "idle" => target'[d] \in Surfaces
                          /\ target'[d] \in Surfaces => Owner[target'[d]] = d
  BY DEF SessionTypeOK, BeginSurface
<1>4. UNCHANGED <<rendSurf, qMatrix, loaded, decoderOn, timeStamp, curTimeStamp,
                  srfVars, hwVars>>
  BY DEF BeginSurface
<1> QED BY <1>1, <1>2, <1>3, <1>4 DEF SessionTypeOK, srfVars, hwVars

(* The flush of a time stamp keeps the types.                              *)
LEMMA BeginStampTypes ==
  ASSUME SessionTypeOK, NEW c \in Contexts, BeginStamp(c)
  PROVE  SessionTypeOK'
<1>1. PICK ok \in Outcomes(c) :
        /\ Flush(c, Append(buffer[c], StampCmd(c)), ok)
        /\ IF ok THEN /\ timeStamp' = [timeStamp EXCEPT ![c] = curTimeStamp[c]]
                      /\ pc' = [pc EXCEPT ![c] = "picture"]
                      /\ UNCHANGED lockVars
                 ELSE /\ pc' = [pc EXCEPT ![c] = "idle"]
                      /\ ReleaseDecoder(c)
                      /\ UNCHANGED timeStamp
  BY DEF BeginStamp
<1>2. /\ ring' \in Seq(Commands) /\ buffer' \in [Contexts -> Seq(Commands)]
      /\ agpSync' \in [Contexts -> Nat \cup {NoSync}]
  <2>1. Append(buffer[c], StampCmd(c)) \in Seq(Commands) /\ ok \in BOOLEAN
    BY CommandsOK, Appended, OutcomesOK DEF SessionTypeOK
  <2> QED BY <1>1, <2>1, FlushTypes
<1>3. /\ holder' \in Contexts \cup {NoCtx} /\ last' \in Contexts \cup {NoCtx}
      /\ pc' \in [Contexts -> {"idle", "stamp", "picture"}]
      /\ timeStamp' \in [Contexts -> Nat] /\ curTimeStamp' \in [Contexts -> Nat]
  <2>1. /\ holder' \in Contexts \cup {NoCtx} /\ last' \in Contexts \cup {NoCtx}
    BY <1>1 DEF SessionTypeOK, ReleaseDecoder, Mutex!Release, lockVars
  <2>2. pc' \in [Contexts -> {"idle", "stamp", "picture"}]
    BY <1>1 DEF SessionTypeOK
  <2>t. timeStamp \in [Contexts -> Nat] /\ curTimeStamp \in [Contexts -> Nat]
    BY DEF SessionTypeOK
  <2>3. curTimeStamp' \in [Contexts -> Nat]
    BY <2>t DEF BeginStamp
  <2>4. timeStamp' \in [Contexts -> Nat]
    BY <1>1, <2>t
  <2> QED BY <2>1, <2>2, <2>3, <2>4
<1>4. UNCHANGED <<target, hadLast, haveDecoder, rendSurf, qMatrix, loaded, decoderOn,
                  srfVars, hwVars>> /\ pc[c] # "idle"
  BY DEF BeginStamp
<1>5. \A d \in Contexts : pc'[d] # "idle" => target'[d] \in Surfaces
  BY <1>1, <1>4 DEF SessionTypeOK
<1> QED BY <1>2, <1>3, <1>4, <1>5 DEF SessionTypeOK, srfVars, hwVars

(* The rest of a begin call keeps the types.                               *)
LEMMA BeginPictureTypes ==
  ASSUME SessionTypeOK, NEW c \in Contexts, NEW refs \in References(c), BeginPicture(c, refs)
  PROVE  SessionTypeOK'
<1> DEFINE b == BeginCmd(c, Known(c))
<1>1. b \in Pictures
  <2>1. [m \in Matrices |-> <<c, qMatrix[c][m]>>] \in [Matrices -> Contexts \X Nat]
    BY DEF SessionTypeOK
  <2>2. target[c] \in Surfaces /\ Owner[target[c]] = c
    BY DEF SessionTypeOK, BeginPicture
  <2> QED BY <2>1, <2>2 DEF BeginCmd, Pictures
<1>2. buffer' = [buffer EXCEPT ![c] = Append(buffer[c], b)]
  BY DEF BeginPicture
<1>3. Append(buffer[c], b) \in Seq(Commands)
  BY <1>1, Appended DEF SessionTypeOK, Commands
<1> HIDE DEF b
<1>4. buffer' \in [Contexts -> Seq(Commands)]
  BY <1>2, <1>3 DEF SessionTypeOK
<1>5. refs \subseteq Surfaces /\ target[c] \in Surfaces
  BY DEF References, SessionTypeOK, BeginPicture
<1>6. /\ pc' \in [Contexts -> {"idle", "stamp", "picture"}]
      /\ rendSurf' \in [Contexts -> Surfaces \cup {NoSrf}]
      /\ loaded' \in [Contexts -> SUBSET Matrices] /\ decoderOn' \in [Contexts -> BOOLEAN]
      /\ agpSync' \in [Contexts -> Nat \cup {NoSync}]
      /\ needsSync' \subseteq Surfaces /\ dropped' \subseteq Surfaces
  BY <1>5 DEF SessionTypeOK, BeginPicture
<1>7. \A d \in Contexts :
        /\ pc'[d] # "idle" => target[d] \in Surfaces
        /\ rendSurf'[d] \in Surfaces => Owner[rendSurf'[d]] = d
  BY <1>5 DEF SessionTypeOK, BeginPicture
<1>8. UNCHANGED <<lockVars, target, hadLast, haveDecoder, qMatrix, timeStamp,
                  curTimeStamp, srfStamp, ring, hwVars>>
  BY DEF BeginPicture
<1> QED BY <1>4, <1>6, <1>7, <1>8 DEF SessionTypeOK, lockVars, hwVars

(* A slice keeps the types, with or without a flush of the full buffer.    *)
LEMMA PutSliceTypes ==
  ASSUME SessionTypeOK, NEW c \in Contexts, PutSlice(c)
  PROVE  SessionTypeOK'
<1>1. /\ ring' \in Seq(Commands) /\ buffer' \in [Contexts -> Seq(Commands)]
      /\ agpSync' \in [Contexts -> Nat \cup {NoSync}]
  <2>1. CASE /\ buffer' = [buffer EXCEPT ![c] = Append(@, Slice(c))]
             /\ UNCHANGED <<agpSync, ring>>
    <3>1. Append(buffer[c], Slice(c)) \in Seq(Commands)
      BY CommandsOK, Appended DEF PutSlice, SessionTypeOK
    <3> QED BY <2>1, <3>1 DEF SessionTypeOK
  <2>2. CASE \E ok \in Outcomes(c) : Flush(c, buffer[c], ok)
    <3>1. PICK ok \in Outcomes(c) : Flush(c, buffer[c], ok)
      BY <2>2
    <3>2. buffer[c] \in Seq(Commands) /\ ok \in BOOLEAN
      BY OutcomesOK DEF SessionTypeOK
    <3> QED BY <3>1, <3>2, FlushTypes
  <2> QED BY <2>1, <2>2 DEF PutSlice
<1>2. UNCHANGED <<lockVars, callVars, ctxVars, curTimeStamp, srfVars, hwVars>>
  BY DEF PutSlice
<1> QED BY <1>1, <1>2
        DEF SessionTypeOK, lockVars, callVars, ctxVars, srfVars, hwVars

(* What XvMCFlushSurface writes into the buffer before it flushes it.      *)
Flushed(c, s) == IF s \in needsSync THEN Append(buffer[c], StampCmd(c)) ELSE buffer[c]

(* XvMCFlushSurface keeps the types.                                       *)
LEMMA FlushSurfaceTypes ==
  ASSUME SessionTypeOK, NEW c \in Contexts, NEW s \in Surfaces, FlushSurface(c, s)
  PROVE  SessionTypeOK'
<1>1. Flushed(c, s) \in Seq(Commands)
  BY CommandsOK, Appended DEF SessionTypeOK, Flushed
<1>2. PICK ok \in Outcomes(c) : Flush(c, Flushed(c, s), ok)
  BY DEF FlushSurface, Flushed
<1>3. /\ ring' \in Seq(Commands) /\ buffer' \in [Contexts -> Seq(Commands)]
      /\ agpSync' \in [Contexts -> Nat \cup {NoSync}]
  BY <1>1, <1>2, FlushTypes, OutcomesOK
<1>4. /\ holder' \in Contexts \cup {NoCtx} /\ last' \in Contexts \cup {NoCtx}
      /\ haveDecoder' \in [Contexts -> BOOLEAN]
  BY DEF SessionTypeOK, FlushSurface, ReleaseDecoder, Mutex!Release, lockVars
<1>5. /\ timeStamp' \in [Contexts -> Nat] /\ curTimeStamp' \in [Contexts -> Nat]
      /\ srfStamp' \in [Surfaces -> Nat]
  <2>1. CASE s \in needsSync
    <3>1. /\ curTimeStamp' = [curTimeStamp EXCEPT ![c] = @ + 1]
          /\ timeStamp' = [timeStamp EXCEPT ![c] = curTimeStamp[c]]
          /\ srfStamp' = [srfStamp EXCEPT ![s] = curTimeStamp[c]]
      BY <2>1 DEF FlushSurface
    <3>2. /\ timeStamp \in [Contexts -> Nat] /\ curTimeStamp \in [Contexts -> Nat]
          /\ srfStamp \in [Surfaces -> Nat]
      BY DEF SessionTypeOK
    <3> QED BY <3>1, <3>2
  <2>2. CASE s \notin needsSync
    BY <2>2 DEF SessionTypeOK, FlushSurface
  <2> QED BY <2>1, <2>2
<1>6. UNCHANGED <<callVars, rendSurf, qMatrix, loaded, decoderOn, needsSync,
                  dropped, hwVars>>
  BY DEF FlushSurface
<1> QED BY <1>3, <1>4, <1>5, <1>6 DEF SessionTypeOK, callVars, hwVars

(* Every step keeps the types.                                             *)
LEMMA StepTypes == SessionTypeOK /\ [Next]_vars => SessionTypeOK'
<1> SUFFICES ASSUME SessionTypeOK, [Next]_vars PROVE SessionTypeOK'
  OBVIOUS
<1>u. CASE UNCHANGED vars
  BY <1>u DEF SessionTypeOK, vars, lockVars, callVars, ctxVars, lowVars, srfVars, hwVars
<1>h. CASE Hardware
  <2>1. ASSUME NEW op, Execute(op) PROVE Shrunk(op)
    BY <2>1, RingShrinks DEF SessionTypeOK
  <2>2. CASE ExecStamp
    <3>1. Shrunk("stamp")
      BY <2>1, <2>2 DEF ExecStamp
    <3>2. Head(ring) \in Stamps
      BY <3>1 DEF Shrunk, Commands, Stamps, Pictures, Slices
    <3>3. tsP' \in [Contexts -> Nat]
      BY <2>2, <3>2 DEF ExecStamp, SessionTypeOK, Stamps
    <3> QED BY <2>2, <3>1, <3>3
            DEF ExecStamp, SessionTypeOK, Shrunk, lockVars, callVars, ctxVars, lowVars, srfVars
  <2>3. CASE ExecBegin
    <3>1. Shrunk("begin")
      BY <2>1, <2>3 DEF ExecBegin
    <3>2. Head(ring) \in Pictures
      BY <3>1 DEF Shrunk, Commands, Stamps, Pictures, Slices
    <3>3. session' \in Pictures
      BY <2>3, <3>2 DEF ExecBegin
    <3>5. matrices' \in [Matrices -> (Contexts \cup {NoCtx}) \X Nat]
      <4>1. Head(ring).want \in [Matrices -> Contexts \X Nat]
        BY <3>2 DEF Pictures
      <4> QED BY <2>3, <4>1 DEF ExecBegin, SessionTypeOK
    <3> QED BY <2>3, <3>1, <3>3, <3>5
            DEF ExecBegin, SessionTypeOK, Shrunk, lockVars, callVars, ctxVars, lowVars, srfVars
  <2>4. CASE ExecSlice
    <3>1. Shrunk("slice")
      BY <2>1, <2>4 DEF ExecSlice
    <3> QED BY <2>4, <3>1
            DEF ExecSlice, SessionTypeOK, Shrunk, lockVars, callVars, ctxVars, lowVars, srfVars
  <2>5. CASE DecoderIdle
    BY <2>5 DEF DecoderIdle, SessionTypeOK, lockVars, callVars, ctxVars, lowVars, srfVars
  <2> QED BY <1>h, <2>2, <2>3, <2>4, <2>5 DEF Hardware
<1>c. ASSUME NEW c \in Contexts, Client(c) PROVE SessionTypeOK'
  <2>1. ASSUME NEW ms \in Loads(c), LoadQMatrix(c, ms) PROVE SessionTypeOK'
    <3>1. /\ qMatrix' \in [Contexts -> [Matrices -> Nat]]
          /\ loaded' \in [Contexts -> SUBSET Matrices]
          /\ UNCHANGED <<lockVars, callVars, haveDecoder, rendSurf, decoderOn, timeStamp,
                         lowVars, srfVars, ring, hwVars>>
      <4>1. qMatrix \in [Contexts -> [Matrices -> Nat]] /\ loaded \in [Contexts -> SUBSET Matrices]
        BY DEF SessionTypeOK
      <4>2. [m \in Matrices |-> IF m \in ms THEN qMatrix[c][m] + 1 ELSE qMatrix[c][m]]
              \in [Matrices -> Nat]
        BY <4>1
      <4> QED BY <2>1, <4>1, <4>2 DEF LoadQMatrix
    <3> QED BY <3>1 DEF SessionTypeOK, lockVars, callVars, lowVars, srfVars, hwVars
  <2>2. ASSUME NEW s \in Surfaces, SyncSurface(c, s) PROVE SessionTypeOK'
    <3>1. /\ rendSurf' \in [Contexts -> Surfaces \cup {NoSrf}]
          /\ needsSync' \subseteq Surfaces
          /\ \A d \in Contexts : rendSurf'[d] \in Surfaces => Owner[rendSurf'[d]] = d
          /\ UNCHANGED <<lockVars, callVars, haveDecoder, qMatrix, loaded, decoderOn,
                         timeStamp, lowVars, srfStamp, dropped, ring, hwVars>>
      BY <2>2, SessionAssumption DEF SyncSurface, SessionTypeOK
    <3> QED BY <3>1 DEF SessionTypeOK, lockVars, callVars, lowVars, hwVars
  <2> QED BY <1>c, <2>1, <2>2, BeginSurfaceTypes, BeginStampTypes, BeginPictureTypes,
             PutSliceTypes, FlushSurfaceTypes DEF Client
<1> QED BY <1>u, <1>h, <1>c DEF Next

-----------------------------------------------------------------------------
(* The holder renders or is about to.                                      *)

(* Every step leaves the lock with a context that knows it has it, and     *)
(* that has a surface to give it back for.                                 *)
LEMMA StepHolderKnows == SessionTypeOK /\ HolderKnows /\ [Next]_vars => HolderKnows'
<1> SUFFICES ASSUME SessionTypeOK, HolderKnows, [Next]_vars PROVE HolderKnows'
  OBVIOUS
<1>t. /\ haveDecoder \in [Contexts -> BOOLEAN] /\ holder \in Contexts \cup {NoCtx}
      /\ pc \in [Contexts -> {"idle", "stamp", "picture"}]
      /\ rendSurf \in [Contexts -> Surfaces \cup {NoSrf}]
      /\ \A d \in Contexts : pc[d] # "idle" => target[d] \in Surfaces
  BY DEF SessionTypeOK
<1>k. /\ holder \in Contexts => haveDecoder[holder]
      /\ \A c \in Contexts :
           /\ pc[c] # "idle" => haveDecoder[c]
           /\ holder = c /\ pc[c] = "idle" /\ "early" \notin Features[c]
                => rendSurf[c] # NoSrf
  BY DEF HolderKnows
<1>a. NoCtx \notin Contexts /\ NoSrf \notin Surfaces
  BY SessionAssumption
<1>u. ASSUME UNCHANGED <<holder, haveDecoder, pc, rendSurf>> PROVE HolderKnows'
  BY <1>u DEF HolderKnows
<1>h. CASE Hardware
  BY <1>h, <1>u DEF Hardware, ExecStamp, ExecBegin, ExecSlice, DecoderIdle,
                    lockVars, callVars, ctxVars
<1>c. ASSUME NEW c \in Contexts, Client(c) PROVE HolderKnows'
  <2>1. CASE \E ms \in Loads(c) : LoadQMatrix(c, ms)
    BY <2>1, <1>u DEF LoadQMatrix, lockVars, callVars
  <2>2. CASE PutSlice(c)
    BY <2>2, <1>u DEF PutSlice, lockVars, callVars, ctxVars
  <2>3. ASSUME NEW s \in Surfaces, SyncSurface(c, s) PROVE HolderKnows'
    <3>1. /\ pc[c] = "idle" /\ UNCHANGED <<holder, haveDecoder, pc>>
          /\ "early" \in Features[c] \/ ~ (haveDecoder[c] /\ rendSurf[c] = s)
          /\ \A d \in Contexts : rendSurf'[d] # rendSurf[d] => d = c /\ rendSurf[c] = s
      BY <2>3, <1>t DEF SyncSurface, lockVars, callVars
    <3> QED BY <3>1, <1>k DEF HolderKnows
  <2>4. ASSUME NEW s \in Surfaces, BeginSurface(c, s) PROVE HolderKnows'
    <3>1. /\ \A d \in Contexts : /\ haveDecoder'[d] <=> (d = c \/ haveDecoder[d])
                                 /\ pc'[d] = "idle" <=> (d # c /\ pc[d] = "idle")
          /\ rendSurf' = rendSurf /\ (holder' = c \/ holder' = holder)
      BY <2>4, <1>t DEF BeginSurface, Mutex!Acquire, lockVars
    <3> QED BY <3>1, <1>k DEF HolderKnows
  <2>5. ASSUME NEW s \in Surfaces, FlushSurface(c, s) PROVE HolderKnows'
    <3>1. /\ pc' = pc /\ rendSurf' = rendSurf /\ pc[c] = "idle"
      BY <2>5 DEF FlushSurface, callVars
    <3>2. CASE rendSurf[c] = s
      <4>1. /\ haveDecoder' = [haveDecoder EXCEPT ![c] = FALSE]
            /\ holder' = IF holder = c THEN NoCtx ELSE holder
        BY <2>5, <3>2 DEF FlushSurface, ReleaseDecoder, Mutex!Release, lockVars
      <4> QED BY <3>1, <4>1, <1>k, <1>t, <1>a DEF HolderKnows
    <3>3. CASE rendSurf[c] # s
      BY <2>5, <3>3, <3>1, <1>u DEF FlushSurface, lockVars
    <3> QED BY <3>2, <3>3
  <2>6. CASE BeginStamp(c)
    <3>1. /\ haveDecoder' = haveDecoder /\ rendSurf' = rendSurf
          /\ pc[c] = "stamp"
          /\ \/ pc' = [pc EXCEPT ![c] = "picture"] /\ holder' = holder
             \/ /\ pc' = [pc EXCEPT ![c] = "idle"]
                /\ holder' = IF holder = c THEN NoCtx ELSE holder
      BY <2>6 DEF BeginStamp, ReleaseDecoder, Mutex!Release, lockVars
    <3> QED BY <3>1, <1>k, <1>t, <1>a DEF HolderKnows
  <2>7. ASSUME NEW refs \in References(c), BeginPicture(c, refs) PROVE HolderKnows'
    <3>1. /\ haveDecoder' = haveDecoder /\ holder' = holder
          /\ pc[c] = "picture" /\ pc' = [pc EXCEPT ![c] = "idle"]
          /\ rendSurf' = [rendSurf EXCEPT ![c] = target[c]]
      BY <2>7 DEF BeginPicture, lockVars
    <3> QED BY <3>1, <1>k, <1>t, <1>a DEF HolderKnows
  <2> QED BY <1>c, <2>1, <2>2, <2>3, <2>4, <2>5, <2>6, <2>7 DEF Client
<1> QED BY <1>u, <1>h, <1>c DEF Next, vars, lockVars, callVars, ctxVars

(* A context holds the decoder only for a begin call in progress or for a  *)
(* surface whose XvMCFlushSurface gives it back, unless its client syncs   *)
(* surfaces it has not flushed: whatever other clients do, and whatever    *)
(* flushes fail (HeldForRendering).                                        *)
THEOREM HeldToRender == Spec => []HeldForRendering
<1>1. Init => HolderKnows
  <2> SUFFICES ASSUME Init PROVE HolderKnows
    OBVIOUS
  <2>1. holder = NoCtx /\ pc = [c \in Contexts |-> "idle"]
    BY DEF Init, Mutex!MutexInit
  <2> QED BY <2>1, SessionAssumption DEF HolderKnows
<1>2. HolderKnows => HeldForRendering
  BY DEF HolderKnows, HeldForRendering
<1> QED BY <1>1, <1>2, InitTypes, StepTypes, StepHolderKnows, PTL DEF Spec

-----------------------------------------------------------------------------
(* Who has the decoder, when no flush fails.                               *)

(* A context of which no flush fails believes only what is so.             *)
OwnHolds == \A c \in Contexts : "fail" \notin Features[c] /\ haveDecoder[c] => holder = c

(* Every step keeps a context whose flushes do not fail right about who    *)
(* has the decoder.                                                        *)
LEMMA StepOwnHolds == SessionTypeOK /\ OwnHolds /\ [Next]_vars => OwnHolds'
<1> SUFFICES ASSUME SessionTypeOK, OwnHolds, [Next]_vars PROVE OwnHolds'
  OBVIOUS
<1>t. /\ haveDecoder \in [Contexts -> BOOLEAN] /\ NoCtx \notin Contexts
      /\ pc \in [Contexts -> {"idle", "stamp", "picture"}]
  BY SessionAssumption DEF SessionTypeOK
<1>u. ASSUME UNCHANGED <<holder, haveDecoder>> PROVE OwnHolds'
  BY <1>u DEF OwnHolds
<1>h. CASE Hardware
  BY <1>h, <1>u DEF Hardware, ExecStamp, ExecBegin, ExecSlice, DecoderIdle,
                    lockVars, ctxVars
<1>c. ASSUME NEW c \in Contexts, Client(c) PROVE OwnHolds'
  <2>1. CASE PutSlice(c) \/ \E ms \in Loads(c) : LoadQMatrix(c, ms)
    BY <2>1, <1>u DEF LoadQMatrix, PutSlice, lockVars, ctxVars
  <2>2. ASSUME NEW s \in Surfaces, SyncSurface(c, s) PROVE OwnHolds'
    BY <2>2, <1>u DEF SyncSurface, lockVars
  <2>3. ASSUME NEW refs \in References(c), BeginPicture(c, refs) PROVE OwnHolds'
    BY <2>3, <1>u DEF BeginPicture, lockVars
  <2>4. ASSUME NEW s \in Surfaces, BeginSurface(c, s) PROVE OwnHolds'
    <3>1. \A d \in Contexts : haveDecoder'[d] <=> (d = c \/ haveDecoder[d])
      BY <2>4, <1>t DEF BeginSurface
    <3>2. CASE haveDecoder[c]
      BY <2>4, <3>1, <3>2 DEF BeginSurface, lockVars, OwnHolds
    <3>3. CASE ~ haveDecoder[c]
      BY <2>4, <3>1, <3>3, <1>t DEF BeginSurface, Mutex!Acquire, OwnHolds
    <3> QED BY <3>2, <3>3
  <2>5. ASSUME NEW s \in Surfaces, FlushSurface(c, s) PROVE OwnHolds'
    BY <2>5, <1>t, <1>u DEF FlushSurface, ReleaseDecoder, Mutex!Release, lockVars, OwnHolds
  <2>6. CASE BeginStamp(c)
    <3>1. PICK ok \in Outcomes(c) :
            IF ok THEN UNCHANGED lockVars ELSE ReleaseDecoder(c)
      BY <2>6 DEF BeginStamp
    <3>2. haveDecoder' = haveDecoder
      BY <2>6 DEF BeginStamp
    <3>3. ok \/ "fail" \in Features[c]
      BY DEF Outcomes
    <3> QED BY <3>1, <3>2, <3>3, <1>u
            DEF ReleaseDecoder, Mutex!Release, lockVars, OwnHolds
  <2> QED BY <1>c, <2>1, <2>2, <2>3, <2>4, <2>5, <2>6 DEF Client
<1> QED BY <1>u, <1>h, <1>c DEF Next, vars, lockVars, ctxVars

(* "Does this context own decoder?" (viaXvMCPriv.h) is answered rightly    *)
(* while no flush fails (HaveMeansHold); a context whose flushes do not    *)
(* fail is right even when those of others do (OwnHolds).                  *)
THEOREM HaveIsHold ==
  /\ Spec => []OwnHolds
  /\ NoneFails => (Spec => []HaveMeansHold)
<1>1. Init => OwnHolds
  BY DEF Init, OwnHolds
<1>2. Spec => []OwnHolds
  BY <1>1, InitTypes, StepTypes, StepOwnHolds, PTL DEF Spec
<1>3. ASSUME NoneFails PROVE Spec => []HaveMeansHold
  <2>1. OwnHolds => HaveMeansHold
    BY <1>3 DEF OwnHolds, HaveMeansHold, NoneFails
  <2> QED BY <1>2, <2>1, PTL
<1> QED BY <1>2, <1>3

(* What a flush does that the kernel does not refuse.                      *)
LEMMA FlushDone ==
  ASSUME NoneFails, SessionTypeOK, NEW c \in Contexts, NEW buf \in Seq(Commands),
         NEW ok \in Outcomes(c), Flush(c, buf, ok)
  PROVE  /\ Grown(buf)
         /\ \A d \in Contexts : buffer'[d] = IF d = c THEN <<>> ELSE buffer[d]
         /\ \A d \in Contexts : agpSync'[d] = IF d = c /\ buf # <<>> THEN NoSync ELSE agpSync[d]
         /\ buf # <<>> => Waited(c)
<1>1. ok = TRUE
  BY DEF NoneFails, Outcomes
<1>2. /\ ring' = ring \o buf /\ ring \in Seq(Commands)
      /\ buffer' = [buffer EXCEPT ![c] = <<>>] /\ buffer \in [Contexts -> Seq(Commands)]
  BY <1>1 DEF Flush, SessionTypeOK
<1>3. agpSync \in [Contexts -> Nat \cup {NoSync}]
      /\ agpSync' = [agpSync EXCEPT ![c] = IF buf = <<>> THEN @ ELSE NoSync]
  BY DEF Flush, SessionTypeOK
<1>4. buf # <<>> => Waited(c)
  BY DEF Flush
<1> QED BY <1>2, <1>3, <1>4, RingGrows

(* What each call does to the lock, the buffers and the ring, when no      *)
(* flush fails.                                                            *)
LEMMA BeginSurfaceDoes ==
  ASSUME NoneFails, SessionTypeOK, HoldInv, NEW c \in Contexts, NEW s \in Surfaces,
         BeginSurface(c, s)
  PROVE  /\ pc[c] = "idle" /\ Owner[s] = c
         /\ \/ "again" \in Features[c] /\ haveDecoder[c] /\ UNCHANGED <<holder, last>>
            \/ ~ haveDecoder[c] /\ holder = NoCtx /\ holder' = c /\ last' = c
         /\ Grown(buffer[c]) /\ (buffer[c] # <<>> => Waited(c))
         /\ ~ haveDecoder[c] => buffer[c] = <<>> /\ UNCHANGED <<ring, agpSync>>
         /\ \A d \in Contexts :
              /\ buffer'[d] = IF d = c THEN <<>> ELSE buffer[d]
              /\ agpSync'[d] = IF d = c /\ buffer[c] # <<>> THEN NoSync ELSE agpSync[d]
              /\ target'[d] = IF d = c THEN s ELSE target[d]
              /\ d # c => pc'[d] = pc[d] /\ (hadLast'[d] <=> hadLast[d])
              /\ haveDecoder'[d] <=> (d = c \/ haveDecoder[d])
         /\ hadLast'[c] <=> (haveDecoder[c] \/ last = c)
         /\ pc'[c] = IF ~ hadLast'[c] \/ timeStamp[c] = 0 THEN "stamp" ELSE "picture"
         /\ UNCHANGED <<rendSurf, qMatrix, loaded, decoderOn, timeStamp, curTimeStamp,
                        srfVars, hwVars>>
<1>t. /\ haveDecoder \in [Contexts -> BOOLEAN] /\ hadLast \in [Contexts -> BOOLEAN]
      /\ pc \in [Contexts -> {"idle", "stamp", "picture"}]
      /\ target \in [Contexts -> Surfaces \cup {NoSrf}]
      /\ buffer \in [Contexts -> Seq(Commands)] /\ ring \in Seq(Commands)
      /\ agpSync \in [Contexts -> Nat \cup {NoSync}]
      /\ NoCtx \notin Contexts
  BY SessionAssumption DEF SessionTypeOK
<1>1. /\ pc[c] = "idle" /\ Owner[s] = c
      /\ "again" \in Features[c] \/ ~ haveDecoder[c]
      /\ haveDecoder' = [haveDecoder EXCEPT ![c] = TRUE]
      /\ target' = [target EXCEPT ![c] = s]
      /\ pc' = [pc EXCEPT ![c] = IF ~ hadLast'[c] \/ timeStamp[c] = 0 THEN "stamp"
                                 ELSE "picture"]
      /\ UNCHANGED <<rendSurf, qMatrix, loaded, decoderOn, timeStamp, curTimeStamp,
                     srfVars, hwVars>>
  BY DEF BeginSurface
<1>2. CASE haveDecoder[c]
  <2>1. /\ hadLast' = [hadLast EXCEPT ![c] = TRUE] /\ holder' = holder /\ last' = last
    BY <1>2 DEF BeginSurface, lockVars
  <2>2. PICK ok \in Outcomes(c) : Flush(c, buffer[c], ok)
    BY <1>2 DEF BeginSurface
  <2>3. /\ Grown(buffer[c]) /\ (buffer[c] # <<>> => Waited(c))
        /\ \A d \in Contexts : buffer'[d] = IF d = c THEN <<>> ELSE buffer[d]
        /\ \A d \in Contexts :
             agpSync'[d] = IF d = c /\ buffer[c] # <<>> THEN NoSync ELSE agpSync[d]
    BY <2>2, <1>t, FlushDone
  <2> QED BY <1>t, <1>1, <1>2, <2>1, <2>3
<1>3. CASE ~ haveDecoder[c]
  <2>1. /\ hadLast' = [hadLast EXCEPT ![c] = last = c]
        /\ holder = NoCtx /\ holder' = c /\ last' = c
        /\ ring' = ring /\ buffer' = buffer /\ agpSync' = agpSync
    BY <1>3 DEF BeginSurface, Mutex!Acquire
  <2>2. buffer[c] = <<>>
    BY <1>t, <2>1 DEF HoldInv
  <2>3. Grown(<<>>)
    <3>1. <<>> \in Seq(Commands) /\ ring' = ring \o <<>>
      BY <1>t, <2>1, ConcatEmptySeq, EmptySeq
    <3> QED BY <3>1, <1>t, RingGrows
  <2> QED BY <1>t, <1>1, <1>3, <2>1, <2>2, <2>3
<1> QED BY <1>2, <1>3

(* The time stamp of a begin call is all that its flush submits.           *)
LEMMA BeginStampDoes ==
  ASSUME NoneFails, SessionTypeOK, HoldInv, NEW c \in Contexts, BeginStamp(c)
  PROVE  /\ pc[c] = "stamp" /\ buffer[c] = <<>>
         /\ Grown(<<StampCmd(c)>>) /\ Waited(c)
         /\ \A d \in Contexts :
              /\ buffer'[d] = buffer[d]
              /\ agpSync'[d] = IF d = c THEN NoSync ELSE agpSync[d]
              /\ pc'[d] = IF d = c THEN "picture" ELSE pc[d]
              /\ timeStamp'[d] = IF d = c THEN curTimeStamp[c] ELSE timeStamp[d]
              /\ curTimeStamp'[d] = IF d = c THEN curTimeStamp[c] + 1 ELSE curTimeStamp[d]
         /\ UNCHANGED <<holder, last, target, hadLast, haveDecoder, rendSurf, qMatrix,
                        loaded, decoderOn, srfVars, hwVars>>
<1>t. /\ pc \in [Contexts -> {"idle", "stamp", "picture"}]
      /\ timeStamp \in [Contexts -> Nat] /\ curTimeStamp \in [Contexts -> Nat]
  BY DEF SessionTypeOK
<1>1. PICK ok \in Outcomes(c) :
        /\ Flush(c, Append(buffer[c], StampCmd(c)), ok)
        /\ ok => /\ timeStamp' = [timeStamp EXCEPT ![c] = curTimeStamp[c]]
                 /\ pc' = [pc EXCEPT ![c] = "picture"]
                 /\ UNCHANGED lockVars
  BY DEF BeginStamp
<1>2. pc[c] = "stamp" /\ curTimeStamp' = [curTimeStamp EXCEPT ![c] = @ + 1]
  BY DEF BeginStamp
<1>3. buffer[c] = <<>>
  BY <1>2 DEF HoldInv
<1>4. Append(buffer[c], StampCmd(c)) = <<StampCmd(c)>>
  BY <1>3
<1>5. <<StampCmd(c)>> \in Seq(Commands) /\ <<StampCmd(c)>> # <<>>
  BY CommandsOK
<1>6. /\ Grown(<<StampCmd(c)>>) /\ Waited(c)
      /\ \A d \in Contexts : buffer'[d] = IF d = c THEN <<>> ELSE buffer[d]
      /\ \A d \in Contexts : agpSync'[d] = IF d = c THEN NoSync ELSE agpSync[d]
  BY <1>1, <1>4, <1>5, FlushDone
<1>7. ok
  BY DEF NoneFails, Outcomes
<1>8. UNCHANGED <<holder, last, target, hadLast, haveDecoder, rendSurf, qMatrix,
                  loaded, decoderOn, srfVars, hwVars>>
  BY <1>1, <1>7 DEF BeginStamp, lockVars
<1> QED BY <1>t, <1>1, <1>2, <1>3, <1>6, <1>7, <1>8

(* A begin command is then all that the buffer has.                        *)
LEMMA BeginPictureDoes ==
  ASSUME SessionTypeOK, HoldInv, NEW c \in Contexts, NEW refs \in References(c),
         BeginPicture(c, refs)
  PROVE  /\ pc[c] = "picture" /\ holder = c /\ haveDecoder[c] /\ buffer[c] = <<>>
         /\ target[c] \in Surfaces /\ target[c] \notin refs /\ refs \subseteq Surfaces
         /\ \E b \in Pictures :
              /\ b.ctx = c /\ b.srf = target[c]
              /\ \A m \in Luma : /\ b.want[m] = Current(c, m)
                                 /\ m \notin b.load => m \in loaded[c] /\ hadLast[c]
              /\ \A d \in Contexts : buffer'[d] = IF d = c THEN <<b>> ELSE buffer[d]
         /\ \A d \in Contexts :
              /\ pc'[d] = IF d = c THEN "idle" ELSE pc[d]
              /\ agpSync'[d] = IF d = c THEN timeStamp[c] ELSE agpSync[d]
              /\ rendSurf'[d] = IF d = c THEN target[c] ELSE rendSurf[d]
              /\ loaded'[d] = IF d = c THEN Matrices ELSE loaded[d]
         /\ needsSync' = (needsSync \ refs) \cup {target[c]}
         /\ dropped' = (dropped \cup (refs \cap needsSync)) \ {target[c]}
         /\ UNCHANGED <<lockVars, target, hadLast, haveDecoder, qMatrix, timeStamp,
                        curTimeStamp, srfStamp, ring, hwVars>>
<1>t. /\ pc \in [Contexts -> {"idle", "stamp", "picture"}]
      /\ agpSync \in [Contexts -> Nat \cup {NoSync}]
      /\ rendSurf \in [Contexts -> Surfaces \cup {NoSrf}]
      /\ loaded \in [Contexts -> SUBSET Matrices] /\ hadLast \in [Contexts -> BOOLEAN]
      /\ buffer \in [Contexts -> Seq(Commands)]
      /\ qMatrix \in [Contexts -> [Matrices -> Nat]] /\ decoderOn \in [Contexts -> BOOLEAN]
      /\ \A d \in Contexts : /\ pc[d] # "idle" => target[d] \in Surfaces
                             /\ target[d] \in Surfaces => Owner[target[d]] = d
  BY DEF SessionTypeOK
<1>1. pc[c] = "picture" /\ target[c] \in Surfaces /\ Owner[target[c]] = c
  BY <1>t DEF BeginPicture
<1>h. holder = c /\ haveDecoder[c] /\ buffer[c] = <<>>
  BY <1>1 DEF HoldInv, HaveMeansHold
<1>2. refs \subseteq Surfaces /\ target[c] \notin refs
  BY <1>1 DEF References
<1> DEFINE b == BeginCmd(c, Known(c))
<1>3. /\ b \in Pictures /\ b.ctx = c /\ b.srf = target[c]
      /\ \A m \in Luma : /\ b.want[m] = Current(c, m)
                         /\ m \notin b.load => m \in loaded[c] /\ hadLast[c]
  <2>1. [m \in Matrices |-> <<c, qMatrix[c][m]>>] \in [Matrices -> Contexts \X Nat]
    BY <1>t
  <2>2. /\ b.op = "begin" /\ b.ctx = c /\ b.srf = target[c]
        /\ b.load = Matrices \ Known(c)
        /\ b.want = [m \in Matrices |-> <<c, qMatrix[c][m]>>]
    BY DEF BeginCmd
  <2>3. b \in Pictures
    BY <1>1, <2>1 DEF BeginCmd, Pictures
  <2>4. ASSUME NEW m \in Luma
        PROVE  /\ b.want[m] = Current(c, m)
               /\ m \notin b.load => m \in loaded[c] /\ hadLast[c]
    <3>1. m \in Matrices
      BY DEF Matrices
    <3>2. m \in Known(c) => m \in loaded[c] /\ hadLast[c]
      BY DEF Known
    <3> QED BY <2>2, <3>1, <3>2 DEF Current
  <2> QED BY <2>2, <2>3, <2>4
<1>4. buffer' = [buffer EXCEPT ![c] = Append(buffer[c], b)]
  BY DEF BeginPicture
<1> HIDE DEF b
<1>5. Append(buffer[c], b) = <<b>>
  BY <1>h
<1>6. \A d \in Contexts : buffer'[d] = IF d = c THEN <<b>> ELSE buffer[d]
  BY <1>4, <1>5, <1>t
<1>7. \A d \in Contexts :
        /\ pc'[d] = IF d = c THEN "idle" ELSE pc[d]
        /\ agpSync'[d] = IF d = c THEN timeStamp[c] ELSE agpSync[d]
        /\ rendSurf'[d] = IF d = c THEN target[c] ELSE rendSurf[d]
        /\ loaded'[d] = IF d = c THEN Matrices ELSE loaded[d]
  BY <1>t DEF BeginPicture
<1>8. /\ needsSync' = (needsSync \ refs) \cup {target[c]}
      /\ dropped' = (dropped \cup (refs \cap needsSync)) \ {target[c]}
      /\ UNCHANGED <<lockVars, target, hadLast, haveDecoder, qMatrix, timeStamp,
                     curTimeStamp, srfStamp, ring, hwVars>>
  BY DEF BeginPicture
<1> QED BY <1>1, <1>h, <1>2, <1>3, <1>6, <1>7, <1>8

(* A slice is appended, or the full buffer is flushed first.               *)
LEMMA PutSliceDoes ==
  ASSUME NoneFails, SessionTypeOK, HoldInv, NEW c \in Contexts, PutSlice(c)
  PROVE  /\ pc[c] = "idle" /\ haveDecoder[c] /\ holder = c /\ target[c] \in Surfaces
         /\ \/ /\ \A d \in Contexts :
                    buffer'[d] = IF d = c THEN Append(buffer[c], Slice(c)) ELSE buffer[d]
               /\ UNCHANGED <<agpSync, ring>>
            \/ /\ Grown(buffer[c]) /\ (buffer[c] # <<>> => Waited(c))
               /\ \A d \in Contexts :
                    /\ buffer'[d] = IF d = c THEN <<>> ELSE buffer[d]
                    /\ agpSync'[d] = IF d = c /\ buffer[c] # <<>> THEN NoSync ELSE agpSync[d]
         /\ UNCHANGED <<lockVars, callVars, ctxVars, curTimeStamp, srfVars, hwVars>>
<1>t. /\ buffer \in [Contexts -> Seq(Commands)]
      /\ target \in [Contexts -> Surfaces \cup {NoSrf}]
  BY DEF SessionTypeOK
<1>1. /\ pc[c] = "idle" /\ haveDecoder[c] /\ holder = c /\ target[c] \in Surfaces
      /\ UNCHANGED <<lockVars, callVars, ctxVars, curTimeStamp, srfVars, hwVars>>
  BY <1>t DEF PutSlice, HoldInv, HaveMeansHold
<1>2. CASE /\ buffer' = [buffer EXCEPT ![c] = Append(@, Slice(c))]
           /\ UNCHANGED <<agpSync, ring>>
  BY <1>1, <1>2, <1>t
<1>3. CASE \E ok \in Outcomes(c) : Flush(c, buffer[c], ok)
  BY <1>1, <1>3, <1>t, FlushDone
<1> QED BY <1>2, <1>3 DEF PutSlice

(* XvMCFlushSurface submits the buffer, behind it a stamp if the surface   *)
(* needs a sync, and gives the decoder back if the surface is being        *)
(* rendered.                                                               *)
LEMMA FlushSurfaceDoes ==
  ASSUME NoneFails, SessionTypeOK, NEW c \in Contexts, NEW s \in Surfaces,
         FlushSurface(c, s)
  PROVE  /\ pc[c] = "idle" /\ Owner[s] = c
         /\ "reflush" \in Features[c] \/ rendSurf[c] = s
         /\ Grown(Flushed(c, s)) /\ (Flushed(c, s) # <<>> => Waited(c))
         /\ \A d \in Contexts :
              /\ buffer'[d] = IF d = c THEN <<>> ELSE buffer[d]
              /\ agpSync'[d] = IF d = c /\ Flushed(c, s) # <<>> THEN NoSync ELSE agpSync[d]
              /\ timeStamp'[d] = IF d = c /\ s \in needsSync THEN curTimeStamp[c]
                                                             ELSE timeStamp[d]
              /\ curTimeStamp'[d] = IF d = c /\ s \in needsSync THEN curTimeStamp[c] + 1
                                                                ELSE curTimeStamp[d]
              /\ haveDecoder'[d] <=> haveDecoder[d] /\ ~ (d = c /\ rendSurf[c] = s)
         /\ \A r \in Surfaces :
              srfStamp'[r] = IF r = s /\ s \in needsSync THEN curTimeStamp[c] ELSE srfStamp[r]
         /\ holder' = IF holder = c /\ rendSurf[c] = s THEN NoCtx ELSE holder
         /\ UNCHANGED <<last, callVars, rendSurf, qMatrix, loaded, decoderOn, needsSync,
                        dropped, hwVars>>
<1>t. /\ buffer \in [Contexts -> Seq(Commands)]
      /\ timeStamp \in [Contexts -> Nat] /\ curTimeStamp \in [Contexts -> Nat]
      /\ srfStamp \in [Surfaces -> Nat] /\ haveDecoder \in [Contexts -> BOOLEAN]
  BY DEF SessionTypeOK
<1>1. /\ pc[c] = "idle" /\ Owner[s] = c
      /\ "reflush" \in Features[c] \/ rendSurf[c] = s
      /\ UNCHANGED <<callVars, rendSurf, qMatrix, loaded, decoderOn, needsSync,
                     dropped, hwVars>>
  BY DEF FlushSurface
<1>2. Flushed(c, s) \in Seq(Commands)
  BY <1>t, CommandsOK, Appended DEF Flushed
<1>3. PICK ok \in Outcomes(c) : Flush(c, Flushed(c, s), ok)
  BY DEF FlushSurface, Flushed
<1>4. /\ Grown(Flushed(c, s)) /\ (Flushed(c, s) # <<>> => Waited(c))
      /\ \A d \in Contexts : buffer'[d] = IF d = c THEN <<>> ELSE buffer[d]
      /\ \A d \in Contexts :
           agpSync'[d] = IF d = c /\ Flushed(c, s) # <<>> THEN NoSync ELSE agpSync[d]
  BY <1>2, <1>3, FlushDone
<1>5. /\ \A d \in Contexts :
           /\ timeStamp'[d] = IF d = c /\ s \in needsSync THEN curTimeStamp[c]
                                                          ELSE timeStamp[d]
           /\ curTimeStamp'[d] = IF d = c /\ s \in needsSync THEN curTimeStamp[c] + 1
                                                             ELSE curTimeStamp[d]
      /\ \A r \in Surfaces :
           srfStamp'[r] = IF r = s /\ s \in needsSync THEN curTimeStamp[c] ELSE srfStamp[r]
  <2>1. CASE s \in needsSync
    <3>1. /\ curTimeStamp' = [curTimeStamp EXCEPT ![c] = @ + 1]
          /\ timeStamp' = [timeStamp EXCEPT ![c] = curTimeStamp[c]]
          /\ srfStamp' = [srfStamp EXCEPT ![s] = curTimeStamp[c]]
      BY <2>1 DEF FlushSurface
    <3> QED BY <2>1, <3>1, <1>t
  <2>2. CASE s \notin needsSync
    <3>1. UNCHANGED <<curTimeStamp, timeStamp, srfStamp>>
      BY <2>2 DEF FlushSurface
    <3> QED BY <2>2, <3>1
  <2> QED BY <2>1, <2>2
<1>6. /\ holder' = IF holder = c /\ rendSurf[c] = s THEN NoCtx ELSE holder
      /\ last' = last
      /\ \A d \in Contexts :
           haveDecoder'[d] <=> haveDecoder[d] /\ ~ (d = c /\ rendSurf[c] = s)
  BY <1>t DEF FlushSurface, ReleaseDecoder, Mutex!Release, lockVars
<1> QED BY <1>1, <1>4, <1>5, <1>6

(* What a flush of a surface adds to the buffer.                           *)
LEMMA FlushedShape ==
  ASSUME SessionTypeOK, NEW c \in Contexts, NEW s \in Surfaces
  PROVE  /\ Len(buffer[c]) \in Nat
         /\ Len(Flushed(c, s)) = IF s \in needsSync THEN Len(buffer[c]) + 1
                                                    ELSE Len(buffer[c])
         /\ \A i \in 1..Len(buffer[c]) : Flushed(c, s)[i] = buffer[c][i]
         /\ s \in needsSync => /\ Flushed(c, s) # <<>>
                               /\ Flushed(c, s)[Len(buffer[c]) + 1] = StampCmd(c)
         /\ buffer[c] # <<>> => Flushed(c, s) # <<>>
<1>1. buffer[c] \in Seq(Commands) /\ Len(buffer[c]) \in Nat
  BY LenProperties DEF SessionTypeOK
<1>2. CASE s \in needsSync
  BY <1>1, <1>2, CommandsOK, Appended DEF Flushed
<1>3. CASE s \notin needsSync
  BY <1>1, <1>3 DEF Flushed
<1> QED BY <1>2, <1>3

(* Every step keeps the lock, the contexts and the buffers in agreement.   *)
LEMMA StepHoldInv ==
  ASSUME NoneFails, SessionTypeOK, SessionTypeOK', OwnHolds', HolderKnows',
         HoldInv, [Next]_vars
  PROVE  HoldInv'
<1>t. /\ haveDecoder \in [Contexts -> BOOLEAN] /\ NoCtx \notin Contexts
      /\ NoSrf \notin Surfaces
      /\ pc \in [Contexts -> {"idle", "stamp", "picture"}]
      /\ buffer \in [Contexts -> Seq(Commands)]
      /\ \A d \in Contexts : pc[d] # "idle" => target[d] \in Surfaces
      /\ target \in [Contexts -> Surfaces \cup {NoSrf}]
      /\ rendSurf \in [Contexts -> Surfaces \cup {NoSrf}]
      /\ \A q \in Seq(Commands) : Len(q) \in Nat
      /\ Len(<<>>) = 0
  BY SessionAssumption, LenProperties, EmptySeq DEF SessionTypeOK
<1>m. HaveMeansHold' /\ \A c \in Contexts : pc'[c] # "idle" => haveDecoder'[c]
  BY DEF OwnHolds, HolderKnows, HaveMeansHold, NoneFails
<1>u. ASSUME UNCHANGED <<holder, last, pc, target, rendSurf, needsSync, buffer>>
      PROVE HoldInv'
  BY <1>u, <1>m DEF HoldInv
<1>h. CASE Hardware
  BY <1>h, <1>u DEF Hardware, ExecStamp, ExecBegin, ExecSlice, DecoderIdle,
                    lockVars, callVars, ctxVars, lowVars, srfVars
<1>c. ASSUME NEW c \in Contexts, Client(c) PROVE HoldInv'
  <2>1. CASE \E ms \in Loads(c) : LoadQMatrix(c, ms)
    BY <2>1, <1>u DEF LoadQMatrix, lockVars, callVars, lowVars, srfVars
  <2>2. CASE PutSlice(c)
    <3>1. /\ pc[c] = "idle" /\ holder = c /\ target[c] \in Surfaces
          /\ UNCHANGED <<holder, last, pc, target, rendSurf, needsSync>>
          /\ \/ \A d \in Contexts :
                   buffer'[d] = IF d = c THEN Append(buffer[c], Slice(c)) ELSE buffer[d]
             \/ \A d \in Contexts : buffer'[d] = IF d = c THEN <<>> ELSE buffer[d]
      BY <2>2, PutSliceDoes DEF lockVars, callVars, ctxVars, srfVars
    <3>2. /\ Len(Append(buffer[c], Slice(c))) = Len(buffer[c]) + 1
          /\ Append(buffer[c], Slice(c))[Len(buffer[c]) + 1] = Slice(c)
          /\ \A i \in 1..Len(buffer[c]) : Append(buffer[c], Slice(c))[i] = buffer[c][i]
          /\ Len(buffer[c]) \in Nat
      BY <3>1, <1>t, CommandsOK, Appended
    <3>3. Slice(c).op = "slice" /\ Slice(c).ctx = c /\ Slice(c).srf = target[c]
      BY DEF Slice
    <3>4. ASSUME NEW d \in Contexts, NEW i \in 1..Len(buffer'[d])
          PROVE  /\ buffer'[d][i].op \in {"begin", "slice"}
                 /\ buffer'[d][i].ctx = d /\ buffer'[d][i].srf = target[d]
                 /\ buffer'[d][i].op = "begin" => i = 1
      <4>1. \A j \in 1..Len(buffer[d]) :
               /\ buffer[d][j].op \in {"begin", "slice"}
               /\ buffer[d][j].ctx = d /\ buffer[d][j].srf = target[d]
               /\ buffer[d][j].op = "begin" => j = 1
        BY DEF HoldInv
      <4>2. CASE buffer'[d] = buffer[d] \/ buffer'[d] = <<>>
        BY <4>1, <4>2, <1>t
      <4>3. CASE d = c /\ buffer'[d] = Append(buffer[c], Slice(c))
        <5>1. CASE i = Len(buffer[c]) + 1
          BY <4>3, <5>1, <3>2, <3>3
        <5>2. CASE i \in 1..Len(buffer[c])
          BY <4>1, <4>3, <5>2, <3>2
        <5> QED BY <4>3, <5>1, <5>2, <3>2
      <4> QED BY <4>2, <4>3, <3>1
    <3>5. \A d \in Contexts : buffer'[d] # <<>> => holder' = d /\ pc'[d] = "idle"
      BY <3>1, <1>t DEF HoldInv
    <3> QED BY <3>1, <3>4, <3>5, <1>m, <1>t DEF HoldInv
  <2>3. ASSUME NEW s \in Surfaces, SyncSurface(c, s) PROVE HoldInv'
    <3>1. /\ pc[c] = "idle" /\ UNCHANGED <<holder, last, pc, target, buffer>>
          /\ needsSync' = needsSync \ {s}
          /\ \A d \in Contexts :
               rendSurf'[d] = IF d = c /\ rendSurf[c] = s THEN NoSrf ELSE rendSurf[d]
          /\ Owner[s] = c
      BY <2>3, <1>t DEF SyncSurface, lockVars, callVars, lowVars
    <3>2. \A d \in Contexts : target[d] = s => d = c
      <4>1. \A d \in Contexts : target[d] \in Surfaces => Owner[target[d]] = d
        BY DEF SessionTypeOK
      <4> QED BY <3>1, <4>1
    <3> QED BY <3>1, <3>2, <1>m, <1>t DEF HoldInv
  <2>4. ASSUME NEW s \in Surfaces, BeginSurface(c, s) PROVE HoldInv'
    <3>1. /\ pc[c] = "idle" /\ holder' = c /\ last' = c
          /\ holder \in {c, NoCtx}
          /\ \A d \in Contexts :
               /\ buffer'[d] = IF d = c THEN <<>> ELSE buffer[d]
               /\ d # c => pc'[d] = pc[d] /\ target'[d] = target[d]
          /\ pc'[c] # "idle" /\ rendSurf' = rendSurf /\ needsSync' = needsSync
      BY <2>4, <1>t, BeginSurfaceDoes DEF srfVars, HoldInv, HaveMeansHold
    <3> QED BY <3>1, <1>m, <1>t DEF HoldInv
  <2>5. ASSUME NEW s \in Surfaces, FlushSurface(c, s) PROVE HoldInv'
    <3>1. /\ pc[c] = "idle" /\ pc' = pc /\ target' = target
          /\ last' = last /\ rendSurf' = rendSurf /\ needsSync' = needsSync
          /\ holder' = IF holder = c /\ rendSurf[c] = s THEN NoCtx ELSE holder
          /\ \A d \in Contexts : buffer'[d] = IF d = c THEN <<>> ELSE buffer[d]
      BY <2>5, FlushSurfaceDoes DEF callVars
    <3>2. \A d \in Contexts :
            /\ holder' = d => holder = d
            /\ buffer'[d] = buffer[d] \/ buffer'[d] = <<>>
            /\ buffer'[d] # <<>> => holder' = d /\ pc'[d] = "idle"
      BY <3>1, <1>t DEF HoldInv
    <3>3. ASSUME NEW d \in Contexts, NEW i \in 1..Len(buffer'[d])
          PROVE  /\ buffer'[d][i].op \in {"begin", "slice"}
                 /\ buffer'[d][i].ctx = d /\ buffer'[d][i].srf = target[d]
                 /\ buffer'[d][i].op = "begin" => i = 1
      BY <3>2, <1>t DEF HoldInv
    <3> QED BY <3>1, <3>2, <3>3, <1>m, <1>t DEF HoldInv
  <2>6. CASE BeginStamp(c)
    <3>1. /\ pc[c] = "stamp" /\ \A d \in Contexts : buffer'[d] = buffer[d]
          /\ \A d \in Contexts : pc'[d] = IF d = c THEN "picture" ELSE pc[d]
          /\ UNCHANGED <<holder, last, target, rendSurf, needsSync>>
      BY <2>6, BeginStampDoes DEF srfVars
    <3>2. \A d \in Contexts : pc'[d] = "idle" <=> pc[d] = "idle"
      BY <3>1
    <3>3. ASSUME NEW d \in Contexts, NEW i \in 1..Len(buffer'[d])
          PROVE  /\ buffer'[d][i].op \in {"begin", "slice"}
                 /\ buffer'[d][i].ctx = d /\ buffer'[d][i].srf = target'[d]
                 /\ buffer'[d][i].op = "begin" => i = 1
      BY <3>1 DEF HoldInv
    <3>4. ASSUME NEW d \in Contexts
          PROVE  /\ pc'[d] # "idle" => haveDecoder'[d]
                 /\ holder' = d /\ pc'[d] = "idle" => target'[d] \in Surfaces
                 /\ holder' = d /\ pc'[d] = "idle" /\ rendSurf'[d] # NoSrf
                      => rendSurf'[d] = target'[d] /\ target'[d] \in needsSync'
                 /\ buffer'[d] # <<>> => holder' = d /\ pc'[d] = "idle"
      BY <3>1, <3>2, <1>m, <1>t DEF HoldInv
    <3> QED BY <3>1, <3>3, <3>4, <1>m, <1>t DEF HoldInv
  <2>7. ASSUME NEW refs \in References(c), BeginPicture(c, refs) PROVE HoldInv'
    <3>1. PICK b \in Pictures :
            /\ b.ctx = c /\ b.srf = target[c]
            /\ \A m \in Luma : /\ b.want[m] = Current(c, m)
                               /\ m \notin b.load => m \in loaded[c] /\ hadLast[c]
            /\ \A d \in Contexts : buffer'[d] = IF d = c THEN <<b>> ELSE buffer[d]
      BY <2>7, BeginPictureDoes
    <3>2. /\ pc[c] = "picture" /\ target[c] \in Surfaces /\ target[c] \notin refs
          /\ refs \subseteq Surfaces /\ holder = c
          /\ \A d \in Contexts : /\ pc'[d] = IF d = c THEN "idle" ELSE pc[d]
                                 /\ rendSurf'[d] = IF d = c THEN target[c] ELSE rendSurf[d]
          /\ needsSync' = (needsSync \ refs) \cup {target[c]}
          /\ UNCHANGED <<holder, last, target>>
      BY <2>7, BeginPictureDoes DEF HoldInv, HaveMeansHold, lockVars
    <3>3. b.op = "begin" /\ Len(<<b>>) = 1 /\ <<b>>[1] = b /\ <<b>> # <<>>
      BY DEF Pictures
    <3> QED BY <3>1, <3>2, <3>3, <1>m, <1>t DEF HoldInv
  <2> QED BY <1>c, <2>1, <2>2, <2>3, <2>4, <2>5, <2>6, <2>7 DEF Client
<1> QED BY <1>u, <1>h, <1>c DEF Next, vars, lockVars, callVars, ctxVars, lowVars, srfVars

-----------------------------------------------------------------------------
(* What the decoder has where, when no flush fails.                        *)

(* The picture in force depends on the commands before only.               *)
LEMMA InForcePrefix ==
  ASSUME NEW q, NEW r, NEW v, NEW P, NEW n \in Nat, \A j \in 1..n : r[j] = q[j],
         InForce(q, v, n, P)
  PROVE  InForce(r, v, n, P)
<1>1. \A m \in 1..(n + 1) : NoBegin(r, m, n) <=> NoBegin(q, m, n)
  BY DEF NoBegin
<1> QED BY <1>1 DEF InForce

(* The decoder executes the first command.                                 *)
LEMMA InForceShift ==
  ASSUME NEW q, NEW r, NEW v, NEW w, NEW P, NEW n \in Nat,
         \A j \in 1..n : r[j] = q[j + 1],
         w = IF q[1].op = "begin" THEN q[1] ELSE v,
         InForce(q, v, n + 1, P)
  PROVE  InForce(r, w, n, P)
<1>1. \A m \in 1..(n + 1) : NoBegin(r, m, n) => NoBegin(q, m + 1, n + 1)
  <2> SUFFICES ASSUME NEW m \in 1..(n + 1), NoBegin(r, m, n), NEW j \in (m + 1)..(n + 1)
               PROVE  q[j].op # "begin"
    BY DEF NoBegin
  <2>1. j - 1 \in m..n /\ j - 1 \in 1..n /\ (j - 1) + 1 = j
    OBVIOUS
  <2> QED BY <2>1 DEF NoBegin
<1>2. ASSUME NoBegin(r, 1, n) PROVE w \in P
  <2>1. NoBegin(q, 2, n + 1)
    BY <1>1, <1>2
  <2>2. CASE q[1].op = "begin"
    BY <2>1, <2>2 DEF InForce
  <2>3. CASE q[1].op # "begin"
    <3>1. NoBegin(q, 1, n + 1)
      BY <2>1, <2>3 DEF NoBegin
    <3> QED BY <3>1, <2>3 DEF InForce
  <2> QED BY <2>2, <2>3
<1>3. ASSUME NEW k \in 1..n, r[k].op = "begin", NoBegin(r, k + 1, n) PROVE r[k] \in P
  <2>1. NoBegin(q, (k + 1) + 1, n + 1) /\ r[k] = q[k + 1] /\ k + 1 \in 1..(n + 1)
    BY <1>1, <1>3
  <2> QED BY <1>3, <2>1 DEF InForce
<1> QED BY <1>2, <1>3 DEF InForce

(* Other commands leave it.                                                *)
LEMMA InForceOn ==
  ASSUME NEW q, NEW v, NEW P, NEW n \in Nat, NEW m \in Nat, n <= m,
         NoBegin(q, n + 1, m), InForce(q, v, n, P)
  PROVE  InForce(q, v, m, P)
<1>1. NoBegin(q, 1, m) => NoBegin(q, 1, n)
  BY DEF NoBegin
<1>2. ASSUME NEW k \in 1..m, q[k].op = "begin", NoBegin(q, k + 1, m) PROVE q[k] \in P
  <2>1. k \in 1..n /\ NoBegin(q, k + 1, n)
    BY <1>2 DEF NoBegin
  <2> QED BY <1>2, <2>1 DEF InForce
<1> QED BY <1>1, <1>2 DEF InForce

(* A begin command sets it.                                                *)
LEMMA InForceBegin ==
  ASSUME NEW q, NEW v, NEW P, NEW n \in Nat, NEW k \in 1..n,
         q[k].op = "begin", q[k] \in P, NoBegin(q, k + 1, n)
  PROVE  InForce(q, v, n, P)
<1>1. ~ NoBegin(q, 1, n)
  BY DEF NoBegin
<1>2. ASSUME NEW i \in 1..n, q[i].op = "begin", NoBegin(q, i + 1, n) PROVE i = k
  <2>1. ~ (i < k)
    BY <1>2 DEF NoBegin
  <2>2. ~ (k < i)
    BY <1>2 DEF NoBegin
  <2> QED BY <2>1, <2>2
<1> QED BY <1>1, <1>2 DEF InForce

(* What a flush of context c adds: its buffer, and perhaps a stamp.        *)
Submits(b, c) ==
  /\ b \in Seq(Commands)
  /\ Len(buffer[c]) <= Len(b)
  /\ \A i \in 1..Len(buffer[c]) : b[i] = buffer[c][i]
  /\ \A i \in (Len(buffer[c]) + 1)..Len(b) : b[i].op = "stamp"

(* What a flush makes of the picture in force: at the end of the ring it   *)
(* is the one whose begin command was flushed, or the one before; and what *)
(* each command of the ring is then.                                       *)
LEMMA FlushInForce ==
  ASSUME SessionTypeOK, HoldInv, NEW c \in Contexts, NEW b, Submits(b, c), Grown(b)
  PROVE  /\ Len(ring) \in Nat /\ Len(b) \in Nat /\ Len(ring') \in Nat
         /\ \A P : InForce(ring, session, Len(ring), P) /\ ~ BeginFirst(c)
                     => InForce(ring', session, Len(ring'), P)
         /\ \A P : BeginFirst(c) /\ buffer[c][1] \in P
                     => InForce(ring', session, Len(ring'), P)
         /\ \A P : \A n \in 0..Len(ring) :
              InForce(ring, session, n, P) => InForce(ring', session, n, P)
         /\ \A i \in 1..Len(ring') :
              \/ i \in 1..Len(ring) /\ ring'[i] = ring[i]
              \/ /\ i - Len(ring) \in 1..Len(buffer[c]) /\ ring'[i] = buffer[c][i - Len(ring)]
                 /\ holder = c /\ pc[c] = "idle"
                 /\ ring'[i].op \in {"begin", "slice"}
                 /\ ring'[i].ctx = c /\ ring'[i].srf = target[c]
                 /\ ring'[i].op = "begin" => i = Len(ring) + 1 /\ BeginFirst(c)
                 /\ BeginFirst(c) => /\ ring'[Len(ring) + 1] = buffer[c][1]
                                     /\ NoBegin(ring', Len(ring) + 2, i - 1)
                 /\ ~ BeginFirst(c) => NoBegin(ring', Len(ring) + 1, i - 1)
              \/ i > Len(ring) /\ ring'[i].op = "stamp"
<1>t. /\ Len(ring) \in Nat /\ Len(b) \in Nat /\ Len(ring') = Len(ring) + Len(b)
      /\ Len(buffer[c]) \in Nat /\ Len(buffer[c]) <= Len(b)
      /\ buffer[c] # <<>> => Len(buffer[c]) > 0
      /\ Len(<<>>) = 0
  BY LenProperties, EmptySeq DEF SessionTypeOK, Submits, Grown
<1>0. \A i \in 1..Len(ring') :
        \/ i \in 1..Len(ring) /\ ring'[i] = ring[i]
        \/ i - Len(ring) \in 1..Len(buffer[c]) /\ ring'[i] = buffer[c][i - Len(ring)]
        \/ i - Len(ring) \in (Len(buffer[c]) + 1)..Len(b) /\ ring'[i].op = "stamp"
  <2> SUFFICES ASSUME NEW i \in 1..Len(ring'), i > Len(ring)
               PROVE  \/ /\ i - Len(ring) \in 1..Len(buffer[c])
                         /\ ring'[i] = buffer[c][i - Len(ring)]
                      \/ /\ i - Len(ring) \in (Len(buffer[c]) + 1)..Len(b)
                         /\ ring'[i].op = "stamp"
    BY <1>t DEF Grown
  <2>1. i - Len(ring) \in 1..Len(b) /\ Len(ring) + (i - Len(ring)) = i
    BY <1>t
  <2>2. ring'[i] = b[i - Len(ring)]
    BY <2>1 DEF Grown
  <2> QED BY <1>t, <2>1, <2>2 DEF Submits
<1>1. \A i \in 1..Len(buffer[c]) :
        /\ buffer[c][i].op \in {"begin", "slice"}
        /\ buffer[c][i].ctx = c /\ buffer[c][i].srf = target[c]
        /\ buffer[c][i].op = "begin" => i = 1
        /\ holder = c /\ pc[c] = "idle"
  BY <1>t DEF HoldInv
<1>2. \A n \in Nat : \A i \in (Len(ring) + 2)..n : i <= Len(ring') => ring'[i].op # "begin"
  <2> SUFFICES ASSUME NEW i \in Int, i >= Len(ring) + 2, i <= Len(ring')
               PROVE  ring'[i].op # "begin"
    BY <1>t
  <2>1. i \in 1..Len(ring') /\ ~ (i \in 1..Len(ring)) /\ i - Len(ring) # 1
    BY <1>t
  <2>2. CASE i - Len(ring) \in 1..Len(buffer[c]) /\ ring'[i] = buffer[c][i - Len(ring)]
    BY <2>1, <2>2, <1>1
  <2>3. CASE ring'[i].op = "stamp"
    BY <2>3
  <2> QED BY <1>0, <2>1, <2>2, <2>3
<1>3. ~ BeginFirst(c) => (Len(ring) + 1 <= Len(ring') => ring'[Len(ring) + 1].op # "begin")
  <2> SUFFICES ASSUME ~ BeginFirst(c), Len(ring) + 1 <= Len(ring')
               PROVE  ring'[Len(ring) + 1].op # "begin"
    OBVIOUS
  <2>1. Len(ring) + 1 \in 1..Len(ring') /\ (Len(ring) + 1) - Len(ring) = 1
    BY <1>t
  <2>2. buffer[c] = <<>> \/ buffer[c][1].op # "begin"
    BY DEF BeginFirst
  <2> QED BY <1>0, <1>t, <2>1, <2>2
<1>4. BeginFirst(c) => /\ Len(ring) + 1 \in 1..Len(ring')
                       /\ ring'[Len(ring) + 1] = buffer[c][1]
                       /\ buffer[c][1].op = "begin"
  <2> SUFFICES ASSUME BeginFirst(c)
               PROVE  /\ Len(ring) + 1 \in 1..Len(ring')
                      /\ ring'[Len(ring) + 1] = buffer[c][1]
                      /\ buffer[c][1].op = "begin"
    OBVIOUS
  <2>1. Len(buffer[c]) > 0 /\ buffer[c][1].op = "begin"
    BY <1>t DEF BeginFirst
  <2>2. Len(ring) + 1 \in 1..Len(ring') /\ (Len(ring) + 1) - Len(ring) = 1
    BY <1>t, <2>1
  <2> QED BY <1>0, <1>t, <2>1, <2>2
<1>5. \A m \in Nat : m <= Len(ring') =>
         /\ NoBegin(ring', Len(ring) + 2, m)
         /\ ~ BeginFirst(c) => NoBegin(ring', Len(ring) + 1, m)
  BY <1>2, <1>3, <1>t DEF NoBegin
<1>6. \A P : \A n \in 0..Len(ring) :
        InForce(ring, session, n, P) => InForce(ring', session, n, P)
  <2> TAKE P
  <2> TAKE n \in 0..Len(ring)
  <2>1. n \in Nat /\ \A j \in 1..n : ring'[j] = ring[j]
    BY <1>t DEF Grown
  <2> QED BY <2>1, InForcePrefix
<1>7. ASSUME NEW P, InForce(ring, session, Len(ring), P), ~ BeginFirst(c)
      PROVE  InForce(ring', session, Len(ring'), P)
  <2>1. InForce(ring', session, Len(ring), P)
    BY <1>6, <1>7, <1>t
  <2>2. NoBegin(ring', Len(ring) + 1, Len(ring'))
    BY <1>5, <1>7, <1>t
  <2> QED BY <2>1, <2>2, <1>t, InForceOn
<1>8. ASSUME NEW P, BeginFirst(c), buffer[c][1] \in P
      PROVE  InForce(ring', session, Len(ring'), P)
  <2>1. NoBegin(ring', (Len(ring) + 1) + 1, Len(ring'))
    BY <1>5, <1>t
  <2> QED BY <1>4, <1>8, <2>1, <1>t, InForceBegin
<1>9. ASSUME NEW i \in 1..Len(ring'),
             i - Len(ring) \in 1..Len(buffer[c]), ring'[i] = buffer[c][i - Len(ring)]
      PROVE  /\ ring'[i].op = "begin" => i = Len(ring) + 1 /\ BeginFirst(c)
             /\ NoBegin(ring', Len(ring) + 2, i - 1)
             /\ ~ BeginFirst(c) => NoBegin(ring', Len(ring) + 1, i - 1)
  <2>1. i - 1 \in Nat /\ i - 1 <= Len(ring')
    BY <1>t
  <2>2. ring'[i].op = "begin" => i = Len(ring) + 1
    BY <1>9, <1>1, <1>t
  <2> QED BY <2>1, <2>2, <1>3, <1>5, <1>t
<1>10. ASSUME NEW i \in 1..Len(ring')
       PROVE  \/ i \in 1..Len(ring) /\ ring'[i] = ring[i]
              \/ /\ i - Len(ring) \in 1..Len(buffer[c]) /\ ring'[i] = buffer[c][i - Len(ring)]
                 /\ holder = c /\ pc[c] = "idle"
                 /\ ring'[i].op \in {"begin", "slice"}
                 /\ ring'[i].ctx = c /\ ring'[i].srf = target[c]
                 /\ ring'[i].op = "begin" => i = Len(ring) + 1 /\ BeginFirst(c)
                 /\ BeginFirst(c) => /\ ring'[Len(ring) + 1] = buffer[c][1]
                                     /\ NoBegin(ring', Len(ring) + 2, i - 1)
                 /\ ~ BeginFirst(c) => NoBegin(ring', Len(ring) + 1, i - 1)
              \/ i > Len(ring) /\ ring'[i].op = "stamp"
  <2>1. CASE i \in 1..Len(ring) /\ ring'[i] = ring[i]
    BY <2>1
  <2>2. CASE i - Len(ring) \in 1..Len(buffer[c]) /\ ring'[i] = buffer[c][i - Len(ring)]
    <3>1. /\ holder = c /\ pc[c] = "idle"
          /\ ring'[i].op \in {"begin", "slice"}
          /\ ring'[i].ctx = c /\ ring'[i].srf = target[c]
      BY <2>2, <1>1
    <3>2. /\ ring'[i].op = "begin" => i = Len(ring) + 1 /\ BeginFirst(c)
          /\ NoBegin(ring', Len(ring) + 2, i - 1)
          /\ ~ BeginFirst(c) => NoBegin(ring', Len(ring) + 1, i - 1)
      BY <2>2, <1>9
    <3>3. BeginFirst(c) => ring'[Len(ring) + 1] = buffer[c][1]
      BY <1>4
    <3> QED BY <2>2, <3>1, <3>2, <3>3
  <2>3. CASE i - Len(ring) \in (Len(buffer[c]) + 1)..Len(b) /\ ring'[i].op = "stamp"
    BY <2>3, <1>t
  <2> QED BY <1>0, <2>1, <2>2, <2>3
<1> QED BY <1>t, <1>6, <1>7, <1>8, <1>10

-----------------------------------------------------------------------------
(* The begin command of a buffer is one of its context's picture.          *)
LEMMA FirstIsPicture ==
  ASSUME SessionTypeOK, HoldInv, NEW c \in Contexts, BeginFirst(c)
  PROVE  /\ buffer[c][1] \in PictureOf(c, target[c])
         /\ holder = c /\ pc[c] = "idle" /\ last = c
<1>1. buffer[c] \in Seq(Commands) /\ buffer[c] # <<>>
  BY DEF SessionTypeOK, BeginFirst
<1>2. 1 \in 1..Len(buffer[c])
  BY <1>1, EmptySeq
<1>3. buffer[c][1] \in Commands /\ buffer[c][1].op = "begin"
  BY <1>1, <1>2, ElementOfSeq DEF BeginFirst
<1>4. buffer[c][1] \in Pictures
  BY <1>3 DEF Commands, Stamps, Slices
<1> QED BY <1>1, <1>2, <1>4 DEF HoldInv, PictureOf

(* A flush keeps the slices behind their pictures, and the matrices with   *)
(* the pictures that count on them.                                        *)
LEMMA FlushKeepsOrder ==
  ASSUME SessionTypeOK, HoldInv, PicInv, MatInv, NEW c \in Contexts, NEW b,
         Submits(b, c), Grown(b)
  PROVE  \A i \in 1..Len(ring') :
           /\ ring'[i].op = "slice" =>
                InForce(ring', session, i - 1, PictureOf(ring'[i].ctx, ring'[i].srf))
           /\ \A m \in Luma : ring'[i].op = "begin" /\ m \notin ring'[i].load =>
                InForce(ring', session, i - 1, Wanting(m, ring'[i].want[m]))
<1>t. Len(ring) \in Nat
  BY FlushInForce
<1>a. \A P : \A n \in 0..Len(ring) :
        InForce(ring, session, n, P) => InForce(ring', session, n, P)
  BY FlushInForce
<1>b. BeginFirst(c) => buffer[c][1] \in PictureOf(c, target[c])
  BY FirstIsPicture
<1> TAKE i \in 1..Len(ring')
<1>1. CASE i \in 1..Len(ring) /\ ring'[i] = ring[i]
  <2>1. i - 1 \in 0..Len(ring)
    BY <1>1, <1>t
  <2>2. ring[i].op = "slice" =>
          InForce(ring, session, i - 1, PictureOf(ring[i].ctx, ring[i].srf))
    BY <1>1 DEF PicInv
  <2>3. \A m \in Luma : ring[i].op = "begin" /\ m \notin ring[i].load =>
          InForce(ring, session, i - 1, Wanting(m, ring[i].want[m]))
    BY <1>1 DEF MatInv
  <2> QED BY <1>1, <1>a, <2>1, <2>2, <2>3
<1>2. CASE /\ i > Len(ring) /\ holder = c /\ pc[c] = "idle"
           /\ ring'[i].ctx = c /\ ring'[i].srf = target[c]
           /\ ring'[i].op = "begin" => i = Len(ring) + 1 /\ BeginFirst(c)
           /\ BeginFirst(c) => /\ ring'[Len(ring) + 1] = buffer[c][1]
                               /\ NoBegin(ring', Len(ring) + 2, i - 1)
           /\ ~ BeginFirst(c) => NoBegin(ring', Len(ring) + 1, i - 1)
  <2>1. ASSUME ring'[i].op = "slice", BeginFirst(c)
        PROVE  InForce(ring', session, i - 1, PictureOf(c, target[c]))
    <3>1. ring'[Len(ring) + 1].op = "begin" /\ ring'[Len(ring) + 1] \in PictureOf(c, target[c])
      BY <1>2, <1>b, <2>1 DEF BeginFirst
    <3>2. i # Len(ring) + 1
      BY <2>1, <3>1
    <3>3. i - 1 \in Nat /\ Len(ring) + 1 \in 1..(i - 1) /\ (Len(ring) + 1) + 1 = Len(ring) + 2
      BY <1>2, <1>t, <3>2
    <3> QED BY <1>2, <2>1, <3>1, <3>3, InForceBegin
  <2>2. ASSUME ring'[i].op = "slice", ~ BeginFirst(c)
        PROVE  InForce(ring', session, i - 1, PictureOf(c, target[c]))
    <3>1. InForce(ring, session, Len(ring), PictureOf(c, target[c]))
      BY <1>2, <2>2 DEF PicInv, PicEnd
    <3>2. InForce(ring', session, Len(ring), PictureOf(c, target[c]))
      BY <3>1, <1>a, <1>t
    <3>3. i - 1 \in Nat /\ Len(ring) <= i - 1
      BY <1>2, <1>t
    <3> QED BY <1>2, <1>t, <2>2, <3>2, <3>3, InForceOn
  <2>3. ASSUME NEW m \in Luma, ring'[i].op = "begin", m \notin ring'[i].load
        PROVE  InForce(ring', session, i - 1, Wanting(m, ring'[i].want[m]))
    <3>1. BeginFirst(c) /\ i - 1 = Len(ring) /\ ring'[i] = buffer[c][1]
      BY <1>2, <1>t, <2>3
    <3>2. InForce(ring, session, Len(ring), Wanting(m, buffer[c][1].want[m]))
      BY <2>3, <3>1 DEF MatInv, MatEnd
    <3> QED BY <3>1, <3>2, <1>a, <1>t
  <2> QED BY <1>2, <2>1, <2>2, <2>3
<1>3. CASE ring'[i].op = "stamp"
  BY <1>3
<1> QED
  <2>1. \/ i \in 1..Len(ring) /\ ring'[i] = ring[i]
        \/ /\ i - Len(ring) \in 1..Len(buffer[c])
           /\ holder = c /\ pc[c] = "idle"
           /\ ring'[i].ctx = c /\ ring'[i].srf = target[c]
           /\ ring'[i].op = "begin" => i = Len(ring) + 1 /\ BeginFirst(c)
           /\ BeginFirst(c) => /\ ring'[Len(ring) + 1] = buffer[c][1]
                               /\ NoBegin(ring', Len(ring) + 2, i - 1)
           /\ ~ BeginFirst(c) => NoBegin(ring', Len(ring) + 1, i - 1)
        \/ ring'[i].op = "stamp"
    BY FlushInForce
  <2>2. i - Len(ring) \in 1..Len(buffer[c]) => i > Len(ring)
    BY <1>t
  <2> QED BY <1>1, <1>2, <1>3, <2>1, <2>2

(* After a flush, the picture in force at the end of the ring is the one   *)
(* that was flushed, or the one before.                                    *)
LEMMA FlushEnds ==
  ASSUME SessionTypeOK, HoldInv, NEW c \in Contexts, NEW b, Submits(b, c), Grown(b), NEW P,
         \/ BeginFirst(c) /\ buffer[c][1] \in P
         \/ ~ BeginFirst(c) /\ InForce(ring, session, Len(ring), P)
  PROVE  InForce(ring', session, Len(ring'), P)
BY FlushInForce

(* Each call that flushes submits its buffer.                              *)
LEMMA SubmitsOK ==
  ASSUME SessionTypeOK, NEW c \in Contexts
  PROVE  /\ Submits(buffer[c], c)
         /\ buffer[c] = <<>> => Submits(<<StampCmd(c)>>, c)
         /\ \A s \in Surfaces : Submits(Flushed(c, s), c)
<1>1. buffer[c] \in Seq(Commands) /\ Len(buffer[c]) \in Nat
  BY LenProperties DEF SessionTypeOK
<1>2. StampCmd(c) \in Commands /\ StampCmd(c).op = "stamp"
  BY CommandsOK DEF StampCmd
<1>3. Submits(buffer[c], c)
  BY <1>1 DEF Submits
<1>4. ASSUME buffer[c] = <<>> PROVE Submits(<<StampCmd(c)>>, c)
  <2>1. /\ <<StampCmd(c)>> \in Seq(Commands) /\ Len(<<StampCmd(c)>>) = 1
        /\ <<StampCmd(c)>>[1] = StampCmd(c) /\ Len(buffer[c]) = 0
    BY <1>2, <1>4, EmptySeq
  <2> QED BY <1>2, <2>1 DEF Submits
<1>5. ASSUME NEW s \in Surfaces PROVE Submits(Flushed(c, s), c)
  <2>1. Flushed(c, s) \in Seq(Commands)
    BY <1>1, <1>2, Appended DEF Flushed
  <2>2. CASE s \in needsSync
    <3>1. /\ Len(Flushed(c, s)) = Len(buffer[c]) + 1
          /\ Flushed(c, s)[Len(buffer[c]) + 1] = StampCmd(c)
          /\ \A i \in 1..Len(buffer[c]) : Flushed(c, s)[i] = buffer[c][i]
      BY <2>2, FlushedShape
    <3> QED BY <1>1, <1>2, <2>1, <3>1 DEF Submits
  <2>3. CASE s \notin needsSync
    <3>1. Flushed(c, s) = buffer[c]
      BY <2>3 DEF Flushed
    <3> QED BY <1>3, <3>1
  <2> QED BY <2>2, <2>3
<1> QED BY <1>3, <1>4, <1>5

OrderInv == PicInv /\ MatInv

(* Steps of the clients keep the order of the ring.                        *)
LEMMA FlushOrder ==
  ASSUME SessionTypeOK, HoldInv, OrderInv, NEW c \in Contexts, NEW b,
         Submits(b, c), Grown(b), session' = session, matrices' = matrices,
         \A d \in Contexts : PicEnd(d)' /\ \A m \in Luma : MatEnd(d, m)'
  PROVE  OrderInv'
<1>1. \A i \in 1..Len(ring') :
        /\ ring'[i].op = "slice" =>
             InForce(ring', session, i - 1, PictureOf(ring'[i].ctx, ring'[i].srf))
        /\ \A m \in Luma : ring'[i].op = "begin" /\ m \notin ring'[i].load =>
             InForce(ring', session, i - 1, Wanting(m, ring'[i].want[m]))
  BY FlushKeepsOrder DEF OrderInv
<1>2. MatricesOfPicture'
  BY DEF OrderInv, MatInv, MatricesOfPicture
<1> QED BY <1>1, <1>2 DEF OrderInv, PicInv, MatInv

(* A context that takes the decoder, or goes on with it, keeps the order.  *)
LEMMA BeginSurfaceOrder ==
  ASSUME NoneFails, SessionTypeOK, HoldInv, OrderInv, NEW c \in Contexts,
         NEW s \in Surfaces, BeginSurface(c, s)
  PROVE  OrderInv'
<1>t. NoCtx \notin Contexts
  BY SessionAssumption
<1>1. /\ pc[c] = "idle" /\ Grown(buffer[c])
      /\ \A d \in Contexts :
           /\ buffer'[d] = IF d = c THEN <<>> ELSE buffer[d]
           /\ d # c => pc'[d] = pc[d]
      /\ hadLast'[c] <=> (haveDecoder[c] \/ last = c)
      /\ pc'[c] = IF ~ hadLast'[c] \/ timeStamp[c] = 0 THEN "stamp" ELSE "picture"
      /\ UNCHANGED <<qMatrix, loaded, hwVars>>
      /\ haveDecoder[c] => UNCHANGED <<holder, last>>
      /\ ~ haveDecoder[c] => holder = NoCtx /\ holder' = c /\ last' = c
  BY BeginSurfaceDoes
<1>2. holder \in {c, NoCtx} /\ holder' = c /\ last' = c /\ (haveDecoder[c] => last = c)
  BY <1>1 DEF HoldInv, HaveMeansHold
<1>3. Submits(buffer[c], c)
  BY SubmitsOK
<1>4. \A d \in Contexts \ {c} : /\ buffer[d] = <<>> /\ pc[d] = "idle"
  BY <1>2, <1>t DEF HoldInv, HaveMeansHold
<1>5. ~ BeginFirst(c)' /\ pc'[c] # "idle"
  BY <1>1 DEF BeginFirst
<1>6. ASSUME NEW m \in Luma, m \in loaded[c], last = c
      PROVE  InForce(ring', session, Len(ring'), Wanting(m, Current(c, m)))
  <2>1. CASE BeginFirst(c)
    <3>1. buffer[c][1].want[m] = Current(c, m)
      BY <1>6, <2>1 DEF OrderInv, MatInv, MatEnd
    <3>2. buffer[c][1] \in Pictures
      BY <2>1, FirstIsPicture DEF PictureOf
    <3>3. buffer[c][1] \in Wanting(m, Current(c, m))
      BY <3>1, <3>2 DEF Wanting
    <3> QED BY <1>1, <1>3, <2>1, <3>3, FlushEnds
  <2>2. CASE ~ BeginFirst(c)
    <3>1. InForce(ring, session, Len(ring), Wanting(m, Current(c, m)))
      BY <1>1, <1>6, <2>2 DEF OrderInv, MatInv, MatEnd
    <3> QED BY <1>1, <1>3, <2>2, <3>1, FlushEnds
  <2> QED BY <2>1, <2>2
<1>7. ASSUME NEW d \in Contexts PROVE PicEnd(d)' /\ \A m \in Luma : MatEnd(d, m)'
  <2>1. CASE d = c
    <3>1. PicEnd(c)'
      BY <1>5 DEF PicEnd
    <3>2. ASSUME NEW m \in Luma PROVE MatEnd(c, m)'
      BY <1>1, <1>2, <1>5, <1>6 DEF MatEnd, Current, hwVars
    <3> QED BY <2>1, <3>1, <3>2
  <2>2. CASE d # c
    <3>1. ~ BeginFirst(d)'
      BY <1>1, <1>4, <2>2 DEF BeginFirst
    <3> QED BY <1>1, <1>2, <1>4, <2>2, <3>1 DEF PicEnd, MatEnd
  <2> QED BY <2>1, <2>2
<1> QED BY <1>1, <1>3, <1>7, FlushOrder DEF hwVars

(* So does its time stamp, which is no picture.                            *)
LEMMA BeginStampOrder ==
  ASSUME NoneFails, SessionTypeOK, HoldInv, OrderInv, NEW c \in Contexts, BeginStamp(c)
  PROVE  OrderInv'
<1>1. /\ pc[c] = "stamp" /\ buffer[c] = <<>> /\ Grown(<<StampCmd(c)>>)
      /\ \A d \in Contexts : /\ buffer'[d] = buffer[d]
                             /\ pc'[d] = IF d = c THEN "picture" ELSE pc[d]
      /\ UNCHANGED <<holder, last, hadLast, qMatrix, loaded, hwVars>>
  BY BeginStampDoes
<1>2. holder = c /\ last = c
  BY <1>1 DEF HoldInv, HaveMeansHold
<1>3. Submits(<<StampCmd(c)>>, c)
  BY <1>1, SubmitsOK
<1>4. \A d \in Contexts : /\ buffer[d] = <<>>
                          /\ d # c => pc[d] = "idle"
  BY <1>1, <1>2 DEF HoldInv, HaveMeansHold
<1>5. ~ BeginFirst(c)
  BY <1>1 DEF BeginFirst
<1>6. \A P : InForce(ring, session, Len(ring), P) => InForce(ring', session, Len(ring'), P)
  BY <1>1, <1>3, <1>5, FlushEnds
<1>7. ASSUME NEW d \in Contexts PROVE PicEnd(d)' /\ \A m \in Luma : MatEnd(d, m)'
  <2>1. ~ BeginFirst(d)' /\ ~ BeginFirst(d)
    BY <1>1, <1>4 DEF BeginFirst
  <2>2. CASE d = c
    <3>1. pc'[c] = "picture" /\ \A m \in Luma : MatEnd(c, m)
      BY <1>1 DEF OrderInv, MatInv
    <3> QED BY <1>1, <1>6, <2>1, <2>2, <3>1 DEF PicEnd, MatEnd, Current, hwVars
  <2>3. CASE d # c
    BY <1>1, <1>2, <1>4, <2>1, <2>3 DEF PicEnd, MatEnd
  <2> QED BY <2>2, <2>3
<1> QED BY <1>1, <1>3, <1>7, FlushOrder DEF hwVars

(* So does XvMCFlushSurface, of whatever surface.                          *)
LEMMA FlushSurfaceOrder ==
  ASSUME NoneFails, SessionTypeOK, HoldInv, OrderInv, NEW c \in Contexts,
         NEW s \in Surfaces, FlushSurface(c, s)
  PROVE  OrderInv'
<1>1. /\ pc[c] = "idle" /\ Grown(Flushed(c, s))
      /\ \A d \in Contexts : buffer'[d] = IF d = c THEN <<>> ELSE buffer[d]
      /\ holder' = IF holder = c /\ rendSurf[c] = s THEN NoCtx ELSE holder
      /\ UNCHANGED <<last, callVars, qMatrix, loaded, hwVars>>
  BY FlushSurfaceDoes
<1>2. Submits(Flushed(c, s), c)
  BY SubmitsOK
<1>3. \A d \in Contexts \ {c} : BeginFirst(d)' <=> BeginFirst(d)
  BY <1>1 DEF BeginFirst
<1>4. ~ BeginFirst(c)'
  BY <1>1 DEF BeginFirst
<1>5. BeginFirst(c) => /\ buffer[c][1] \in PictureOf(c, target[c])
                       /\ holder = c /\ last = c
  BY FirstIsPicture
<1>6. \A d \in Contexts : PicEnd(d) /\ \A m \in Luma : MatEnd(d, m)
  BY DEF OrderInv, PicInv, MatInv
<1>7. \A P : ~ BeginFirst(c) /\ InForce(ring, session, Len(ring), P)
               => InForce(ring', session, Len(ring'), P)
  BY <1>1, <1>2, FlushEnds
<1>8. \A P : BeginFirst(c) /\ buffer[c][1] \in P => InForce(ring', session, Len(ring'), P)
  BY <1>1, <1>2, FlushEnds
<1>9. holder' = c => holder = c
  BY <1>1, SessionAssumption
<1>10. ASSUME NEW m \in Luma, BeginFirst(c), m \in loaded[c]
       PROVE  buffer[c][1] \in Wanting(m, Current(c, m))
  BY <1>5, <1>6, <1>10 DEF MatEnd, PictureOf, Wanting
<1>11. PicEnd(c)'
  BY <1>1, <1>5, <1>6, <1>7, <1>8, <1>9 DEF PicEnd, callVars, hwVars
<1>12. ASSUME NEW m \in Luma PROVE MatEnd(c, m)'
  BY <1>1, <1>4, <1>6, <1>7, <1>8, <1>10 DEF MatEnd, Current, callVars, hwVars
<1>13. ASSUME NEW d \in Contexts, d # c PROVE PicEnd(d)' /\ \A m \in Luma : MatEnd(d, m)'
  <2>1. CASE BeginFirst(c)
    <3>1. ~ BeginFirst(d) /\ pc[d] = "idle" /\ last # d /\ holder' # d
      BY <1>1, <1>5, <1>13, <2>1, SessionAssumption DEF HoldInv, HaveMeansHold, BeginFirst
    <3> QED BY <1>1, <1>3, <1>13, <3>1 DEF PicEnd, MatEnd, callVars
  <2>2. CASE ~ BeginFirst(c)
    <3>1. holder' = d => holder = d
      BY <1>1, SessionAssumption
    <3>2. PicEnd(d)'
      BY <1>1, <1>3, <1>6, <1>7, <1>13, <2>2, <3>1 DEF PicEnd, callVars, hwVars
    <3>3. ASSUME NEW m \in Luma PROVE MatEnd(d, m)'
      BY <1>1, <1>3, <1>6, <1>7, <1>13, <2>2 DEF MatEnd, Current, callVars, hwVars
    <3> QED BY <3>2, <3>3
  <2> QED BY <2>1, <2>2
<1> QED BY <1>1, <1>2, <1>11, <1>12, <1>13, FlushOrder DEF hwVars

(* A call that adds nothing to the ring has only its own contexts to       *)
(* account for.                                                            *)
LEMMA StillOrder ==
  ASSUME OrderInv, ring' = ring, session' = session, matrices' = matrices,
         \A d \in Contexts : PicEnd(d)' /\ \A m \in Luma : MatEnd(d, m)'
  PROVE  OrderInv'
BY DEF OrderInv, PicInv, MatInv, MatricesOfPicture

(* A slice follows the begin command of its picture, in the buffer or in   *)
(* the ring.                                                               *)
LEMMA PutSliceOrder ==
  ASSUME NoneFails, SessionTypeOK, HoldInv, OrderInv, NEW c \in Contexts, PutSlice(c)
  PROVE  OrderInv'
<1>1. /\ pc[c] = "idle" /\ holder = c /\ target[c] \in Surfaces
      /\ UNCHANGED <<lockVars, callVars, ctxVars, curTimeStamp, srfVars, hwVars>>
  BY PutSliceDoes
<1>2. \A d \in Contexts : PicEnd(d) /\ \A m \in Luma : MatEnd(d, m)
  BY DEF OrderInv, PicInv, MatInv
<1>3. CASE /\ \A d \in Contexts :
                buffer'[d] = IF d = c THEN Append(buffer[c], Slice(c)) ELSE buffer[d]
           /\ UNCHANGED ring
  <2>1. /\ Append(buffer[c], Slice(c)) # <<>>
        /\ Len(buffer[c]) \in Nat
        /\ Append(buffer[c], Slice(c))[Len(buffer[c]) + 1] = Slice(c)
        /\ \A i \in 1..Len(buffer[c]) : Append(buffer[c], Slice(c))[i] = buffer[c][i]
        /\ buffer[c] = <<>> <=> Len(buffer[c]) = 0
    <3>1. buffer[c] \in Seq(Commands) /\ Slice(c) \in Commands
      BY <1>1, SessionAssumption, CommandsOK DEF SessionTypeOK
    <3> QED BY <3>1, Appended, EmptySeq
  <2>2. Slice(c).op = "slice"
    BY DEF Slice
  <2>4. \A d \in Contexts : /\ BeginFirst(d)' <=> BeginFirst(d)
                            /\ BeginFirst(d) => buffer'[d][1] = buffer[d][1]
    <3> TAKE d \in Contexts
    <3>1. CASE d # c
      BY <1>3, <3>1 DEF BeginFirst
    <3>2. CASE d = c /\ buffer[c] = <<>>
      <4>1. buffer'[c] # <<>> /\ buffer'[c][1].op = "slice"
        BY <1>3, <2>1, <2>2, <3>2
      <4> QED BY <3>2, <4>1 DEF BeginFirst
    <3>3. CASE d = c /\ buffer[c] # <<>>
      <4>1. 1 \in 1..Len(buffer[c])
        BY <2>1, <3>3
      <4> QED BY <1>3, <2>1, <3>3, <4>1 DEF BeginFirst
    <3> QED BY <3>1, <3>2, <3>3
  <2>5. ASSUME NEW d \in Contexts PROVE PicEnd(d)' /\ \A m \in Luma : MatEnd(d, m)'
    BY <1>1, <1>2, <1>3, <2>4 DEF PicEnd, MatEnd, Current, lockVars, callVars, ctxVars, hwVars
  <2> QED BY <1>1, <1>3, <2>5, StillOrder DEF hwVars
<1>4. CASE /\ Grown(buffer[c])
           /\ \A d \in Contexts : buffer'[d] = IF d = c THEN <<>> ELSE buffer[d]
  <2>1. Submits(buffer[c], c)
    BY SubmitsOK
  <2>2. ~ BeginFirst(c)'
    BY <1>4 DEF BeginFirst
  <2>3. BeginFirst(c) => buffer[c][1] \in PictureOf(c, target[c])
    BY FirstIsPicture
  <2>4. \A m \in Luma : BeginFirst(c) /\ m \in loaded[c]
                         => buffer[c][1] \in Wanting(m, Current(c, m))
    BY <1>2, <2>3 DEF MatEnd, PictureOf, Wanting
  <2>5. \A P : ~ BeginFirst(c) /\ InForce(ring, session, Len(ring), P)
                 => InForce(ring', session, Len(ring'), P)
    BY <1>4, <2>1, FlushEnds
  <2>9. \A P : BeginFirst(c) /\ buffer[c][1] \in P => InForce(ring', session, Len(ring'), P)
    BY <1>4, <2>1, FlushEnds
  <2>6. PicEnd(c)'
    BY <1>1, <1>2, <2>3, <2>5, <2>9 DEF PicEnd, lockVars, callVars, hwVars
  <2>7. ASSUME NEW m \in Luma PROVE MatEnd(c, m)'
    BY <1>1, <1>2, <2>2, <2>4, <2>5, <2>9
       DEF MatEnd, Current, lockVars, callVars, ctxVars, hwVars
  <2>8. ASSUME NEW d \in Contexts, d # c PROVE PicEnd(d)' /\ \A m \in Luma : MatEnd(d, m)'
    <3>1. /\ buffer[d] = <<>> /\ pc[d] = "idle" /\ holder # d /\ last # d
      BY <1>1, <2>8 DEF HoldInv, HaveMeansHold
    <3>2. ~ BeginFirst(d)' /\ pc'[d] = "idle" /\ holder' # d /\ last' # d
      BY <1>1, <1>4, <2>8, <3>1 DEF BeginFirst, lockVars, callVars
    <3> QED BY <3>2 DEF PicEnd, MatEnd
  <2> QED BY <1>1, <1>4, <2>1, <2>6, <2>7, <2>8, FlushOrder DEF hwVars
<1> QED BY <1>3, <1>4, PutSliceDoes

(* A begin command without matrices is written by a context that finds its *)
(* own at the end of the ring.                                             *)
LEMMA BeginPictureOrder ==
  ASSUME NoneFails, SessionTypeOK, HoldInv, OrderInv, NEW c \in Contexts,
         NEW refs \in References(c), BeginPicture(c, refs)
  PROVE  OrderInv'
<1>1. PICK b \in Pictures :
        /\ b.ctx = c /\ b.srf = target[c]
        /\ \A m \in Luma : /\ b.want[m] = Current(c, m)
                           /\ m \notin b.load => m \in loaded[c] /\ hadLast[c]
        /\ \A d \in Contexts : buffer'[d] = IF d = c THEN <<b>> ELSE buffer[d]
  BY BeginPictureDoes
<1>2. /\ pc[c] = "picture" /\ holder = c /\ buffer[c] = <<>>
      /\ \A d \in Contexts : /\ pc'[d] = IF d = c THEN "idle" ELSE pc[d]
                             /\ loaded'[d] = IF d = c THEN Matrices ELSE loaded[d]
      /\ UNCHANGED <<lockVars, hadLast, qMatrix, ring, hwVars>>
  BY BeginPictureDoes
<1>3. b.op = "begin" /\ <<b>> # <<>> /\ <<b>>[1] = b
  BY DEF Pictures
<1>4. PicEnd(c)'
  BY <1>1, <1>3 DEF PicEnd, BeginFirst
<1>5. ASSUME NEW m \in Luma, m \notin b.load
      PROVE  InForce(ring, session, Len(ring), Wanting(m, Current(c, m)))
  <2>1. MatEnd(c, m) /\ ~ BeginFirst(c)
    BY <1>2 DEF OrderInv, MatInv, BeginFirst
  <2> QED BY <1>1, <1>2, <1>5, <2>1 DEF MatEnd
<1>6. BeginFirst(c)' /\ buffer'[c][1] = b
  BY <1>1, <1>3 DEF BeginFirst
<1>7. ASSUME NEW m \in Luma PROVE MatEnd(c, m)'
  BY <1>1, <1>2, <1>5, <1>6 DEF MatEnd, Current, hwVars
<1>8. ASSUME NEW d \in Contexts, d # c PROVE PicEnd(d)' /\ \A m \in Luma : MatEnd(d, m)'
  <2>1. /\ buffer[d] = <<>> /\ pc[d] = "idle" /\ holder # d /\ last # d
    BY <1>2, <1>8 DEF HoldInv, HaveMeansHold
  <2>2. ~ BeginFirst(d)' /\ pc'[d] = "idle" /\ holder' # d /\ last' # d
    BY <1>1, <1>2, <1>8, <2>1 DEF BeginFirst, lockVars
  <2> QED BY <2>2 DEF PicEnd, MatEnd
<1> QED BY <1>2, <1>4, <1>7, <1>8, StillOrder DEF hwVars

(* A context with new matrices will send them, and a sync changes nothing  *)
(* of the order.                                                           *)
LEMMA QuietOrder ==
  ASSUME SessionTypeOK, OrderInv, NEW c \in Contexts,
         \/ \E ms \in Loads(c) : LoadQMatrix(c, ms)
         \/ \E s \in Surfaces : SyncSurface(c, s)
  PROVE  OrderInv'
<1>1. \A d \in Contexts : PicEnd(d) /\ \A m \in Luma : MatEnd(d, m)
  BY DEF OrderInv, PicInv, MatInv
<1>2. ASSUME NEW ms \in Loads(c), LoadQMatrix(c, ms) PROVE OrderInv'
  <2>1. /\ \A d \in Contexts : d # c => loaded'[d] = loaded[d] /\ qMatrix'[d] = qMatrix[d]
        /\ \A m \in Matrices : m \in loaded'[c] => /\ m \in loaded[c]
                                                   /\ qMatrix'[c][m] = qMatrix[c][m]
        /\ UNCHANGED <<lockVars, callVars, lowVars, ring, hwVars>>
    <3>1. /\ loaded \in [Contexts -> SUBSET Matrices]
          /\ qMatrix \in [Contexts -> [Matrices -> Nat]]
      BY DEF SessionTypeOK
    <3> QED BY <1>2, <3>1 DEF LoadQMatrix
  <2>2. ASSUME NEW d \in Contexts PROVE PicEnd(d)' /\ \A m \in Luma : MatEnd(d, m)'
    <3>1. PicEnd(d)'
      BY <1>1, <2>1 DEF PicEnd, BeginFirst, lockVars, callVars, lowVars, hwVars
    <3>2. CASE d = c
      BY <1>1, <2>1, <3>1, <3>2
         DEF MatEnd, Current, Matrices, BeginFirst, lockVars, callVars, lowVars, hwVars
    <3>3. CASE d # c
      BY <1>1, <2>1, <3>1, <3>3
         DEF MatEnd, Current, BeginFirst, lockVars, callVars, lowVars, hwVars
    <3> QED BY <3>2, <3>3
  <2> QED BY <2>1, <2>2, StillOrder DEF hwVars
<1>3. CASE \E s \in Surfaces : SyncSurface(c, s)
  <2>1. UNCHANGED <<lockVars, callVars, qMatrix, loaded, lowVars, ring, hwVars>>
    BY <1>3 DEF SyncSurface
  <2>2. ASSUME NEW d \in Contexts PROVE PicEnd(d)' /\ \A m \in Luma : MatEnd(d, m)'
    BY <1>1, <2>1
       DEF PicEnd, MatEnd, Current, BeginFirst, lockVars, callVars, lowVars, hwVars
  <2> QED BY <2>1, <2>2, StillOrder DEF hwVars
<1> QED BY <1>2, <1>3

(* What the hardware does, and that it keeps the order.                    *)
LEMMA HardwareDoes ==
  ASSUME SessionTypeOK, Hardware
  PROVE  /\ UNCHANGED <<lockVars, callVars, ctxVars, lowVars, srfVars>>
         /\ \/ /\ DecoderIdle /\ busy /\ ~ busy' /\ UNCHANGED <<ring, tsP, session, matrices>>
            \/ /\ ExecStamp /\ Shrunk("stamp") /\ ring[1] \in Stamps
               /\ \A d \in Contexts :
                    tsP'[d] = IF d = ring[1].ctx THEN ring[1].ts ELSE tsP[d]
               /\ UNCHANGED <<session, matrices, busy>>
            \/ /\ ExecBegin /\ Shrunk("begin") /\ ring[1] \in Pictures
               /\ session' = ring[1]
               /\ \A m \in Luma : matrices'[m] = IF m \in ring[1].load
                                                 THEN ring[1].want[m] ELSE matrices[m]
               /\ UNCHANGED <<tsP, busy>>
            \/ /\ ExecSlice /\ Shrunk("slice") /\ ring[1] \in Slices
               /\ busy' /\ UNCHANGED <<tsP, session, matrices>>
<1>1. ASSUME NEW op, Execute(op) PROVE Shrunk(op)
  BY <1>1, RingShrinks DEF SessionTypeOK
<1>2. UNCHANGED <<lockVars, callVars, ctxVars, lowVars, srfVars>>
  BY DEF Hardware, ExecStamp, ExecBegin, ExecSlice, DecoderIdle
<1>3. CASE ExecStamp
  <2>1. Shrunk("stamp")
    BY <1>1, <1>3 DEF ExecStamp
  <2>2. ring[1] \in Stamps /\ Head(ring) = ring[1]
    BY <2>1 DEF Shrunk, Commands, Stamps, Pictures, Slices
  <2>3. tsP \in [Contexts -> Nat] /\ tsP' = [tsP EXCEPT ![ring[1].ctx] = ring[1].ts]
        /\ UNCHANGED <<session, matrices, busy>>
    BY <1>3, <2>2 DEF ExecStamp, SessionTypeOK
  <2> QED BY <1>2, <1>3, <2>1, <2>2, <2>3
<1>4. CASE ExecBegin
  <2>1. Shrunk("begin")
    BY <1>1, <1>4 DEF ExecBegin
  <2>2. ring[1] \in Pictures /\ Head(ring) = ring[1]
    BY <2>1 DEF Shrunk, Commands, Stamps, Pictures, Slices
  <2> QED BY <1>2, <1>4, <2>1, <2>2 DEF ExecBegin, Matrices
<1>5. CASE ExecSlice
  <2>1. Shrunk("slice")
    BY <1>1, <1>5 DEF ExecSlice
  <2>2. ring[1] \in Slices
    BY <2>1 DEF Shrunk, Commands, Stamps, Pictures, Slices
  <2> QED BY <1>2, <1>5, <2>1, <2>2 DEF ExecSlice
<1>6. CASE DecoderIdle
  BY <1>2, <1>6 DEF DecoderIdle
<1> QED BY <1>3, <1>4, <1>5, <1>6 DEF Hardware

(* The hardware takes the first command and keeps the order of the others. *)
LEMMA HardwareOrder ==
  ASSUME SessionTypeOK, OrderInv, Hardware
  PROVE  OrderInv'
<1>1. UNCHANGED <<lockVars, callVars, ctxVars, lowVars, srfVars>>
  BY HardwareDoes
<1>2. \A d \in Contexts : /\ PicEnd(d) /\ \A m \in Luma : MatEnd(d, m)
                          /\ BeginFirst(d)' <=> BeginFirst(d)
  BY <1>1 DEF OrderInv, PicInv, MatInv, BeginFirst, lowVars
<1>3. CASE UNCHANGED <<ring, session, matrices>>
  <2>1. ASSUME NEW d \in Contexts PROVE PicEnd(d)' /\ \A m \in Luma : MatEnd(d, m)'
    BY <1>1, <1>2, <1>3 DEF PicEnd, MatEnd, Current, lockVars, callVars, ctxVars, lowVars
  <2> QED BY <1>3, <2>1, StillOrder
<1>4. ASSUME NEW op \in {"stamp", "begin", "slice"}, Shrunk(op),
             session' = IF op = "begin" THEN ring[1] ELSE session,
             MatricesOfPicture'
      PROVE  OrderInv'
  <2>t. /\ Len(ring') \in Nat /\ Len(ring) = Len(ring') + 1
        /\ \A i \in 1..Len(ring') : i + 1 \in 1..Len(ring) /\ ring'[i] = ring[i + 1]
        /\ session' = IF ring[1].op = "begin" THEN ring[1] ELSE session
    BY <1>4 DEF Shrunk
  <2>1. ASSUME NEW P, NEW n \in 0..Len(ring'), InForce(ring, session, n + 1, P)
        PROVE  InForce(ring', session', n, P)
    <3>1. n \in Nat /\ \A j \in 1..n : ring'[j] = ring[j + 1]
      BY <2>t
    <3> QED BY <2>1, <2>t, <3>1, InForceShift
  <2>2. ASSUME NEW P, InForce(ring, session, Len(ring), P)
        PROVE  InForce(ring', session', Len(ring'), P)
    BY <2>1, <2>2, <2>t
  <2>3. ASSUME NEW i \in 1..Len(ring')
        PROVE  /\ ring'[i].op = "slice" =>
                    InForce(ring', session', i - 1, PictureOf(ring'[i].ctx, ring'[i].srf))
               /\ \A m \in Luma : ring'[i].op = "begin" /\ m \notin ring'[i].load =>
                    InForce(ring', session', i - 1, Wanting(m, ring'[i].want[m]))
    <3>1. /\ i - 1 \in 0..Len(ring') /\ (i - 1) + 1 = (i + 1) - 1
          /\ i + 1 \in 1..Len(ring) /\ ring'[i] = ring[i + 1]
      BY <2>t
    <3>2. ring[i + 1].op = "slice" =>
            InForce(ring, session, (i + 1) - 1, PictureOf(ring[i + 1].ctx, ring[i + 1].srf))
      BY <3>1 DEF OrderInv, PicInv
    <3>3. \A m \in Luma : ring[i + 1].op = "begin" /\ m \notin ring[i + 1].load =>
            InForce(ring, session, (i + 1) - 1, Wanting(m, ring[i + 1].want[m]))
      BY <3>1 DEF OrderInv, MatInv
    <3> QED BY <2>1, <3>1, <3>2, <3>3
  <2>4. ASSUME NEW d \in Contexts PROVE PicEnd(d)' /\ \A m \in Luma : MatEnd(d, m)'
    BY <1>1, <1>2, <2>2 DEF PicEnd, MatEnd, Current, lockVars, callVars, ctxVars, lowVars
  <2> QED BY <1>4, <2>3, <2>4 DEF OrderInv, PicInv, MatInv
<1>5. CASE ExecBegin /\ Shrunk("begin") /\ ring[1] \in Pictures
           /\ session' = ring[1]
           /\ \A m \in Luma : matrices'[m] = IF m \in ring[1].load
                                             THEN ring[1].want[m] ELSE matrices[m]
  <2>1. ASSUME NEW m \in Luma PROVE matrices'[m] = ring[1].want[m]
    <3>1. CASE m \in ring[1].load
      BY <1>5, <3>1
    <3>2. CASE m \notin ring[1].load
      <4>1. 1 \in 1..Len(ring) /\ ring[1].op = "begin"
        BY <1>5 DEF Shrunk
      <4>2. InForce(ring, session, 0, Wanting(m, ring[1].want[m]))
        BY <3>2, <4>1 DEF OrderInv, MatInv
      <4>3. session \in Wanting(m, ring[1].want[m])
        BY <4>2 DEF InForce, NoBegin
      <4>4. matrices[m] = ring[1].want[m]
        BY <4>3 DEF OrderInv, MatInv, MatricesOfPicture, Wanting, Pictures
      <4> QED BY <1>5, <3>2, <4>4
    <3> QED BY <3>1, <3>2
  <2> QED BY <1>4, <1>5, <2>1 DEF MatricesOfPicture
<1>6. MatricesOfPicture
  BY DEF OrderInv, MatInv
<1>7. CASE Shrunk("stamp") /\ UNCHANGED <<session, matrices>>
  BY <1>4, <1>6, <1>7 DEF MatricesOfPicture
<1>8. CASE Shrunk("slice") /\ UNCHANGED <<session, matrices>>
  BY <1>4, <1>6, <1>8 DEF MatricesOfPicture
<1> QED BY <1>3, <1>5, <1>7, <1>8, HardwareDoes

(* What is true of the ring while no flush fails.                          *)
ClientsInv == SessionTypeOK /\ HolderKnows /\ OwnHolds /\ HoldInv /\ OrderInv

(* The initial state, with an empty ring, is in order.                     *)
LEMMA InitClientsInv == Init => ClientsInv
<1> SUFFICES ASSUME Init PROVE ClientsInv
  OBVIOUS
<1>1. /\ holder = NoCtx /\ NoCtx \notin Contexts /\ ring = <<>> /\ Len(<<>>) = 0
      /\ \A c \in Contexts : /\ pc[c] = "idle" /\ ~ haveDecoder[c] /\ loaded[c] = Chroma
                             /\ buffer[c] = <<>>
      /\ session = NoPicture
  BY SessionAssumption, EmptySeq DEF Init, Mutex!MutexInit
<1>2. HolderKnows /\ OwnHolds
  BY <1>1 DEF HolderKnows, OwnHolds
<1>3. HoldInv
  BY <1>1 DEF HoldInv, HaveMeansHold
<1>4. MatricesOfPicture
  BY <1>1 DEF MatricesOfPicture, NoPicture
<1>5. PicInv
  BY <1>1 DEF PicInv, PicEnd
<1>6. MatInv
  BY <1>1, <1>4, SessionAssumption DEF MatInv, MatEnd, BeginFirst
<1> QED BY <1>2, <1>3, <1>5, <1>6, InitTypes DEF ClientsInv, OrderInv

(* Every step keeps it so.                                                 *)
LEMMA StepClientsInv ==
  ASSUME NoneFails, ClientsInv, [Next]_vars
  PROVE  ClientsInv'
<1>1. SessionTypeOK /\ HolderKnows /\ OwnHolds /\ HoldInv /\ OrderInv
  BY DEF ClientsInv
<1>2. SessionTypeOK' /\ HolderKnows' /\ OwnHolds'
  BY <1>1, StepTypes, StepHolderKnows, StepOwnHolds
<1>3. HoldInv'
  BY <1>1, <1>2, StepHoldInv
<1>4. OrderInv'
  <2>1. CASE UNCHANGED vars
    <3>1. \A d \in Contexts : PicEnd(d)' /\ \A m \in Luma : MatEnd(d, m)'
      BY <1>1, <2>1 DEF OrderInv, PicInv, MatInv, PicEnd, MatEnd, Current, BeginFirst,
                        vars, lockVars, callVars, ctxVars, lowVars, hwVars
    <3> QED BY <1>1, <2>1, <3>1, StillOrder DEF vars, hwVars
  <2>2. CASE Hardware
    BY <1>1, <2>2, HardwareOrder
  <2>3. ASSUME NEW c \in Contexts, Client(c) PROVE OrderInv'
    BY <1>1, <2>3, BeginSurfaceOrder, BeginStampOrder, FlushSurfaceOrder, PutSliceOrder,
       BeginPictureOrder, QuietOrder DEF Client
  <2> QED BY <2>1, <2>2, <2>3 DEF Next
<1> QED BY <1>2, <1>3, <1>4 DEF ClientsInv

(* While no flush fails, the decoder has the intra and non-intra matrices  *)
(* of the picture it decodes, although they are sent only to a decoder     *)
(* thought to lack them (MatricesOfPicture).                               *)
THEOREM MatricesArrive == NoneFails => (Spec => []MatricesOfPicture)
<1> SUFFICES ASSUME NoneFails PROVE Spec => []MatricesOfPicture
  OBVIOUS
<1>1. ClientsInv /\ [Next]_vars => ClientsInv'
  BY StepClientsInv
<1>2. ClientsInv => MatricesOfPicture
  BY DEF ClientsInv, OrderInv, MatInv
<1> QED BY <1>1, <1>2, InitClientsInv, PTL DEF Spec

(* While no flush fails, every slice is decoded into the surface its own   *)
(* context has begun, whoever else shares the decoder (SliceInOwnPicture). *)
THEOREM SlicesInTheirPicture == NoneFails => (Spec => SliceInOwnPicture)
<1> SUFFICES ASSUME NoneFails PROVE Spec => SliceInOwnPicture
  OBVIOUS
<1> DEFINE InOwn == ExecSlice => /\ session.op = "begin"
                                 /\ session.ctx = Head(ring).ctx
                                 /\ session.srf = Head(ring).srf
<1>1. ClientsInv /\ [Next]_vars => ClientsInv'
  BY StepClientsInv
<1>2. ClientsInv => InOwn
  <2> SUFFICES ASSUME ClientsInv, ExecSlice
               PROVE  /\ session.op = "begin"
                      /\ session.ctx = Head(ring).ctx
                      /\ session.srf = Head(ring).srf
    OBVIOUS
  <2>1. SessionTypeOK /\ PicInv
    BY DEF ClientsInv, OrderInv
  <2>2. Shrunk("slice")
    BY <2>1, RingShrinks DEF ExecSlice, SessionTypeOK
  <2>3. 1 \in 1..Len(ring) /\ ring[1].op = "slice" /\ Head(ring) = ring[1]
    BY <2>2 DEF Shrunk
  <2>4. InForce(ring, session, 0, PictureOf(ring[1].ctx, ring[1].srf))
    BY <2>1, <2>3 DEF PicInv
  <2>5. session \in PictureOf(ring[1].ctx, ring[1].srf)
    BY <2>4 DEF InForce, NoBegin
  <2> QED BY <2>3, <2>5 DEF PictureOf, Pictures
<1>3. (ClientsInv => InOwn) /\ ClientsInv => [InOwn]_vars
  OBVIOUS
<1> HIDE DEF InOwn
<1>4. Spec => [][InOwn]_vars
  BY <1>1, <1>2, <1>3, InitClientsInv, PTL DEF Spec
<1> QED BY <1>4 DEF InOwn, SliceInOwnPicture

-----------------------------------------------------------------------------
(* What is left to decode, when clients are orderly besides.               *)

(* What a flush of context c adds to the ring, with or without a stamp.    *)
Adds(c, stamped) ==
  /\ Len(ring) \in Nat /\ Len(ring') \in Nat /\ Len(ring) <= Len(ring')
  /\ \A i \in 1..Len(ring) : ring'[i] = ring[i]
  /\ \A i \in (Len(ring) + 1)..Len(ring') :
       \/ stamped /\ i = Len(ring') /\ ring'[i] = StampCmd(c)
       \/ /\ holder = c /\ pc[c] = "idle" /\ buffer[c] # <<>>
          /\ ring'[i].op \in {"begin", "slice"}
          /\ ring'[i].ctx = c /\ ring'[i].srf = target[c]
          /\ ring'[i].op = "begin" => i = Len(ring) + 1 /\ BeginFirst(c)
  /\ stamped => Len(ring) < Len(ring') /\ ring'[Len(ring')] = StampCmd(c)

(* A flush adds the buffer, and the stamp behind it.                       *)
LEMMA FlushAdds ==
  ASSUME SessionTypeOK, HoldInv, NEW c \in Contexts, NEW b, NEW stamped \in BOOLEAN,
         Submits(b, c), Grown(b),
         Len(b) = IF stamped THEN Len(buffer[c]) + 1 ELSE Len(buffer[c]),
         stamped => b[Len(buffer[c]) + 1] = StampCmd(c)
  PROVE  Adds(c, stamped)
<1>t. /\ Len(ring) \in Nat /\ Len(b) \in Nat /\ Len(ring') = Len(ring) + Len(b)
      /\ Len(buffer[c]) \in Nat
      /\ \A i \in 1..Len(ring) : ring'[i] = ring[i]
      /\ \A i \in 1..Len(b) : ring'[Len(ring) + i] = b[i]
  BY LenProperties DEF SessionTypeOK, Submits, Grown
<1>1. ASSUME NEW i \in (Len(ring) + 1)..Len(ring')
      PROVE  \/ stamped /\ i = Len(ring') /\ ring'[i] = StampCmd(c)
             \/ /\ holder = c /\ pc[c] = "idle" /\ buffer[c] # <<>>
                /\ ring'[i].op \in {"begin", "slice"}
                /\ ring'[i].ctx = c /\ ring'[i].srf = target[c]
                /\ ring'[i].op = "begin" => i = Len(ring) + 1 /\ BeginFirst(c)
  <2>1. PICK k \in 1..Len(b) : i = Len(ring) + k
    <3>1. i - Len(ring) \in 1..Len(b) /\ i = Len(ring) + (i - Len(ring))
      BY <1>t
    <3> QED BY <3>1
  <2>2. ring'[i] = b[k]
    BY <1>t, <2>1
  <2>3. CASE k \in 1..Len(buffer[c])
    <3>1. b[k] = buffer[c][k] /\ buffer[c] # <<>>
      BY <2>3, EmptySeq DEF Submits
    <3>2. /\ buffer[c][k].op \in {"begin", "slice"}
          /\ buffer[c][k].ctx = c /\ buffer[c][k].srf = target[c]
          /\ buffer[c][k].op = "begin" => k = 1
          /\ holder = c /\ pc[c] = "idle"
      BY <2>3, <3>1 DEF HoldInv
    <3>3. buffer[c][k].op = "begin" => BeginFirst(c)
      BY <3>1, <3>2 DEF BeginFirst
    <3> QED BY <2>1, <2>2, <3>1, <3>2, <3>3
  <2>4. CASE k \notin 1..Len(buffer[c])
    <3>1. CASE stamped
      <4>1. Len(b) = Len(buffer[c]) + 1
        BY <3>1
      <4>2. k = Len(buffer[c]) + 1 /\ i = Len(ring')
        BY <1>t, <2>1, <2>4, <4>1
      <4> QED BY <2>2, <3>1, <4>2
    <3>2. CASE ~ stamped
      <4>1. Len(b) = Len(buffer[c])
        BY <3>2
      <4> QED BY <1>t, <2>1, <2>4, <4>1
    <3> QED BY <3>1, <3>2
  <2> QED BY <2>3, <2>4
<1>2. ASSUME stamped PROVE Len(ring) < Len(ring') /\ ring'[Len(ring')] = StampCmd(c)
  <2>1. Len(b) \in 1..Len(b) /\ Len(b) = Len(buffer[c]) + 1
    BY <1>2, <1>t
  <2> QED BY <1>2, <1>t, <2>1
<1> QED BY <1>t, <1>1, <1>2 DEF Adds

(* So each call that flushes does.                                         *)
LEMMA CallAdds ==
  ASSUME SessionTypeOK, HoldInv, NEW c \in Contexts
  PROVE  /\ Grown(buffer[c]) => Adds(c, FALSE)
         /\ buffer[c] = <<>> /\ Grown(<<StampCmd(c)>>) => Adds(c, TRUE)
         /\ \A s \in Surfaces : Grown(Flushed(c, s)) => Adds(c, s \in needsSync)
<1>1. ASSUME Grown(buffer[c]) PROVE Adds(c, FALSE)
  BY <1>1, SubmitsOK, FlushAdds
<1>2. ASSUME buffer[c] = <<>>, Grown(<<StampCmd(c)>>) PROVE Adds(c, TRUE)
  <2> DEFINE b == <<StampCmd(c)>>
  <2>1. Len(b) = Len(buffer[c]) + 1 /\ b[Len(buffer[c]) + 1] = StampCmd(c)
    <3>1. Len(b) = 1 /\ b[1] = StampCmd(c) /\ Len(buffer[c]) = 0
      BY <1>2, EmptySeq
    <3> QED BY <3>1
  <2>2. Submits(b, c) /\ Grown(b)
    BY <1>2, SubmitsOK
  <2> HIDE DEF b
  <2> QED BY <2>1, <2>2, FlushAdds
<1>3. ASSUME NEW s \in Surfaces, Grown(Flushed(c, s)) PROVE Adds(c, s \in needsSync)
  <2>1. CASE s \in needsSync
    <3>1. Adds(c, TRUE)
      BY <1>3, <2>1, SubmitsOK, FlushAdds, FlushedShape
    <3>2. (s \in needsSync) = TRUE
      BY <2>1
    <3> QED BY <3>1, <3>2
  <2>2. CASE s \notin needsSync
    <3>1. Adds(c, FALSE)
      BY <1>3, <2>2, SubmitsOK, FlushAdds, FlushedShape
    <3>2. (s \in needsSync) = FALSE
      BY <2>2
    <3> QED BY <3>1, <3>2
  <2> QED BY <2>1, <2>2
<1> QED BY <1>1, <1>2, <1>3

-----------------------------------------------------------------------------
(* Time stamps.                                                            *)

(* A flush adds a stamp later than all before, if any.                     *)
LEMMA FlushStamps ==
  ASSUME SessionTypeOK, StampInv, NEW c \in Contexts, NEW stamped \in BOOLEAN,
         Adds(c, stamped), tsP' = tsP,
         \A d \in Contexts :
           /\ curTimeStamp'[d] = IF d = c /\ stamped THEN curTimeStamp[c] + 1
                                                     ELSE curTimeStamp[d]
           /\ timeStamp'[d] = IF d = c /\ stamped THEN curTimeStamp[c] ELSE timeStamp[d]
           /\ agpSync'[d] \in {agpSync[d], NoSync}
  PROVE  StampInv'
<1>t. /\ \A d \in Contexts : /\ curTimeStamp[d] \in Nat /\ timeStamp[d] \in Nat
                             /\ tsP[d] \in Nat /\ agpSync[d] \in Int
      /\ NoSync = -1 /\ Len(ring) \in Nat /\ Len(ring') \in Nat /\ Len(ring) <= Len(ring')
  BY DEF SessionTypeOK, NoSync, Adds
<1> SUFFICES ASSUME NEW d \in Contexts
             PROVE  /\ timeStamp'[d] < curTimeStamp'[d] /\ tsP'[d] < curTimeStamp'[d]
                    /\ agpSync'[d] < curTimeStamp'[d]
                    /\ \A i \in 1..Len(ring') :
                         StampOf(i, d)' =>
                           /\ tsP'[d] < ring'[i].ts /\ ring'[i].ts < curTimeStamp'[d]
                           /\ \A j \in 1..(i - 1) : StampOf(j, d)' => ring'[j].ts < ring'[i].ts
  BY DEF StampInv
<1>1. /\ timeStamp[d] < curTimeStamp[d] /\ tsP[d] < curTimeStamp[d]
      /\ agpSync[d] < curTimeStamp[d]
      /\ \A i \in 1..Len(ring) : ring[i].op = "stamp" /\ ring[i].ctx = d =>
           /\ tsP[d] < ring[i].ts /\ ring[i].ts < curTimeStamp[d]
           /\ \A j \in 1..(i - 1) : ring[j].op = "stamp" /\ ring[j].ctx = d
                                      => ring[j].ts < ring[i].ts
  BY DEF StampInv, StampOf
<1>2. timeStamp'[d] < curTimeStamp'[d] /\ tsP'[d] < curTimeStamp'[d]
      /\ agpSync'[d] < curTimeStamp'[d] /\ curTimeStamp[d] <= curTimeStamp'[d]
  BY <1>t, <1>1
<1>3. ASSUME NEW i \in 1..Len(ring'), ring'[i].op = "stamp", ring'[i].ctx = d
      PROVE  /\ tsP[d] < ring'[i].ts /\ ring'[i].ts < curTimeStamp'[d]
             /\ \A j \in 1..(i - 1) : ring'[j].op = "stamp" /\ ring'[j].ctx = d
                                        => ring'[j].ts < ring'[i].ts
  <2>1. CASE i \in 1..Len(ring)
    <3>1. ring'[i] = ring[i] /\ \A j \in 1..(i - 1) : ring'[j] = ring[j]
      BY <2>1, <1>t DEF Adds
    <3>2. ring[i].ts \in Nat
      <4>1. ring[i] \in Commands
        BY <2>1, ElementOfSeq DEF SessionTypeOK
      <4> QED BY <1>3, <3>1, <4>1 DEF Commands, Stamps, Pictures, Slices
    <3> QED BY <1>3, <1>1, <1>2, <1>t, <2>1, <3>1, <3>2
  <2>2. CASE i \notin 1..Len(ring)
    <3>1. stamped /\ i = Len(ring') /\ ring'[i] = StampCmd(c)
      BY <1>3, <1>t, <2>2 DEF Adds
    <3>2. ring'[i].ts = curTimeStamp[c] /\ d = c
      BY <1>3, <3>1 DEF StampCmd
    <3>3. ASSUME NEW j \in 1..(i - 1), ring'[j].op = "stamp", ring'[j].ctx = d
          PROVE  ring'[j].ts < ring'[i].ts
      <4>1. j \in 1..Len(ring)
        <5>1. j # Len(ring') /\ j \in 1..Len(ring')
          BY <3>1, <3>3, <1>t
        <5> QED BY <3>3, <5>1, <1>t DEF Adds
      <4>2. ring'[j] = ring[j]
        BY <4>1 DEF Adds
      <4> QED BY <1>1, <3>2, <3>3, <4>1, <4>2
    <3> QED BY <1>1, <1>t, <3>1, <3>2, <3>3
  <2> QED BY <2>1, <2>2
<1> QED BY <1>2, <1>3 DEF StampOf

(* Nothing else changes for a call that adds nothing to the ring.          *)
LEMMA StillStamps ==
  ASSUME SessionTypeOK, StampInv, UNCHANGED <<ring, tsP, timeStamp, curTimeStamp>>,
         \A d \in Contexts : agpSync'[d] \in {agpSync[d], timeStamp[d], NoSync}
  PROVE  StampInv'
<1>1. ASSUME NEW d \in Contexts PROVE agpSync'[d] < curTimeStamp[d]
  <2>1. curTimeStamp[d] \in Nat /\ timeStamp[d] < curTimeStamp[d] /\ agpSync[d] < curTimeStamp[d]
    BY DEF SessionTypeOK, StampInv
  <2>2. -1 < curTimeStamp[d] /\ NoSync = -1
    BY <2>1 DEF NoSync
  <2> QED BY <2>1, <2>2
<1> QED BY <1>1 DEF StampInv, StampOf

(* The hardware writes the first stamp back, and later ones remain.        *)
LEMMA HardwareStamps ==
  ASSUME SessionTypeOK, StampInv, Hardware
  PROVE  StampInv'
<1>1. UNCHANGED <<lockVars, callVars, ctxVars, lowVars, srfVars>>
  BY HardwareDoes
<1>2. ASSUME NEW op, Shrunk(op),
             \A d \in Contexts : \/ tsP'[d] = tsP[d]
                                 \/ StampOf(1, d) /\ tsP'[d] = ring[1].ts
      PROVE  StampInv'
  <2>t. /\ Len(ring') \in Nat /\ Len(ring) = Len(ring') + 1
        /\ \A i \in 1..Len(ring') : i + 1 \in 1..Len(ring) /\ ring'[i] = ring[i + 1]
    BY <1>2 DEF Shrunk
  <2> SUFFICES ASSUME NEW d \in Contexts
               PROVE  /\ timeStamp[d] < curTimeStamp[d] /\ tsP'[d] < curTimeStamp[d]
                      /\ agpSync[d] < curTimeStamp[d]
                      /\ \A i \in 1..Len(ring') :
                           StampOf(i, d)' =>
                             /\ tsP'[d] < ring'[i].ts /\ ring'[i].ts < curTimeStamp[d]
                             /\ \A j \in 1..(i - 1) :
                                  StampOf(j, d)' => ring'[j].ts < ring'[i].ts
    BY <1>1 DEF StampInv, ctxVars, lowVars
  <2>1. /\ timeStamp[d] < curTimeStamp[d] /\ tsP[d] < curTimeStamp[d]
        /\ agpSync[d] < curTimeStamp[d]
        /\ \A i \in 1..Len(ring) : StampOf(i, d) =>
             /\ tsP[d] < ring[i].ts /\ ring[i].ts < curTimeStamp[d]
             /\ \A j \in 1..(i - 1) : StampOf(j, d) => ring[j].ts < ring[i].ts
    BY DEF StampInv
  <2>2. tsP'[d] < curTimeStamp[d]
    <3>1. 1 \in 1..Len(ring)
      BY <2>t
    <3> QED BY <1>2, <2>1, <3>1
  <2>3. ASSUME NEW i \in 1..Len(ring'), StampOf(i, d)'
        PROVE  /\ tsP'[d] < ring'[i].ts /\ ring'[i].ts < curTimeStamp[d]
               /\ \A j \in 1..(i - 1) : StampOf(j, d)' => ring'[j].ts < ring'[i].ts
    <3>1. i + 1 \in 1..Len(ring) /\ ring'[i] = ring[i + 1] /\ 1 \in 1..((i + 1) - 1)
      BY <2>t
    <3>2. StampOf(i + 1, d)
      BY <2>3, <3>1 DEF StampOf
    <3>3. tsP'[d] < ring[i + 1].ts
      <4>1. CASE tsP'[d] = tsP[d]
        BY <2>1, <3>1, <3>2, <4>1
      <4>2. CASE StampOf(1, d) /\ tsP'[d] = ring[1].ts
        BY <2>1, <3>1, <3>2, <4>2
      <4> QED BY <1>2, <4>1, <4>2
    <3>4. ASSUME NEW j \in 1..(i - 1), StampOf(j, d)' PROVE ring'[j].ts < ring'[i].ts
      <4>1. j \in 1..Len(ring') /\ j + 1 \in 1..((i + 1) - 1)
        OBVIOUS
      <4>2. ring'[j] = ring[j + 1] /\ StampOf(j + 1, d)
        BY <2>t, <3>4, <4>1 DEF StampOf
      <4> QED BY <2>1, <3>1, <3>2, <4>1, <4>2
    <3> QED BY <2>1, <3>1, <3>2, <3>3, <3>4
  <2> QED BY <2>1, <2>2, <2>3
<1>3. CASE UNCHANGED <<ring, tsP>>
  BY <1>1, <1>3, StillStamps DEF ctxVars, lowVars
<1>4. CASE Shrunk("stamp") /\ \A d \in Contexts :
             tsP'[d] = IF d = ring[1].ctx THEN ring[1].ts ELSE tsP[d]
  <2>1. \A d \in Contexts : \/ tsP'[d] = tsP[d]
                            \/ StampOf(1, d) /\ tsP'[d] = ring[1].ts
    BY <1>4 DEF Shrunk, StampOf
  <2> QED BY <1>2, <1>4, <2>1
<1>5. CASE Shrunk("begin") /\ tsP' = tsP
  BY <1>2, <1>5
<1>6. CASE Shrunk("slice") /\ tsP' = tsP
  BY <1>2, <1>6
<1> QED BY <1>3, <1>4, <1>5, <1>6, HardwareDoes

(* Orderly clients meet no failing flush, no large number before the first *)
(* stamp is read, and begin nothing while they have the decoder.           *)
LEMMA OrderlyMeans ==
  ASSUME Orderly
  PROVE  /\ NoneFails
         /\ \A c \in Contexts : /\ "again" \notin Features[c]
                                /\ Waited(c) /\ agpSync[c] # NoSync
                                     => tsP[c] >= agpSync[c] /\ ~ busy
BY DEF Orderly, NoneFails, Waited, Passed

(* Every step keeps the stamps in order.                                   *)
LEMMA StepStampInv ==
  ASSUME NoneFails, SessionTypeOK, HoldInv, StampInv, [Next]_vars
  PROVE  StampInv'
<1>u. CASE UNCHANGED vars
  BY <1>u, StillStamps DEF vars, ctxVars, lowVars, hwVars
<1>h. CASE Hardware
  BY <1>h, HardwareStamps
<1>c. ASSUME NEW c \in Contexts, Client(c) PROVE StampInv'
  <2>1. CASE \/ \E ms \in Loads(c) : LoadQMatrix(c, ms)
             \/ \E s \in Surfaces : SyncSurface(c, s)
    BY <2>1, StillStamps DEF LoadQMatrix, SyncSurface, lowVars, hwVars
  <2>2. ASSUME NEW s \in Surfaces, BeginSurface(c, s) PROVE StampInv'
    <3>1. /\ Grown(buffer[c]) /\ UNCHANGED <<timeStamp, curTimeStamp, tsP>>
          /\ \A d \in Contexts : agpSync'[d] \in {agpSync[d], NoSync}
      BY <2>2, BeginSurfaceDoes DEF hwVars
    <3>2. Adds(c, FALSE)
      BY <3>1, CallAdds
    <3> QED BY <3>1, <3>2, FlushStamps
  <2>3. CASE BeginStamp(c)
    <3>1. /\ buffer[c] = <<>> /\ Grown(<<StampCmd(c)>>) /\ tsP' = tsP
          /\ \A d \in Contexts :
               /\ agpSync'[d] \in {agpSync[d], NoSync}
               /\ timeStamp'[d] = IF d = c THEN curTimeStamp[c] ELSE timeStamp[d]
               /\ curTimeStamp'[d] = IF d = c THEN curTimeStamp[c] + 1 ELSE curTimeStamp[d]
      BY <2>3, BeginStampDoes DEF hwVars
    <3>2. Adds(c, TRUE)
      BY <3>1, CallAdds
    <3> QED BY <3>1, <3>2, FlushStamps
  <2>4. ASSUME NEW refs \in References(c), BeginPicture(c, refs) PROVE StampInv'
    <3>1. /\ UNCHANGED <<ring, tsP, timeStamp, curTimeStamp>>
          /\ \A d \in Contexts : agpSync'[d] \in {agpSync[d], timeStamp[d], NoSync}
      BY <2>4, BeginPictureDoes DEF hwVars
    <3> QED BY <3>1, StillStamps
  <2>5. CASE PutSlice(c)
    <3>1. /\ UNCHANGED <<tsP, timeStamp, curTimeStamp>>
          /\ \/ UNCHANGED <<agpSync, ring>>
             \/ /\ Grown(buffer[c])
                /\ \A d \in Contexts : agpSync'[d] \in {agpSync[d], NoSync}
      BY <2>5, PutSliceDoes DEF ctxVars, hwVars
    <3>2. CASE UNCHANGED <<agpSync, ring>>
      BY <3>1, <3>2, StillStamps
    <3>3. CASE Grown(buffer[c]) /\ \A d \in Contexts : agpSync'[d] \in {agpSync[d], NoSync}
      <4>1. Adds(c, FALSE)
        BY <3>3, CallAdds
      <4> QED BY <3>1, <3>3, <4>1, FlushStamps
    <3> QED BY <3>1, <3>2, <3>3
  <2>6. ASSUME NEW s \in Surfaces, FlushSurface(c, s) PROVE StampInv'
    <3>1. /\ Grown(Flushed(c, s)) /\ tsP' = tsP
          /\ \A d \in Contexts :
               /\ agpSync'[d] \in {agpSync[d], NoSync}
               /\ timeStamp'[d] = IF d = c /\ s \in needsSync THEN curTimeStamp[c]
                                                              ELSE timeStamp[d]
               /\ curTimeStamp'[d] = IF d = c /\ s \in needsSync THEN curTimeStamp[c] + 1
                                                                 ELSE curTimeStamp[d]
      BY <2>6, FlushSurfaceDoes DEF hwVars
    <3>2. Adds(c, s \in needsSync)
      BY <3>1, CallAdds
    <3>3. (s \in needsSync) \in BOOLEAN
      OBVIOUS
    <3> DEFINE st == s \in needsSync
    <3>4. /\ st \in BOOLEAN /\ Adds(c, st)
          /\ \A d \in Contexts :
               /\ curTimeStamp'[d] = IF d = c /\ st THEN curTimeStamp[c] + 1
                                                    ELSE curTimeStamp[d]
               /\ timeStamp'[d] = IF d = c /\ st THEN curTimeStamp[c] ELSE timeStamp[d]
      BY <3>1, <3>2, <3>3
    <3> HIDE DEF st
    <3> QED BY <3>1, <3>4, FlushStamps
  <2> QED BY <1>c, <2>1, <2>2, <2>3, <2>4, <2>5, <2>6 DEF Client
<1> QED BY <1>u, <1>h, <1>c DEF Next

-----------------------------------------------------------------------------
(* Slices in the ring.                                                     *)

(* When a context with a begin command to flush has waited, nothing is     *)
(* left to decode.                                                         *)
LEMMA NothingLeft ==
  ASSUME Orderly, SessionTypeOK, StampInv, QueueInv, NEW c \in Contexts,
         BeginFirst(c), Waited(c)
  PROVE  Clear
<1>1. Covered(c) /\ agpSync[c] = timeStamp[c] /\ timeStamp[c] \in Nat /\ tsP[c] \in Nat
  BY DEF QueueInv, Standing, SessionTypeOK
<1>2. tsP[c] >= timeStamp[c] /\ ~ busy
  BY <1>1, OrderlyMeans DEF NoSync
<1>3. ASSUME NEW i \in 1..Len(ring), IsSlice(i) PROVE FALSE
  <2>1. PICK j \in (i + 1)..Len(ring) : StampOf(j, c) /\ ring[j].ts <= timeStamp[c]
    BY <1>1, <1>3 DEF Covered
  <2>2. j \in 1..Len(ring)
    BY <2>1
  <2>3. tsP[c] < ring[j].ts /\ ring[j].ts \in Nat
    <3>1. ring[j] \in Commands
      BY <2>2, ElementOfSeq DEF SessionTypeOK
    <3> QED BY <2>1, <2>2, <3>1
            DEF StampInv, StampOf, Commands, Stamps, Pictures, Slices
  <2> QED BY <1>1, <1>2, <2>1, <2>3
<1> QED BY <1>2, <1>3 DEF Clear

(* What a flush adds lets the hardware begin pictures when it is idle, and *)
(* keeps what is of one context so.                                        *)
LEMMA FlushQueue ==
  ASSUME Orderly, SessionTypeOK, SessionTypeOK', HoldInv, StampInv, QueueInv,
         NEW c \in Contexts, NEW stamped \in BOOLEAN, Adds(c, stamped),
         buffer[c] # <<>> => Waited(c), UNCHANGED <<session, busy>>,
         \A d \in Contexts : timeStamp[d] <= timeStamp'[d]
  PROVE  /\ BeginsClear'
         /\ holder = c /\ pc[c] = "idle" => Sole(c)'
         /\ stamped /\ timeStamp'[c] = curTimeStamp[c] => Covered(c)'
         /\ buffer[c] = <<>> =>
              /\ \A d \in Contexts : /\ Covered(d) => Covered(d)'
                                     /\ Sole(d) => Sole(d)'
                                     /\ Absent(d) => Absent(d)'
              /\ Clear => Clear'
<1>t. /\ Len(ring) \in Nat /\ Len(ring') \in Nat /\ Len(ring) <= Len(ring')
      /\ \A i \in 1..Len(ring) : i \in 1..Len(ring') /\ ring'[i] = ring[i]
      /\ curTimeStamp[c] \in Nat
  BY DEF Adds, SessionTypeOK
<1>n. ASSUME NEW i \in 1..Len(ring'), i \notin 1..Len(ring), ring'[i].op # "stamp"
      PROVE  /\ holder = c /\ pc[c] = "idle" /\ buffer[c] # <<>>
             /\ ring'[i].ctx = c
             /\ ring'[i].op = "begin" => i = Len(ring) + 1 /\ BeginFirst(c)
  <2>1. i \in (Len(ring) + 1)..Len(ring') /\ StampCmd(c).op = "stamp"
    BY <1>n, <1>t DEF StampCmd
  <2> QED BY <1>n, <2>1 DEF Adds
<1>1. BeginsClear'
  <2> SUFFICES ASSUME NEW i \in 1..Len(ring'), ring'[i].op = "begin"
               PROVE  ~ busy /\ \A j \in 1..(i - 1) : ring'[j].op # "slice"
    BY DEF BeginsClear, IsSlice
  <2>1. CASE i \in 1..Len(ring)
    <3>1. ~ busy /\ \A j \in 1..(i - 1) : ring[j].op # "slice"
      BY <1>t, <2>1 DEF QueueInv, BeginsClear, IsSlice
    <3>2. \A j \in 1..(i - 1) : ring'[j] = ring[j]
      BY <1>t, <2>1
    <3> QED BY <3>1, <3>2
  <2>2. CASE i \notin 1..Len(ring)
    <3>1. i = Len(ring) + 1 /\ BeginFirst(c) /\ Waited(c)
      BY <1>n, <2>2
    <3>2. Clear
      BY <3>1, NothingLeft
    <3> QED BY <1>t, <3>1, <3>2 DEF Clear, IsSlice
  <2> QED BY <2>1, <2>2
<1>2. ASSUME holder = c, pc[c] = "idle" PROVE Sole(c)'
  <2>1. Sole(c)
    <3>1. CASE BeginFirst(c)
      <4>1. Clear
        BY <3>1, NothingLeft DEF BeginFirst
      <4> QED BY <4>1 DEF Clear, Sole
    <3>2. CASE ~ BeginFirst(c)
      BY <1>2, <3>2 DEF QueueInv, Standing
    <3> QED BY <3>1, <3>2
  <2>2. ASSUME NEW i \in 1..Len(ring'), ring'[i].op = "slice" PROVE ring'[i].ctx = c
    <3>1. CASE i \in 1..Len(ring)
      BY <1>t, <2>1, <2>2, <3>1 DEF Sole, IsSlice
    <3>2. CASE i \notin 1..Len(ring)
      BY <1>n, <2>2, <3>2
    <3> QED BY <3>1, <3>2
  <2> QED BY <2>1, <2>2 DEF Sole, IsSlice
<1>3. ASSUME stamped, timeStamp'[c] = curTimeStamp[c] PROVE Covered(c)'
  <2>1. /\ ring'[Len(ring')].op = "stamp" /\ ring'[Len(ring')].ctx = c
        /\ ring'[Len(ring')].ts = curTimeStamp[c]
    BY <1>3 DEF Adds, StampCmd
  <2>2. ASSUME NEW i \in 1..Len(ring'), ring'[i].op = "slice"
        PROVE  Len(ring') \in (i + 1)..Len(ring')
    <3>1. i # Len(ring')
      BY <2>1, <2>2
    <3> QED BY <1>t, <3>1
  <2> QED BY <1>3, <1>t, <2>1, <2>2 DEF Covered, IsSlice, StampOf
<1>4. ASSUME buffer[c] = <<>>
      PROVE  /\ \A d \in Contexts : /\ Covered(d) => Covered(d)'
                                    /\ Sole(d) => Sole(d)'
                                    /\ Absent(d) => Absent(d)'
             /\ Clear => Clear'
  <2>1. \A i \in 1..Len(ring') :
          ring'[i].op = "slice" => i \in 1..Len(ring) /\ ring'[i] = ring[i]
    BY <1>4, <1>n, <1>t
  <2>2. ASSUME NEW d \in Contexts, Covered(d) PROVE Covered(d)'
    <3> SUFFICES ASSUME NEW i \in 1..Len(ring'), ring'[i].op = "slice"
                 PROVE  \E j \in (i + 1)..Len(ring') :
                          StampOf(j, d)' /\ ring'[j].ts <= timeStamp'[d]
      BY DEF Covered, IsSlice
    <3>1. i \in 1..Len(ring) /\ IsSlice(i)
      BY <2>1 DEF IsSlice
    <3>2. PICK j \in (i + 1)..Len(ring) : StampOf(j, d) /\ ring[j].ts <= timeStamp[d]
      BY <2>2, <3>1 DEF Covered
    <3>3. j \in (i + 1)..Len(ring') /\ j \in 1..Len(ring) /\ ring'[j] = ring[j]
      BY <1>t, <3>2
    <3>4. ring[j].ts <= timeStamp'[d]
      <4>1. ring[j] \in Commands
        BY <3>3, ElementOfSeq DEF SessionTypeOK
      <4>2. ring[j].ts \in Nat
        BY <3>2, <4>1 DEF StampOf, Commands, Stamps, Pictures, Slices
      <4>3. /\ timeStamp[d] \in Nat /\ timeStamp'[d] \in Nat
            /\ timeStamp[d] <= timeStamp'[d]
        BY DEF SessionTypeOK
      <4> QED BY <3>2, <4>2, <4>3
    <3> QED BY <3>2, <3>3, <3>4 DEF StampOf
  <2>3. \A d \in Contexts : /\ Sole(d) => Sole(d)'
                            /\ Absent(d) => Absent(d)'
    BY <2>1 DEF Sole, Absent, IsSlice
  <2>4. Clear => Clear'
    BY <2>1 DEF Clear, IsSlice
  <2> QED BY <2>2, <2>3, <2>4
<1> QED BY <1>1, <1>2, <1>3, <1>4

(* Calls that leave the ring and the time stamps leave what is said of     *)
(* them.                                                                   *)
LEMMA StillQueue ==
  ASSUME UNCHANGED <<ring, session, busy, timeStamp>>
  PROVE  /\ \A d \in Contexts : /\ Covered(d) <=> Covered(d)'
                                /\ Sole(d) <=> Sole(d)'
                                /\ Absent(d) <=> Absent(d)'
         /\ Clear <=> Clear'
         /\ BeginsClear <=> BeginsClear'
<1>1. BeginsClear <=> BeginsClear'
  BY DEF BeginsClear, IsSlice
<1>2. ASSUME NEW d \in Contexts PROVE Covered(d) <=> Covered(d)'
  BY DEF Covered, IsSlice, StampOf
<1> QED BY <1>1, <1>2 DEF Sole, Absent, Clear, IsSlice

(* A context that takes the decoder knows where the slices of its last     *)
(* pictures are: before its last stamp if it was the last holder, nowhere  *)
(* if another was.                                                         *)
LEMMA BeginSurfaceQueue ==
  ASSUME Orderly, SessionTypeOK, HoldInv, QueueInv, NEW c \in Contexts,
         NEW s \in Surfaces, BeginSurface(c, s)
  PROVE  QueueInv'
<1>1. /\ holder = NoCtx /\ holder' = c /\ last' = c /\ ~ haveDecoder[c]
      /\ UNCHANGED <<ring, agpSync, session, busy, timeStamp>>
      /\ \A d \in Contexts :
           /\ buffer'[d] = IF d = c THEN <<>> ELSE buffer[d]
           /\ d # c => pc'[d] = pc[d] /\ (hadLast'[d] <=> hadLast[d])
      /\ hadLast'[c] <=> last = c
      /\ pc'[c] = IF ~ hadLast'[c] \/ timeStamp[c] = 0 THEN "stamp" ELSE "picture"
  BY BeginSurfaceDoes, OrderlyMeans DEF hwVars
<1>2. /\ \A d \in Contexts : /\ Covered(d) <=> Covered(d)'
                             /\ Absent(d) <=> Absent(d)'
      /\ BeginsClear <=> BeginsClear'
  BY <1>1, StillQueue
<1>t. NoCtx \notin Contexts /\ last \in Contexts \cup {NoCtx}
  BY SessionAssumption DEF SessionTypeOK
<1>3. \A d \in Contexts : d # c => ~ BeginFirst(d)' /\ pc'[d] = "idle"
  BY <1>1, <1>t DEF HoldInv, HaveMeansHold, BeginFirst
<1>4. last = c => Covered(c)
  BY <1>1 DEF QueueInv
<1>5. ASSUME last # c PROVE Absent(c)
  <2>1. CASE last = NoCtx
    BY <1>1, <2>1 DEF QueueInv, Clear, Absent
  <2>2. CASE last \in Contexts
    <3>1. Sole(last)
      BY <1>1, <2>2 DEF QueueInv
    <3> QED BY <1>5, <3>1 DEF Sole, Absent
  <2> QED BY <1>t, <2>1, <2>2
<1>6. Standing(c)'
  <2>1. ~ BeginFirst(c)' /\ pc'[c] # "idle"
    BY <1>1 DEF BeginFirst
  <2>2. CASE last = c
    BY <1>1, <1>2, <1>4, <2>1, <2>2 DEF Standing
  <2>3. CASE last # c
    BY <1>1, <1>2, <1>5, <2>1, <2>3 DEF Standing
  <2> QED BY <2>2, <2>3
<1>7. ASSUME NEW d \in Contexts, d # c PROVE Standing(d)'
  BY <1>1, <1>3, <1>7 DEF Standing
<1>8. BeginsClear'
  BY <1>2 DEF QueueInv
<1> QED BY <1>1, <1>t, <1>6, <1>7, <1>8 DEF QueueInv

(* Its time stamp follows what is in the ring.                             *)
LEMMA BeginStampQueue ==
  ASSUME Orderly, SessionTypeOK, SessionTypeOK', HoldInv, StampInv, QueueInv,
         NEW c \in Contexts, BeginStamp(c)
  PROVE  QueueInv'
<1>1. /\ pc[c] = "stamp" /\ buffer[c] = <<>> /\ Grown(<<StampCmd(c)>>)
      /\ \A d \in Contexts :
           /\ buffer'[d] = buffer[d]
           /\ pc'[d] = IF d = c THEN "picture" ELSE pc[d]
           /\ timeStamp'[d] = IF d = c THEN curTimeStamp[c] ELSE timeStamp[d]
      /\ UNCHANGED <<holder, last, session, busy>>
  BY BeginStampDoes, OrderlyMeans DEF hwVars
<1>2. Adds(c, TRUE)
  BY <1>1, CallAdds
<1>3. \A d \in Contexts : timeStamp[d] <= timeStamp'[d]
  <2>1. \A d \in Contexts : /\ timeStamp[d] \in Nat /\ curTimeStamp[d] \in Nat
                            /\ timeStamp[d] < curTimeStamp[d]
    BY DEF StampInv, SessionTypeOK
  <2> QED BY <1>1, <2>1
<1>4. BeginsClear' /\ Covered(c)'
  BY <1>1, <1>2, <1>3, FlushQueue
<1>5. holder = c /\ last = c /\ NoCtx \notin Contexts
      /\ \A d \in Contexts : buffer'[d] = <<>> /\ (d # c => pc'[d] = "idle")
  BY <1>1, SessionAssumption DEF HoldInv, HaveMeansHold
<1>6. ASSUME NEW d \in Contexts PROVE Standing(d)'
  <2>1. ~ BeginFirst(d)' /\ (holder' = d => pc'[d] # "idle")
    BY <1>1, <1>5 DEF BeginFirst
  <2> QED BY <1>1, <1>4, <1>5, <2>1 DEF Standing
<1> QED BY <1>1, <1>4, <1>5, <1>6 DEF QueueInv

(* The begin command waits for that stamp.                                 *)
LEMMA BeginPictureQueue ==
  ASSUME SessionTypeOK, HoldInv, QueueInv, NEW c \in Contexts,
         NEW refs \in References(c), BeginPicture(c, refs)
  PROVE  QueueInv'
<1>1. PICK b \in Pictures :
        /\ b.ctx = c /\ b.srf = target[c]
        /\ \A m \in Luma : /\ b.want[m] = Current(c, m)
                           /\ m \notin b.load => m \in loaded[c] /\ hadLast[c]
        /\ \A d \in Contexts : buffer'[d] = IF d = c THEN <<b>> ELSE buffer[d]
  BY BeginPictureDoes
<1>2. /\ pc[c] = "picture" /\ holder = c
      /\ \A d \in Contexts : /\ pc'[d] = IF d = c THEN "idle" ELSE pc[d]
                             /\ agpSync'[d] = IF d = c THEN timeStamp[c] ELSE agpSync[d]
      /\ UNCHANGED <<holder, last, timeStamp, ring, session, busy>>
  BY BeginPictureDoes DEF lockVars, hwVars
<1>3. /\ \A d \in Contexts : Covered(d) <=> Covered(d)'
      /\ BeginsClear <=> BeginsClear'
  BY <1>2, StillQueue
<1>4. last = c /\ NoCtx \notin Contexts
      /\ \A d \in Contexts : d # c => buffer'[d] = <<>> /\ pc'[d] = "idle"
  BY <1>1, <1>2, SessionAssumption DEF HoldInv, HaveMeansHold
<1>5. b.op = "begin" /\ <<b>> # <<>> /\ <<b>>[1] = b
  BY DEF Pictures
<1>6. Standing(c)'
  <2>1. Covered(c)
    BY <1>2 DEF QueueInv, Standing
  <2>2. BeginFirst(c)'
    BY <1>1, <1>5 DEF BeginFirst
  <2> QED BY <1>2, <1>3, <2>1, <2>2 DEF Standing
<1>7. ASSUME NEW d \in Contexts, d # c PROVE Standing(d)'
  BY <1>2, <1>4, <1>7 DEF Standing, BeginFirst
<1> QED BY <1>2, <1>3, <1>4, <1>6, <1>7 DEF QueueInv

(* A full buffer is flushed behind slices of the same context only.        *)
LEMMA PutSliceQueue ==
  ASSUME Orderly, SessionTypeOK, SessionTypeOK', HoldInv, StampInv, QueueInv,
         NEW c \in Contexts, PutSlice(c)
  PROVE  QueueInv'
<1>1. /\ pc[c] = "idle" /\ holder = c /\ target[c] \in Surfaces
      /\ UNCHANGED <<lockVars, callVars, ctxVars, srfVars, hwVars>>
  BY PutSliceDoes, OrderlyMeans
<1>2. last = c /\ NoCtx \notin Contexts
      /\ \A d \in Contexts : d # c => buffer[d] = <<>> /\ pc[d] = "idle"
  BY <1>1, SessionAssumption DEF HoldInv, HaveMeansHold
<1>3. CASE /\ \A d \in Contexts :
                buffer'[d] = IF d = c THEN Append(buffer[c], Slice(c)) ELSE buffer[d]
           /\ UNCHANGED <<agpSync, ring>>
  <2>1. /\ \A d \in Contexts : /\ Covered(d) <=> Covered(d)'
                               /\ Sole(d) <=> Sole(d)'
        /\ BeginsClear <=> BeginsClear'
    BY <1>1, <1>3, StillQueue DEF ctxVars, hwVars
  <2>2. BeginFirst(c)' <=> BeginFirst(c)
    <3>0. target[c] # NoSrf
      BY <1>1, SessionAssumption
    <3>1. buffer[c] \in Seq(Commands) /\ Slice(c) \in Commands
      BY <3>0, CommandsOK DEF SessionTypeOK
    <3>2. /\ Append(buffer[c], Slice(c)) # <<>> /\ Len(buffer[c]) \in Nat
          /\ Append(buffer[c], Slice(c))[Len(buffer[c]) + 1] = Slice(c)
          /\ \A i \in 1..Len(buffer[c]) : Append(buffer[c], Slice(c))[i] = buffer[c][i]
          /\ buffer[c] = <<>> <=> Len(buffer[c]) = 0
      BY <3>1, Appended, EmptySeq
    <3>3. Slice(c).op = "slice"
      BY DEF Slice
    <3>4. CASE buffer[c] = <<>>
      <4>1. Append(buffer[c], Slice(c))[1].op = "slice"
        BY <3>2, <3>3, <3>4
      <4> QED BY <1>3, <3>4, <4>1 DEF BeginFirst
    <3>5. CASE buffer[c] # <<>>
      <4>1. 1 \in 1..Len(buffer[c])
        BY <3>2, <3>5
      <4> QED BY <1>3, <3>2, <3>5, <4>1 DEF BeginFirst
    <3> QED BY <3>4, <3>5
  <2>3. Standing(c)'
    BY <1>1, <1>3, <2>1, <2>2 DEF QueueInv, Standing, lockVars, callVars, ctxVars
  <2>4. ASSUME NEW d \in Contexts, d # c PROVE Standing(d)'
    BY <1>1, <1>2, <1>3, <2>4 DEF Standing, BeginFirst, lockVars, callVars
  <2> QED BY <1>1, <1>2, <2>1, <2>3, <2>4 DEF QueueInv, lockVars
<1>4. CASE /\ Grown(buffer[c]) /\ (buffer[c] # <<>> => Waited(c))
           /\ \A d \in Contexts : buffer'[d] = IF d = c THEN <<>> ELSE buffer[d]
  <2>1. Adds(c, FALSE)
    BY <1>4, CallAdds
  <2>2. UNCHANGED <<session, busy>> /\ \A d \in Contexts : timeStamp[d] <= timeStamp'[d]
    BY <1>1 DEF SessionTypeOK, ctxVars, hwVars
  <2>3. BeginsClear' /\ Sole(c)'
    BY <1>1, <1>4, <2>1, <2>2, FlushQueue
  <2>4. Standing(c)'
    BY <1>1, <1>4, <2>3 DEF Standing, BeginFirst, lockVars, callVars
  <2>5. ASSUME NEW d \in Contexts, d # c PROVE Standing(d)'
    BY <1>1, <1>2, <1>4, <2>5 DEF Standing, BeginFirst, lockVars, callVars
  <2> QED BY <1>1, <1>2, <2>3, <2>4, <2>5 DEF QueueInv, lockVars
<1> QED BY <1>3, <1>4, PutSliceDoes, OrderlyMeans

(* The decoder is given back behind a time stamp.                          *)
LEMMA FlushSurfaceQueue ==
  ASSUME Orderly, SessionTypeOK, SessionTypeOK', HoldInv, StampInv, QueueInv,
         NEW c \in Contexts, NEW s \in Surfaces, FlushSurface(c, s)
  PROVE  QueueInv'
<1> DEFINE st == s \in needsSync
<1>1. /\ pc[c] = "idle" /\ Grown(Flushed(c, s)) /\ (Flushed(c, s) # <<>> => Waited(c))
      /\ \A d \in Contexts :
           /\ buffer'[d] = IF d = c THEN <<>> ELSE buffer[d]
           /\ d # c => agpSync'[d] = agpSync[d]
           /\ timeStamp'[d] = IF d = c /\ st THEN curTimeStamp[c] ELSE timeStamp[d]
      /\ holder' = IF holder = c /\ rendSurf[c] = s THEN NoCtx ELSE holder
      /\ UNCHANGED <<last, pc, hadLast, session, busy>>
  BY FlushSurfaceDoes, OrderlyMeans DEF callVars, hwVars
<1>2. st \in BOOLEAN /\ Adds(c, st) /\ (buffer[c] # <<>> => Waited(c))
  <2>1. Adds(c, s \in needsSync)
    BY <1>1, CallAdds
  <2>2. buffer[c] # <<>> => Waited(c)
    BY <1>1, FlushedShape
  <2> QED BY <2>1, <2>2
<1> HIDE DEF st
<1>3. \A d \in Contexts : timeStamp[d] <= timeStamp'[d]
  <2>1. \A d \in Contexts : /\ timeStamp[d] \in Nat /\ curTimeStamp[d] \in Nat
                            /\ timeStamp[d] < curTimeStamp[d]
    BY DEF StampInv, SessionTypeOK
  <2> QED BY <1>1, <2>1
<1>4. /\ BeginsClear'
      /\ holder = c => Sole(c)'
      /\ st => Covered(c)'
      /\ buffer[c] = <<>> =>
           /\ \A d \in Contexts : /\ Covered(d) => Covered(d)'
                                  /\ Sole(d) => Sole(d)'
                                  /\ Absent(d) => Absent(d)'
           /\ Clear => Clear'
  BY <1>1, <1>2, <1>3, FlushQueue
<1>t. NoCtx \notin Contexts /\ NoSrf \notin Surfaces
  BY SessionAssumption
<1>5. CASE holder = c
  <2>1. last = c /\ \A d \in Contexts : d # c => buffer[d] = <<>> /\ pc[d] = "idle"
    BY <1>5 DEF HoldInv, HaveMeansHold
  <2>2. holder' = NoCtx => st
    <3>1. rendSurf[c] = s => s \in needsSync
      BY <1>1, <1>5, <1>t DEF HoldInv
    <3> QED BY <1>1, <1>5, <1>t, <3>1 DEF st
  <2>3. \A d \in Contexts : ~ BeginFirst(d)' /\ pc'[d] = "idle" /\ (holder' = d => d = c)
    BY <1>1, <1>5, <1>t, <2>1 DEF BeginFirst
  <2>4. ASSUME NEW d \in Contexts PROVE Standing(d)'
    BY <1>4, <1>5, <2>3 DEF Standing
  <2> QED BY <1>1, <1>4, <1>5, <1>t, <2>1, <2>2, <2>4 DEF QueueInv
<1>6. CASE holder # c
  <2>1. buffer[c] = <<>> /\ holder' = holder
    BY <1>1, <1>6 DEF HoldInv
  <2>2. /\ \A d \in Contexts : /\ Covered(d) => Covered(d)'
                               /\ Sole(d) => Sole(d)'
                               /\ Absent(d) => Absent(d)'
        /\ Clear => Clear'
    BY <1>4, <2>1
  <2>3. \A d \in Contexts : (BeginFirst(d)' <=> BeginFirst(d)) /\ ~ BeginFirst(c)
    BY <1>1, <2>1 DEF BeginFirst
  <2>4. ASSUME NEW d \in Contexts PROVE Standing(d)'
    <3>1. Standing(d)
      BY DEF QueueInv
    <3>2. CASE d = c
      BY <1>1, <1>6, <2>1, <2>3, <3>2 DEF Standing
    <3>3. CASE d # c
      BY <1>1, <2>1, <2>2, <2>3, <3>1, <3>3 DEF Standing
    <3> QED BY <3>2, <3>3
  <2> QED BY <1>1, <1>4, <2>1, <2>2, <2>4 DEF QueueInv
<1> QED BY <1>5, <1>6

(* New matrices and a sync change nothing of it.                           *)
LEMMA QuietQueue ==
  ASSUME QueueInv, NEW c \in Contexts,
         \/ \E ms \in Loads(c) : LoadQMatrix(c, ms)
         \/ \E s \in Surfaces : SyncSurface(c, s)
  PROVE  QueueInv'
<1>1. UNCHANGED <<lockVars, callVars, lowVars, ring, session, busy, timeStamp>>
  BY DEF LoadQMatrix, SyncSurface, hwVars
<1>2. ASSUME NEW d \in Contexts PROVE Standing(d)'
  BY <1>1, StillQueue DEF QueueInv, Standing, BeginFirst, lockVars, callVars, lowVars
<1> QED BY <1>1, <1>2, StillQueue DEF QueueInv, lockVars

(* The hardware begins a picture when nothing is left to decode, and       *)
(* decodes slices of the picture it has begun.                             *)
LEMMA HardwareQueue ==
  ASSUME SessionTypeOK, OrderInv, QueueInv, Hardware
  PROVE  QueueInv'
<1>1. UNCHANGED <<lockVars, callVars, ctxVars, lowVars, srfVars>>
  BY HardwareDoes
<1>c. ASSUME BeginsClear',
             \A d \in Contexts : /\ Covered(d) => Covered(d)'
                                 /\ Sole(d) => Sole(d)'
                                 /\ Absent(d) => Absent(d)',
             Clear => Clear'
      PROVE  QueueInv'
  <2>1. ASSUME NEW d \in Contexts PROVE Standing(d)'
    BY <1>1, <1>c DEF QueueInv, Standing, BeginFirst, lockVars, callVars, ctxVars, lowVars
  <2> QED BY <1>1, <1>c, <2>1 DEF QueueInv, lockVars
<1>2. CASE busy /\ ~ busy' /\ UNCHANGED <<ring, session>>
  <2>1. BeginsClear'
    BY <1>2 DEF QueueInv, BeginsClear, IsSlice
  <2>2. ASSUME NEW d \in Contexts
        PROVE  /\ Covered(d) => Covered(d)'
               /\ Sole(d) => Sole(d)'
               /\ Absent(d) => Absent(d)'
    BY <1>1, <1>2 DEF Covered, Sole, Absent, IsSlice, StampOf, ctxVars
  <2>3. Clear => Clear'
    BY <1>2 DEF Clear, IsSlice
  <2> QED BY <1>c, <2>1, <2>2, <2>3
<1>3. ASSUME NEW op, Shrunk(op),
             \/ op # "slice" /\ UNCHANGED <<session, busy>>
             \/ ~ busy /\ ~ busy'
             \/ /\ ring[1].op = "slice" /\ session' = session
                /\ session.op = "begin" /\ session.ctx = ring[1].ctx
      PROVE  QueueInv'
  <2>t. /\ Len(ring') \in Nat /\ Len(ring) = Len(ring') + 1
        /\ \A i \in 1..Len(ring') : i + 1 \in 1..Len(ring) /\ ring'[i] = ring[i + 1]
        /\ 1 \in 1..Len(ring) /\ ring[1].op = op
    BY <1>3 DEF Shrunk
  <2>1. BeginsClear'
    <3> SUFFICES ASSUME NEW i \in 1..Len(ring'), ring'[i].op = "begin"
                 PROVE  ~ busy' /\ \A j \in 1..(i - 1) : ring'[j].op # "slice"
      BY DEF BeginsClear, IsSlice
    <3>1. ~ busy /\ \A j \in 1..i : ring[j].op # "slice"
      <4>1. i + 1 \in 1..Len(ring) /\ ring[i + 1].op = "begin" /\ (i + 1) - 1 = i
        BY <2>t
      <4> QED BY <4>1 DEF QueueInv, BeginsClear, IsSlice
    <3>2. ~ busy'
      <4>1. ring[1].op # "slice"
        BY <3>1
      <4> QED BY <1>3, <3>1, <4>1
    <3>3. ASSUME NEW j \in 1..(i - 1) PROVE ring'[j].op # "slice"
      <4>1. j + 1 \in 1..i /\ ring'[j] = ring[j + 1]
        BY <2>t
      <4> QED BY <3>1, <4>1
    <3> QED BY <3>2, <3>3
  <2>2. ASSUME NEW d \in Contexts, Covered(d) PROVE Covered(d)'
    <3> SUFFICES ASSUME NEW i \in 1..Len(ring'), ring'[i].op = "slice"
                 PROVE  \E j \in (i + 1)..Len(ring') :
                          StampOf(j, d)' /\ ring'[j].ts <= timeStamp[d]
      BY <1>1 DEF Covered, IsSlice, ctxVars
    <3>1. i + 1 \in 1..Len(ring) /\ IsSlice(i + 1)
      BY <2>t DEF IsSlice
    <3>2. PICK j \in ((i + 1) + 1)..Len(ring) : StampOf(j, d) /\ ring[j].ts <= timeStamp[d]
      BY <2>2, <3>1 DEF Covered
    <3>3. j - 1 \in (i + 1)..Len(ring') /\ ring'[j - 1] = ring[j]
      <4>1. j - 1 \in (i + 1)..Len(ring') /\ j - 1 \in 1..Len(ring') /\ (j - 1) + 1 = j
        BY <2>t
      <4> QED BY <2>t, <4>1
    <3> QED BY <3>2, <3>3 DEF StampOf
  <2>3. ASSUME NEW d \in Contexts, Sole(d) PROVE Sole(d)'
    <3>1. \A i \in 1..Len(ring) : ring[i].op = "slice" => ring[i].ctx = d
      BY <2>3 DEF Sole, IsSlice
    <3>2. \A i \in 1..Len(ring') : ring'[i].op = "slice" => ring'[i].ctx = d
      BY <2>t, <3>1
    <3>3. busy' => session'.op = "begin" /\ session'.ctx = d
      BY <1>3, <2>t, <2>3, <3>1 DEF Sole
    <3> QED BY <3>2, <3>3 DEF Sole, IsSlice
  <2>4. ASSUME NEW d \in Contexts, Absent(d) PROVE Absent(d)'
    <3>1. \A i \in 1..Len(ring) : ring[i].op = "slice" => ring[i].ctx # d
      BY <2>4 DEF Absent, IsSlice
    <3>2. \A i \in 1..Len(ring') : ring'[i].op = "slice" => ring'[i].ctx # d
      BY <2>t, <3>1
    <3>3. busy' => session'.ctx # d
      BY <1>3, <2>t, <2>4, <3>1 DEF Absent
    <3> QED BY <3>2, <3>3 DEF Absent, IsSlice
  <2>5. Clear => Clear'
    BY <1>3, <2>t DEF Clear, IsSlice
  <2> QED BY <1>c, <2>1, <2>2, <2>3, <2>4, <2>5
<1>4. CASE Shrunk("stamp") /\ UNCHANGED <<session, busy>>
  BY <1>3, <1>4
<1>5. CASE Shrunk("begin") /\ busy' = busy
  <2>1. 1 \in 1..Len(ring) /\ ring[1].op = "begin"
    BY <1>5 DEF Shrunk
  <2>2. ~ busy
    BY <2>1 DEF QueueInv, BeginsClear
  <2> QED BY <1>3, <1>5, <2>2
<1>6. CASE Shrunk("slice") /\ session' = session
  <2>1. 1 \in 1..Len(ring) /\ ring[1].op = "slice"
    BY <1>6 DEF Shrunk
  <2>2. session \in PictureOf(ring[1].ctx, ring[1].srf)
    BY <2>1 DEF OrderInv, PicInv, InForce, NoBegin
  <2>3. session.op = "begin" /\ session.ctx = ring[1].ctx
    BY <2>2 DEF PictureOf, Pictures
  <2> QED BY <1>3, <1>6, <2>1, <2>3
<1> QED BY <1>2, <1>4, <1>5, <1>6, HardwareDoes

(* Every step keeps it so.                                                 *)
LEMMA StepQueueInv ==
  ASSUME Orderly, ClientsInv, SessionTypeOK', StampInv, QueueInv, [Next]_vars
  PROVE  QueueInv'
<1>1. SessionTypeOK /\ HoldInv /\ OrderInv
  BY DEF ClientsInv
<1>2. CASE UNCHANGED vars
  <2>1. UNCHANGED <<lockVars, callVars, lowVars, ring, session, busy, timeStamp>>
    BY <1>2 DEF vars, ctxVars, hwVars
  <2>2. ASSUME NEW d \in Contexts PROVE Standing(d)'
    BY <2>1, StillQueue DEF QueueInv, Standing, BeginFirst, lockVars, callVars, lowVars
  <2> QED BY <2>1, <2>2, StillQueue DEF QueueInv, lockVars
<1>3. CASE Hardware
  BY <1>1, <1>3, HardwareQueue
<1>4. ASSUME NEW c \in Contexts, Client(c) PROVE QueueInv'
  BY <1>1, <1>4, BeginSurfaceQueue, BeginStampQueue, BeginPictureQueue, PutSliceQueue,
     FlushSurfaceQueue, QuietQueue DEF Client
<1> QED BY <1>2, <1>3, <1>4 DEF Next

(* What is true of the ring when the clients are orderly.                  *)
QueuedInv == ClientsInv /\ StampInv /\ QueueInv

(* The initial state, with an empty ring, is so.                           *)
LEMMA InitQueuedInv == Init => QueuedInv
<1> SUFFICES ASSUME Init PROVE QueuedInv
  OBVIOUS
<1>1. /\ holder = NoCtx /\ last = NoCtx /\ NoCtx \notin Contexts
      /\ ring = <<>> /\ Len(<<>>) = 0 /\ ~ busy
      /\ \A c \in Contexts : /\ pc[c] = "idle" /\ buffer[c] = <<>>
                             /\ timeStamp[c] = 0 /\ curTimeStamp[c] = 1
                             /\ tsP[c] = 0 /\ agpSync[c] = 0
  BY SessionAssumption, EmptySeq DEF Init, Mutex!MutexInit
<1>2. StampInv
  <2>1. \A i \in 1..Len(ring) : FALSE
    BY <1>1
  <2>2. ASSUME NEW c \in Contexts
        PROVE  /\ timeStamp[c] < curTimeStamp[c] /\ tsP[c] < curTimeStamp[c]
               /\ agpSync[c] < curTimeStamp[c]
    <3>1. /\ timeStamp[c] = 0 /\ curTimeStamp[c] = 1
          /\ tsP[c] = 0 /\ agpSync[c] = 0
      BY <1>1
    <3> QED BY <3>1
  <2> QED BY <2>1, <2>2 DEF StampInv
<1>3. QueueInv
  BY <1>1 DEF QueueInv, BeginsClear, Clear, Standing, BeginFirst
<1> QED BY <1>2, <1>3, InitClientsInv DEF QueuedInv

(* Every step of orderly clients keeps it so.                              *)
LEMMA StepQueuedInv ==
  ASSUME Orderly, QueuedInv, [Next]_vars
  PROVE  QueuedInv'
<1>1. NoneFails /\ ClientsInv /\ StampInv /\ QueueInv /\ SessionTypeOK /\ HoldInv
  BY OrderlyMeans DEF QueuedInv, ClientsInv
<1>2. ClientsInv'
  BY <1>1, StepClientsInv
<1>3. StampInv'
  BY <1>1, StepStampInv
<1>4. QueueInv'
  BY <1>1, <1>2, StepQueueInv DEF ClientsInv
<1> QED BY <1>2, <1>3, <1>4 DEF QueuedInv

(* Orderly clients never have the decoder begin a picture while it decodes *)
(* another, whoever's, although none of them asks whether it does before   *)
(* it submits its begin command (BeginWhenIdle).                           *)
THEOREM BegunWhenIdle == Orderly => (Spec => BeginWhenIdle)
<1> SUFFICES ASSUME Orderly PROVE Spec => BeginWhenIdle
  OBVIOUS
<1> DEFINE Idle == ExecBegin => ~ busy
<1>1. QueuedInv /\ [Next]_vars => QueuedInv'
  BY StepQueuedInv
<1>2. QueuedInv => Idle
  <2> SUFFICES ASSUME QueuedInv, ExecBegin PROVE ~ busy
    OBVIOUS
  <2>1. SessionTypeOK /\ QueueInv
    BY DEF QueuedInv, ClientsInv
  <2>2. Shrunk("begin")
    BY <2>1, RingShrinks DEF ExecBegin, SessionTypeOK
  <2>3. 1 \in 1..Len(ring) /\ ring[1].op = "begin"
    BY <2>2 DEF Shrunk
  <2> QED BY <2>1, <2>3 DEF QueueInv, BeginsClear
<1>3. (QueuedInv => Idle) /\ QueuedInv => [Idle]_vars
  OBVIOUS
<1> HIDE DEF Idle
<1>4. Spec => [][Idle]_vars
  BY <1>1, <1>2, <1>3, InitQueuedInv, PTL DEF Spec
<1> QED BY <1>4 DEF Idle, BeginWhenIdle

-----------------------------------------------------------------------------
(* What a sync has waited for.                                             *)

(* Slices of surface s that are not flushed yet.                           *)
Buffered(s) ==
  \E i \in 1..Len(buffer[Owner[s]]) :
     buffer[Owner[s]][i].op = "slice" /\ buffer[Owner[s]][i].srf = s

InRing(s) == \E i \in 1..Len(ring) : SliceOf(i, s)

(* Where a slice can be.                                                   *)
LEMMA UndecodedIs ==
  \A s \in Surfaces : /\ Undecoded(s) <=> Decoding(s) \/ InRing(s) \/ Buffered(s)
                      /\ Undecoded(s)' <=> Decoding(s)' \/ InRing(s)' \/ Buffered(s)'
BY DEF Undecoded, Decoding, InRing, SliceOf, IsSlice, Buffered

(* The ring has what it had, and no more slices of surface s.              *)
KeepsRing(s) ==
  /\ Len(ring) \in Nat /\ Len(ring') \in Nat /\ Len(ring) <= Len(ring')
  /\ \A i \in 1..Len(ring) : ring'[i] = ring[i]
  /\ \A i \in 1..Len(ring') : ring'[i].op = "slice" /\ ring'[i].srf = s => i \in 1..Len(ring)

(* What a flush by another context adds, or of another surface.            *)
LEMMA AddsKeeps ==
  ASSUME SessionTypeOK, NEW c \in Contexts, NEW stamped \in BOOLEAN, Adds(c, stamped),
         NEW s \in Surfaces, Owner[s] # c \/ target[c] # s \/ buffer[c] = <<>>
  PROVE  KeepsRing(s)
<1>1. /\ Len(ring) \in Nat /\ Len(ring') \in Nat /\ Len(ring) <= Len(ring')
      /\ \A i \in 1..Len(ring) : ring'[i] = ring[i]
  BY DEF Adds
<1>2. target[c] # s \/ buffer[c] = <<>>
  BY DEF SessionTypeOK
<1>3. ASSUME NEW i \in 1..Len(ring'), ring'[i].op = "slice", ring'[i].srf = s
      PROVE  i \in 1..Len(ring)
  <2> SUFFICES ASSUME i \notin 1..Len(ring) PROVE FALSE
    OBVIOUS
  <2>1. i \in (Len(ring) + 1)..Len(ring') /\ StampCmd(c).op = "stamp"
    BY <1>1 DEF StampCmd
  <2>2. buffer[c] # <<>> /\ ring'[i].srf = target[c]
    BY <1>3, <2>1 DEF Adds
  <2> QED BY <1>2, <1>3, <2>2
<1> QED BY <1>1, <1>3 DEF KeepsRing

(* What is so of a surface stays so when nothing of it changes.            *)
LEMMA DoneKept ==
  ASSUME NEW s \in Surfaces, DoneFor(s), KeepsRing(s),
         srfStamp'[s] = srfStamp[s], timeStamp'[Owner[s]] = timeStamp[Owner[s]],
         UNCHANGED <<session, busy>>,
         Rendering(Owner[s], s) => Rendering(Owner[s], s)',
         pc'[Owner[s]] = "idle" /\ rendSurf'[Owner[s]] \notin {s, NoSrf}
           /\ ~ BeginFirst(Owner[s])'
           => /\ pc[Owner[s]] = "idle" /\ rendSurf[Owner[s]] \notin {s, NoSrf}
              /\ ~ BeginFirst(Owner[s]),
         s \notin needsSync' /\ s \notin dropped' => s \notin needsSync /\ s \notin dropped,
         s \notin needsSync' /\ Buffered(s)' => Buffered(s)
  PROVE  DoneFor(s)'
<1> DEFINE c == Owner[s]
<1>t. /\ Len(ring) \in Nat /\ Len(ring') \in Nat /\ Len(ring) <= Len(ring')
      /\ \A i \in 1..Len(ring) : ring'[i] = ring[i]
  BY DEF KeepsRing
<1>1. \A i \in 1..Len(ring') : SliceOf(i, s)' => i \in 1..Len(ring) /\ SliceOf(i, s)
  BY DEF KeepsRing, SliceOf, IsSlice
<1>2. Decoding(s)' <=> Decoding(s)
  BY DEF Decoding
<1>3. ASSUME NEW i \in 1..Len(ring'), SliceOf(i, s)', ~ Rendering(c, s)'
      PROVE  /\ \E j \in (i + 1)..Len(ring') : StampOf(j, c)' /\ ring'[j].ts <= srfStamp[s]
             /\ srfStamp[s] = timeStamp[c]
  <2>1. i \in 1..Len(ring) /\ SliceOf(i, s) /\ ~ Rendering(c, s)
    BY <1>1, <1>3
  <2>2. PICK j \in (i + 1)..Len(ring) : StampOf(j, c) /\ ring[j].ts <= srfStamp[s]
    BY <2>1 DEF DoneFor
  <2>3. j \in (i + 1)..Len(ring') /\ ring'[j] = ring[j]
    BY <1>t, <2>2
  <2>4. StampOf(j, c)' /\ ring'[j].ts <= srfStamp[s]
    BY <2>2, <2>3 DEF StampOf
  <2>5. srfStamp[s] = timeStamp[c]
    BY <2>1 DEF DoneFor
  <2> QED BY <2>3, <2>4, <2>5
<1>4. /\ srfStamp[s] <= timeStamp[c]
      /\ Decoding(s)' /\ ~ Rendering(c, s)' => srfStamp[s] = timeStamp[c] /\ srfStamp[s] > 0
      /\ pc'[c] = "idle" /\ rendSurf'[c] \notin {s, NoSrf} /\ ~ BeginFirst(c)'
           => ~ Decoding(s)' /\ \A i \in 1..Len(ring') : ~ SliceOf(i, s)'
  BY <1>1, <1>2 DEF DoneFor
<1>5. s \notin needsSync' /\ s \notin dropped' => ~ Undecoded(s)'
  <2> SUFFICES ASSUME s \notin needsSync', s \notin dropped' PROVE ~ Undecoded(s)'
    OBVIOUS
  <2>1. ~ Undecoded(s)
    BY DEF DoneFor
  <2>2. ~ Decoding(s) /\ ~ InRing(s) /\ ~ Buffered(s)
    BY <2>1, UndecodedIs
  <2>3. ~ InRing(s)'
    BY <1>1, <2>2 DEF InRing
  <2> QED BY <1>2, <2>2, <2>3, UndecodedIs
<1> QED BY <1>3, <1>4, <1>5 DEF DoneFor

(* What is so of a surface of which nothing is left.                       *)
LEMMA DoneAbsent ==
  ASSUME NEW s \in Surfaces, srfStamp'[s] <= timeStamp'[Owner[s]],
         ~ Decoding(s)', ~ InRing(s)',
         s \notin needsSync' /\ s \notin dropped' => ~ Buffered(s)'
  PROVE  DoneFor(s)'
<1>1. \A i \in 1..Len(ring') : ~ SliceOf(i, s)'
  BY DEF InRing
<1>2. s \notin needsSync' /\ s \notin dropped' => ~ Undecoded(s)'
  BY UndecodedIs
<1> QED BY <1>1, <1>2 DEF DoneFor

(* What is so of a surface that is being rendered.                         *)
LEMMA DoneRendering ==
  ASSUME NEW s \in Surfaces, srfStamp'[s] <= timeStamp'[Owner[s]],
         Rendering(Owner[s], s)', s \in needsSync'
  PROVE  DoneFor(s)'
<1>1. rendSurf'[Owner[s]] = s
  BY DEF Rendering
<1> QED BY <1>1 DEF DoneFor

(* The start of a begin call leaves every surface as it was.               *)
LEMMA BeginSurfaceDone ==
  ASSUME Orderly, SessionTypeOK, HoldInv, NEW c \in Contexts, NEW r \in Surfaces,
         BeginSurface(c, r), NEW s \in Surfaces, DoneFor(s)
  PROVE  DoneFor(s)'
<1>1. /\ holder = NoCtx /\ pc'[c] \in {"stamp", "picture"}
      /\ UNCHANGED <<ring, timeStamp, rendSurf, srfVars, session, busy>>
      /\ \A d \in Contexts : /\ buffer'[d] = IF d = c THEN <<>> ELSE buffer[d]
                             /\ d # c => pc'[d] = pc[d]
  BY BeginSurfaceDoes, OrderlyMeans DEF hwVars
<1>t. /\ Owner[s] \in Contexts /\ NoCtx \notin Contexts
      /\ ring \in Seq(Commands) /\ Len(<<>>) = 0
  BY SessionAssumption, EmptySeq DEF SessionTypeOK
<1>2. KeepsRing(s)
  BY <1>1, <1>t, LenProperties DEF KeepsRing
<1>3. Buffered(s)' => Buffered(s)
  <2>1. CASE Owner[s] = c
    BY <1>1, <1>t, <2>1 DEF Buffered
  <2>2. CASE Owner[s] # c
    BY <1>1, <1>t, <2>2 DEF Buffered
  <2> QED BY <2>1, <2>2
<1>4. ~ Rendering(Owner[s], s)
  BY <1>1, <1>t DEF Rendering
<1>5. pc'[Owner[s]] = "idle" =>
        pc[Owner[s]] = "idle" /\ (BeginFirst(Owner[s])' <=> BeginFirst(Owner[s]))
  BY <1>1, <1>t DEF BeginFirst
<1> QED BY <1>1, <1>2, <1>3, <1>4, <1>5, DoneKept DEF srfVars

(* A context emits a time stamp of its own when nothing of its pictures is *)
(* left to decode.                                                         *)
LEMMA BeginStampDone ==
  ASSUME Orderly, SessionTypeOK, HoldInv, StampInv, QueueInv, NEW c \in Contexts,
         BeginStamp(c), NEW s \in Surfaces, DoneFor(s)
  PROVE  DoneFor(s)'
<1>1. /\ pc[c] = "stamp" /\ buffer[c] = <<>> /\ Grown(<<StampCmd(c)>>)
      /\ \A d \in Contexts :
           /\ buffer'[d] = buffer[d]
           /\ pc'[d] = IF d = c THEN "picture" ELSE pc[d]
           /\ timeStamp'[d] = IF d = c THEN curTimeStamp[c] ELSE timeStamp[d]
      /\ UNCHANGED <<holder, rendSurf, srfVars, session, busy>>
  BY BeginStampDoes, OrderlyMeans DEF hwVars
<1>t. Owner[s] \in Contexts
  BY SessionAssumption
<1>2. KeepsRing(s)
  BY <1>1, CallAdds, AddsKeeps
<1>3. Buffered(s)' <=> Buffered(s)
  BY <1>1, <1>t DEF Buffered
<1>4. CASE Owner[s] # c
  <2>1. Rendering(Owner[s], s)' <=> Rendering(Owner[s], s)
    BY <1>1, <1>t, <1>4 DEF Rendering
  <2>2. BeginFirst(Owner[s])' <=> BeginFirst(Owner[s])
    BY <1>1, <1>t DEF BeginFirst
  <2> QED BY <1>1, <1>2, <1>3, <1>4, <1>t, <2>1, <2>2, DoneKept DEF srfVars
<1>5. CASE Owner[s] = c
  <2>1. IF hadLast[c] THEN timeStamp[c] = 0 ELSE Absent(c)
    BY <1>1 DEF QueueInv, Standing
  <2>2. ~ Rendering(c, s)
    BY <1>1 DEF Rendering
  <2>3. ~ InRing(s) /\ ~ Decoding(s)
    <3>1. CASE hadLast[c]
      <4>1. timeStamp[c] = 0 /\ srfStamp[s] <= 0 /\ srfStamp[s] \in Nat
        BY <1>5, <2>1, <3>1 DEF DoneFor, SessionTypeOK
      <4>2. ~ Decoding(s)
        BY <1>5, <2>2, <4>1 DEF DoneFor
      <4>3. ASSUME NEW i \in 1..Len(ring), SliceOf(i, s) PROVE FALSE
        <5>1. PICK j \in (i + 1)..Len(ring) : StampOf(j, c) /\ ring[j].ts <= srfStamp[s]
          BY <1>5, <2>2, <4>3 DEF DoneFor
        <5>2. j \in 1..Len(ring)
          BY <5>1
        <5>3. tsP[c] < ring[j].ts /\ tsP[c] \in Nat
          BY <5>1, <5>2 DEF StampInv, SessionTypeOK
        <5>4. ring[j] \in Commands
          BY <5>2, ElementOfSeq DEF SessionTypeOK
        <5>5. ring[j].ts \in Nat
          BY <5>1, <5>4 DEF StampOf, Commands, Stamps, Pictures, Slices
        <5> QED BY <4>1, <5>1, <5>3, <5>5
      <4> QED BY <4>2, <4>3 DEF InRing
    <3>2. CASE ~ hadLast[c]
      <4>1. Absent(c)
        BY <2>1, <3>2
      <4>2. ASSUME NEW i \in 1..Len(ring), SliceOf(i, s) PROVE FALSE
        <5>1. ring[i] \in Commands
          BY ElementOfSeq DEF SessionTypeOK
        <5>2. ring[i].ctx = c
          BY <1>5, <4>2, <5>1 DEF SliceOf, IsSlice, Commands, Stamps, Pictures, Slices
        <5> QED BY <4>1, <4>2, <5>2 DEF Absent, SliceOf
      <4>3. ~ Decoding(s)
        <5> SUFFICES ASSUME Decoding(s) PROVE FALSE
          OBVIOUS
        <5>1. session \in Pictures
          BY DEF Decoding, SessionTypeOK, NoPicture
        <5>2. session.ctx = c
          BY <1>5, <5>1 DEF Decoding, Pictures
        <5> QED BY <4>1, <5>2 DEF Absent, Decoding
      <4> QED BY <4>2, <4>3 DEF InRing
    <3> QED BY <3>1, <3>2
  <2>4. ~ InRing(s)'
    BY <1>2, <2>3 DEF KeepsRing, InRing, SliceOf, IsSlice
  <2>5. ~ Decoding(s)'
    BY <1>1, <2>3 DEF Decoding
  <2>6. srfStamp'[s] <= timeStamp'[c]
    <3>1. /\ srfStamp[s] \in Nat /\ timeStamp[c] \in Nat /\ curTimeStamp[c] \in Nat
          /\ timeStamp[c] < curTimeStamp[c] /\ srfStamp[s] <= timeStamp[c]
      BY <1>5 DEF SessionTypeOK, StampInv, DoneFor
    <3> QED BY <1>1, <3>1 DEF srfVars
  <2>7. s \notin needsSync' /\ s \notin dropped' => ~ Buffered(s)'
    <3>1. s \notin needsSync /\ s \notin dropped => ~ Buffered(s)
      BY UndecodedIs DEF DoneFor
    <3> QED BY <1>1, <1>3, <3>1 DEF srfVars
  <2> QED BY <1>5, <2>4, <2>5, <2>6, <2>7, DoneAbsent
<1> QED BY <1>4, <1>5

(* The surface whose picture is begun needs a sync, and each that is a     *)
(* reference needs none any more.                                          *)
LEMMA BeginPictureDone ==
  ASSUME SessionTypeOK, HoldInv, NEW c \in Contexts, NEW refs \in References(c),
         BeginPicture(c, refs), NEW s \in Surfaces, DoneFor(s)
  PROVE  DoneFor(s)'
<1>1. PICK b \in Pictures :
        /\ b.ctx = c /\ b.srf = target[c]
        /\ \A m \in Luma : /\ b.want[m] = Current(c, m)
                           /\ m \notin b.load => m \in loaded[c] /\ hadLast[c]
        /\ \A d \in Contexts : buffer'[d] = IF d = c THEN <<b>> ELSE buffer[d]
  BY BeginPictureDoes
<1>2. /\ pc[c] = "picture" /\ holder = c /\ target[c] \in Surfaces
      /\ \A d \in Contexts :
           /\ pc'[d] = IF d = c THEN "idle" ELSE pc[d]
           /\ rendSurf'[d] = IF d = c THEN target[c] ELSE rendSurf[d]
      /\ needsSync' = (needsSync \ refs) \cup {target[c]}
      /\ dropped' = (dropped \cup (refs \cap needsSync)) \ {target[c]}
      /\ UNCHANGED <<holder, timeStamp, srfStamp, ring, session, busy>>
  BY BeginPictureDoes DEF lockVars, hwVars
<1>t. Owner[s] \in Contexts /\ (target[c] = s => Owner[s] = c) /\ ring \in Seq(Commands)
  BY <1>2, SessionAssumption DEF SessionTypeOK
<1>3. b.op = "begin" /\ Len(<<b>>) = 1 /\ <<b>>[1] = b /\ <<b>> # <<>>
  BY DEF Pictures
<1>4. CASE s = target[c]
  <2>1. Rendering(c, s)' /\ s \in needsSync'
    BY <1>2, <1>4 DEF Rendering
  <2>2. srfStamp'[s] <= timeStamp'[c]
    BY <1>2, <1>4, <1>t DEF DoneFor
  <2> QED BY <1>4, <1>t, <2>1, <2>2, DoneRendering
<1>5. CASE s # target[c]
  <2>1. KeepsRing(s)
    BY <1>2, <1>t, LenProperties DEF KeepsRing
  <2>2. Rendering(Owner[s], s) => Rendering(Owner[s], s)'
    BY <1>2, <1>t DEF Rendering
  <2>3. CASE Owner[s] = c
    <3>1. BeginFirst(c)' /\ ~ Buffered(s)'
      BY <1>1, <1>3, <2>3 DEF BeginFirst, Buffered
    <3> QED BY <1>2, <1>5, <2>1, <2>2, <2>3, <3>1, DoneKept
  <2>4. CASE Owner[s] # c
    <3>1. (BeginFirst(Owner[s])' <=> BeginFirst(Owner[s])) /\ (Buffered(s)' <=> Buffered(s))
      BY <1>1, <1>t, <2>4 DEF BeginFirst, Buffered
    <3> QED BY <1>2, <1>5, <1>t, <2>1, <2>2, <2>4, <3>1, DoneKept
  <2> QED BY <2>3, <2>4
<1> QED BY <1>4, <1>5

(* A slice goes into the surface that is being rendered, which needs a     *)
(* sync.                                                                   *)
LEMMA PutSliceDone ==
  ASSUME Orderly, SessionTypeOK, HolderKnows, HoldInv, StampInv, QueueInv,
         NEW c \in Contexts, PutSlice(c), NEW s \in Surfaces, Tidy(Owner[s]), DoneFor(s)
  PROVE  DoneFor(s)'
<1>1. /\ pc[c] = "idle" /\ holder = c /\ target[c] \in Surfaces
      /\ UNCHANGED <<holder, pc, rendSurf, timeStamp, needsSync, srfStamp, dropped, session,
                     busy>>
  BY PutSliceDoes, OrderlyMeans DEF lockVars, callVars, ctxVars, srfVars, hwVars
<1>t. /\ Owner[s] \in Contexts /\ (target[c] = s => Owner[s] = c) /\ ring \in Seq(Commands)
      /\ NoSrf \notin Surfaces
  BY <1>1, SessionAssumption DEF SessionTypeOK
<1>2. CASE s = target[c]
  <2>1. rendSurf[c] = s /\ s \in needsSync
    BY <1>1, <1>2, <1>t DEF HolderKnows, HoldInv, Tidy
  <2>2. Rendering(c, s)' /\ s \in needsSync'
    BY <1>1, <2>1 DEF Rendering
  <2>3. srfStamp'[s] <= timeStamp'[c]
    BY <1>1, <1>2, <1>t DEF DoneFor
  <2> QED BY <1>2, <1>t, <2>2, <2>3, DoneRendering
<1>3. ASSUME s # target[c],
             \A d \in Contexts :
               buffer'[d] = IF d = c THEN Append(buffer[c], Slice(c)) ELSE buffer[d],
             UNCHANGED ring
      PROVE  DoneFor(s)'
  <2>1. KeepsRing(s)
    BY <1>3, <1>t, LenProperties DEF KeepsRing
  <2>2. Rendering(Owner[s], s)' <=> Rendering(Owner[s], s)
    BY <1>1 DEF Rendering
  <2>3. CASE Owner[s] # c
    <3>1. (BeginFirst(Owner[s])' <=> BeginFirst(Owner[s])) /\ (Buffered(s)' <=> Buffered(s))
      BY <1>3, <1>t, <2>3 DEF BeginFirst, Buffered
    <3> QED BY <1>1, <2>1, <2>2, <3>1, DoneKept
  <2>4. CASE Owner[s] = c
    <3>1. target[c] # NoSrf
      BY <1>1, <1>t
    <3>2. buffer[c] \in Seq(Commands) /\ Slice(c) \in Commands
      BY <3>1, CommandsOK DEF SessionTypeOK
    <3>3. /\ Append(buffer[c], Slice(c)) # <<>> /\ Len(buffer[c]) \in Nat
          /\ Len(Append(buffer[c], Slice(c))) = Len(buffer[c]) + 1
          /\ Append(buffer[c], Slice(c))[Len(buffer[c]) + 1] = Slice(c)
          /\ \A i \in 1..Len(buffer[c]) : Append(buffer[c], Slice(c))[i] = buffer[c][i]
          /\ buffer[c] = <<>> <=> Len(buffer[c]) = 0
      BY <3>2, Appended, EmptySeq
    <3>4. Slice(c).op = "slice" /\ Slice(c).srf = target[c]
      BY DEF Slice
    <3>5. Buffered(s)' => Buffered(s)
      <4> SUFFICES ASSUME Buffered(s)' PROVE Buffered(s)
        OBVIOUS
      <4>1. PICK i \in 1..(Len(buffer[c]) + 1) :
              /\ Append(buffer[c], Slice(c))[i].op = "slice"
              /\ Append(buffer[c], Slice(c))[i].srf = s
        BY <1>3, <2>4, <3>3 DEF Buffered
      <4>2. i # Len(buffer[c]) + 1
        BY <1>3, <3>3, <3>4, <4>1
      <4>3. i \in 1..Len(buffer[c])
        BY <3>3, <4>1, <4>2
      <4> QED BY <2>4, <3>3, <4>1, <4>3 DEF Buffered
    <3>6. BeginFirst(c) => BeginFirst(c)'
      <4> SUFFICES ASSUME BeginFirst(c) PROVE BeginFirst(c)'
        OBVIOUS
      <4>1. 1 \in 1..Len(buffer[c])
        BY <3>3 DEF BeginFirst
      <4> QED BY <1>3, <3>3, <4>1 DEF BeginFirst
    <3> QED BY <1>1, <2>1, <2>2, <2>4, <3>5, <3>6, DoneKept
  <2> QED BY <2>3, <2>4
<1>4. ASSUME s # target[c], Grown(buffer[c]), buffer[c] # <<>> => Waited(c),
             \A d \in Contexts : buffer'[d] = IF d = c THEN <<>> ELSE buffer[d]
      PROVE  DoneFor(s)'
  <2>1. KeepsRing(s)
    BY <1>4, CallAdds, AddsKeeps
  <2>2. Rendering(Owner[s], s)' <=> Rendering(Owner[s], s)
    BY <1>1 DEF Rendering
  <2>3. CASE Owner[s] # c
    <3>1. (BeginFirst(Owner[s])' <=> BeginFirst(Owner[s])) /\ (Buffered(s)' <=> Buffered(s))
      BY <1>4, <1>t, <2>3 DEF BeginFirst, Buffered
    <3> QED BY <1>1, <2>1, <2>2, <3>1, DoneKept
  <2>4. CASE Owner[s] = c
    <3>1. ~ Buffered(s)'
      BY <1>4, <2>4, EmptySeq DEF Buffered
    <3>2. CASE BeginFirst(c)
      <4>1. Clear
        BY <1>4, <3>2, NothingLeft DEF BeginFirst
      <4>2. ~ InRing(s)'
        BY <2>1, <4>1 DEF Clear, KeepsRing, InRing, SliceOf, IsSlice
      <4>3. ~ Decoding(s)'
        BY <1>1, <4>1 DEF Clear, Decoding
      <4>4. srfStamp'[s] <= timeStamp'[Owner[s]]
        BY <1>1 DEF DoneFor
      <4> QED BY <3>1, <4>2, <4>3, <4>4, DoneAbsent
    <3>3. CASE ~ BeginFirst(c)
      BY <1>1, <2>1, <2>2, <2>4, <3>1, <3>3, DoneKept
    <3> QED BY <3>2, <3>3
  <2> QED BY <2>3, <2>4
<1> QED BY <1>2, <1>3, <1>4, PutSliceDoes, OrderlyMeans

(* The stamp of a flush is behind all of the surface, and nothing of the   *)
(* other surfaces of a tidy client is left.                                *)
LEMMA FlushSurfaceDone ==
  ASSUME Orderly, SessionTypeOK, HoldInv, StampInv, QueueInv, NEW c \in Contexts,
         NEW r \in Surfaces, FlushSurface(c, r), NEW s \in Surfaces, Tidy(Owner[s]),
         DoneFor(s)
  PROVE  DoneFor(s)'
<1> DEFINE st == r \in needsSync
<1>1. /\ pc[c] = "idle" /\ Owner[r] = c /\ ("reflush" \in Features[c] \/ rendSurf[c] = r)
      /\ Grown(Flushed(c, r)) /\ (Flushed(c, r) # <<>> => Waited(c))
      /\ \A d \in Contexts :
           /\ buffer'[d] = IF d = c THEN <<>> ELSE buffer[d]
           /\ timeStamp'[d] = IF d = c /\ st THEN curTimeStamp[c] ELSE timeStamp[d]
      /\ \A q \in Surfaces :
           srfStamp'[q] = IF q = r /\ st THEN curTimeStamp[c] ELSE srfStamp[q]
      /\ holder' = IF holder = c /\ rendSurf[c] = r THEN NoCtx ELSE holder
      /\ UNCHANGED <<pc, rendSurf, needsSync, dropped, session, busy>>
  BY FlushSurfaceDoes, OrderlyMeans DEF callVars, hwVars
<1>2. Adds(c, st)
  BY <1>1, CallAdds
<1>3. buffer[c] # <<>> => Waited(c)
  BY <1>1, FlushedShape
<1>s. st \in BOOLEAN /\ (st <=> r \in needsSync)
  OBVIOUS
<1> HIDE DEF st
<1>t. /\ Owner[s] \in Contexts /\ NoCtx \notin Contexts /\ NoSrf \notin Surfaces
      /\ srfStamp[s] \in Nat /\ timeStamp[c] \in Nat /\ curTimeStamp[c] \in Nat
      /\ timeStamp[c] < curTimeStamp[c]
      /\ Len(<<>>) = 0
  BY SessionAssumption, EmptySeq DEF SessionTypeOK, StampInv
<1>4. CASE Owner[s] # c
  <2>1. KeepsRing(s)
    BY <1>2, <1>4, <1>s, AddsKeeps
  <2>2. Rendering(Owner[s], s) => Rendering(Owner[s], s)'
    BY <1>1, <1>4 DEF Rendering
  <2>3. (BeginFirst(Owner[s])' <=> BeginFirst(Owner[s])) /\ (Buffered(s)' <=> Buffered(s))
    BY <1>1, <1>4, <1>t DEF BeginFirst, Buffered
  <2>4. srfStamp'[s] = srfStamp[s] /\ timeStamp'[Owner[s]] = timeStamp[Owner[s]]
    BY <1>1, <1>4, <1>t
  <2> QED BY <1>1, <2>1, <2>2, <2>3, <2>4, DoneKept
<1>5. ASSUME Owner[s] = c
      PROVE  /\ rendSurf[c] = r /\ ~ Buffered(s)' /\ ~ BeginFirst(c)'
             /\ holder = c => target[c] = r /\ st
  <2>1. rendSurf[c] = r
    BY <1>1, <1>5 DEF Tidy
  <2>2. holder = c => target[c] = r /\ st
    BY <1>1, <1>s, <1>t, <2>1 DEF HoldInv
  <2> QED BY <1>1, <1>5, <1>t, <2>1, <2>2 DEF Buffered, BeginFirst
<1>6. CASE Owner[s] = c /\ ~ st
  <2>1. holder # c /\ buffer[c] = <<>>
    BY <1>5, <1>6 DEF HoldInv
  <2>2. KeepsRing(s)
    BY <1>2, <1>s, <2>1, AddsKeeps
  <2>3. ~ Rendering(c, s) /\ ~ BeginFirst(c)
    BY <2>1 DEF Rendering, BeginFirst
  <2>4. srfStamp'[s] = srfStamp[s] /\ timeStamp'[c] = timeStamp[c]
    BY <1>1, <1>6
  <2> QED BY <1>1, <1>5, <1>6, <2>2, <2>3, <2>4, DoneKept
<1>7. CASE Owner[s] = c /\ st /\ s = r
  <2>1. srfStamp'[s] = curTimeStamp[c] /\ timeStamp'[c] = curTimeStamp[c]
    BY <1>1, <1>7
  <2>2. /\ Len(ring') \in Nat /\ ring'[Len(ring')].op = "stamp"
        /\ ring'[Len(ring')].ctx = c /\ ring'[Len(ring')].ts = curTimeStamp[c]
    BY <1>2, <1>7 DEF Adds, StampCmd
  <2>3. ASSUME NEW i \in 1..Len(ring'), SliceOf(i, s)'
        PROVE  \E j \in (i + 1)..Len(ring') : StampOf(j, c)' /\ ring'[j].ts <= srfStamp'[s]
    <3>1. i # Len(ring')
      BY <2>2, <2>3 DEF SliceOf, IsSlice
    <3>2. Len(ring') \in (i + 1)..Len(ring')
      BY <2>2, <3>1
    <3> QED BY <1>t, <2>1, <2>2, <3>2 DEF StampOf
  <2>4. rendSurf'[c] = s /\ s \in needsSync'
    BY <1>1, <1>5, <1>7, <1>s
  <2>5. srfStamp'[s] > 0 /\ srfStamp'[s] <= timeStamp'[c] /\ srfStamp'[s] = timeStamp'[c]
    BY <1>t, <2>1
  <2> QED BY <1>7, <2>3, <2>4, <2>5 DEF DoneFor
<1>8. CASE Owner[s] = c /\ st /\ s # r
  <2>1. KeepsRing(s)
    <3>1. target[c] # s \/ buffer[c] = <<>>
      BY <1>5, <1>8 DEF HoldInv
    <3> QED BY <1>2, <1>s, <3>1, AddsKeeps
  <2>2. ~ InRing(s) /\ ~ Decoding(s)
    <3>1. CASE BeginFirst(c)
      <4>1. Clear
        BY <1>3, <3>1, NothingLeft DEF BeginFirst
      <4> QED BY <4>1 DEF Clear, InRing, SliceOf, Decoding
    <3>2. CASE ~ BeginFirst(c)
      <4>1. rendSurf[c] \notin {s, NoSrf}
        BY <1>5, <1>8, <1>t
      <4> QED BY <1>1, <1>8, <3>2, <4>1 DEF DoneFor, InRing
    <3> QED BY <3>1, <3>2
  <2>3. ~ InRing(s)'
    BY <2>1, <2>2 DEF KeepsRing, InRing, SliceOf, IsSlice
  <2>4. ~ Decoding(s)'
    BY <1>1, <2>2 DEF Decoding
  <2>5. srfStamp'[s] <= timeStamp'[c]
    <3>1. srfStamp[s] <= timeStamp[c]
      BY <1>8 DEF DoneFor
    <3>2. srfStamp'[s] = srfStamp[s] /\ timeStamp'[c] = curTimeStamp[c]
      BY <1>1, <1>8
    <3> QED BY <1>t, <3>1, <3>2
  <2> QED BY <1>5, <1>8, <2>3, <2>4, <2>5, DoneAbsent
<1> QED BY <1>4, <1>6, <1>7, <1>8

(* A sync of a surface its client has flushed waits until all of it is     *)
(* decoded: for its stamp, and for an idle decoder unless another picture  *)
(* of the context has been flushed since.                                  *)
LEMMA SyncSurfaceDone ==
  ASSUME Orderly, SessionTypeOK, HolderKnows, HoldInv, StampInv, NEW c \in Contexts,
         NEW r \in Surfaces, SyncSurface(c, r), NEW s \in Surfaces, Tidy(Owner[s]),
         DoneFor(s)
  PROVE  DoneFor(s)'
<1>1. /\ pc[c] = "idle" /\ Owner[r] = c
      /\ "early" \in Features[c] \/ ~ (haveDecoder[c] /\ rendSurf[c] = r)
      /\ r \in needsSync => Synced(c, r)
      /\ needsSync' = needsSync \ {r}
      /\ \A d \in Contexts :
           rendSurf'[d] = IF d = c /\ rendSurf[c] = r THEN NoSrf ELSE rendSurf[d]
      /\ UNCHANGED <<holder, pc, timeStamp, buffer, srfStamp, dropped, ring, session, busy>>
  BY DEF SyncSurface, SessionTypeOK, lockVars, callVars, lowVars, hwVars
<1>t. /\ Owner[s] \in Contexts /\ NoSrf \notin Surfaces /\ ring \in Seq(Commands)
      /\ srfStamp[s] \in Nat /\ \A d \in Contexts : tsP[d] \in Nat
  BY SessionAssumption DEF SessionTypeOK
<1>2. KeepsRing(s)
  BY <1>1, <1>t, LenProperties DEF KeepsRing
<1>3. (BeginFirst(Owner[s])' <=> BeginFirst(Owner[s])) /\ (Buffered(s)' <=> Buffered(s))
  BY <1>1 DEF BeginFirst, Buffered
<1>4. CASE s # r
  <2>1. Rendering(Owner[s], s) => Rendering(Owner[s], s)'
    BY <1>1, <1>4, <1>t DEF Rendering
  <2> QED BY <1>1, <1>2, <1>3, <1>4, <1>t, <2>1, DoneKept
<1>5. CASE s = r
  <2>1. Owner[s] = c /\ ~ (haveDecoder[c] /\ rendSurf[c] = s)
    BY <1>1, <1>5 DEF Tidy
  <2>2. ~ Rendering(c, s)
    BY <2>1 DEF Rendering, HolderKnows
  <2>3. CASE s \notin needsSync
    BY <1>1, <1>2, <1>3, <2>1, <2>2, <2>3, DoneKept
  <2>4. CASE s \in needsSync
    <3>1. tsP[c] >= srfStamp[s] /\ (srfStamp[s] < timeStamp[c] \/ ~ busy)
      <4>1. Synced(c, s) /\ "junk" \notin Features[c]
        BY <1>1, <1>5, <2>4 DEF Orderly
      <4> QED BY <4>1 DEF Synced, Passed
    <3>2. ASSUME NEW i \in 1..Len(ring), SliceOf(i, s) PROVE FALSE
      <4>1. PICK j \in (i + 1)..Len(ring) : StampOf(j, c) /\ ring[j].ts <= srfStamp[s]
        BY <2>1, <2>2, <3>2 DEF DoneFor
      <4>2. j \in 1..Len(ring)
        BY <4>1
      <4>3. tsP[c] < ring[j].ts
        BY <4>1, <4>2 DEF StampInv
      <4>4. ring[j] \in Commands
        BY <4>2, ElementOfSeq DEF SessionTypeOK
      <4>5. ring[j].ts \in Nat
        BY <4>1, <4>4 DEF StampOf, Commands, Stamps, Pictures, Slices
      <4> QED BY <1>t, <3>1, <4>1, <4>3, <4>5
    <3>3. ~ Decoding(s)
      <4> SUFFICES ASSUME Decoding(s) PROVE FALSE
        OBVIOUS
      <4>1. srfStamp[s] = timeStamp[c] /\ busy
        BY <2>1, <2>2 DEF DoneFor, Decoding
      <4> QED BY <1>t, <3>1, <4>1
    <3>4. ~ Buffered(s)
      <4> SUFFICES ASSUME Buffered(s) PROVE FALSE
        OBVIOUS
      <4>1. PICK i \in 1..Len(buffer[c]) : buffer[c][i].op = "slice" /\ buffer[c][i].srf = s
        BY <2>1 DEF Buffered
      <4>2. target[c] = s /\ buffer[c] # <<>>
        BY <4>1, EmptySeq DEF HoldInv
      <4>3. holder = c /\ pc[c] = "idle"
        BY <4>2 DEF HoldInv
      <4>4. rendSurf[c] # NoSrf
        BY <2>1, <4>3 DEF HolderKnows, Tidy
      <4>5. rendSurf[c] = target[c]
        BY <4>3, <4>4 DEF HoldInv
      <4> QED BY <2>2, <4>2, <4>3, <4>5 DEF Rendering
    <3>5. ~ InRing(s)' /\ ~ Decoding(s)' /\ ~ Buffered(s)'
      BY <1>1, <1>3, <3>2, <3>3, <3>4 DEF InRing, SliceOf, IsSlice, Decoding
    <3>6. srfStamp'[s] <= timeStamp'[c]
      BY <1>1, <2>1 DEF DoneFor
    <3> QED BY <2>1, <3>5, <3>6, DoneAbsent
  <2> QED BY <2>3, <2>4
<1> QED BY <1>4, <1>5

(* Loading matrices leaves every surface as it was.                        *)
LEMMA LoadQMatrixDone ==
  ASSUME SessionTypeOK, NEW c \in Contexts, NEW ms \in Loads(c), LoadQMatrix(c, ms),
         NEW s \in Surfaces, DoneFor(s)
  PROVE  DoneFor(s)'
<1>1. UNCHANGED <<holder, pc, rendSurf, timeStamp, buffer, srfVars, ring, session, busy>>
  BY DEF LoadQMatrix, lockVars, callVars, lowVars, hwVars
<1>2. KeepsRing(s)
  BY <1>1, LenProperties DEF KeepsRing, SessionTypeOK
<1>3. /\ BeginFirst(Owner[s])' <=> BeginFirst(Owner[s])
      /\ Buffered(s)' <=> Buffered(s)
      /\ Rendering(Owner[s], s)' <=> Rendering(Owner[s], s)
  BY <1>1 DEF BeginFirst, Buffered, Rendering
<1> QED BY <1>1, <1>2, <1>3, DoneKept DEF srfVars

(* The hardware decodes a slice of the picture it has begun.               *)
LEMMA HardwareDone ==
  ASSUME SessionTypeOK, OrderInv, StampInv, QueueInv, Hardware, NEW s \in Surfaces, DoneFor(s)
  PROVE  DoneFor(s)'
<1> DEFINE c == Owner[s]
<1>1. UNCHANGED <<holder, pc, rendSurf, timeStamp, buffer, needsSync, srfStamp, dropped>>
  BY HardwareDoes DEF lockVars, callVars, ctxVars, lowVars, srfVars
<1>2. /\ BeginFirst(c)' <=> BeginFirst(c)
      /\ Buffered(s)' <=> Buffered(s)
      /\ Rendering(c, s)' <=> Rendering(c, s)
  BY <1>1 DEF BeginFirst, Buffered, Rendering
<1>t. c \in Contexts /\ \A d \in Contexts : tsP[d] \in Nat
  BY SessionAssumption DEF SessionTypeOK
<1>3. ASSUME Decoding(s)' => Decoding(s) \/ InRing(s),
             InRing(s)' => InRing(s),
             \A i \in 1..Len(ring') : SliceOf(i, s)' /\ ~ Rendering(c, s)' =>
               \E j \in (i + 1)..Len(ring') : StampOf(j, c)' /\ ring'[j].ts <= srfStamp[s]
      PROVE  DoneFor(s)'
  <2>1. InRing(s) /\ ~ Rendering(c, s) => srfStamp[s] = timeStamp[c] /\ srfStamp[s] > 0
    <3> SUFFICES ASSUME NEW i \in 1..Len(ring), SliceOf(i, s), ~ Rendering(c, s)
                 PROVE  srfStamp[s] = timeStamp[c] /\ srfStamp[s] > 0
      BY DEF InRing
    <3>1. PICK j \in (i + 1)..Len(ring) : StampOf(j, c) /\ ring[j].ts <= srfStamp[s]
      BY DEF DoneFor
    <3>2. j \in 1..Len(ring)
      BY <3>1
    <3>3. tsP[c] < ring[j].ts /\ tsP[c] \in Nat
      BY <1>t, <3>1, <3>2 DEF StampInv
    <3>4. ring[j] \in Commands
      BY <3>2, ElementOfSeq DEF SessionTypeOK
    <3>5. ring[j].ts \in Nat /\ srfStamp[s] \in Nat
      BY <3>1, <3>4 DEF StampOf, Commands, Stamps, Pictures, Slices, SessionTypeOK
    <3>6. srfStamp[s] = timeStamp[c]
      BY DEF DoneFor
    <3> QED BY <3>1, <3>3, <3>5, <3>6
  <2>2. Decoding(s)' /\ ~ Rendering(c, s)' => srfStamp[s] = timeStamp[c] /\ srfStamp[s] > 0
    BY <1>2, <1>3, <2>1 DEF DoneFor
  <2>3. InRing(s)' /\ ~ Rendering(c, s)' => srfStamp[s] = timeStamp[c]
    BY <1>2, <1>3, <2>1
  <2>4. \A i \in 1..Len(ring') : SliceOf(i, s)' => InRing(s)'
    BY DEF InRing
  <2>5. pc[c] = "idle" /\ rendSurf[c] \notin {s, NoSrf} /\ ~ BeginFirst(c)
          => ~ Decoding(s)' /\ ~ InRing(s)'
    BY <1>3 DEF DoneFor, InRing
  <2>6. s \notin needsSync /\ s \notin dropped => ~ Undecoded(s)'
    BY <1>2, <1>3, UndecodedIs DEF DoneFor
  <2>7. srfStamp[s] <= timeStamp[c]
    BY DEF DoneFor
  <2> QED BY <1>1, <1>2, <1>3, <2>2, <2>3, <2>4, <2>5, <2>6, <2>7 DEF DoneFor
<1>4. CASE busy /\ ~ busy' /\ UNCHANGED <<ring, session>>
  <2>1. ~ Decoding(s)'
    BY <1>4 DEF Decoding
  <2>2. InRing(s)' <=> InRing(s)
    BY <1>4 DEF InRing, SliceOf, IsSlice
  <2>3. ASSUME NEW i \in 1..Len(ring'), SliceOf(i, s)', ~ Rendering(c, s)'
        PROVE  \E j \in (i + 1)..Len(ring') : StampOf(j, c)' /\ ring'[j].ts <= srfStamp[s]
    <3>1. SliceOf(i, s) /\ ~ Rendering(c, s) /\ ring' = ring
      BY <1>2, <1>4, <2>3 DEF SliceOf, IsSlice
    <3>2. \E j \in (i + 1)..Len(ring) : StampOf(j, c) /\ ring[j].ts <= srfStamp[s]
      BY <1>4, <3>1 DEF DoneFor
    <3> QED BY <3>1, <3>2 DEF StampOf
  <2> QED BY <1>3, <2>1, <2>2, <2>3
<1>5. ASSUME NEW op, Shrunk(op), Decoding(s)' => Decoding(s) \/ SliceOf(1, s)
      PROVE  DoneFor(s)'
  <2>t. /\ Len(ring') \in Nat /\ Len(ring) = Len(ring') + 1 /\ 1 \in 1..Len(ring)
        /\ \A i \in 1..Len(ring') : i + 1 \in 1..Len(ring) /\ ring'[i] = ring[i + 1]
    BY <1>5 DEF Shrunk
  <2>1. \A i \in 1..Len(ring') : SliceOf(i, s)' => SliceOf(i + 1, s)
    BY <2>t DEF SliceOf, IsSlice
  <2>2. InRing(s)' => InRing(s)
    BY <2>t, <2>1 DEF InRing
  <2>3. Decoding(s)' => Decoding(s) \/ InRing(s)
    BY <1>5, <2>t DEF InRing
  <2>4. ASSUME NEW i \in 1..Len(ring'), SliceOf(i, s)', ~ Rendering(c, s)'
        PROVE  \E j \in (i + 1)..Len(ring') : StampOf(j, c)' /\ ring'[j].ts <= srfStamp[s]
    <3>1. i + 1 \in 1..Len(ring) /\ SliceOf(i + 1, s) /\ ~ Rendering(c, s)
      BY <1>2, <2>t, <2>1, <2>4
    <3>2. PICK j \in ((i + 1) + 1)..Len(ring) : StampOf(j, c) /\ ring[j].ts <= srfStamp[s]
      BY <3>1 DEF DoneFor
    <3>3. j - 1 \in (i + 1)..Len(ring') /\ ring'[j - 1] = ring[j]
      <4>1. j - 1 \in (i + 1)..Len(ring') /\ j - 1 \in 1..Len(ring') /\ (j - 1) + 1 = j
        BY <2>t
      <4> QED BY <2>t, <4>1
    <3> QED BY <3>2, <3>3 DEF StampOf
  <2> QED BY <1>3, <2>2, <2>3, <2>4
<1>6. CASE Shrunk("stamp") /\ UNCHANGED <<session, busy>>
  BY <1>5, <1>6 DEF Decoding
<1>7. CASE Shrunk("begin") /\ busy' = busy
  <2>1. 1 \in 1..Len(ring) /\ ring[1].op = "begin"
    BY <1>7 DEF Shrunk
  <2>2. ~ busy
    BY <2>1 DEF QueueInv, BeginsClear
  <2> QED BY <1>5, <1>7, <2>2 DEF Decoding
<1>8. CASE Shrunk("slice") /\ session' = session
  <2>1. 1 \in 1..Len(ring) /\ ring[1].op = "slice"
    BY <1>8 DEF Shrunk
  <2>2. session.srf = ring[1].srf
    BY <2>1 DEF OrderInv, PicInv, InForce, NoBegin, PictureOf
  <2>3. Decoding(s)' => SliceOf(1, s)
    BY <1>8, <2>1, <2>2 DEF Decoding, SliceOf, IsSlice
  <2> QED BY <1>5, <1>8, <2>3
<1> QED BY <1>4, <1>6, <1>7, <1>8, HardwareDoes

(* Every step keeps it so.                                                 *)
LEMMA StepDoneInv ==
  ASSUME Orderly, QueuedInv, DoneInv, [Next]_vars
  PROVE  DoneInv'
<1>1. /\ SessionTypeOK /\ HolderKnows /\ HoldInv /\ OrderInv /\ StampInv /\ QueueInv
  BY DEF QueuedInv, ClientsInv
<1> SUFFICES ASSUME NEW s \in Surfaces, Tidy(Owner[s]) PROVE DoneFor(s)'
  BY DEF DoneInv, Tidy
<1>2. DoneFor(s)
  BY DEF DoneInv
<1>3. CASE UNCHANGED vars
  <2>1. UNCHANGED <<holder, pc, rendSurf, timeStamp, buffer, srfVars, ring, session, busy>>
    BY <1>3 DEF vars, lockVars, callVars, ctxVars, lowVars, hwVars
  <2>2. KeepsRing(s)
    BY <1>1, <2>1, LenProperties DEF KeepsRing, SessionTypeOK
  <2>3. /\ BeginFirst(Owner[s])' <=> BeginFirst(Owner[s])
        /\ Buffered(s)' <=> Buffered(s)
        /\ Rendering(Owner[s], s)' <=> Rendering(Owner[s], s)
    BY <2>1 DEF BeginFirst, Buffered, Rendering
  <2> QED BY <1>2, <2>1, <2>2, <2>3, DoneKept DEF srfVars
<1>4. CASE Hardware
  BY <1>1, <1>2, <1>4, HardwareDone
<1>5. ASSUME NEW c \in Contexts, Client(c) PROVE DoneFor(s)'
  BY <1>1, <1>2, <1>5, BeginSurfaceDone, BeginStampDone, BeginPictureDone, PutSliceDone,
     FlushSurfaceDone, SyncSurfaceDone, LoadQMatrixDone DEF Client
<1> QED BY <1>3, <1>4, <1>5 DEF Next

(* A surface whose sync has returned has been decoded completely, whatever *)
(* the other clients do, if its own client flushes a surface before it     *)
(* syncs it and flushes no other, and if all are orderly: the time stamps  *)
(* and the idle decoder a sync waits for are enough (SyncedIsDecoded).     *)
THEOREM SyncIsEnough == Orderly => (Spec => []SyncedIsDecoded)
<1> SUFFICES ASSUME Orderly PROVE Spec => []SyncedIsDecoded
  OBVIOUS
<1>1. Init => DoneInv
  <2> SUFFICES ASSUME Init, NEW s \in Surfaces PROVE DoneFor(s)
    BY DEF DoneInv
  <2>1. /\ Owner[s] \in Contexts /\ ring = <<>> /\ buffer[Owner[s]] = <<>> /\ ~ busy
        /\ Len(<<>>) = 0 /\ srfStamp[s] = 0 /\ timeStamp[Owner[s]] = 0
    BY SessionAssumption, EmptySeq DEF Init
  <2>2. \A i \in 1..Len(ring) : FALSE
    BY <2>1
  <2>3. \A i \in 1..Len(buffer[Owner[s]]) : FALSE
    BY <2>1
  <2>4. ~ Decoding(s) /\ ~ InRing(s) /\ ~ Buffered(s)
    BY <2>1, <2>2, <2>3 DEF Decoding, InRing, Buffered
  <2>5. ~ Undecoded(s)
    BY <2>4, UndecodedIs
  <2>6. srfStamp[s] <= timeStamp[Owner[s]]
    BY <2>1
  <2> QED BY <2>2, <2>4, <2>5, <2>6 DEF DoneFor
<1>2. QueuedInv /\ [Next]_vars => QueuedInv'
  BY StepQueuedInv
<1>3. QueuedInv /\ DoneInv /\ [Next]_vars => DoneInv'
  BY StepDoneInv
<1>4. DoneInv => SyncedIsDecoded
  BY DEF DoneInv, DoneFor, Tidy, SyncedIsDecoded
<1> QED BY <1>1, <1>2, <1>3, <1>4, InitQueuedInv, PTL DEF Spec
=============================================================================
