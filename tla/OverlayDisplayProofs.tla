------------------------ MODULE OverlayDisplayProofs ------------------------
(***************************************************************************)
(* Proofs about who has the overlay, for any number of XvMC contexts,      *)
(* surfaces, rectangles, attribute values and pending requests: which      *)
(* calls of the clients may meet without a flip into an overlay of         *)
(* somebody else, and what holds whatever they call.                       *)
(***************************************************************************)
EXTENDS OverlayDisplay, SequenceTheorems, TLAPS

-----------------------------------------------------------------------------
(* What a client may have asked of the server.                             *)
Updates == [cmd : {"DISPLAY", "FDISPLAY"}, ctx : Ctxs, srf : SrfNos,
            region : Regions, attrib : Values]
Hides == [cmd : {"UNDISPLAY"}, ctx : Ctxs, srf : SrfNos]
Settings == [cmd : {"ATTRIBUTES"}, ctx : Ctxs, attrib : Values]
Requests == Updates \cup Hides \cup Settings

ClientTypeOK ==
  /\ queue \in [Ctxs -> Seq(Requests)]
  /\ pc \in [Ctxs -> {"idle", "sync", "tail"}]
  /\ tgt \in [Ctxs -> SrfNos \cup {None}]
  /\ region \in [Ctxs -> Regions]
  /\ lastSrf \in [Ctxs -> SrfNos \cup {Unset}]
  /\ haveXv \in [Ctxs -> BOOLEAN] /\ attribChanged \in [Ctxs -> BOOLEAN]
  /\ attrib \in [Ctxs -> Values]

DisplayTypeOK ==
  /\ displaying \in SrfNos \cup {None, Xv} /\ subOn \in Ctxs \cup {None}
  /\ srfOwner \in [SrfNos -> Ctxs \cup {None}] /\ hasSub \subseteq SrfNos
  /\ addr \in SrfNos \cup {None, Xv} /\ shown \in SrfNos \cup {None, Xv}
  /\ ovOn \in BOOLEAN /\ hwAttr \in Values
  /\ ctxDisplaying \in Ctxs \cup {None, Xv}
  /\ xvAttr \in Values /\ newAttr \in BOOLEAN
  /\ ClientTypeOK

(* A context waits in at most one call: an update of the overlay is its    *)
(* last request, for the surface and the rectangles of the put it is in,   *)
(* whose surface is its own.                                               *)
IsUpdate(q) == q.cmd \in {"DISPLAY", "FDISPLAY"}
Waits(c) ==
  /\ \A i \in 1..Len(queue[c]) :
       /\ queue[c][i].ctx = c
       /\ IsUpdate(queue[c][i]) =>
            /\ i = Len(queue[c]) /\ pc[c] # "idle"
            /\ queue[c][i].srf = tgt[c] /\ queue[c][i].region = region[c]
            /\ queue[c][i].attrib = attrib[c]
       /\ queue[c][i].cmd = "UNDISPLAY" => "hide" \in Features
  /\ pc[c] # "idle" /\ queue[c] # <<>> => IsUpdate(queue[c][Len(queue[c])])
  /\ pc[c] # "idle" => tgt[c] \in SrfNos /\ srfOwner[tgt[c]] = c
QueueOK == \A c \in Ctxs : Waits(c)

DisplayInv == DisplayTypeOK /\ QueueOK

-----------------------------------------------------------------------------
(* A queue that grows by a request.                                        *)
LEMMA Asked ==
  ASSUME NEW s \in Seq(Requests), NEW q \in Requests
  PROVE  /\ Append(s, q) \in Seq(Requests) /\ Append(s, q) # <<>>
         /\ Len(s) \in Nat /\ Len(Append(s, q)) = Len(s) + 1
         /\ \A i \in 1..Len(s) + 1 : Append(s, q)[i] = IF i = Len(s) + 1 THEN q ELSE s[i]
OBVIOUS

(* A queue whose oldest request is handled.                                *)
LEMMA Handled ==
  ASSUME NEW s \in Seq(Requests), s # <<>>
  PROVE  /\ Tail(s) \in Seq(Requests) /\ Head(s) = s[1] /\ Head(s) \in Requests
         /\ Len(s) \in Nat \ {0} /\ Len(Tail(s)) = Len(s) - 1
         /\ \A i \in 1..Len(s) - 1 : Tail(s)[i] = s[i + 1]
         /\ Tail(s) = <<>> <=> Len(s) = 1
<1>1. /\ Tail(s) \in Seq(Requests) /\ Head(s) = s[1]
      /\ Len(s) \in Nat \ {0} /\ Len(Tail(s)) = Len(s) - 1
      /\ \A i \in 1..Len(s) - 1 : Tail(s)[i] = s[i + 1]
  OBVIOUS
<1>2. Head(s) \in Requests
  OBVIOUS
<1>3. Tail(s) = <<>> <=> Len(s) = 1
  BY <1>1, EmptySeq
<1>. QED
  BY <1>1, <1>2, <1>3

(* The commands tell what a request carries.                               *)
LEMMA Carried ==
  ASSUME NEW q \in Requests
  PROVE  /\ q.ctx \in Ctxs
         /\ q.cmd \in {"DISPLAY", "FDISPLAY", "UNDISPLAY", "ATTRIBUTES"}
         /\ IsUpdate(q) => q.srf \in SrfNos /\ q.region \in Regions /\ q.attrib \in Values
         /\ q.cmd = "UNDISPLAY" => q.srf \in SrfNos
         /\ q.cmd = "ATTRIBUTES" => q.attrib \in Values
BY DEF Requests, Updates, Hides, Settings, IsUpdate

(* A context that takes no step of its own waits as before.                *)
LEMMA OthersWait ==
  ASSUME NEW c, Waits(c),
         queue'[c] = queue[c], pc'[c] = pc[c], tgt'[c] = tgt[c], region'[c] = region[c],
         attrib'[c] = attrib[c],
         pc[c] # "idle" => srfOwner'[tgt[c]] = srfOwner[tgt[c]]
  PROVE  Waits(c)'
BY DEF Waits

(* The overlay update of a put: the context waits for it.                  *)
LEMMA CallDoes ==
  ASSUME ClientTypeOK, NEW c \in Ctxs, NEW n \in SrfNos, NEW r \in Regions,
         NEW where \in {"sync", "tail"}, CallServer(c, n, r, where)
  PROVE  LET q == UpdateRequest(c, n, r)
         IN  /\ q \in Requests /\ IsUpdate(q) /\ q.ctx = c /\ q.srf = n
             /\ q.region = r /\ q.attrib = attrib[c]
             /\ queue' \in [Ctxs -> Seq(Requests)]
             /\ \A d \in Ctxs : queue'[d] = IF d = c THEN Append(queue[c], q) ELSE queue[d]
             /\ pc' \in [Ctxs -> {"idle", "sync", "tail"}]
             /\ \A d \in Ctxs : pc'[d] = IF d = c THEN where ELSE pc[d]
             /\ haveXv' \in [Ctxs -> BOOLEAN] /\ attribChanged' \in [Ctxs -> BOOLEAN]
             /\ \A d \in Ctxs : haveXv'[d] <=> d = c \/ haveXv[d]
<1> DEFINE q == UpdateRequest(c, n, r)
<1>1. /\ q \in Updates /\ IsUpdate(q) /\ q.ctx = c /\ q.srf = n
      /\ q.region = r /\ q.attrib = attrib[c]
  BY DEF ClientTypeOK, UpdateRequest, Updates, IsUpdate
<1>2. q \in Requests
  BY <1>1 DEF Requests
<1> HIDE DEF q
<1>3. queue' = [queue EXCEPT ![c] = Append(queue[c], q)]
  BY DEF CallServer, q
<1>4. Append(queue[c], q) \in Seq(Requests)
  BY <1>2, Asked DEF ClientTypeOK
<1>5. /\ queue' \in [Ctxs -> Seq(Requests)]
      /\ \A d \in Ctxs : queue'[d] = IF d = c THEN Append(queue[c], q) ELSE queue[d]
  BY <1>3, <1>4 DEF ClientTypeOK
<1>6. /\ pc' \in [Ctxs -> {"idle", "sync", "tail"}]
      /\ \A d \in Ctxs : pc'[d] = IF d = c THEN where ELSE pc[d]
  BY DEF ClientTypeOK, CallServer
<1>7. /\ haveXv' \in [Ctxs -> BOOLEAN] /\ attribChanged' \in [Ctxs -> BOOLEAN]
      /\ \A d \in Ctxs : haveXv'[d] <=> d = c \/ haveXv[d]
  BY DEF ClientTypeOK, CallServer
<1>. QED
  BY <1>1, <1>2, <1>5, <1>6, <1>7 DEF q

(* A flip, with the update of a touched drawable.                          *)
LEMMA FlipDoes ==
  ASSUME ClientTypeOK, NEW c \in Ctxs, NEW n \in SrfNos, NEW r \in Regions,
         NEW touched \in BOOLEAN, FlipAndReturn(c, n, r, touched)
  PROVE  /\ subOn' = (IF n \in hasSub THEN c ELSE None) /\ shown' = addr'
         /\ \/ CallServer(c, n, r, "tail")
            \/ pc' = [pc EXCEPT ![c] = "idle"] /\ UNCHANGED <<queue, haveXv, attribChanged>>
<1>0. FlipLocked(c, n)
  BY DEF FlipAndReturn
<1>1. CASE touched
  <2>1. CallServer(c, n, r, "tail")
    BY <1>1 DEF FlipAndReturn
  <2>. QED
    BY <1>0, <2>1 DEF FlipLocked
<1>2. CASE ~ touched
  BY <1>2 DEF FlipAndReturn, FlipLocked
<1>. QED
  BY <1>1, <1>2

(* A context that asks for an update waits for that one.                   *)
LEMMA CallWaits ==
  ASSUME ClientTypeOK, NEW c \in Ctxs, NEW n \in SrfNos, NEW r \in Regions,
         NEW where \in {"sync", "tail"}, CallServer(c, n, r, where), Waits(c),
         pc[c] = "idle" \/ queue[c] = <<>>,
         tgt'[c] = n, region'[c] = r, UNCHANGED <<attrib, srfOwner>>, srfOwner[n] = c
  PROVE  Waits(c)'
<1> DEFINE q == UpdateRequest(c, n, r)
<1>0. /\ q \in Requests /\ IsUpdate(q) /\ q.ctx = c /\ q.srf = n
      /\ q.region = r /\ q.attrib = attrib[c]
      /\ \A d \in Ctxs : queue'[d] = IF d = c THEN Append(queue[c], q) ELSE queue[d]
      /\ \A d \in Ctxs : pc'[d] = IF d = c THEN where ELSE pc[d]
  BY CallDoes
<1> HIDE DEF q
<1>1. /\ q \in Requests /\ IsUpdate(q) /\ q.ctx = c /\ q.srf = n
      /\ q.region = r /\ q.attrib = attrib[c] /\ q.cmd # "UNDISPLAY"
      /\ queue'[c] = Append(queue[c], q) /\ pc'[c] = where
  BY <1>0 DEF IsUpdate
<1>2. /\ Append(queue[c], q) # <<>>
      /\ Len(queue[c]) \in Nat /\ Len(Append(queue[c], q)) = Len(queue[c]) + 1
      /\ \A i \in 1..Len(queue[c]) + 1 :
           Append(queue[c], q)[i] = IF i = Len(queue[c]) + 1 THEN q ELSE queue[c][i]
  BY <1>1, Asked DEF ClientTypeOK
<1>3. queue[c] = <<>> => Len(queue[c]) = 0
  BY EmptySeq
<1>4. ASSUME NEW i \in 1..Len(queue[c])
      PROVE  /\ queue[c][i].ctx = c /\ ~ IsUpdate(queue[c][i])
             /\ queue[c][i].cmd = "UNDISPLAY" => "hide" \in Features
  BY <1>2, <1>3 DEF Waits
<1>5. ASSUME NEW i \in 1..Len(queue'[c])
      PROVE  /\ queue'[c][i].ctx = c
             /\ IsUpdate(queue'[c][i]) =>
                  /\ i = Len(queue'[c]) /\ pc'[c] # "idle"
                  /\ queue'[c][i].srf = tgt'[c] /\ queue'[c][i].region = region'[c]
                  /\ queue'[c][i].attrib = attrib'[c]
             /\ queue'[c][i].cmd = "UNDISPLAY" => "hide" \in Features
  <2>1. CASE i = Len(queue[c]) + 1
    BY <1>1, <1>2, <2>1
  <2>2. CASE i # Len(queue[c]) + 1
    <3>1. i \in 1..Len(queue[c]) /\ queue'[c][i] = queue[c][i]
      BY <1>1, <1>2, <2>2
    <3>. QED
      BY <1>4, <3>1
  <2>. QED
    BY <2>1, <2>2
<1>6. IsUpdate(queue'[c][Len(queue'[c])])
  BY <1>1, <1>2
<1>. QED
  BY <1>5, <1>6 DEF Waits, IsUpdate

(* A request of another kind changes nothing for a context in no call.     *)
LEMMA AskWaits ==
  ASSUME ClientTypeOK, NEW c \in Ctxs, NEW q \in Requests, q.ctx = c, ~ IsUpdate(q),
         q.cmd = "UNDISPLAY" => "hide" \in Features,
         queue'[c] = Append(queue[c], q), Waits(c), pc[c] = "idle", pc'[c] = "idle"
  PROVE  Waits(c)'
<1>1. /\ Len(queue[c]) \in Nat /\ Len(queue'[c]) = Len(queue[c]) + 1
      /\ \A i \in 1..Len(queue[c]) + 1 :
           queue'[c][i] = IF i = Len(queue[c]) + 1 THEN q ELSE queue[c][i]
  BY Asked DEF ClientTypeOK
<1>2. ASSUME NEW i \in 1..Len(queue'[c])
      PROVE  /\ queue'[c][i].ctx = c /\ ~ IsUpdate(queue'[c][i])
             /\ queue'[c][i].cmd = "UNDISPLAY" => "hide" \in Features
  <2>1. CASE i = Len(queue[c]) + 1
    BY <1>1, <2>1
  <2>2. CASE i # Len(queue[c]) + 1
    <3>1. i \in 1..Len(queue[c]) /\ queue'[c][i] = queue[c][i]
      BY <1>1, <2>2
    <3>. QED
      BY <3>1 DEF Waits
  <2>. QED
    BY <2>1, <2>2
<1>. QED
  BY <1>2 DEF Waits, IsUpdate

(* When the server has handled a request the context waits for the rest.   *)
LEMMA TailWaits ==
  ASSUME ClientTypeOK, NEW c \in Ctxs, queue[c] # <<>>, queue'[c] = Tail(queue[c]),
         Waits(c), UNCHANGED <<pc, tgt, region, attrib, srfOwner>>
  PROVE  Waits(c)'
<1>1. /\ Len(queue[c]) \in Nat \ {0} /\ Len(queue'[c]) = Len(queue[c]) - 1
      /\ \A i \in 1..Len(queue[c]) - 1 : queue'[c][i] = queue[c][i + 1]
      /\ queue'[c] = <<>> <=> Len(queue[c]) = 1
  BY Handled DEF ClientTypeOK
<1>2. ASSUME NEW i \in 1..Len(queue'[c])
      PROVE  /\ queue'[c][i].ctx = c
             /\ IsUpdate(queue'[c][i]) =>
                  /\ i = Len(queue'[c]) /\ pc[c] # "idle"
                  /\ queue'[c][i].srf = tgt[c] /\ queue'[c][i].region = region[c]
                  /\ queue'[c][i].attrib = attrib[c]
             /\ queue'[c][i].cmd = "UNDISPLAY" => "hide" \in Features
  <2>1. i + 1 \in 1..Len(queue[c]) /\ queue'[c][i] = queue[c][i + 1]
    BY <1>1
  <2>2. i + 1 = Len(queue[c]) => i = Len(queue'[c])
    BY <1>1
  <2>. QED
    BY <2>1, <2>2 DEF Waits
<1>3. queue'[c] # <<>> => queue'[c][Len(queue'[c])] = queue[c][Len(queue[c])]
  BY <1>1
<1>4. pc[c] # "idle" /\ queue'[c] # <<>> => IsUpdate(queue'[c][Len(queue'[c])])
  BY <1>3 DEF Waits
<1>5. pc[c] # "idle" => tgt[c] \in SrfNos /\ srfOwner[tgt[c]] = c
  BY DEF Waits
<1>. QED
  BY <1>2, <1>4, <1>5 DEF Waits, IsUpdate

-----------------------------------------------------------------------------
(* What the steps of a client do to it, and to the others: nothing.        *)
OthersStay(c) ==
  \A d \in Ctxs : d # c =>
    /\ queue'[d] = queue[d] /\ pc'[d] = pc[d] /\ tgt'[d] = tgt[d]
    /\ region'[d] = region[d] /\ lastSrf'[d] = lastSrf[d]
    /\ (haveXv'[d] <=> haveXv[d]) /\ attrib'[d] = attrib[d]

(* The ways in which a context goes on with a put: it calls the server and *)
(* waits, or it has flipped and calls the server or not.                   *)
Waiting(c, n, r) ==
  CallServer(c, n, r, "sync") /\ UNCHANGED <<subOn, shown>>
Flipped(c, n, r) ==
  /\ subOn' = (IF n \in hasSub THEN c ELSE None) /\ shown' = addr'
  /\ \/ CallServer(c, n, r, "tail")
     \/ pc' = [pc EXCEPT ![c] = "idle"] /\ UNCHANGED <<queue, haveXv, attribChanged>>

(* Either way its types are kept, and those of the other contexts.         *)
LEMMA GoesOn ==
  ASSUME DisplayInv, NEW c \in Ctxs, NEW n \in SrfNos, NEW r \in Regions,
         Waiting(c, n, r) \/ Flipped(c, n, r),
         pc[c] = "idle" \/ queue[c] = <<>>, srfOwner[n] = c,
         tgt' \in [Ctxs -> SrfNos \cup {None}], region' \in [Ctxs -> Regions],
         lastSrf' \in [Ctxs -> SrfNos \cup {Unset}],
         tgt'[c] = n, region'[c] = r, UNCHANGED <<attrib, srfOwner>>,
         \A d \in Ctxs : d # c => /\ tgt'[d] = tgt[d] /\ region'[d] = region[d]
                                  /\ lastSrf'[d] = lastSrf[d]
  PROVE  ClientTypeOK' /\ QueueOK' /\ OthersStay(c)
<1>0. ClientTypeOK /\ Waits(c)
  BY DEF DisplayInv, DisplayTypeOK, QueueOK
<1>1. ASSUME NEW where \in {"sync", "tail"}, CallServer(c, n, r, where)
      PROVE  ClientTypeOK' /\ Waits(c)' /\ OthersStay(c)
  <2>1. /\ queue' \in [Ctxs -> Seq(Requests)]
        /\ \A d \in Ctxs : d # c => queue'[d] = queue[d]
        /\ pc' \in [Ctxs -> {"idle", "sync", "tail"}]
        /\ \A d \in Ctxs : d # c => pc'[d] = pc[d]
        /\ haveXv' \in [Ctxs -> BOOLEAN] /\ attribChanged' \in [Ctxs -> BOOLEAN]
        /\ \A d \in Ctxs : d # c => (haveXv'[d] <=> haveXv[d])
    BY <1>0, <1>1, CallDoes
  <2>2. ClientTypeOK'
    BY <1>0, <2>1 DEF ClientTypeOK
  <2>3. Waits(c)'
    BY <1>0, <1>1, CallWaits
  <2>4. OthersStay(c)
    BY <2>1 DEF OthersStay
  <2>. QED
    BY <2>2, <2>3, <2>4
<1>2. ASSUME pc' = [pc EXCEPT ![c] = "idle"] /\ UNCHANGED <<queue, haveXv, attribChanged>>
      PROVE  ClientTypeOK' /\ Waits(c)' /\ OthersStay(c)
  <2>1. /\ pc' \in [Ctxs -> {"idle", "sync", "tail"}] /\ pc'[c] = "idle"
        /\ \A d \in Ctxs : d # c => pc'[d] = pc[d]
    BY <1>0, <1>2 DEF ClientTypeOK
  <2>2. ClientTypeOK' /\ OthersStay(c)
    BY <1>0, <1>2, <2>1 DEF ClientTypeOK, OthersStay
  <2>3. queue[c] = <<>> => Len(queue[c]) = 0
    BY EmptySeq
  <2>4. Len(queue[c]) \in Nat
    BY <1>0, LenProperties DEF ClientTypeOK
  <2>5. \A i \in 1..Len(queue[c]) : ~ IsUpdate(queue[c][i])
    BY <1>0, <2>3, <2>4 DEF Waits
  <2>6. Waits(c)'
    BY <1>0, <1>2, <2>1, <2>5 DEF Waits, IsUpdate
  <2>. QED
    BY <2>2, <2>6
<1>3. ClientTypeOK' /\ Waits(c)' /\ OthersStay(c)
  BY <1>1, <1>2 DEF Waiting, Flipped
<1>4. ASSUME NEW d \in Ctxs, d # c PROVE Waits(d)'
  <2>1. Waits(d)
    BY DEF DisplayInv, QueueOK
  <2>. QED
    BY <1>3, <1>4, <2>1, OthersWait DEF OthersStay
<1>. QED
  BY <1>3, <1>4 DEF QueueOK

(* XvMCPutSurface up to the release of the lock.                           *)
LEMMA PutSurfaceDoes ==
  ASSUME DisplayInv, NEW c \in Ctxs, NEW n \in SrfNos, NEW r \in Regions,
         NEW touched \in BOOLEAN, PutSurface(c, n, r, touched)
  PROVE  /\ DisplayInv' /\ OthersStay(c)
         /\ pc[c] = "idle" /\ srfOwner[n] = c
         /\ displaying' = n /\ addr' = n /\ tgt'[c] = n /\ lastSrf'[c] = n /\ region'[c] = r
         /\ UNCHANGED <<hasSub, ovOn, ovFor, hwAttr, serverVars, attrib>>
         /\ IF lastSrf[c] # displaying \/ r # region[c]
              THEN Waiting(c, n, r) ELSE Flipped(c, n, r)
<1>1. /\ pc[c] = "idle" /\ srfOwner[n] = c
      /\ displaying' = n /\ addr' = n
      /\ UNCHANGED <<hasSub, ovOn, ovFor, hwAttr, serverVars, attrib>>
  BY DEF PutSurface, Callable, Callable
<1>2. /\ tgt' \in [Ctxs -> SrfNos \cup {None}] /\ region' \in [Ctxs -> Regions]
      /\ lastSrf' \in [Ctxs -> SrfNos \cup {Unset}]
      /\ tgt'[c] = n /\ lastSrf'[c] = n /\ region'[c] = r
      /\ \A d \in Ctxs : d # c => /\ tgt'[d] = tgt[d] /\ region'[d] = region[d]
                                  /\ lastSrf'[d] = lastSrf[d]
  BY DEF PutSurface, Callable, DisplayInv, DisplayTypeOK, ClientTypeOK
<1>3. IF lastSrf[c] # displaying \/ r # region[c]
        THEN Waiting(c, n, r) ELSE Flipped(c, n, r)
  <2>1. CASE lastSrf[c] # displaying \/ r # region[c]
    BY <2>1 DEF PutSurface, Callable, Waiting
  <2>2. CASE ~ (lastSrf[c] # displaying \/ r # region[c])
    <3>1. FlipAndReturn(c, n, r, touched)
      BY <2>2 DEF PutSurface, Callable, Callable
    <3>2. ClientTypeOK
      BY DEF DisplayInv, DisplayTypeOK
    <3>3. Flipped(c, n, r)
      BY <3>1, <3>2, FlipDoes DEF Flipped
    <3>. QED
      BY <2>2, <3>3
  <2>. QED
    BY <2>1, <2>2
<1>4. ClientTypeOK' /\ QueueOK' /\ OthersStay(c)
  <2>1. UNCHANGED <<attrib, srfOwner>>
    BY <1>1 DEF serverVars
  <2>. QED
    BY <1>1, <1>2, <1>3, <2>1, GoesOn
<1>5. subOn' \in Ctxs \cup {None} /\ shown' \in SrfNos \cup {None, Xv}
  BY <1>1, <1>3 DEF Waiting, Flipped, DisplayInv, DisplayTypeOK
<1>6. DisplayTypeOK'
  BY <1>1, <1>4, <1>5 DEF DisplayInv, DisplayTypeOK, serverVars
<1>. QED
  BY <1>1, <1>2, <1>3, <1>4, <1>6 DEF DisplayInv

(* Back from XSync: flip while the claim stands.                           *)
LEMMA ResumeDoes ==
  ASSUME DisplayInv, NEW c \in Ctxs, PutSurfaceResume(c)
  PROVE  /\ DisplayInv' /\ OthersStay(c)
         /\ pc[c] = "sync" /\ queue[c] = <<>> /\ tgt[c] \in SrfNos /\ srfOwner[tgt[c]] = c
         /\ addr' = addr
         /\ UNCHANGED <<displaying, hasSub, ovOn, ovFor, hwAttr, serverVars, tgt,
                        region, lastSrf, attrib>>
         /\ IF displaying = tgt[c]
              THEN /\ Flipped(c, tgt[c], region[c])
                   /\ pc'[c] = "idle" /\ UNCHANGED <<queue, haveXv>>
              ELSE Waiting(c, tgt[c], region[c])
<1>0. ClientTypeOK /\ Waits(c)
  BY DEF DisplayInv, DisplayTypeOK, QueueOK
<1>1. /\ pc[c] = "sync" /\ queue[c] = <<>> /\ addr' = addr
      /\ UNCHANGED <<displaying, hasSub, ovOn, ovFor, hwAttr, serverVars, tgt,
                     region, lastSrf, attrib>>
  BY DEF PutSurfaceResume
<1>2. tgt[c] \in SrfNos /\ srfOwner[tgt[c]] = c /\ region[c] \in Regions
  BY <1>0, <1>1 DEF Waits, ClientTypeOK
<1>3. IF displaying = tgt[c]
        THEN /\ Flipped(c, tgt[c], region[c])
             /\ pc'[c] = "idle" /\ UNCHANGED <<queue, haveXv>>
        ELSE Waiting(c, tgt[c], region[c])
  <2>1. CASE displaying = tgt[c]
    <3>1. /\ FlipLocked(c, tgt[c]) /\ pc' = [pc EXCEPT ![c] = "idle"]
          /\ UNCHANGED <<queue, haveXv, attribChanged>>
      BY <2>1 DEF PutSurfaceResume
    <3>2. pc'[c] = "idle"
      BY <1>0, <3>1 DEF ClientTypeOK
    <3>3. Flipped(c, tgt[c], region[c])
      BY <3>1 DEF Flipped, FlipLocked
    <3>. QED
      BY <2>1, <3>1, <3>2, <3>3
  <2>2. CASE displaying # tgt[c]
    BY <2>2 DEF PutSurfaceResume, Waiting
  <2>. QED
    BY <2>1, <2>2
<1>4. ClientTypeOK' /\ QueueOK' /\ OthersStay(c)
  <2>1. UNCHANGED <<attrib, srfOwner, tgt, region, lastSrf>>
    BY <1>1 DEF serverVars
  <2>2. Waiting(c, tgt[c], region[c]) \/ Flipped(c, tgt[c], region[c])
    BY <1>3
  <2>. QED
    BY <1>0, <1>1, <1>2, <2>1, <2>2, GoesOn DEF ClientTypeOK
<1>5. subOn' \in Ctxs \cup {None} /\ shown' \in SrfNos \cup {None, Xv}
  BY <1>1, <1>3 DEF Waiting, Flipped, DisplayInv, DisplayTypeOK
<1>6. DisplayTypeOK'
  BY <1>1, <1>4, <1>5 DEF DisplayInv, DisplayTypeOK, serverVars
<1>. QED
  BY <1>1, <1>2, <1>3, <1>4, <1>6 DEF DisplayInv

(* A context asks for something nobody waits for, or only moves.           *)
LEMMA AsksKeeps ==
  ASSUME DisplayInv, NEW c \in Ctxs, NEW q \in Requests, q.ctx = c, ~ IsUpdate(q),
         q.cmd = "UNDISPLAY" => "hide" \in Features,
         queue' = [queue EXCEPT ![c] = Append(@, q)], pc[c] = "idle",
         UNCHANGED <<pc, tgt, region, srfOwner>>,
         \A d \in Ctxs : d # c => attrib'[d] = attrib[d]
  PROVE  /\ QueueOK' /\ queue' \in [Ctxs -> Seq(Requests)]
         /\ queue'[c] = Append(queue[c], q)
         /\ \A d \in Ctxs : d # c => queue'[d] = queue[d]
<1>0. ClientTypeOK /\ Append(queue[c], q) \in Seq(Requests)
  BY Asked DEF DisplayInv, DisplayTypeOK, ClientTypeOK
<1>1. /\ queue' \in [Ctxs -> Seq(Requests)]
      /\ queue'[c] = Append(queue[c], q)
      /\ \A d \in Ctxs : d # c => queue'[d] = queue[d]
  BY <1>0 DEF ClientTypeOK
<1>2. Waits(c)'
  <2>1. Waits(c) /\ pc'[c] = "idle"
    BY DEF DisplayInv, QueueOK
  <2>. QED
    BY <1>0, <1>1, <2>1, AskWaits
<1>3. ASSUME NEW d \in Ctxs, d # c PROVE Waits(d)'
  <2>1. Waits(d)
    BY DEF DisplayInv, QueueOK
  <2>. QED
    BY <1>1, <1>3, <2>1, OthersWait
<1>. QED
  BY <1>1, <1>2, <1>3 DEF QueueOK

(* XvMCHideSurface.                                                        *)
LEMMA HideSurfaceDoes ==
  ASSUME DisplayInv, NEW c \in Ctxs, NEW n \in SrfNos, HideSurface(c, n)
  PROVE  /\ DisplayInv' /\ OthersStay(c) /\ "hide" \in Features
         /\ subOn' \in {subOn, None}
         /\ UNCHANGED <<displaying, hasSub, hwVars, serverVars, clientVars>>
         /\ \E q \in Requests : q.cmd = "UNDISPLAY" /\ queue'[c] = Append(queue[c], q)
<1> DEFINE q == [cmd |-> "UNDISPLAY", ctx |-> c, srf |-> n]
<1>1. /\ "hide" \in Features /\ pc[c] = "idle" /\ subOn' \in {subOn, None}
      /\ queue' = [queue EXCEPT ![c] = Append(@, q)]
      /\ UNCHANGED <<displaying, hasSub, hwVars, serverVars, clientVars>>
  BY DEF HideSurface, Callable, Callable
<1>2. q \in Requests /\ q.ctx = c /\ q.cmd = "UNDISPLAY" /\ ~ IsUpdate(q)
  BY DEF Requests, Hides, IsUpdate
<1> HIDE DEF q
<1>3. UNCHANGED <<pc, tgt, region, srfOwner, attrib, lastSrf, haveXv, attribChanged>>
  BY <1>1 DEF clientVars, serverVars
<1>4. /\ QueueOK' /\ queue' \in [Ctxs -> Seq(Requests)] /\ queue'[c] = Append(queue[c], q)
      /\ \A d \in Ctxs : d # c => queue'[d] = queue[d]
  BY <1>1, <1>2, <1>3, AsksKeeps
<1>5. DisplayTypeOK' /\ OthersStay(c)
  BY <1>1, <1>3, <1>4
     DEF DisplayInv, DisplayTypeOK, ClientTypeOK, OthersStay, hwVars, serverVars
<1>. QED
  BY <1>1, <1>2, <1>4, <1>5 DEF DisplayInv

(* XvMCSetAttribute: sent at once, or kept for the first update.           *)
LEMMA SetAttributeDoes ==
  ASSUME DisplayInv, NEW c \in Ctxs, NEW a \in Values, SetAttribute(c, a)
  PROVE  /\ DisplayInv' /\ OthersStay(c) /\ pc[c] = "idle" /\ attrib'[c] = a
         /\ "attr" \in Features
         /\ UNCHANGED <<displaying, subOn, hasSub, hwVars, serverVars, pc, tgt, region,
                        lastSrf, haveXv>>
         /\ \/ haveXv[c] /\ \E q \in Requests : /\ q.cmd = "ATTRIBUTES" /\ q.attrib = a
                                                /\ queue'[c] = Append(queue[c], q)
            \/ ~ haveXv[c] /\ queue' = queue
<1> DEFINE q == [cmd |-> "ATTRIBUTES", ctx |-> c, attrib |-> a]
<1>0. ClientTypeOK
  BY DEF DisplayInv, DisplayTypeOK
<1>1. /\ "attr" \in Features /\ pc[c] = "idle"
      /\ attrib' = [attrib EXCEPT ![c] = a]
      /\ attribChanged' = [attribChanged EXCEPT ![c] = ~ haveXv[c]]
      /\ UNCHANGED <<displaying, subOn, hasSub, hwVars, serverVars, pc, tgt, region,
                     lastSrf, haveXv>>
  BY DEF SetAttribute, Callable, Callable
<1>2. /\ attrib' \in [Ctxs -> Values] /\ attrib'[c] = a
      /\ \A d \in Ctxs : d # c => attrib'[d] = attrib[d]
  BY <1>0, <1>1 DEF ClientTypeOK
<1>3. attribChanged' \in [Ctxs -> BOOLEAN]
  BY <1>0, <1>1 DEF ClientTypeOK
<1>4. q \in Requests /\ q.ctx = c /\ q.cmd = "ATTRIBUTES" /\ q.attrib = a /\ ~ IsUpdate(q)
  BY DEF Requests, Settings, IsUpdate
<1>5. \/ haveXv[c] /\ queue' = [queue EXCEPT ![c] = Append(@, q)]
      \/ ~ haveXv[c] /\ queue' = queue
  BY <1>0 DEF SetAttribute, Callable, ClientTypeOK
<1> HIDE DEF q
<1>6. UNCHANGED <<pc, tgt, region, srfOwner, lastSrf, haveXv>>
  BY <1>1 DEF serverVars
<1>7. /\ QueueOK' /\ queue' \in [Ctxs -> Seq(Requests)]
      /\ \A d \in Ctxs : d # c => queue'[d] = queue[d]
      /\ \/ haveXv[c] /\ queue'[c] = Append(queue[c], q)
         \/ ~ haveXv[c] /\ queue' = queue
  <2>1. CASE haveXv[c] /\ queue' = [queue EXCEPT ![c] = Append(@, q)]
    BY <1>1, <1>2, <1>4, <1>6, <2>1, AsksKeeps
  <2>2. CASE ~ haveXv[c] /\ queue' = queue
    <3>1. Waits(c)'
      <4>1. Waits(c)
        BY DEF DisplayInv, QueueOK
      <4>2. \A i \in 1..Len(queue[c]) : ~ IsUpdate(queue[c][i])
        BY <1>1, <4>1 DEF Waits
      <4>. QED
        BY <1>1, <1>6, <2>2, <4>1, <4>2 DEF Waits, IsUpdate
    <3>2. ASSUME NEW d \in Ctxs, d # c PROVE Waits(d)'
      <4>1. Waits(d)
        BY DEF DisplayInv, QueueOK
      <4>. QED
        BY <1>2, <1>6, <2>2, <3>2, <4>1, OthersWait
    <3>. QED
      BY <1>0, <2>2, <3>1, <3>2 DEF QueueOK, ClientTypeOK
  <2>. QED
    BY <1>5, <2>1, <2>2
<1>8. DisplayTypeOK' /\ OthersStay(c)
  BY <1>1, <1>2, <1>3, <1>6, <1>7
     DEF DisplayInv, DisplayTypeOK, ClientTypeOK, OthersStay, hwVars, serverVars
<1>. QED
  BY <1>1, <1>2, <1>4, <1>7, <1>8 DEF DisplayInv

(* The server handles a request.                                           *)
LEMMA HandleDoes ==
  ASSUME DisplayInv, NEW c \in Ctxs, HandleXvMC(c)
  PROVE  /\ DisplayInv'
         /\ queue[c] # <<>> /\ queue'[c] = Tail(queue[c])
         /\ \A d \in Ctxs : d # c => queue'[d] = queue[d]
         /\ UNCHANGED <<subOn, hasSub, addr, shown, srfOwner, xvAttr, newAttr, clientVars>>
         /\ \E q \in Requests :
              /\ q = queue[c][1] /\ q.ctx = c
              /\ \/ q.cmd = "DISPLAY" /\ Display(q)
                 \/ q.cmd = "FDISPLAY" /\ ForcedDisplay(q)
                 \/ q.cmd = "UNDISPLAY" /\ Undisplay(q)
                 \/ q.cmd = "ATTRIBUTES" /\ Attributes(q)
<1> DEFINE q == Head(queue[c])
<1>0. ClientTypeOK /\ Waits(c)
  BY DEF DisplayInv, DisplayTypeOK, QueueOK
<1>1. /\ queue[c] # <<>> /\ queue' = [queue EXCEPT ![c] = Tail(@)]
      /\ UNCHANGED <<subOn, hasSub, addr, shown, srfOwner, xvAttr, newAttr, clientVars>>
      /\ \/ q.cmd = "DISPLAY" /\ Display(q)
         \/ q.cmd = "FDISPLAY" /\ ForcedDisplay(q)
         \/ q.cmd = "UNDISPLAY" /\ Undisplay(q)
         \/ q.cmd = "ATTRIBUTES" /\ Attributes(q)
  BY DEF HandleXvMC
<1>2. /\ Tail(queue[c]) \in Seq(Requests) /\ q = queue[c][1] /\ q \in Requests
      /\ Len(queue[c]) \in Nat \ {0}
  BY <1>0, <1>1, Handled DEF ClientTypeOK
<1>3. q.ctx = c
  BY <1>0, <1>2 DEF Waits
<1> HIDE DEF q
<1>4. /\ queue' \in [Ctxs -> Seq(Requests)] /\ queue'[c] = Tail(queue[c])
      /\ \A d \in Ctxs : d # c => queue'[d] = queue[d]
  BY <1>0, <1>1, <1>2 DEF ClientTypeOK
<1>5. UNCHANGED <<pc, tgt, region, lastSrf, haveXv, attrib, attribChanged>>
  BY <1>1 DEF clientVars
<1>6. Waits(c)'
  BY <1>0, <1>1, <1>4, <1>5, TailWaits
<1>7. ASSUME NEW d \in Ctxs, d # c PROVE Waits(d)'
  <2>1. Waits(d)
    BY DEF DisplayInv, QueueOK
  <2>. QED
    BY <1>1, <1>4, <1>5, <1>7, <2>1, OthersWait
<1>8. /\ displaying' \in {displaying, None} /\ ovOn' \in BOOLEAN
      /\ ctxDisplaying' \in Ctxs \cup {None, Xv} /\ hwAttr' \in Values
  <2>0. /\ displaying \in SrfNos \cup {None, Xv} /\ ovOn \in BOOLEAN
        /\ ctxDisplaying \in Ctxs \cup {None, Xv} /\ hwAttr \in Values
    BY DEF DisplayInv, DisplayTypeOK
  <2>1. CASE q.cmd = "DISPLAY" /\ Display(q)
    BY <1>2, <1>3, <2>0, <2>1, Carried DEF Display, SetupOverlay, IsUpdate
  <2>2. CASE q.cmd = "FDISPLAY" /\ ForcedDisplay(q)
    BY <1>2, <1>3, <2>0, <2>2, Carried DEF ForcedDisplay, SetupOverlay, IsUpdate
  <2>3. CASE q.cmd = "UNDISPLAY" /\ Undisplay(q)
    BY <2>0, <2>3 DEF Undisplay
  <2>4. CASE q.cmd = "ATTRIBUTES" /\ Attributes(q)
    BY <1>2, <2>0, <2>4, Carried DEF Attributes
  <2>. QED
    BY <1>1, <2>1, <2>2, <2>3, <2>4
<1>9. DisplayTypeOK'
  BY <1>1, <1>4, <1>5, <1>8 DEF DisplayInv, DisplayTypeOK, ClientTypeOK
<1>. QED
  BY <1>1, <1>2, <1>3, <1>4, <1>6, <1>7, <1>9 DEF DisplayInv, QueueOK

(* The ends of a put without a flip: no drawable, an error, the return.    *)
LEMMA EndsDoes ==
  ASSUME DisplayInv, NEW c \in Ctxs,
         \/ \E n \in SrfNos, r \in Regions : PutSurfaceNoDrawable(c, n, r)
         \/ PutSurfaceFails(c) \/ PutSurfaceReturns(c)
  PROVE  /\ DisplayInv' /\ OthersStay(c)
         /\ UNCHANGED <<displaying, subOn, hasSub, queue, hwVars, serverVars, tgt,
                        lastSrf, haveXv, attrib>>
         /\ pc'[c] = "idle"
         /\ \/ "fail" \in Features
            \/ pc[c] = "tail" /\ region' = region
<1>0. ClientTypeOK /\ Waits(c)
  BY DEF DisplayInv, DisplayTypeOK, QueueOK
<1>1. /\ UNCHANGED <<displaying, subOn, hasSub, queue, hwVars, serverVars, tgt,
                     lastSrf, haveXv, attrib, attribChanged>>
      /\ \/ "fail" \in Features
         \/ pc[c] = "tail" /\ region' = region
  BY DEF PutSurfaceNoDrawable, Callable, PutSurfaceFails, PutSurfaceReturns
<1>2. /\ pc' \in [Ctxs -> {"idle", "sync", "tail"}] /\ pc'[c] = "idle"
      /\ region' \in [Ctxs -> Regions]
      /\ \A d \in Ctxs : d # c => pc'[d] = pc[d] /\ region'[d] = region[d]
      /\ pc[c] = "idle" \/ queue[c] = <<>>
  <2>1. ASSUME NEW n \in SrfNos, NEW r \in Regions, PutSurfaceNoDrawable(c, n, r)
        PROVE  /\ pc[c] = "idle" /\ pc' = pc /\ region' = [region EXCEPT ![c] = r]
    BY <2>1 DEF PutSurfaceNoDrawable, Callable, Callable
  <2>2. ASSUME PutSurfaceFails(c) \/ PutSurfaceReturns(c)
        PROVE  queue[c] = <<>> /\ pc' = [pc EXCEPT ![c] = "idle"] /\ region' = region
    BY <2>2 DEF PutSurfaceFails, PutSurfaceReturns
  <2>3. CASE \E n \in SrfNos, r \in Regions : PutSurfaceNoDrawable(c, n, r)
    BY <1>0, <2>1, <2>3 DEF ClientTypeOK
  <2>4. CASE PutSurfaceFails(c) \/ PutSurfaceReturns(c)
    BY <1>0, <2>2, <2>4 DEF ClientTypeOK
  <2>. QED
    BY <2>3, <2>4
<1>3. UNCHANGED srfOwner
  BY <1>1 DEF serverVars
<1>4. OthersStay(c)
  BY <1>1, <1>2 DEF OthersStay
<1>5. Waits(c)'
  <2>1. Len(queue[c]) \in Nat /\ (queue[c] = <<>> => Len(queue[c]) = 0)
    BY <1>0, LenProperties, EmptySeq DEF ClientTypeOK
  <2>2. \A i \in 1..Len(queue[c]) : ~ IsUpdate(queue[c][i])
    BY <1>0, <1>2, <2>1 DEF Waits
  <2>. QED
    BY <1>0, <1>1, <1>2, <2>2 DEF Waits, IsUpdate
<1>6. ASSUME NEW d \in Ctxs, d # c PROVE Waits(d)'
  <2>1. Waits(d)
    BY DEF DisplayInv, QueueOK
  <2>. QED
    BY <1>1, <1>2, <1>3, <1>6, <2>1, OthersWait
<1>7. ClientTypeOK'
  BY <1>0, <1>1, <1>2 DEF ClientTypeOK
<1>8. DisplayTypeOK'
  BY <1>1, <1>7 DEF DisplayInv, DisplayTypeOK, hwVars, serverVars
<1>. QED
  BY <1>1, <1>2, <1>4, <1>5, <1>6, <1>8 DEF DisplayInv, QueueOK

(* What the server does to the tables and for plain Xv leaves the clients  *)
(* where they are.                                                         *)
LEMMA ClientsStay ==
  ASSUME DisplayInv, UNCHANGED <<queue, clientVars>>, srfOwner' \in [SrfNos -> Ctxs \cup {None}],
         \A n \in SrfNos : \/ srfOwner'[n] = srfOwner[n]
                           \/ srfOwner[n] = None
                           \/ /\ srfOwner[n] \in Ctxs
                              /\ pc[srfOwner[n]] = "idle" \/ tgt[srfOwner[n]] # n
  PROVE  ClientTypeOK' /\ QueueOK'
<1>1. UNCHANGED <<queue, pc, tgt, region, lastSrf, haveXv, attrib, attribChanged>>
  BY DEF clientVars
<1>2. ClientTypeOK'
  BY <1>1 DEF DisplayInv, DisplayTypeOK, ClientTypeOK
<1>3. ASSUME NEW c \in Ctxs PROVE Waits(c)'
  <2>1. Waits(c)
    BY DEF DisplayInv, QueueOK
  <2>2. pc[c] # "idle" => srfOwner'[tgt[c]] = srfOwner[tgt[c]]
    BY <2>1, DisplayAssumption DEF Waits
  <2>. QED
    BY <1>1, <2>1, <2>2, OthersWait
<1>. QED
  BY <1>2, <1>3 DEF QueueOK

(* Subpictures, and surfaces that come and go.                             *)
LEMMA TablesDoes ==
  ASSUME DisplayInv, NEW c \in Ctxs, NEW n \in SrfNos,
         SetSubpicture(c, n) \/ CreateSurface(c, n) \/ DestroySurface(c, n)
  PROVE  /\ DisplayInv'
         /\ UNCHANGED <<queue, subOn, addr, shown, ovFor, hwAttr, ctxDisplaying, xvAttr,
                        newAttr, clientVars>>
         /\ \A m \in SrfNos : srfOwner'[m] = srfOwner[m]
                              \/ srfOwner[m] = None \/ "destroy" \in Features
         /\ \/ "destroy" \in Features /\ srfOwner[n] = c
               /\ (pc[c] = "idle" \/ tgt[c] # n)
               /\ displaying' = (IF displaying = n THEN None ELSE displaying)
               /\ ovOn' = (ovOn /\ displaying # n)
               /\ \A m \in SrfNos : srfOwner'[m] = IF m = n THEN None ELSE srfOwner[m]
            \/ /\ UNCHANGED <<displaying, ovOn>>
               /\ \A m \in SrfNos : srfOwner[m] # None => srfOwner'[m] = srfOwner[m]
<1>0. /\ srfOwner \in [SrfNos -> Ctxs \cup {None}] /\ hasSub \subseteq SrfNos
      /\ ovOn \in BOOLEAN
  BY DEF DisplayInv, DisplayTypeOK
<1>1. /\ UNCHANGED <<queue, subOn, addr, shown, ovFor, hwAttr, ctxDisplaying, xvAttr,
                     newAttr, clientVars>>
      /\ hasSub' \subseteq SrfNos
      /\ srfOwner' \in [SrfNos -> Ctxs \cup {None}]
  BY <1>0 DEF SetSubpicture, CreateSurface, DestroySurface, hwVars, serverVars
<1>2. \/ "destroy" \in Features /\ srfOwner[n] = c
         /\ (pc[c] = "idle" \/ tgt[c] # n)
         /\ displaying' = (IF displaying = n THEN None ELSE displaying)
         /\ ovOn' = (ovOn /\ displaying # n)
         /\ \A m \in SrfNos : srfOwner'[m] = IF m = n THEN None ELSE srfOwner[m]
      \/ /\ UNCHANGED <<displaying, ovOn>>
         /\ \A m \in SrfNos : srfOwner[m] # None => srfOwner'[m] = srfOwner[m]
  <2>1. CASE SetSubpicture(c, n)
    BY <2>1 DEF SetSubpicture, hwVars, serverVars
  <2>2. CASE CreateSurface(c, n)
    BY <1>0, <2>2 DEF CreateSurface, hwVars
  <2>3. CASE DestroySurface(c, n)
    BY <1>0, <2>3 DEF DestroySurface
  <2>. QED
    BY <2>1, <2>2, <2>3
<1>3. ClientTypeOK' /\ QueueOK'
  <2>1. \A m \in SrfNos : \/ srfOwner'[m] = srfOwner[m]
                          \/ srfOwner[m] = None
                          \/ /\ srfOwner[m] \in Ctxs
                             /\ pc[srfOwner[m]] = "idle" \/ tgt[srfOwner[m]] # m
    BY <1>0, <1>1, <1>2
  <2>. QED
    BY <1>1, <2>1, ClientsStay
<1>4. DisplayTypeOK'
  <2>1. displaying' \in SrfNos \cup {None, Xv} /\ ovOn' \in BOOLEAN
    BY <1>0, <1>2 DEF DisplayInv, DisplayTypeOK
  <2>. QED
    BY <1>1, <1>3, <2>1 DEF DisplayInv, DisplayTypeOK
<1>. QED
  BY <1>1, <1>2, <1>3, <1>4 DEF DisplayInv

(* The image and the attributes of plain Xv, and the stop of the port.     *)
LEMMA XvDoes ==
  ASSUME DisplayInv,
         \/ \E r \in Regions : XvPutImage(r)
         \/ \E a \in Values : XvSetAttribute(a)
         \/ XvStopVideo
  PROVE  DisplayInv' /\ UNCHANGED <<queue, srfOwner, hasSub, clientVars>>
<1>1. UNCHANGED <<queue, srfOwner, hasSub, clientVars>>
  BY DEF XvPutImage, XvSetAttribute, XvStopVideo, serverVars
<1>2. ClientTypeOK' /\ QueueOK'
  BY <1>1, ClientsStay DEF DisplayInv, DisplayTypeOK
<1>3. CASE \E r \in Regions : XvPutImage(r)
  BY <1>1, <1>2, <1>3 DEF XvPutImage, SetDisplayLock, SetupOverlay, DisplayInv, DisplayTypeOK
<1>4. CASE \E a \in Values : XvSetAttribute(a)
  BY <1>1, <1>2, <1>4 DEF XvSetAttribute, DisplayInv, DisplayTypeOK
<1>5. CASE XvStopVideo
  BY <1>1, <1>2, <1>5 DEF XvStopVideo, serverVars, DisplayInv, DisplayTypeOK
<1>. QED
  BY <1>1, <1>3, <1>4, <1>5

-----------------------------------------------------------------------------
(* Nothing happens but that a context loses its ctxMutex.                  *)
Still == UNCHANGED <<displaying, subOn, hasSub, queue, hwVars, serverVars, pc, tgt, region,
                     lastSrf, haveXv, attrib, attribChanged>>

(* The kinds of steps.                                                     *)
LEMMA Steps ==
  ASSUME [Next]_vars
  PROVE  \/ \E c \in Ctxs, n \in SrfNos, r \in Regions, touched \in BOOLEAN :
              PutSurface(c, n, r, touched)
         \/ \E c \in Ctxs : PutSurfaceResume(c)
         \/ \E c \in Ctxs : \/ \E n \in SrfNos, r \in Regions : PutSurfaceNoDrawable(c, n, r)
                            \/ PutSurfaceFails(c) \/ PutSurfaceReturns(c)
         \/ \E c \in Ctxs, n \in SrfNos : HideSurface(c, n)
         \/ \E c \in Ctxs, a \in Values : SetAttribute(c, a)
         \/ \E c \in Ctxs : HandleXvMC(c)
         \/ \E c \in Ctxs, n \in SrfNos :
              SetSubpicture(c, n) \/ CreateSurface(c, n) \/ DestroySurface(c, n)
         \/ \/ \E r \in Regions : XvPutImage(r)
            \/ \E a \in Values : XvSetAttribute(a)
            \/ XvStopVideo
         \/ Still
BY DEF Next, Put, SetAttributeBadValue, Still, vars, clientVars

(* No put, no request.                                                     *)
LEMMA InitDisplayInv == Init => DisplayInv
<1>. SUFFICES ASSUME Init PROVE DisplayInv
  OBVIOUS
<1>1. /\ \A c \in Ctxs : queue[c] = <<>> /\ pc[c] = "idle"
      /\ queue = [c \in Ctxs |-> <<>>]
  BY DEF Init
<1>2. <<>> \in Seq(Requests) /\ Len(<<>>) = 0
  OBVIOUS
<1>3. ClientTypeOK
  BY <1>1, <1>2 DEF Init, ClientTypeOK
<1>4. DisplayTypeOK
  BY <1>3 DEF Init, DisplayTypeOK
<1>5. ASSUME NEW c \in Ctxs PROVE Waits(c)
  <2>1. queue[c] = <<>> /\ pc[c] = "idle" /\ 1..Len(queue[c]) = {}
    BY <1>1, <1>2
  <2>. QED
    BY <2>1 DEF Waits
<1>. QED
  BY <1>4, <1>5 DEF DisplayInv, QueueOK

(* Whatever clients and server do, requests and puts match.                *)
LEMMA NextDisplayInv == DisplayInv /\ [Next]_vars => DisplayInv'
<1>. SUFFICES ASSUME DisplayInv, [Next]_vars PROVE DisplayInv'
  OBVIOUS
<1>1. CASE Still
  BY <1>1 DEF Still, hwVars, serverVars, clientVars, DisplayInv, DisplayTypeOK, ClientTypeOK,
              QueueOK, Waits, IsUpdate
<1>. QED
  BY <1>1, Steps, PutSurfaceDoes, ResumeDoes, EndsDoes, HideSurfaceDoes, SetAttributeDoes,
     HandleDoes, TablesDoes, XvDoes

(* Requests are typed, and every update is what a put waits for.           *)
THEOREM DisplayInvariant == Spec => []DisplayInv
BY InitDisplayInv, NextDisplayInv, PTL DEF Spec

-----------------------------------------------------------------------------
(* Surfaces that are given back, whatever the clients call.                *)

(* Nothing of XvMC is flipped in when an overlay is on that nobody claims. *)
LiveInv ==
  /\ displaying \in SrfNos => srfOwner[displaying] # None
  /\ ovOn /\ displaying \notin SrfNos => shown \notin SrfNos

(* Every step keeps it so.                                                 *)
LEMMA NextLiveInv == DisplayInv /\ LiveInv /\ [Next]_vars => LiveInv'
<1>. SUFFICES ASSUME DisplayInv, LiveInv, [Next]_vars PROVE LiveInv'
  OBVIOUS
<1>0. /\ None \notin SrfNos /\ Xv \notin SrfNos /\ None \notin Ctxs
      /\ srfOwner \in [SrfNos -> Ctxs \cup {None}] /\ ovOn \in BOOLEAN
  BY DisplayAssumption DEF DisplayInv, DisplayTypeOK
<1>1. ASSUME NEW c \in Ctxs, NEW n \in SrfNos, NEW r \in Regions, NEW touched \in BOOLEAN,
             PutSurface(c, n, r, touched)
      PROVE  LiveInv'
  <2>1. displaying' = n /\ srfOwner[n] = c /\ srfOwner' = srfOwner
    BY <1>1, PutSurfaceDoes DEF serverVars
  <2>. QED
    BY <1>0, <2>1 DEF LiveInv
<1>2. ASSUME NEW c \in Ctxs, PutSurfaceResume(c)
      PROVE  LiveInv'
  <2>1. /\ tgt[c] \in SrfNos /\ UNCHANGED <<displaying, srfOwner, ovOn>>
        /\ displaying # tgt[c] => shown' = shown
    BY <1>2, ResumeDoes DEF serverVars, Waiting
  <2>. QED
    BY <2>1 DEF LiveInv
<1>3. ASSUME NEW c \in Ctxs,
             \/ \E n \in SrfNos, r \in Regions : PutSurfaceNoDrawable(c, n, r)
             \/ PutSurfaceFails(c) \/ PutSurfaceReturns(c)
      PROVE  LiveInv'
  BY <1>3, EndsDoes DEF LiveInv, hwVars, serverVars
<1>4. ASSUME NEW c \in Ctxs, NEW n \in SrfNos, HideSurface(c, n)
      PROVE  LiveInv'
  BY <1>4, HideSurfaceDoes DEF LiveInv, hwVars, serverVars
<1>5. ASSUME NEW c \in Ctxs, NEW a \in Values, SetAttribute(c, a)
      PROVE  LiveInv'
  BY <1>5, SetAttributeDoes DEF LiveInv, hwVars, serverVars
<1>6. ASSUME NEW c \in Ctxs, HandleXvMC(c)
      PROVE  LiveInv'
  <2>1. UNCHANGED <<shown, srfOwner>>
    BY <1>6, HandleDoes
  <2>2. \/ displaying' = displaying /\ (displaying \in SrfNos \/ ovOn' = ovOn)
        \/ displaying' = None /\ ovOn' = FALSE
    <3>1. PICK q \in Requests : \/ q.cmd = "DISPLAY" /\ Display(q)
                                \/ q.cmd = "FDISPLAY" /\ ForcedDisplay(q)
                                \/ q.cmd = "UNDISPLAY" /\ Undisplay(q)
                                \/ q.cmd = "ATTRIBUTES" /\ Attributes(q)
      BY <1>6, HandleDoes
    <3>2. q.cmd \in {"DISPLAY", "FDISPLAY"} => q.srf \in SrfNos
      BY Carried DEF IsUpdate
    <3>3. CASE q.cmd = "DISPLAY" /\ Display(q)
      BY <3>2, <3>3 DEF Display
    <3>4. CASE q.cmd = "FDISPLAY" /\ ForcedDisplay(q)
      BY <3>2, <3>4 DEF ForcedDisplay
    <3>5. CASE q.cmd = "UNDISPLAY" /\ Undisplay(q)
      BY <1>0, <3>5 DEF Undisplay
    <3>6. CASE q.cmd = "ATTRIBUTES" /\ Attributes(q)
      BY <3>6 DEF Attributes
    <3>. QED
      BY <3>1, <3>3, <3>4, <3>5, <3>6
  <2>. QED
    BY <1>0, <2>1, <2>2 DEF LiveInv
<1>7. ASSUME NEW c \in Ctxs, NEW n \in SrfNos,
             SetSubpicture(c, n) \/ CreateSurface(c, n) \/ DestroySurface(c, n)
      PROVE  LiveInv'
  <2>1. /\ shown' = shown
        /\ \/ /\ displaying' = (IF displaying = n THEN None ELSE displaying)
              /\ ovOn' = (ovOn /\ displaying # n)
              /\ \A m \in SrfNos : srfOwner'[m] = IF m = n THEN None ELSE srfOwner[m]
           \/ /\ UNCHANGED <<displaying, ovOn>>
              /\ \A m \in SrfNos : srfOwner[m] # None => srfOwner'[m] = srfOwner[m]
    BY <1>7, TablesDoes
  <2>2. CASE UNCHANGED <<displaying, ovOn>> /\
             \A m \in SrfNos : srfOwner[m] # None => srfOwner'[m] = srfOwner[m]
    BY <2>1, <2>2 DEF LiveInv
  <2>3. CASE /\ displaying' = (IF displaying = n THEN None ELSE displaying)
             /\ ovOn' = (ovOn /\ displaying # n)
             /\ \A m \in SrfNos : srfOwner'[m] = IF m = n THEN None ELSE srfOwner[m]
    <3>1. CASE displaying = n
      <4>1. displaying' = None /\ ~ ovOn'
        BY <2>3, <3>1
      <4>. QED
        BY <1>0, <4>1 DEF LiveInv
    <3>2. CASE displaying # n
      <4>1. displaying' = displaying /\ (ovOn' => ovOn)
        BY <2>3, <3>2
      <4>. QED
        BY <1>0, <2>1, <2>3, <3>2, <4>1 DEF LiveInv
    <3>. QED
      BY <3>1, <3>2
  <2>. QED
    BY <2>1, <2>2, <2>3
<1>8. CASE \/ \E r \in Regions : XvPutImage(r)
           \/ \E a \in Values : XvSetAttribute(a)
           \/ XvStopVideo
  <2>1. srfOwner' = srfOwner
    BY <1>8, XvDoes
  <2>2. CASE \E r \in Regions : XvPutImage(r)
    BY <1>0, <2>1, <2>2 DEF XvPutImage, SetDisplayLock, LiveInv
  <2>3. CASE \E a \in Values : XvSetAttribute(a)
    BY <2>3 DEF XvSetAttribute, LiveInv
  <2>4. CASE XvStopVideo
    BY <2>4 DEF XvStopVideo, LiveInv, serverVars
  <2>. QED
    BY <1>8, <2>2, <2>3, <2>4
<1>9. CASE Still
  BY <1>9 DEF Still, hwVars, serverVars, LiveInv
<1>. QED
  BY <1>1, <1>2, <1>3, <1>4, <1>5, <1>6, <1>7, <1>8, <1>9, Steps

(* The SAREA never names a slot that has been given back, and the overlay  *)
(* shows one only while a put has claimed it for another: whatever clients *)
(* destroy, fail to put or stop, and whether or not Xv marks its own.      *)
THEOREM FreedNeverShown == Spec => []NoFreedSurface
<1>1. Init => LiveInv
  BY DisplayAssumption DEF Init, LiveInv
<1>2. LiveInv => NoFreedSurface
  BY DEF LiveInv, NoFreedSurface
<1>. QED
  BY <1>1, <1>2, NextLiveInv, DisplayInvariant, PTL DEF Spec

-----------------------------------------------------------------------------
(* Clients that put, hide and set attributes, create surfaces and change   *)
(* subpictures, next to plain Xv on a port that marks its images.  (With a *)
(* failed put, a destroyed surface or a stopped port a client may flip into*)
(* an overlay that is not set up for it, and so it may if Xv's port has the*)
(* number 0 and never marks.)                                              *)
Marked == Features \subseteq {"hide", "attr", "xv"} /\ ("xv" \in Features => XvPort > 0)

SetUp(c) == ovOn /\ ovFor = <<c, region[c]>>

(* The claim in the SAREA is of a context that put last: the overlay is set*)
(* up for it and shows its surface, or a request is under way that will.   *)
Claimed(c) ==
  /\ lastSrf[c] = displaying /\ tgt[c] = displaying /\ addr = displaying
  /\ pc[c] = "sync" => queue[c] # <<>> \/ SetUp(c)
  /\ pc[c] # "sync" => SetUp(c) /\ shown = displaying

ClaimInv ==
  /\ displaying \in SrfNos => /\ srfOwner[displaying] \in Ctxs
                              /\ Claimed(srfOwner[displaying])
  /\ \A c \in Ctxs : lastSrf[c] \in SrfNos => srfOwner[lastSrf[c]] = c
  /\ SubpictureOfShown

(* A step that leaves the hardware, the SAREA and the puts as they are.    *)
LEMMA ClaimStays ==
  ASSUME ClaimInv, DisplayInv,
         UNCHANGED <<displaying, addr, shown, tgt, region, lastSrf, srfOwner>>,
         displaying \in SrfNos => UNCHANGED <<ovOn, ovFor>>,
         subOn' \in {subOn, None},
         \A c \in Ctxs : pc[c] = "sync" => queue'[c] # <<>> \/ queue[c] = <<>>,
         \A c \in Ctxs : pc'[c] = pc[c] \/ (pc[c] # "sync" /\ pc'[c] # "sync")
  PROVE  ClaimInv'
<1>1. ASSUME displaying \in SrfNos
      PROVE  LET c == srfOwner[displaying] IN c \in Ctxs /\ Claimed(c)'
  BY <1>1 DEF ClaimInv, Claimed, SetUp
<1>. QED
  BY <1>1 DEF ClaimInv, SubpictureOfShown

(* The flip of a put, in the overlay of that context and its rectangles.   *)
FlipGood(c) ==
  /\ shown' = tgt'[c] /\ displaying' = tgt'[c]
  /\ ovOn' /\ ovFor' = <<c, region'[c]>>

(* XvMCPutSurface keeps the claim, and a flip of it is good.               *)
LEMMA PutSurfaceClaims ==
  ASSUME DisplayInv, ClaimInv, NEW c \in Ctxs, NEW n \in SrfNos, NEW r \in Regions,
         NEW touched \in BOOLEAN, PutSurface(c, n, r, touched)
  PROVE  ClaimInv' /\ (pc'[c] # "sync" => FlipGood(c))
<1>0. /\ None \notin SrfNos /\ Xv \notin SrfNos /\ Unset \notin SrfNos \cup {None, Xv}
      /\ None \notin Ctxs
      /\ ClientTypeOK /\ displaying \in SrfNos \cup {None, Xv}
  BY DisplayAssumption DEF DisplayInv, DisplayTypeOK
<1>1. /\ OthersStay(c) /\ pc[c] = "idle" /\ srfOwner[n] = c /\ srfOwner' = srfOwner
      /\ displaying' = n /\ addr' = n /\ tgt'[c] = n /\ lastSrf'[c] = n /\ region'[c] = r
      /\ UNCHANGED <<ovOn, ovFor>>
      /\ IF lastSrf[c] # displaying \/ r # region[c]
           THEN Waiting(c, n, r) ELSE Flipped(c, n, r)
  BY PutSurfaceDoes DEF serverVars
<1>2. \A d \in Ctxs : lastSrf'[d] \in SrfNos => srfOwner'[lastSrf'[d]] = d
  BY <1>1 DEF ClaimInv, OthersStay
<1>3. CASE Waiting(c, n, r)
  <2>1. pc'[c] = "sync" /\ queue'[c] # <<>>
    <3>1. CallServer(c, n, r, "sync")
      BY <1>3 DEF Waiting
    <3> DEFINE q == UpdateRequest(c, n, r)
    <3>2. /\ q \in Requests
          /\ \A d \in Ctxs : queue'[d] = IF d = c THEN Append(queue[c], q) ELSE queue[d]
      BY <1>0, <3>1, CallDoes
    <3> HIDE DEF q
    <3>3. pc'[c] = "sync"
      BY <1>0, <3>1, CallDoes
    <3>4. queue[c] \in Seq(Requests)
      BY <1>0 DEF ClientTypeOK
    <3>5. Append(queue[c], q) # <<>>
      BY <3>2, <3>4, Asked
    <3>. QED
      BY <3>2, <3>3, <3>5
  <2>2. Claimed(c)'
    BY <1>1, <2>1 DEF Claimed
  <2>3. SubpictureOfShown'
    BY <1>1, <1>3 DEF Waiting, ClaimInv, SubpictureOfShown
  <2>. QED
    BY <1>1, <1>2, <2>1, <2>2, <2>3 DEF ClaimInv
<1>4. CASE Flipped(c, n, r) /\ lastSrf[c] = displaying /\ r = region[c]
  <2>1. displaying \in SrfNos /\ srfOwner[displaying] = c
    BY <1>0, <1>4 DEF ClaimInv, ClientTypeOK
  <2>2. SetUp(c)
    BY <1>1, <2>1 DEF ClaimInv, Claimed
  <2>3. SetUp(c)' /\ shown' = n
    BY <1>1, <1>4, <2>2 DEF SetUp, Flipped
  <2>4. pc'[c] # "sync"
    <3>1. CASE CallServer(c, n, r, "tail")
      BY <1>0, <3>1, CallDoes
    <3>2. CASE pc' = [pc EXCEPT ![c] = "idle"]
      BY <1>0, <3>2 DEF ClientTypeOK
    <3>. QED
      BY <1>4, <3>1, <3>2 DEF Flipped
  <2>5. Claimed(c)'
    BY <1>1, <2>3, <2>4 DEF Claimed
  <2>6. SubpictureOfShown'
    BY <1>1, <1>4, <2>3 DEF Flipped, SubpictureOfShown
  <2>7. FlipGood(c)
    BY <1>1, <2>3 DEF FlipGood, SetUp
  <2>. QED
    BY <1>1, <1>2, <2>5, <2>6, <2>7 DEF ClaimInv
<1>. QED
  BY <1>1, <1>3, <1>4

(* So does the return from the server.                                     *)
LEMMA ResumeClaims ==
  ASSUME DisplayInv, ClaimInv, NEW c \in Ctxs, PutSurfaceResume(c)
  PROVE  ClaimInv' /\ (pc'[c] # "sync" => FlipGood(c))
<1>0. ClientTypeOK
  BY DEF DisplayInv, DisplayTypeOK
<1>1. /\ OthersStay(c) /\ pc[c] = "sync" /\ queue[c] = <<>>
      /\ tgt[c] \in SrfNos /\ srfOwner[tgt[c]] = c
      /\ UNCHANGED <<displaying, addr, ovOn, ovFor, srfOwner, tgt, region, lastSrf>>
  BY ResumeDoes DEF serverVars
<1>2. CASE displaying = tgt[c]
  <2>1. /\ Flipped(c, tgt[c], region[c]) /\ pc'[c] = "idle" /\ queue' = queue
    BY <1>2, ResumeDoes
  <2>2. SetUp(c) /\ addr = displaying /\ lastSrf[c] = displaying
    BY <1>1, <1>2 DEF ClaimInv, Claimed
  <2>3. SetUp(c)' /\ shown' = displaying
    BY <1>1, <2>1, <2>2 DEF SetUp, Flipped
  <2>4. Claimed(c)' /\ FlipGood(c)
    BY <1>1, <1>2, <2>1, <2>2, <2>3 DEF Claimed, FlipGood, SetUp
  <2>5. SubpictureOfShown'
    BY <1>1, <1>2, <2>1, <2>3 DEF Flipped, SubpictureOfShown
  <2>. QED
    BY <1>1, <1>2, <2>4, <2>5 DEF ClaimInv
<1>3. CASE displaying # tgt[c]
  <2>1. Waiting(c, tgt[c], region[c])
    BY <1>3, ResumeDoes
  <2>2. pc'[c] = "sync"
    <3>1. CallServer(c, tgt[c], region[c], "sync") /\ region[c] \in Regions
      BY <1>0, <2>1 DEF Waiting, ClientTypeOK
    <3>. QED
      BY <1>0, <1>1, <3>1, CallDoes
  <2>3. ASSUME displaying \in SrfNos
        PROVE  LET d == srfOwner[displaying] IN d \in Ctxs /\ Claimed(d)'
    <3> DEFINE d == srfOwner[displaying]
    <3>1. d \in Ctxs /\ Claimed(d)
      BY <2>3 DEF ClaimInv
    <3>2. d # c
      BY <1>3, <3>1 DEF Claimed
    <3>3. queue'[d] = queue[d] /\ pc'[d] = pc[d] /\ shown' = shown
      BY <1>1, <2>1, <3>1, <3>2 DEF OthersStay, Waiting
    <3>. QED
      BY <1>1, <3>1, <3>3 DEF Claimed, SetUp
  <2>4. SubpictureOfShown'
    BY <1>1, <2>1 DEF Waiting, ClaimInv, SubpictureOfShown
  <2>. QED
    BY <1>1, <2>2, <2>3, <2>4 DEF ClaimInv
<1>. QED
  BY <1>2, <1>3

(* A request sets the overlay up for the put that waits for it, if that    *)
(* put still has the claim; no request of anybody else does.               *)
LEMMA HandleClaims ==
  ASSUME DisplayInv, ClaimInv, NEW c \in Ctxs, HandleXvMC(c)
  PROVE  ClaimInv'
<1>0. /\ None \notin SrfNos /\ ClientTypeOK /\ Waits(c)
  BY DisplayAssumption DEF DisplayInv, DisplayTypeOK, QueueOK
<1>1. /\ queue[c] # <<>> /\ queue'[c] = Tail(queue[c])
      /\ \A d \in Ctxs : d # c => queue'[d] = queue[d]
      /\ UNCHANGED <<subOn, addr, shown, srfOwner, clientVars>>
  BY HandleDoes
<1>2. UNCHANGED <<pc, tgt, region, lastSrf>>
  BY <1>1 DEF clientVars
<1>3. PICK q \in Requests : /\ q = queue[c][1] /\ q.ctx = c
                            /\ \/ q.cmd = "DISPLAY" /\ Display(q)
                               \/ q.cmd = "FDISPLAY" /\ ForcedDisplay(q)
                               \/ q.cmd = "UNDISPLAY" /\ Undisplay(q)
                               \/ q.cmd = "ATTRIBUTES" /\ Attributes(q)
  BY HandleDoes
<1>4. /\ Len(queue[c]) \in Nat \ {0}
      /\ Tail(queue[c]) = <<>> <=> Len(queue[c]) = 1
  BY <1>0, <1>1, Handled DEF ClientTypeOK
<1>5. IsUpdate(q) => /\ Len(queue[c]) = 1 /\ pc[c] # "idle"
                     /\ q.srf = tgt[c] /\ q.region = region[c]
  BY <1>0, <1>3, <1>4 DEF Waits
<1>6. ~ IsUpdate(q) /\ pc[c] = "sync" => queue'[c] # <<>>
  BY <1>0, <1>1, <1>3, <1>4 DEF Waits
<1>7. CASE IsUpdate(q) /\ displaying = q.srf
  <2>1. /\ displaying' = displaying /\ ovOn' = TRUE /\ ovFor' = <<c, region[c]>>
    BY <1>3, <1>5, <1>7 DEF IsUpdate, Display, ForcedDisplay, SetupOverlay
  <2>2. tgt[c] \in SrfNos /\ srfOwner[tgt[c]] = c
    BY <1>0, <1>5, <1>7 DEF Waits
  <2>3. Claimed(c)
    BY <1>5, <1>7, <2>2 DEF ClaimInv
  <2>4. Claimed(c)'
    BY <1>1, <1>2, <2>1, <2>3 DEF Claimed, SetUp
  <2>. QED
    BY <1>1, <1>2, <1>5, <1>7, <2>1, <2>2, <2>4 DEF ClaimInv, SubpictureOfShown
<1>8. CASE IsUpdate(q) /\ displaying # q.srf
  <2>1. UNCHANGED <<displaying, ovOn, ovFor>>
    BY <1>3, <1>8 DEF IsUpdate, Display, ForcedDisplay
  <2>2. ASSUME displaying \in SrfNos
        PROVE  LET d == srfOwner[displaying] IN d \in Ctxs /\ Claimed(d)'
    <3> DEFINE d == srfOwner[displaying]
    <3>1. d \in Ctxs /\ Claimed(d)
      BY <2>2 DEF ClaimInv
    <3>2. d # c
      BY <1>5, <1>8, <3>1 DEF Claimed
    <3>. QED
      BY <1>1, <1>2, <2>1, <3>1, <3>2 DEF Claimed, SetUp
  <2>. QED
    BY <1>1, <1>2, <2>1, <2>2 DEF ClaimInv, SubpictureOfShown
<1>9. CASE ~ IsUpdate(q)
  <2>1. \/ displaying' = None
        \/ UNCHANGED <<displaying, ovOn, ovFor>>
    <3>1. CASE q.cmd = "ATTRIBUTES" /\ Attributes(q)
      BY <3>1 DEF Attributes
    <3>2. CASE q.cmd = "UNDISPLAY" /\ Undisplay(q) /\ displaying = q.srf
      BY <3>2 DEF Undisplay
    <3>3. CASE q.cmd = "UNDISPLAY" /\ Undisplay(q) /\ displaying # q.srf
      BY <3>3 DEF Undisplay, DisplayInv, DisplayTypeOK
    <3>. QED
      BY <1>3, <1>9, <3>1, <3>2, <3>3 DEF IsUpdate
  <2>2. CASE displaying' = None
    BY <1>0, <1>1, <1>2, <2>2 DEF ClaimInv, SubpictureOfShown
  <2>3. CASE UNCHANGED <<displaying, ovOn, ovFor>>
    <3>1. \A d \in Ctxs : pc[d] = "sync" => queue'[d] # <<>> \/ queue[d] = <<>>
      BY <1>1, <1>6, <1>9
    <3>2. /\ UNCHANGED <<displaying, addr, shown, tgt, region, lastSrf, srfOwner>>
          /\ UNCHANGED <<ovOn, ovFor>> /\ subOn' \in {subOn, None} /\ pc' = pc
      BY <1>1, <1>2, <2>3
    <3>. QED
      BY <3>1, <3>2, ClaimStays
  <2>. QED
    BY <2>1, <2>2, <2>3
<1>. QED
  BY <1>7, <1>8, <1>9

(* Every step keeps the claim, and every flip is good.                     *)
LEMMA NextClaimInv ==
  ASSUME Marked, DisplayInv, ClaimInv, [Next]_vars
  PROVE  ClaimInv' /\ \A c \in Ctxs : Flip(c) => FlipGood(c)
<1>0. /\ "fail" \notin Features /\ "stop" \notin Features /\ "destroy" \notin Features
      /\ "xv" \in Features => XvPort > 0
      /\ None \notin SrfNos /\ Xv \notin SrfNos /\ None \notin Ctxs
      /\ displaying \in SrfNos \cup {None, Xv}
  BY DisplayAssumption DEF Marked, DisplayInv, DisplayTypeOK
<1>1. ASSUME NEW c \in Ctxs, NEW q \in Requests, NEW n,
             queue'[c] = Append(queue[c], q), OthersStay(c),
             subOn' \in {subOn, None}, UNCHANGED <<hwVars, displaying, srfOwner>>,
             UNCHANGED <<pc, tgt, region, lastSrf>>
      PROVE  ClaimInv'
  <2>1. queue'[c] # <<>>
    <3>1. queue[c] \in Seq(Requests)
      BY DEF DisplayInv, DisplayTypeOK, ClientTypeOK
    <3>2. Append(queue[c], q) # <<>>
      BY <3>1, Asked
    <3>. QED
      BY <1>1, <3>2
  <2>2. \A d \in Ctxs : pc[d] = "sync" => queue'[d] # <<>> \/ queue[d] = <<>>
    BY <1>1, <2>1 DEF OthersStay
  <2>3. UNCHANGED <<addr, shown, ovOn, ovFor>>
    BY <1>1 DEF hwVars
  <2>. QED
    BY <1>1, <2>2, <2>3, ClaimStays
<1>2. ASSUME NEW c \in Ctxs, NEW n \in SrfNos, NEW r \in Regions, NEW touched \in BOOLEAN,
             PutSurface(c, n, r, touched)
      PROVE  ClaimInv'
  BY <1>2, PutSurfaceClaims
<1>3. ASSUME NEW c \in Ctxs, PutSurfaceResume(c)
      PROVE  ClaimInv'
  BY <1>3, ResumeClaims
<1>4. ASSUME NEW c \in Ctxs,
             \/ \E n \in SrfNos, r \in Regions : PutSurfaceNoDrawable(c, n, r)
             \/ PutSurfaceFails(c) \/ PutSurfaceReturns(c)
      PROVE  ClaimInv'
  <2>1. /\ OthersStay(c) /\ pc[c] = "tail" /\ pc'[c] = "idle" /\ region' = region
        /\ UNCHANGED <<displaying, subOn, queue, hwVars, serverVars, tgt, lastSrf>>
    BY <1>0, <1>4, EndsDoes
  <2>2. \A d \in Ctxs : pc'[d] = pc[d] \/ (pc[d] # "sync" /\ pc'[d] # "sync")
    BY <2>1 DEF OthersStay
  <2>3. UNCHANGED <<addr, shown, ovOn, ovFor, srfOwner>>
    BY <2>1 DEF hwVars, serverVars
  <2>4. \A d \in Ctxs : pc[d] = "sync" => queue'[d] # <<>> \/ queue[d] = <<>>
    BY <2>1
  <2>. QED
    BY <2>1, <2>2, <2>3, <2>4, ClaimStays
<1>5. ASSUME NEW c \in Ctxs, NEW n \in SrfNos, HideSurface(c, n)
      PROVE  ClaimInv'
  <2>1. UNCHANGED <<pc, tgt, region, lastSrf, srfOwner, displaying, hwVars>>
        /\ subOn' \in {subOn, None} /\ OthersStay(c)
    BY <1>5, HideSurfaceDoes DEF serverVars, clientVars
  <2>2. PICK q \in Requests : queue'[c] = Append(queue[c], q)
    BY <1>5, HideSurfaceDoes
  <2>. QED
    BY <1>1, <2>1, <2>2
<1>6. ASSUME NEW c \in Ctxs, NEW a \in Values, SetAttribute(c, a)
      PROVE  ClaimInv'
  <2>1. /\ UNCHANGED <<displaying, subOn, hwVars, serverVars, pc, tgt, region, lastSrf>>
        /\ OthersStay(c)
    BY <1>6, SetAttributeDoes
  <2>2. UNCHANGED <<srfOwner, addr, shown, ovOn, ovFor>>
    BY <2>1 DEF serverVars, hwVars
  <2>3. CASE queue' = queue
    <3>1. \A d \in Ctxs : pc[d] = "sync" => queue'[d] # <<>> \/ queue[d] = <<>>
      BY <2>3
    <3>. QED
      BY <2>1, <2>2, <3>1, ClaimStays
  <2>4. CASE \E q \in Requests : queue'[c] = Append(queue[c], q)
    BY <1>1, <2>1, <2>2, <2>4
  <2>. QED
    BY <1>6, <2>3, <2>4, SetAttributeDoes
<1>7. ASSUME NEW c \in Ctxs, HandleXvMC(c)
      PROVE  ClaimInv'
  BY <1>7, HandleClaims
<1>8. ASSUME NEW c \in Ctxs, NEW n \in SrfNos,
             SetSubpicture(c, n) \/ CreateSurface(c, n) \/ DestroySurface(c, n)
      PROVE  ClaimInv'
  <2>1. /\ UNCHANGED <<queue, subOn, addr, shown, ovFor, clientVars, displaying, ovOn>>
        /\ \A m \in SrfNos : srfOwner[m] # None => srfOwner'[m] = srfOwner[m]
    BY <1>0, <1>8, TablesDoes
  <2>2. UNCHANGED <<pc, tgt, region, lastSrf>>
    BY <2>1 DEF clientVars
  <2>3. ASSUME displaying \in SrfNos
        PROVE  /\ srfOwner'[displaying'] = srfOwner[displaying]
               /\ LET d == srfOwner[displaying] IN d \in Ctxs /\ Claimed(d)'
    <3> DEFINE d == srfOwner[displaying]
    <3>1. d \in Ctxs /\ Claimed(d)
      BY <2>3 DEF ClaimInv
    <3>2. srfOwner'[displaying'] = d
      BY <1>0, <2>1, <2>3, <3>1
    <3>3. Claimed(d)'
      BY <2>1, <2>2, <3>1, <3>2 DEF Claimed, SetUp
    <3>. QED
      BY <3>1, <3>2, <3>3
  <2>4. \A d \in Ctxs : lastSrf'[d] \in SrfNos => srfOwner'[lastSrf'[d]] = d
    BY <1>0, <2>1, <2>2 DEF ClaimInv
  <2>5. SubpictureOfShown'
    BY <2>1 DEF ClaimInv, SubpictureOfShown
  <2>. QED
    BY <2>1, <2>3, <2>4, <2>5 DEF ClaimInv
<1>9. ASSUME \/ \E r \in Regions : XvPutImage(r)
             \/ \E a \in Values : XvSetAttribute(a)
             \/ XvStopVideo
      PROVE  ClaimInv'
  <2>1. UNCHANGED <<queue, srfOwner, clientVars>>
    BY <1>9, XvDoes
  <2>2. UNCHANGED <<pc, tgt, region, lastSrf>>
    BY <2>1 DEF clientVars
  <2>3. CASE \E r \in Regions : XvPutImage(r)
    <3>1. displaying' = Xv /\ subOn' = None
      BY <1>0, <2>3 DEF XvPutImage, SetDisplayLock
    <3>2. \A d \in Ctxs : lastSrf'[d] \in SrfNos => srfOwner'[lastSrf'[d]] = d
      BY <2>1, <2>2 DEF ClaimInv
    <3>3. displaying' \notin SrfNos
      BY <1>0, <3>1
    <3>4. SubpictureOfShown'
      BY <3>1 DEF SubpictureOfShown
    <3>. QED
      BY <3>2, <3>3, <3>4 DEF ClaimInv
  <2>4. CASE \E a \in Values : XvSetAttribute(a)
    <3>1. UNCHANGED <<displaying, subOn, addr, shown, ovOn, ovFor>>
      BY <2>4 DEF XvSetAttribute
    <3>2. /\ \A d \in Ctxs : pc[d] = "sync" => queue'[d] # <<>> \/ queue[d] = <<>>
          /\ \A d \in Ctxs : pc'[d] = pc[d] \/ (pc[d] # "sync" /\ pc'[d] # "sync")
      BY <2>1, <2>2
    <3>3. UNCHANGED <<displaying, addr, shown, tgt, region, lastSrf, srfOwner>>
      BY <2>1, <2>2, <3>1
    <3>4. UNCHANGED <<ovOn, ovFor>> /\ subOn' \in {subOn, None}
      BY <3>1
    <3>. QED
      BY <3>2, <3>3, <3>4, ClaimStays
  <2>5. CASE XvStopVideo
    BY <1>0, <2>5 DEF XvStopVideo
  <2>. QED
    BY <1>9, <2>3, <2>4, <2>5
<1>10. ASSUME Still
       PROVE  ClaimInv'
  <2>1. /\ UNCHANGED <<displaying, addr, shown, tgt, region, lastSrf, srfOwner>>
        /\ UNCHANGED <<ovOn, ovFor, subOn, pc, queue>>
    BY <1>10 DEF Still, hwVars, serverVars, clientVars
  <2>2. /\ \A d \in Ctxs : pc[d] = "sync" => queue'[d] # <<>> \/ queue[d] = <<>>
        /\ \A d \in Ctxs : pc'[d] = pc[d] \/ (pc[d] # "sync" /\ pc'[d] # "sync")
    BY <2>1
  <2>3. subOn' \in {subOn, None}
    BY <2>1
  <2>. QED
    BY <2>1, <2>2, <2>3, ClaimStays
<1>11. ClaimInv'
  BY <1>2, <1>3, <1>4, <1>5, <1>6, <1>7, <1>8, <1>9, <1>10, Steps
<1>12. ASSUME NEW c \in Ctxs, Flip(c) PROVE FlipGood(c)
  BY <1>12, PutSurfaceClaims, ResumeClaims DEF Flip
<1>. QED
  BY <1>11, <1>12

(* Nobody has put yet.                                                     *)
LEMMA InitClaimInv == Init => ClaimInv
BY DisplayAssumption DEF Init, ClaimInv, SubpictureOfShown

(* Every claim is of a context that the overlay is set up for or will be.  *)
THEOREM ClaimInvariant == ASSUME Marked PROVE Spec => [](DisplayInv /\ ClaimInv)
<1>1. DisplayInv /\ ClaimInv /\ [Next]_vars => ClaimInv'
  BY NextClaimInv
<1>. QED
  BY <1>1, InitDisplayInv, InitClaimInv, NextDisplayInv, PTL DEF Spec

(* A context flips only its own picture, while the SAREA names it, into an *)
(* overlay that is on and set up for it, whatever other contexts and plain *)
(* Xv have done between two sections under the hardware lock.              *)
THEOREM FlipsOwnOverlay == ASSUME Marked PROVE Spec => FlipOwnsOverlay
<1>1. DisplayInv /\ ClaimInv /\ [Next]_vars =>
        [\A c \in Ctxs : Flip(c) => /\ shown' = tgt'[c] /\ displaying' = tgt'[c]
                                    /\ ovOn' /\ ovFor' = <<c, region'[c]>>]_vars
  BY NextClaimInv DEF FlipGood
<1>. QED
  BY <1>1, ClaimInvariant, PTL DEF Spec, FlipOwnsOverlay

(* What the SAREA claims for a context with nothing under way is what the  *)
(* overlay shows, at the place of its last put.                            *)
THEOREM ClaimShown == ASSUME Marked PROVE Spec => []OverlayShowsClaim
<1>1. DisplayInv /\ ClaimInv => OverlayShowsClaim
  BY DEF ClaimInv, Claimed, SetUp, OverlayShowsClaim
<1>. QED
  BY <1>1, ClaimInvariant, PTL

(* A subpicture that is on belongs to the context whose picture is shown.  *)
THEOREM SubpictureIsOfShown == ASSUME Marked PROVE Spec => []SubpictureOfShown
<1>1. DisplayInv /\ ClaimInv => SubpictureOfShown
  BY DEF ClaimInv
<1>. QED
  BY <1>1, ClaimInvariant, PTL

-----------------------------------------------------------------------------
(* One XvMC client, next to plain Xv on the port numbered 0 or alone.  (A  *)
(* DISPLAY command that is refused has already changed the attributes: so  *)
(* it must not be refused for a claim of Xv, a second client or a hide that*)
(* has overtaken it.)                                                      *)
Alone ==
  /\ \A c, d \in Ctxs : c = d
  /\ "xv" \in Features => XvPort = 0 /\ "hide" \notin Features

(* The values a context wants are the last it has sent, or those in effect.*)
Pending(c) ==
  LET Sets(i) == queue[c][i].cmd = "ATTRIBUTES"
  IN  /\ \A i \in 1..Len(queue[c]) :
           Sets(i) /\ (\A j \in i + 1..Len(queue[c]) : ~ Sets(j)) =>
             queue[c][i].attrib = attrib[c]
      /\ (\A i \in 1..Len(queue[c]) : ~ Sets(i)) => hwAttr = attrib[c]

AttrInv ==
  /\ ctxDisplaying = Xv => "xv" \in Features /\ (hwAttr = xvAttr \/ newAttr)
  /\ \A c \in Ctxs : ctxDisplaying = c => haveXv[c] /\ Pending(c)
  /\ \A c \in Ctxs : pc[c] # "idle" =>
       haveXv[c] /\ ("xv" \in Features => displaying = tgt[c])

(* Another request behind those that are pending.                          *)
LEMMA PendingGrows ==
  ASSUME ClientTypeOK, NEW c \in Ctxs, NEW q \in Requests,
         queue'[c] = Append(queue[c], q), hwAttr' = hwAttr,
         \/ q.cmd # "ATTRIBUTES" /\ attrib'[c] = attrib[c] /\ Pending(c)
         \/ q.cmd = "ATTRIBUTES" /\ attrib'[c] = q.attrib
  PROVE  Pending(c)'
<1>1. /\ Len(queue[c]) \in Nat /\ Len(queue'[c]) = Len(queue[c]) + 1
      /\ \A i \in 1..Len(queue[c]) + 1 :
           queue'[c][i] = IF i = Len(queue[c]) + 1 THEN q ELSE queue[c][i]
  BY Asked DEF ClientTypeOK
<1>2. CASE q.cmd # "ATTRIBUTES" /\ attrib'[c] = attrib[c] /\ Pending(c)
  <2>1. ASSUME NEW i \in 1..Len(queue'[c]), queue'[c][i].cmd = "ATTRIBUTES",
               \A j \in i + 1..Len(queue'[c]) : queue'[c][j].cmd # "ATTRIBUTES"
        PROVE  queue'[c][i].attrib = attrib'[c]
    <3>1. i \in 1..Len(queue[c]) /\ queue'[c][i] = queue[c][i]
      BY <1>1, <1>2, <2>1
    <3>2. \A j \in i + 1..Len(queue[c]) : queue[c][j].cmd # "ATTRIBUTES"
      BY <1>1, <2>1
    <3>. QED
      BY <1>2, <2>1, <3>1, <3>2 DEF Pending
  <2>2. ASSUME \A i \in 1..Len(queue'[c]) : queue'[c][i].cmd # "ATTRIBUTES"
        PROVE  hwAttr' = attrib'[c]
    <3>1. \A i \in 1..Len(queue[c]) : queue[c][i].cmd # "ATTRIBUTES"
      BY <1>1, <2>2
    <3>. QED
      BY <1>2, <3>1 DEF Pending
  <2>. QED
    BY <2>1, <2>2 DEF Pending
<1>3. CASE q.cmd = "ATTRIBUTES" /\ attrib'[c] = q.attrib
  <2>1. /\ Len(queue[c]) + 1 \in 1..Len(queue'[c])
        /\ queue'[c][Len(queue[c]) + 1] = q
    BY <1>1
  <2>2. ASSUME NEW i \in 1..Len(queue'[c]), i # Len(queue[c]) + 1
        PROVE  Len(queue[c]) + 1 \in i + 1..Len(queue'[c])
    BY <1>1, <2>2
  <2>. QED
    BY <1>3, <2>1, <2>2 DEF Pending
<1>. QED
  BY <1>2, <1>3

(* The oldest request is handled, and takes effect if it sets attributes.  *)
LEMMA PendingShrinks ==
  ASSUME ClientTypeOK, NEW c \in Ctxs, queue[c] # <<>>, queue'[c] = Tail(queue[c]),
         Pending(c), attrib'[c] = attrib[c],
         hwAttr' = IF queue[c][1].cmd = "ATTRIBUTES" THEN queue[c][1].attrib ELSE hwAttr
  PROVE  Pending(c)'
<1>1. /\ Len(queue[c]) \in Nat \ {0} /\ Len(queue'[c]) = Len(queue[c]) - 1
      /\ \A i \in 1..Len(queue[c]) - 1 : queue'[c][i] = queue[c][i + 1]
  BY Handled DEF ClientTypeOK
<1>2. ASSUME NEW i \in 1..Len(queue'[c]), queue'[c][i].cmd = "ATTRIBUTES",
             \A j \in i + 1..Len(queue'[c]) : queue'[c][j].cmd # "ATTRIBUTES"
      PROVE  queue'[c][i].attrib = attrib'[c]
  <2>1. i + 1 \in 1..Len(queue[c]) /\ queue'[c][i] = queue[c][i + 1]
    BY <1>1
  <2>2. ASSUME NEW j \in (i + 1) + 1..Len(queue[c])
        PROVE  queue[c][j].cmd # "ATTRIBUTES"
    <3>1. j - 1 \in i + 1..Len(queue'[c]) /\ queue'[c][j - 1] = queue[c][j]
      BY <1>1
    <3>. QED
      BY <1>2, <3>1
  <2>. QED
    BY <1>2, <2>1, <2>2 DEF Pending
<1>3. ASSUME \A i \in 1..Len(queue'[c]) : queue'[c][i].cmd # "ATTRIBUTES"
      PROVE  hwAttr' = attrib'[c]
  <2>1. ASSUME NEW j \in 2..Len(queue[c])
        PROVE  queue[c][j].cmd # "ATTRIBUTES"
    <3>1. j - 1 \in 1..Len(queue'[c]) /\ queue'[c][j - 1] = queue[c][j]
      BY <1>1
    <3>. QED
      BY <1>3, <3>1
  <2>2. 1 \in 1..Len(queue[c]) /\ 1 + 1 = 2
    BY <1>1
  <2>3. CASE queue[c][1].cmd = "ATTRIBUTES"
    <3>1. queue[c][1].attrib = attrib[c]
      BY <2>1, <2>2, <2>3 DEF Pending
    <3>. QED
      BY <2>3, <3>1
  <2>4. CASE queue[c][1].cmd # "ATTRIBUTES"
    <3>1. \A j \in 1..Len(queue[c]) : queue[c][j].cmd # "ATTRIBUTES"
      BY <1>1, <2>1, <2>4
    <3>. QED
      BY <2>4, <3>1 DEF Pending
  <2>. QED
    BY <2>3, <2>4
<1>. QED
  BY <1>2, <1>3 DEF Pending

(* A step of the client after which it still gets what it wants.           *)
LEMMA AttrStays ==
  ASSUME Alone, AttrInv, NEW c \in Ctxs,
         UNCHANGED <<hwAttr, ctxDisplaying, xvAttr, newAttr>>,
         haveXv[c] => haveXv'[c],
         ctxDisplaying = c => Pending(c)',
         pc'[c] # "idle" => haveXv'[c] /\ ("xv" \in Features => displaying' = tgt'[c])
  PROVE  AttrInv'
<1>1. \A d \in Ctxs : d = c
  BY DEF Alone
<1>2. ctxDisplaying' = Xv => "xv" \in Features /\ (hwAttr' = xvAttr' \/ newAttr')
  BY DEF AttrInv
<1>3. ctxDisplaying' = c => haveXv'[c] /\ Pending(c)'
  BY DEF AttrInv
<1>. QED
  BY <1>1, <1>2, <1>3 DEF AttrInv

(* A put goes on with a request that sets no attributes, or with none.     *)
LEMMA PutAttrs ==
  ASSUME Alone, DisplayInv, AttrInv, NEW c \in Ctxs, NEW n \in SrfNos, NEW r \in Regions,
         Waiting(c, n, r) \/ Flipped(c, n, r), UNCHANGED <<hwAttr, serverVars, attrib>>,
         pc[c] = "idle" \/ haveXv[c],
         "xv" \in Features => displaying' = tgt'[c]
  PROVE  AttrInv'
<1>0. ClientTypeOK /\ UNCHANGED <<ctxDisplaying, xvAttr, newAttr>>
  BY DEF DisplayInv, DisplayTypeOK, serverVars
<1>1. ASSUME NEW where \in {"sync", "tail"}, CallServer(c, n, r, where)
      PROVE  AttrInv'
  <2> DEFINE q == UpdateRequest(c, n, r)
  <2>1. /\ q \in Requests /\ IsUpdate(q)
        /\ \A d \in Ctxs : queue'[d] = IF d = c THEN Append(queue[c], q) ELSE queue[d]
        /\ \A d \in Ctxs : haveXv'[d] <=> d = c \/ haveXv[d]
    BY <1>0, <1>1, CallDoes
  <2> HIDE DEF q
  <2>2. haveXv'[c] /\ queue'[c] = Append(queue[c], q) /\ q.cmd # "ATTRIBUTES"
    BY <2>1 DEF IsUpdate
  <2>3. ctxDisplaying = c => Pending(c)'
    BY <1>0, <2>1, <2>2, PendingGrows DEF AttrInv
  <2>. QED
    BY <1>0, <2>2, <2>3, AttrStays
<1>2. ASSUME pc' = [pc EXCEPT ![c] = "idle"], UNCHANGED <<queue, haveXv, attribChanged>>
      PROVE  AttrInv'
  <2>1. pc'[c] = "idle"
    BY <1>0, <1>2 DEF ClientTypeOK
  <2>2. ctxDisplaying = c => Pending(c)'
    BY <1>2 DEF AttrInv, Pending
  <2>. QED
    BY <1>0, <1>2, <2>1, <2>2, AttrStays
<1>. QED
  BY <1>1, <1>2 DEF Waiting, Flipped

(* A request that is refused finds the overlay with nobody else.           *)
LEMMA HandleAttrs ==
  ASSUME Alone, DisplayInv, AttrInv, NEW c \in Ctxs, HandleXvMC(c)
  PROVE  AttrInv'
<1>0. /\ None \notin Ctxs /\ Xv \notin Ctxs /\ ClientTypeOK /\ Waits(c)
      /\ ctxDisplaying \in Ctxs \cup {None, Xv} /\ None # Xv
  BY DisplayAssumption DEF DisplayInv, DisplayTypeOK, QueueOK
<1>1. /\ queue[c] # <<>> /\ queue'[c] = Tail(queue[c])
      /\ UNCHANGED <<xvAttr, newAttr, pc, tgt, haveXv, attrib>>
  BY HandleDoes DEF clientVars
<1>2. PICK q \in Requests : /\ q = queue[c][1] /\ q.ctx = c
                            /\ \/ q.cmd = "DISPLAY" /\ Display(q)
                               \/ q.cmd = "FDISPLAY" /\ ForcedDisplay(q)
                               \/ q.cmd = "UNDISPLAY" /\ Undisplay(q)
                               \/ q.cmd = "ATTRIBUTES" /\ Attributes(q)
  BY HandleDoes
<1>3. Len(queue[c]) \in Nat \ {0} /\ Len(queue'[c]) = Len(queue[c]) - 1
  BY <1>0, <1>1, Handled DEF ClientTypeOK
<1>4. \A d \in Ctxs : d = c
  BY DEF Alone
<1>5. CASE IsUpdate(q)
  <2>1. /\ Len(queue[c]) = 1 /\ pc[c] # "idle" /\ haveXv[c]
        /\ q.srf = tgt[c] /\ q.attrib = attrib[c]
    <3>1. /\ Len(queue[c]) = 1 /\ pc[c] # "idle"
          /\ q.srf = tgt[c] /\ q.attrib = attrib[c]
      <4>1. q = queue[c][1] /\ 1 \in 1..Len(queue[c]) /\ IsUpdate(queue[c][1])
        BY <1>2, <1>3, <1>5
      <4>. QED
        BY <1>0, <4>1 DEF Waits
    <3>. QED
      BY <3>1 DEF AttrInv
  <2>2. Len(queue'[c]) = 0 /\ 1..Len(queue'[c]) = {}
    BY <1>3, <2>1
  <2>3. hwAttr' = attrib[c] => Pending(c)'
    BY <1>1, <2>2 DEF Pending
  <2>4. ctxDisplaying = c => hwAttr = attrib[c]
    <3>1. ASSUME ctxDisplaying = c PROVE \A i \in 1..Len(queue[c]) : queue[c][i].cmd # "ATTRIBUTES"
      BY <1>2, <1>5, <2>1 DEF IsUpdate
    <3>. QED
      BY <3>1 DEF AttrInv, Pending
  <2>5. CASE displaying = q.srf
    <3>1. /\ displaying' = displaying /\ ctxDisplaying' = c
          /\ hwAttr' = attrib[c]
      BY <1>2, <1>5, <2>1, <2>4, <2>5 DEF IsUpdate, Display, ForcedDisplay
    <3>. QED
      BY <1>0, <1>1, <1>4, <2>1, <2>3, <3>1 DEF AttrInv
  <2>6. CASE displaying # q.srf
    <3>1. /\ UNCHANGED <<displaying, ctxDisplaying>>
          /\ ctxDisplaying = c => hwAttr' = hwAttr
      BY <1>2, <1>5, <2>6 DEF IsUpdate, Display, ForcedDisplay
    <3>2. "xv" \notin Features /\ ctxDisplaying # Xv
      BY <2>1, <2>6 DEF AttrInv
    <3>. QED
      BY <1>0, <1>1, <1>4, <2>1, <2>3, <2>4, <3>1, <3>2 DEF AttrInv
  <2>. QED
    BY <2>5, <2>6
<1>6. CASE ~ IsUpdate(q)
  <2>1. /\ ctxDisplaying' = ctxDisplaying
        /\ hwAttr' = IF q.cmd = "ATTRIBUTES" /\ ctxDisplaying = c THEN q.attrib ELSE hwAttr
    BY <1>2, <1>6 DEF IsUpdate, Undisplay, Attributes
  <2>2. "xv" \in Features => displaying' = displaying
    <3>1. q.cmd = "UNDISPLAY" => "hide" \in Features
      BY <1>0, <1>2, <1>3 DEF Waits
    <3>. QED
      BY <1>2, <1>6, <3>1 DEF IsUpdate, Attributes, Alone
  <2>3. ctxDisplaying = c => Pending(c)'
    BY <1>0, <1>1, <1>2, <2>1, PendingShrinks DEF AttrInv
  <2>4. ctxDisplaying = Xv => hwAttr' = hwAttr
    BY <1>0, <2>1
  <2>. QED
    BY <1>0, <1>1, <1>4, <2>1, <2>2, <2>3, <2>4 DEF AttrInv
<1>. QED
  BY <1>5, <1>6

(* Every step keeps the attributes with their owner.                       *)
LEMMA NextAttrInv ==
  ASSUME Alone, DisplayInv, AttrInv, [Next]_vars
  PROVE  AttrInv'
<1>0. /\ None \notin Ctxs /\ Xv \notin Ctxs /\ None # Xv /\ ClientTypeOK
      /\ newAttr \in BOOLEAN
  BY DisplayAssumption DEF DisplayInv, DisplayTypeOK
<1>1. ASSUME NEW c \in Ctxs, NEW n \in SrfNos, NEW r \in Regions, NEW touched \in BOOLEAN,
             PutSurface(c, n, r, touched)
      PROVE  AttrInv'
  <2>1. /\ Waiting(c, n, r) \/ Flipped(c, n, r)
        /\ UNCHANGED <<hwAttr, serverVars, attrib>>
        /\ pc[c] = "idle" /\ displaying' = n /\ tgt'[c] = n
    BY <1>1, PutSurfaceDoes
  <2>. QED
    BY <2>1, PutAttrs
<1>2. ASSUME NEW c \in Ctxs, PutSurfaceResume(c)
      PROVE  AttrInv'
  <2>1. /\ Waiting(c, tgt[c], region[c]) \/ Flipped(c, tgt[c], region[c])
        /\ UNCHANGED <<hwAttr, serverVars, attrib, displaying, tgt>>
        /\ pc[c] = "sync" /\ tgt[c] \in SrfNos /\ region[c] \in Regions
    BY <1>0, <1>2, ResumeDoes DEF ClientTypeOK
  <2>2. haveXv[c] /\ ("xv" \in Features => displaying' = tgt'[c])
    BY <2>1 DEF AttrInv
  <2>. QED
    BY <2>1, <2>2, PutAttrs
<1>3. ASSUME NEW c \in Ctxs,
             \/ \E n \in SrfNos, r \in Regions : PutSurfaceNoDrawable(c, n, r)
             \/ PutSurfaceFails(c) \/ PutSurfaceReturns(c)
      PROVE  AttrInv'
  <2>1. /\ UNCHANGED <<queue, hwVars, serverVars, haveXv, attrib>> /\ pc'[c] = "idle"
    BY <1>3, EndsDoes
  <2>2. UNCHANGED <<hwAttr, ctxDisplaying, xvAttr, newAttr>>
    BY <2>1 DEF hwVars, serverVars
  <2>3. ctxDisplaying = c => Pending(c)'
    BY <2>1, <2>2 DEF AttrInv, Pending
  <2>. QED
    BY <2>1, <2>2, <2>3, AttrStays
<1>4. ASSUME NEW c \in Ctxs, NEW n \in SrfNos, HideSurface(c, n)
      PROVE  AttrInv'
  <2>1. UNCHANGED <<displaying, hwVars, serverVars, clientVars>>
    BY <1>4, HideSurfaceDoes
  <2>2. UNCHANGED <<hwAttr, ctxDisplaying, xvAttr, newAttr, haveXv, attrib, pc, tgt>>
    BY <2>1 DEF hwVars, serverVars, clientVars
  <2>3. PICK q \in Requests : q.cmd = "UNDISPLAY" /\ queue'[c] = Append(queue[c], q)
    BY <1>4, HideSurfaceDoes
  <2>4. ctxDisplaying = c => Pending(c)'
    BY <1>0, <2>2, <2>3, PendingGrows DEF AttrInv
  <2>5. pc'[c] # "idle" => haveXv'[c] /\ ("xv" \in Features => displaying' = tgt'[c])
    BY <2>1, <2>2 DEF AttrInv
  <2>. QED
    BY <2>2, <2>4, <2>5, AttrStays
<1>5. ASSUME NEW c \in Ctxs, NEW a \in Values, SetAttribute(c, a)
      PROVE  AttrInv'
  <2>1. /\ UNCHANGED <<displaying, hwVars, serverVars, pc, tgt, haveXv>>
        /\ pc[c] = "idle" /\ attrib'[c] = a
        /\ \/ haveXv[c] /\ \E q \in Requests : /\ q.cmd = "ATTRIBUTES" /\ q.attrib = a
                                               /\ queue'[c] = Append(queue[c], q)
           \/ ~ haveXv[c]
    BY <1>5, SetAttributeDoes
  <2>2. UNCHANGED <<hwAttr, ctxDisplaying, xvAttr, newAttr>>
    BY <2>1 DEF hwVars, serverVars
  <2>3. ctxDisplaying = c => Pending(c)'
    <3>1. ASSUME ctxDisplaying = c PROVE Pending(c)'
      <4>1. PICK q \in Requests : /\ q.cmd = "ATTRIBUTES" /\ q.attrib = a
                                  /\ queue'[c] = Append(queue[c], q)
        BY <2>1, <3>1 DEF AttrInv
      <4>. QED
        BY <1>0, <2>1, <2>2, <4>1, PendingGrows
    <3>. QED
      BY <3>1
  <2>. QED
    BY <2>1, <2>2, <2>3, AttrStays
<1>6. ASSUME NEW c \in Ctxs, HandleXvMC(c)
      PROVE  AttrInv'
  BY <1>6, HandleAttrs
<1>7. ASSUME NEW c \in Ctxs, NEW n \in SrfNos,
             SetSubpicture(c, n) \/ CreateSurface(c, n) \/ DestroySurface(c, n)
      PROVE  AttrInv'
  <2>1. /\ UNCHANGED <<queue, hwAttr, ctxDisplaying, xvAttr, newAttr, clientVars>>
        /\ pc[c] = "idle" \/ displaying # tgt[c] \/ displaying' = displaying
    BY <1>7, TablesDoes
  <2>2. UNCHANGED <<pc, tgt, haveXv, attrib>>
    BY <2>1 DEF clientVars
  <2>3. ctxDisplaying = c => Pending(c)'
    BY <2>1, <2>2 DEF AttrInv, Pending
  <2>4. pc'[c] # "idle" => haveXv'[c] /\ ("xv" \in Features => displaying' = tgt'[c])
    BY <2>1, <2>2, <1>0 DEF AttrInv
  <2>. QED
    BY <2>1, <2>2, <2>3, <2>4, AttrStays
<1>8. ASSUME \/ \E r \in Regions : XvPutImage(r)
             \/ \E a \in Values : XvSetAttribute(a)
             \/ XvStopVideo
      PROVE  AttrInv'
  <2>1. UNCHANGED <<queue, pc, tgt, haveXv, attrib>>
    BY <1>8, XvDoes DEF clientVars
  <2>2. CASE \E r \in Regions : XvPutImage(r)
    <3>1. "xv" \in Features /\ displaying' = displaying
      BY <2>2 DEF XvPutImage, SetDisplayLock, Alone
    <3>2. ctxDisplaying' = Xv /\ hwAttr' = xvAttr' /\ xvAttr' = xvAttr
      <4>1. /\ ctxDisplaying' = Xv /\ xvAttr' = xvAttr
            /\ hwAttr' = IF ctxDisplaying # Xv \/ newAttr THEN xvAttr ELSE hwAttr
        BY <2>2 DEF XvPutImage
      <4>. QED
        BY <4>1 DEF AttrInv
    <3>. QED
      BY <1>0, <2>1, <3>1, <3>2 DEF AttrInv
  <2>3. CASE \E a \in Values : XvSetAttribute(a)
    <3>1. /\ "xv" \in Features /\ UNCHANGED <<displaying, ctxDisplaying>>
          /\ \/ ctxDisplaying = Xv /\ hwAttr' = xvAttr'
             \/ ctxDisplaying # Xv /\ hwAttr' = hwAttr
      BY <2>3 DEF XvSetAttribute
    <3>2. ASSUME NEW c \in Ctxs, ctxDisplaying = c PROVE Pending(c)'
      BY <1>0, <2>1, <3>1, <3>2 DEF AttrInv, Pending
    <3>. QED
      BY <1>0, <2>1, <3>1, <3>2 DEF AttrInv
  <2>4. CASE XvStopVideo
    <3>1. UNCHANGED <<displaying, ctxDisplaying, hwAttr, xvAttr, newAttr>>
      BY <2>4 DEF XvStopVideo, serverVars
    <3>2. ASSUME NEW c \in Ctxs, ctxDisplaying = c PROVE Pending(c)'
      BY <2>1, <3>1, <3>2 DEF AttrInv, Pending
    <3>. QED
      BY <1>0, <2>1, <3>1, <3>2 DEF AttrInv
  <2>. QED
    BY <1>8, <2>2, <2>3, <2>4
<1>9. ASSUME Still
      PROVE  AttrInv'
  <2>1. UNCHANGED <<queue, pc, tgt, haveXv, attrib, displaying, ctxDisplaying, hwAttr,
                    xvAttr, newAttr>>
    BY <1>9 DEF Still, hwVars, serverVars, clientVars
  <2>. QED
    BY <2>1 DEF AttrInv, Pending
<1>. QED
  BY <1>1, <1>2, <1>3, <1>4, <1>5, <1>6, <1>7, <1>8, <1>9, Steps

(* The attributes in effect are those of the owner the server has recorded,*)
(* once its requests are handled, however XvMC and Xv take turns.          *)
THEOREM AttributesOfOwner == ASSUME Alone PROVE Spec => []AttributesFollowOwner
<1>1. Init => AttrInv
  BY DisplayAssumption DEF Init, AttrInv
<1>2. DisplayInv /\ AttrInv /\ [Next]_vars => AttrInv'
  BY NextAttrInv
<1>3. DisplayInv /\ AttrInv => AttributesFollowOwner
  <2>. SUFFICES ASSUME DisplayInv, AttrInv PROVE AttributesFollowOwner
    OBVIOUS
  <2>1. ASSUME NEW c \in Ctxs, ctxDisplaying = c, queue[c] = <<>>
        PROVE  hwAttr = attrib[c]
    <3>1. Pending(c) /\ 1..Len(queue[c]) = {}
      BY <2>1 DEF AttrInv
    <3>. QED
      BY <3>1 DEF Pending
  <2>. QED
    BY <2>1 DEF AttributesFollowOwner, AttrInv
<1>. QED
  BY <1>1, <1>2, <1>3, DisplayInvariant, PTL DEF Spec

=============================================================================
