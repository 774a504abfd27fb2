--------------------------- MODULE OverlayDisplay ---------------------------
(***************************************************************************)
(* Who has the video overlay.  XvMC clients flip their surfaces into the   *)
(* overlay themselves, under the DRI hardware lock, and ask the X server   *)
(* (an XvPutImage with a command) only when the overlay must be set up     *)
(* anew; plain Xv clients go through the server for every image.  The      *)
(* parties agree through two SAREA words, XvMCDisplaying and XvMCSubPicOn, *)
(* and the server's ctxDisplaying.                                         *)
(*                                                                         *)
(* Client side: src/xvmc/viaXvMC.c.  Server side: src/via_xvmc.c, with the *)
(* overlay of src/via_video.c and src/via_swov.c reduced to what it shows  *)
(* and for whom.  A section a client runs under the hardware lock, and a   *)
(* request the server handles (it holds that lock while it runs), is one   *)
(* step; the ctxMutex admits one call of a context at a time.              *)
(*                                                                         *)
(* External: the X connection keeps a client's requests in order, and an   *)
(* error the server returns reaches an Xlib error handler that returns.    *)
(***************************************************************************)
EXTENDS Naturals, Sequences

CONSTANTS Ctxs,       \* XvMC contexts, each in a client of its own
          SrfNos,     \* slots of the server's surface table, as numbers
          Regions,    \* source and destination rectangles of a put
          Values,     \* values of the video attributes
          None,       \* no surface, context or subpicture
          Unset,      \* ~0, what lastSrfDisplaying starts as
          Xv,         \* the plain Xv client: MAX_CONTEXTS or MAX_SURFACES
          XvPort,     \* number viaXvMC gives the adaptor's first Xv port
          Features,   \* which calls the clients of this instance make
          SubSrfs,    \* bound: slots whose surfaces get subpictures
          MaxQueue    \* bound: requests a client may have outstanding

ASSUME DisplayAssumption ==
  /\ SrfNos \subseteq Nat /\ SrfNos # {} /\ SubSrfs \subseteq SrfNos
  /\ None \notin Ctxs \cup SrfNos \cup {Xv, Unset}
  /\ Unset \notin SrfNos \cup {Xv} /\ Xv \notin Ctxs \cup SrfNos
  /\ Ctxs \cap SrfNos = {}
  /\ XvPort \in Nat /\ MaxQueue \in Nat \ {0}

VARIABLES
  displaying,     \* SAREA: XvMCDisplaying[port]
  subOn,          \* SAREA: XvMCSubPicOn[port], by the context that owns it
  srfOwner,       \* the context each surface slot is allocated to
  hasSub,         \* surfaces with a subpicture blended in (privSubPic)
  addr,           \* hardware: surface whose address is in the HQV registers
  shown,          \* hardware: surface flipped in last
  ovOn,           \* hardware: the overlay is enabled
  ovFor,          \* hardware: whose picture, and region, it is set up for
  hwAttr,         \* hardware: the attribute values in effect
  ctxDisplaying,  \* server: who the overlay's attributes belong to
  xvAttr,         \* server: attributes set by Xv clients
  newAttr,        \* server: newAttribute, they changed while XvMC displayed
  queue,          \* requests of each client the server has not handled
  pc,             \* idle, in XSync of the update loop, or of the final update
  tgt,            \* the surface of the put in progress
  region,         \* sRegion and dRegion of each context
  lastSrf,        \* lastSrfDisplaying of each context
  haveXv,         \* the context has created its XvImage
  attrib,         \* the context's own attribute values
  attribChanged,  \* they have not been sent yet
  jammed          \* contexts whose ctxMutex a returned call has left locked

hwVars     == <<addr, shown, ovOn, ovFor, hwAttr>>
serverVars == <<srfOwner, ctxDisplaying, xvAttr, newAttr>>
clientVars == <<pc, tgt, region, lastSrf, haveXv, attrib, attribChanged, jammed>>
vars == <<displaying, subOn, hasSub, queue, hwVars, serverVars, clientVars>>

(* The first context has just been created: ViaXvMCCreateContext has given *)
(* the Xv port its number and cleared its two SAREA words.                 *)
Init ==
  \E v \in Values, r \in Regions :
    /\ displaying = None /\ subOn = None /\ hasSub = {}
    /\ srfOwner = [n \in SrfNos |-> None]
    /\ addr = None /\ shown = None /\ ovOn = FALSE /\ ovFor = <<None, r>>
    /\ hwAttr = v /\ xvAttr = v /\ newAttr = TRUE /\ ctxDisplaying = None
    /\ queue = [c \in Ctxs |-> <<>>]
    /\ pc = [c \in Ctxs |-> "idle"]
    /\ tgt = [c \in Ctxs |-> None]
    /\ region = [c \in Ctxs |-> r]
    /\ lastSrf = [c \in Ctxs |-> Unset]
    /\ haveXv = [c \in Ctxs |-> FALSE]
    /\ attrib = [c \in Ctxs |-> v]
    /\ attribChanged = [c \in Ctxs |-> TRUE]
    /\ jammed = {}

-----------------------------------------------------------------------------
(* The client library.                                                     *)

(* A call may begin: no other call of the context has its ctxMutex.        *)
Callable(c) == pc[c] = "idle" /\ c \notin jammed

Room(c) == Len(queue[c]) < MaxQueue

(* updateXVOverlay: one DISPLAY command, FDISPLAY when attributes changed. *)
UpdateRequest(c, n, r) ==
  [cmd |-> IF attribChanged[c] THEN "FDISPLAY" ELSE "DISPLAY",
   ctx |-> c, srf |-> n, region |-> r, attrib |-> attrib[c]]

CallServer(c, n, r, where) ==
  /\ queue' = [queue EXCEPT ![c] = Append(@, UpdateRequest(c, n, r))]
  /\ haveXv' = [haveXv EXCEPT ![c] = TRUE]
  /\ attribChanged' = [attribChanged EXCEPT ![c] = FALSE]
  /\ pc' = [pc EXCEPT ![c] = where]

(* The subpicture of the surface, or none, and the flip that shows the     *)
(* surface whose address the registers hold.                               *)
FlipLocked_KeepsSubpicture(c, n) ==
  /\ subOn' = IF n \in hasSub THEN c ELSE subOn
  /\ shown' = addr'

FlipLocked(c, n) ==
  /\ subOn' = IF n \in hasSub THEN c ELSE None
  /\ shown' = addr'

(* The rest of a put that need not call the server first: flip, then an    *)
(* overlay update if the drawable has been touched.                        *)
FlipAndReturn(c, n, r, touched) ==
  /\ FlipLocked(c, n)
  /\ IF touched
       THEN CallServer(c, n, r, "tail")
       ELSE /\ pc' = [pc EXCEPT ![c] = "idle"]
            /\ UNCHANGED <<queue, haveXv, attribChanged>>

(* XvMCPutSurface up to its first release of the hardware lock: claim the  *)
(* overlay in the SAREA, load the address, and flip at once if this context*)
(* was the last to display and nothing has moved.                          *)
PutSurface(c, n, r, touched) ==
  /\ Callable(c) /\ srfOwner[n] = c /\ Room(c)
  /\ region' = [region EXCEPT ![c] = r]
  /\ tgt' = [tgt EXCEPT ![c] = n]
  /\ displaying' = n
  /\ lastSrf' = [lastSrf EXCEPT ![c] = n]
  /\ addr' = n
  /\ IF lastSrf[c] # displaying \/ r # region[c]
       THEN CallServer(c, n, r, "sync") /\ UNCHANGED <<subOn, shown>>
       ELSE FlipAndReturn(c, n, r, touched)
  /\ UNCHANGED <<hasSub, ovOn, ovFor, hwAttr, serverVars, attrib, jammed>>

(* The drawable cannot be looked up: the new rectangles have already been  *)
(* stored, the SAREA has not been touched.                                 *)
PutSurfaceNoDrawable(c, n, r) ==
  /\ "fail" \in Features
  /\ Callable(c) /\ srfOwner[n] = c
  /\ region' = [region EXCEPT ![c] = r]
  /\ UNCHANGED <<displaying, subOn, hasSub, queue, hwVars, serverVars, pc, tgt,
                 lastSrf, haveXv, attrib, attribChanged, jammed>>

(* Back from XSync with the lock: flip if the SAREA still names this       *)
(* surface, else call the server again.                                    *)
PutSurfaceResume_NoRecheck(c) ==
  /\ pc[c] = "sync" /\ queue[c] = <<>>
  /\ addr' = addr
  /\ FlipLocked(c, tgt[c])
  /\ pc' = [pc EXCEPT ![c] = "idle"]
  /\ UNCHANGED <<queue, haveXv, attribChanged>>
  /\ UNCHANGED <<displaying, hasSub, ovOn, ovFor, hwAttr, serverVars, tgt,
                 region, lastSrf, attrib, jammed>>

PutSurfaceResume_StaleLastSurface(c) ==
  /\ pc[c] = "sync" /\ queue[c] = <<>>
  /\ addr' = addr
  /\ IF displaying = Unset
       THEN /\ FlipLocked(c, tgt[c])
            /\ pc' = [pc EXCEPT ![c] = "idle"]
            /\ UNCHANGED <<queue, haveXv, attribChanged>>
       ELSE CallServer(c, tgt[c], region[c], "sync") /\ UNCHANGED <<subOn, shown>>
  /\ UNCHANGED <<displaying, hasSub, ovOn, ovFor, hwAttr, serverVars, tgt,
                 region, lastSrf, attrib, jammed>>

PutSurfaceResume(c) ==
  /\ pc[c] = "sync" /\ queue[c] = <<>>
  /\ addr' = addr
  /\ IF displaying = tgt[c]
       THEN /\ FlipLocked(c, tgt[c])
            /\ pc' = [pc EXCEPT ![c] = "idle"]
            /\ UNCHANGED <<queue, haveXv, attribChanged>>
       ELSE CallServer(c, tgt[c], region[c], "sync") /\ UNCHANGED <<subOn, shown>>
  /\ UNCHANGED <<displaying, hasSub, ovOn, ovFor, hwAttr, serverVars, tgt,
                 region, lastSrf, attrib, jammed>>

(* The drawable is gone when the lock is taken again, or XvPutImage itself *)
(* has failed: the put returns an error, the SAREA stays claimed.          *)
PutSurfaceFails(c) ==
  /\ "fail" \in Features
  /\ pc[c] = "sync" /\ queue[c] = <<>>
  /\ pc' = [pc EXCEPT ![c] = "idle"]
  /\ UNCHANGED <<displaying, subOn, hasSub, queue, hwVars, serverVars, tgt,
                 region, lastSrf, haveXv, attrib, attribChanged, jammed>>

PutSurfaceReturns(c) ==
  /\ pc[c] = "tail" /\ queue[c] = <<>>
  /\ pc' = [pc EXCEPT ![c] = "idle"]
  /\ UNCHANGED <<displaying, subOn, hasSub, queue, hwVars, serverVars, tgt,
                 region, lastSrf, haveXv, attrib, attribChanged, jammed>>

(* XvMCHideSurface: the subpicture goes at once, the overlay by an         *)
(* UNDISPLAY request that nobody waits for.                                *)
HideSurface(c, n) ==
  /\ "hide" \in Features
  /\ Callable(c) /\ srfOwner[n] = c /\ haveXv[c] /\ Room(c)
  /\ displaying = n
  /\ subOn' = IF n \in hasSub /\ subOn = c THEN None ELSE subOn
  /\ queue' = [queue EXCEPT ![c] =
                 Append(@, [cmd |-> "UNDISPLAY", ctx |-> c, srf |-> n])]
  /\ UNCHANGED <<displaying, hasSub, hwVars, serverVars, clientVars>>

(* XvMCSetAttribute of a known attribute with a legal value: sent at once  *)
(* if the context has an XvImage, with the next overlay update otherwise.  *)
SetAttribute(c, v) ==
  /\ "attr" \in Features
  /\ Callable(c) /\ Room(c)
  /\ attrib' = [attrib EXCEPT ![c] = v]
  /\ attribChanged' = [attribChanged EXCEPT ![c] = ~ haveXv[c]]
  /\ queue' = IF haveXv[c]
                THEN [queue EXCEPT ![c] =
                        Append(@, [cmd |-> "ATTRIBUTES", ctx |-> c, attrib |-> v])]
                ELSE queue
  /\ UNCHANGED <<displaying, subOn, hasSub, hwVars, serverVars, pc, tgt, region,
                 lastSrf, haveXv, jammed>>

(* A value out of range: the call returns and leaves the ctxMutex locked.  *)
SetAttributeBadValue(c) ==
  /\ "attr" \in Features
  /\ Callable(c)
  /\ jammed' = jammed \cup {c}
  /\ UNCHANGED <<displaying, subOn, hasSub, queue, hwVars, serverVars, pc, tgt,
                 region, lastSrf, haveXv, attrib, attribChanged>>

(* XvMCBlendSubpicture; XvMCBeginSurface clears privSubPic again.          *)
SetSubpicture(c, n) ==
  /\ n \in SubSrfs
  /\ Callable(c) /\ srfOwner[n] = c
  /\ hasSub' = IF n \in hasSub THEN hasSub \ {n} ELSE hasSub \cup {n}
  /\ UNCHANGED <<displaying, subOn, queue, hwVars, serverVars, clientVars>>

-----------------------------------------------------------------------------
(* The server.                                                             *)

(* ViaXvMCCreateSurface takes the first free slot; the client waits for the *)
(* reply, so its earlier requests have been handled.                       *)
CreateSurface(c, n) ==
  /\ Callable(c) /\ queue[c] = <<>>
  /\ srfOwner[n] = None
  /\ \A m \in SrfNos : m < n => srfOwner[m] # None
  /\ srfOwner' = [srfOwner EXCEPT ![n] = c]
  /\ UNCHANGED <<displaying, subOn, hasSub, queue, hwVars, ctxDisplaying, xvAttr,
                 newAttr, clientVars>>

(* ViaXvMCDestroySurface hides the overlay if the SAREA names the slot.    *)
(* XvMCDestroySurface does not take the ctxMutex: another thread may call  *)
(* it during a put, for a surface other than that put's, when the X        *)
(* connection is not locked for an update.                                 *)
DestroySurface_KeepsClaim(c, n) ==
  /\ "destroy" \in Features
  /\ queue[c] = <<>>
  /\ srfOwner[n] = c /\ (pc[c] # "idle" => n # tgt[c])
  /\ srfOwner' = [srfOwner EXCEPT ![n] = None]
  /\ hasSub' = hasSub \ {n}
  /\ UNCHANGED <<displaying, ovOn, subOn, queue, addr, shown, ovFor, hwAttr,
                 ctxDisplaying, xvAttr, newAttr, clientVars>>

DestroySurface(c, n) ==
  /\ "destroy" \in Features
  /\ queue[c] = <<>>
  /\ srfOwner[n] = c /\ (pc[c] # "idle" => n # tgt[c])
  /\ srfOwner' = [srfOwner EXCEPT ![n] = None]
  /\ hasSub' = hasSub \ {n}
  /\ displaying' = IF displaying = n THEN None ELSE displaying
  /\ ovOn' = (ovOn /\ displaying # n)
  /\ UNCHANGED <<subOn, queue, addr, shown, ovFor, hwAttr, ctxDisplaying, xvAttr,
                 newAttr, clientVars>>

(* viaPutImage: the overlay is enabled and set up for the rectangles.      *)
SetupOverlay(who, r) == ovOn' = TRUE /\ ovFor' = <<who, r>>

(* VIA_XVMC_COMMAND_DISPLAY: another owner's attributes are replaced first;*)
(* then the request is refused unless the SAREA still names the surface.   *)
Display_Unchecked(q) ==
  /\ hwAttr' = IF ctxDisplaying # q.ctx THEN q.attrib ELSE hwAttr
  /\ ctxDisplaying' = q.ctx
  /\ SetupOverlay(q.ctx, q.region)
  /\ UNCHANGED displaying

Display(q) ==
  /\ hwAttr' = IF ctxDisplaying # q.ctx THEN q.attrib ELSE hwAttr
  /\ IF displaying = q.srf
       THEN ctxDisplaying' = q.ctx /\ SetupOverlay(q.ctx, q.region)
       ELSE UNCHANGED <<ctxDisplaying, ovOn, ovFor>>
  /\ UNCHANGED displaying

(* VIA_XVMC_COMMAND_FDISPLAY: checked first, and the attributes always set.*)
ForcedDisplay(q) ==
  /\ IF displaying = q.srf
       THEN /\ hwAttr' = q.attrib
            /\ ctxDisplaying' = q.ctx
            /\ SetupOverlay(q.ctx, q.region)
       ELSE UNCHANGED <<hwAttr, ctxDisplaying, ovOn, ovFor>>
  /\ UNCHANGED displaying

(* VIA_XVMC_COMMAND_UNDISPLAY: a compare-and-swap of the SAREA word.       *)
Undisplay(q) ==
  /\ displaying' = IF displaying = q.srf THEN None ELSE displaying
  /\ ovOn' = (ovOn /\ displaying # q.srf)
  /\ UNCHANGED <<hwAttr, ctxDisplaying, ovFor>>

(* VIA_XVMC_COMMAND_ATTRIBUTES: only for the context that is displaying.   *)
Attributes(q) ==
  /\ hwAttr' = IF ctxDisplaying = q.ctx THEN q.attrib ELSE hwAttr
  /\ UNCHANGED <<displaying, ctxDisplaying, ovOn, ovFor>>

(* viaXvMCInterceptPutImage with a FOURCC_XVMC image, oldest request first.*)
HandleXvMC(c) ==
  /\ queue[c] # <<>>
  /\ LET q == Head(queue[c])
     IN \/ q.cmd = "DISPLAY" /\ Display(q)
        \/ q.cmd = "FDISPLAY" /\ ForcedDisplay(q)
        \/ q.cmd = "UNDISPLAY" /\ Undisplay(q)
        \/ q.cmd = "ATTRIBUTES" /\ Attributes(q)
  /\ queue' = [queue EXCEPT ![c] = Tail(@)]
  /\ UNCHANGED <<subOn, hasSub, addr, shown, srfOwner, xvAttr, newAttr,
                 clientVars>>

(* viaXvMCSetDisplayLock: tells the XvMC clients that Xv is displaying, on *)
(* a port whose number is positive.                                        *)
SetDisplayLock ==
  IF XvPort > 0 THEN displaying' = Xv /\ subOn' = None
                ELSE UNCHANGED <<displaying, subOn>>

(* viaXvMCInterceptPutImage with a plain Xv image, then viaPutImage, which *)
(* loads its own buffer, flips it and sets up the overlay.                 *)
XvPutImage_KeepsAttributes(r) ==
  /\ "xv" \in Features
  /\ newAttr' = FALSE
  /\ hwAttr' = IF ctxDisplaying = Xv /\ newAttr THEN xvAttr ELSE hwAttr
  /\ ctxDisplaying' = Xv
  /\ SetDisplayLock
  /\ SetupOverlay(Xv, r)
  /\ addr' = Xv /\ shown' = Xv
  /\ UNCHANGED <<hasSub, queue, srfOwner, xvAttr, clientVars>>

XvPutImage(r) ==
  /\ "xv" \in Features
  /\ hwAttr' = IF ctxDisplaying # Xv \/ newAttr THEN xvAttr ELSE hwAttr
  /\ newAttr' = (newAttr /\ ctxDisplaying # Xv)
  /\ ctxDisplaying' = Xv
  /\ SetDisplayLock
  /\ SetupOverlay(Xv, r)
  /\ addr' = Xv /\ shown' = Xv
  /\ UNCHANGED <<hasSub, queue, srfOwner, xvAttr, clientVars>>

(* viaXvMCInterceptXvAttribute: remembered, and passed on only while Xv has *)
(* the overlay.                                                            *)
XvSetAttribute(v) ==
  /\ "xv" \in Features
  /\ xvAttr' = v
  /\ IF ctxDisplaying = Xv THEN hwAttr' = v /\ UNCHANGED newAttr
                           ELSE newAttr' = TRUE /\ UNCHANGED hwAttr
  /\ UNCHANGED <<displaying, subOn, hasSub, queue, addr, shown, ovOn, ovFor,
                 srfOwner, ctxDisplaying, clientVars>>

(* viaStopVideo with exit set: the client whose image the port shows, Xv or *)
(* XvMC, has stopped the port or lost its window.                          *)
XvStopVideo ==
  /\ "stop" \in Features
  /\ ovOn
  /\ ovOn' = FALSE
  /\ UNCHANGED <<displaying, subOn, hasSub, queue, addr, shown, ovFor, hwAttr,
                 serverVars, clientVars>>

Put(c) == \/ \E n \in SrfNos, r \in Regions :
               \/ \E touched \in BOOLEAN : PutSurface(c, n, r, touched)
               \/ PutSurfaceNoDrawable(c, n, r)
          \/ PutSurfaceResume(c) \/ PutSurfaceFails(c) \/ PutSurfaceReturns(c)

Next ==
  \/ \E c \in Ctxs :
       \/ Put(c) \/ HandleXvMC(c)
       \/ SetAttributeBadValue(c)
       \/ \E v \in Values : SetAttribute(c, v)
       \/ \E n \in SrfNos : \/ HideSurface(c, n) \/ SetSubpicture(c, n)
                            \/ CreateSurface(c, n) \/ DestroySurface(c, n)
  \/ \E r \in Regions : XvPutImage(r)
  \/ \E v \in Values : XvSetAttribute(v)
  \/ XvStopVideo

Spec == Init /\ [][Next]_vars

(* The server handles requests and a client thread that waits for it runs  *)
(* on; nobody is obliged to put, hide, create or destroy.                  *)
FairSpec == /\ Spec
            /\ \A c \in Ctxs : /\ WF_vars(HandleXvMC(c))
                              /\ WF_vars(PutSurfaceResume(c))
                              /\ WF_vars(PutSurfaceReturns(c))

-----------------------------------------------------------------------------
(* The flip of a put: at once, or when the update loop is left.            *)
Flip(c) == \/ /\ \E n \in SrfNos, r \in Regions, touched \in BOOLEAN :
                   PutSurface(c, n, r, touched)
              /\ pc'[c] # "sync"
           \/ PutSurfaceResume(c) /\ pc'[c] # "sync"

(* What the comment at the head of XvMCPutSurface says the locking is for: *)
(* a context flips only its own picture, while the SAREA names it, into an *)
(* overlay that is on and set up for that context and its rectangles.  If  *)
(* anybody else had the overlay meanwhile it was set up anew first.        *)
FlipOwnsOverlay ==
  [][\A c \in Ctxs : Flip(c) => /\ shown' = tgt'[c] /\ displaying' = tgt'[c]
                                /\ ovOn' /\ ovFor' = <<c, region'[c]>>]_vars

(* When the SAREA names a surface of a context that has no call and no     *)
(* request pending, that surface is what the overlay shows, for the        *)
(* rectangles of that context's last put: no refused, late or crossing     *)
(* request of anyone has left the SAREA and the hardware in disagreement.  *)
OverlayShowsClaim ==
  \A n \in SrfNos, c \in Ctxs :
     displaying = n /\ srfOwner[n] = c /\ pc[c] = "idle" /\ queue[c] = <<>>
       => ovOn /\ shown = n /\ addr = n /\ ovFor = <<c, region[c]>>

(* A subpicture that is on belongs to the context whose picture is on the  *)
(* screen, never to one that was replaced.                                 *)
SubpictureOfShown == subOn # None => shown \in SrfNos /\ srfOwner[shown] = subOn

(* The SAREA never names a surface whose slot and memory have been given   *)
(* back, and an overlay that is on shows such memory only while a put has  *)
(* claimed it for another surface that it has not flipped in, or never     *)
(* will because it failed.                                                 *)
NoFreedSurface ==
  /\ displaying \in SrfNos => srfOwner[displaying] # None
  /\ ovOn /\ shown \in SrfNos /\ displaying \notin SrfNos \ {shown}
       => srfOwner[shown] # None

(* The attribute values in effect are those of the owner the server has    *)
(* recorded, once that owner's requests have been handled: the server sends *)
(* them on a change of owner only, and must not be wrong about it.         *)
AttributesFollowOwner ==
  /\ \A c \in Ctxs : ctxDisplaying = c /\ queue[c] = <<>> => hwAttr = attrib[c]
  /\ ctxDisplaying = Xv => hwAttr = xvAttr \/ newAttr

(* The context has hidden the surface and the server has not heard of it.  *)
HidePending(c) ==
  \E i \in 1..Len(queue[c]) :
     queue[c][i].cmd = "UNDISPLAY" /\ queue[c][i].srf = tgt[c]

(* Another XvMC client, or plain Xv, has claimed the overlay.              *)
TakenOver(c) ==
  \/ displaying = Xv
  \/ displaying \in SrfNos /\ srfOwner[displaying] # c

(* A put that has claimed the overlay leaves its update loop, unless       *)
(* another client takes the overlay over, or its own client hid the same   *)
(* surface just before and the server has not handled that UNDISPLAY: the  *)
(* loop checks the claim and never makes it again (viaXvMC.c:855-890), so  *)
(* it does not end in these two cases.                                     *)
PutEndsUnlessRobbed ==
  \A c \in Ctxs : pc[c] = "sync" /\ displaying = tgt[c] /\ ~ HidePending(c)
                     ~> pc[c] = "idle" \/ TakenOver(c)

(* It would end but for other clients if hiding did not matter.            *)
PutEndsAlone == \A c \in Ctxs : pc[c] = "sync" ~> pc[c] = "idle" \/ TakenOver(c)
=============================================================================
