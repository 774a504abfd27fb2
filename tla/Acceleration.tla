----------------------------- MODULE Acceleration -----------------------------
(***************************************************************************)
(* The acceleration hooks of the X server (via_accel.c) on top of the      *)
(* command buffer and the 3D state: EXA or XAA, and DGA next to either.    *)
(* The server is one thread, and a hook is one step except where it waits: *)
(* there the engine, which executes what it was given in order, and the    *)
(* DMA engine, which copies blits in order, move on their own.             *)
(*                                                                         *)
(* A screen runs over AGP DMA, over the DRM without AGP DMA, or over plain *)
(* PCI.  exaMarkSync and exaWaitSync are the EXA core's: it keeps the last *)
(* marker and waits for it when somebody has drawn since the last wait.    *)
(***************************************************************************)
EXTENDS Engine3D, FiniteSets

CONSTANTS
  Screens,       \* pairs: "agp", "dri" or "pci", and the hooks that are called
  Pixmaps,       \* pairs: depth and bits per pixel of what is drawn to
  PlaneMasks,    \* what plane masks select: "all" planes, whole "bytes", "bits"
  DrmAnswers,    \* what the kernel may say to a submission
  MarkMod,       \* markers count modulo this: 2^31
  Window,        \* a marker this far behind counts as passed: 2^24
  MaxMarks,      \* bound: markers in a behaviour
  MaxQueue,      \* bound: work given to the engine ahead of it
  MaxBands       \* bound: parts a transfer is cut into

ASSUME AccelAssumption ==
  /\ Window \in Nat /\ MarkMod \in Nat /\ Window < MarkMod
  /\ MaxMarks \in Nat /\ MaxQueue \in Nat /\ MaxBands \in Nat

VARIABLES
  cb,            \* pVia->cb
  v3d,           \* pVia->v3d
  lastToUpload,  \* pVia->lastToUpload is the 3D state of the server
  ctxOwner,      \* "X" or "client": ctxOwner in the SAREA
  td,            \* pVia->td: keyControl masks bytes, clipping is on
  hooks,         \* bound: the hooks this behaviour calls
  curMarker, lastMarkerRead, accelMarker,
  markerBuf,     \* the marker the engine has blitted last
  exaSync,       \* EXA: [need, marker]
  pc,            \* where the server is
  job,           \* the locals of the hook it is in
  dmaq,          \* blits the DMA engine has not finished: <<half, band>>
  half           \* the band that is in each half of the bounce buffer

vars == <<cb, v3d, lastToUpload, ctxOwner, td, hooks, curMarker,
          lastMarkerRead, accelMarker, markerBuf, exaSync, pc, job, dmaq, half>>
state3d == <<v3d, lastToUpload, ctxOwner>>
marks == <<curMarker, lastMarkerRead, accelMarker, markerBuf, exaSync>>
dma == <<dmaq, half>>

dri == cb.flushFunc = "dri"      \* directRenderingEnabled
Halves == {0, 1}
NoJob == [ret |-> "idle", marker |-> 0, left |-> 0, buf |-> 1, next |-> 0,
          out |-> 0, sync |-> [b \in Halves |-> -1], bounce |-> FALSE,
          planes |-> "all", src |-> "no", mask |-> "no"]

Init ==
  /\ \E s \in Screens : /\ cb = SetupCBuffer(s[1] # "pci", s[1] = "agp")
                        /\ hooks = s[2]
  /\ v3d = Init3DState /\ lastToUpload = FALSE /\ ctxOwner = "X"
  /\ td = [masked |-> FALSE, clipping |-> FALSE]
  /\ curMarker = 0 /\ lastMarkerRead = 0 /\ accelMarker = 0 /\ markerBuf = 0
  /\ exaSync = [need |-> FALSE, marker |-> 0]
  /\ pc = "idle" /\ job = NoJob /\ dmaq = <<>> /\ half = [b \in Halves |-> -1]

(* The buffer at the start of a hook: nobody knows what the kernel will say. *)
Ring == {[cb EXCEPT !.drm = a] : a \in DrmAnswers}

-----------------------------------------------------------------------------
(* What the 2D hooks write: a key, a blit, a line. *)

Key(c, transparent) == OutH1(BeginRing(c, 4), IF transparent THEN 2 ELSE 1)
Regs(c, n) == OutH1(BeginRing(c, 2 * n), n)
SolidHelper(c, w) == Work(Regs(c, 7), w)
CopyHelper(c, w) == Work(Regs(c, 8), w)

(* Only AGP has the engine blit the marker. *)
MarkAfter(m) == (m + 1) % MarkMod
MarkSync(c) ==
  IF c.agpDMA
  THEN Flush(SolidHelper(Regs(c, 1), <<"mark", MarkAfter(curMarker)>>)) ELSE c
CanMark == curMarker < MaxMarks

Bytes(bpp) == bpp \div 8
Supported(bpp) == bpp \in {8, 16, 32}          \* viaAccelSetMode

(* What the mask may become: with all planes it stays as it is.  The mask  *)
(* of all planes of four bytes is 1 << 32 less one: whether any plane mask *)
(* differs from that is anybody's guess.                                   *)
Masked(bpp, planes) ==
  (IF planes = "all" \/ Bytes(bpp) = 4 THEN {td.masked} ELSE {}) \cup
  (IF planes = "bytes" /\ Bytes(bpp) # 1 THEN {TRUE} ELSE {})
Refuses(bpp, planes) == planes = "bits" \/ (planes = "bytes" /\ Bytes(bpp) = 1)

-----------------------------------------------------------------------------
(* EXA: solid fills and copies. *)

Idle(hook) == pc = "idle" /\ hook \in hooks /\ Len(cb.queue) < MaxQueue

PrepareSolidOrCopy(kind) ==
  /\ Idle(kind) /\ CanMark
  /\ \E p \in Pixmaps, planes \in PlaneMasks, c \in Ring :
       LET bpp == IF kind = "solid" THEN p[1] ELSE p[2]
       IN  \/ /\ ~Supported(bpp)
              /\ UNCHANGED <<td, cb, pc, job>>
           \/ /\ Supported(bpp) /\ Refuses(bpp, planes)
              /\ td' = [td EXCEPT !.masked = FALSE] /\ UNCHANGED <<cb, pc, job>>
           \/ /\ Supported(bpp)
              /\ \E m \in Masked(bpp, planes) : td' = [td EXCEPT !.masked = m]
              /\ cb' = Key(c, FALSE)
              /\ pc' = kind
              /\ job' = [NoJob EXCEPT !.planes = planes]
  /\ UNCHANGED <<hooks, dma, state3d, marks>>

PrepareSolid == PrepareSolidOrCopy("solid")
PrepareCopy == PrepareSolidOrCopy("copy")

Draw == /\ Len(cb.queue) < MaxQueue
        /\ \E c \in Ring :
             \/ pc = "solid" /\ cb' = Flush(SolidHelper(c, <<"draw", 0>>))
             \/ pc = "copy"  /\ cb' = Flush(CopyHelper(c, <<"draw", 0>>))
        /\ UNCHANGED <<td, hooks, pc, job, dma, state3d, marks>>

(* Done does nothing; the EXA core marks what has been drawn. *)
Done ==
  /\ pc \in {"solid", "copy", "comp"} /\ (pc = "comp" => job.out > 0)
  /\ \E c \in Ring : cb' = MarkSync(c)
  /\ curMarker' = MarkAfter(curMarker)
  /\ exaSync' = [need |-> TRUE, marker |-> curMarker']
  /\ pc' = "idle" /\ job' = NoJob
  /\ UNCHANGED <<td, hooks, dma, state3d, lastMarkerRead, accelMarker, markerBuf>>

-----------------------------------------------------------------------------
(* EXA: composites. *)

(* lastToUpload and the context in the SAREA now name the server. *)
ForceUpload == ~lastToUpload \/ (dri /\ ctxOwner # "X")
Uploaded == lastToUpload' = TRUE /\ ctxOwner' = IF dri THEN "X" ELSE ctxOwner

StateEmitted(c, v) == EmitState(c, v, ForceUpload)
Emit(v, buf) ==
  /\ cb' = buf
  /\ v3d' = AfterEmit(v, ForceUpload)
  /\ Uploaded

(* Sources and masks: a one-pixel picture that repeats, one in memory the  *)
(* engine can read, or one that it cannot.  Two one-pixel pictures, or a   *)
(* texture out of reach, are refused after the state has been set.         *)
PrepareComposite ==
  /\ Idle("composite") /\ CanMark
  /\ \E src \in {"onepix", "texture", "system"},
        mask \in {"no", "onepix", "texture", "system"}, c \in Ring :
       LET v0 == Set3DDrawing(Set3DCompositeOperator(Set3DDestination(v3d)))
           v1 == IF src = "texture"
                 THEN Set3DTexture(v0, 0, IF mask = "onepix" THEN "onepix" ELSE "src")
                 ELSE v0
           n1 == IF src = "texture" THEN 1 ELSE 0
           v2 == IF mask = "texture" THEN Set3DTexture(v1, n1, "mask") ELSE v1
           n2 == IF mask = "texture" THEN n1 + 1 ELSE n1
       IN  \/ /\ src = "system" \/ <<src, mask>> = <<"onepix", "onepix">>
              /\ v3d' = v0
              /\ UNCHANGED <<cb, pc, job, lastToUpload, ctxOwner>>
           \/ /\ src # "system" /\ mask = "system"
              /\ v3d' = v1
              /\ UNCHANGED <<cb, pc, job, lastToUpload, ctxOwner>>
           \/ /\ src # "system" /\ mask # "system"
              /\ <<src, mask>> # <<"onepix", "onepix">>
              /\ LET v3 == Set3DFlags(v2, n2)
                 IN  Emit(v3, EmitClipRect(StateEmitted(c, v3)))
              /\ pc' = "comp"
              /\ job' = [NoJob EXCEPT !.src = src, !.mask = mask]
  /\ UNCHANGED <<td, hooks, dma, marks>>

(* Here the CPU reads the one-pixel picture, which may be a pixmap that the *)
(* engine has been told to draw to, and nothing waits for the engine.      *)
ReadsPixel == pc = "comp" /\ "onepix" \in {job.src, job.mask}

Composite ==
  /\ pc = "comp" /\ Len(cb.queue) < MaxQueue
  /\ LET v1 == IF job.mask = "onepix" THEN Set3DTexBlendCol(v3d, 0) ELSE v3d
         v2 == IF job.src = "onepix" THEN Set3DDrawing(v1) ELSE v1
         Quad(c) == EmitQuad(c, v2, <<<<"draw", 0>>>>)
     IN  \E c \in Ring :
           IF ReadsPixel
           THEN Emit(v2, Quad(StateEmitted(c, v2)))
           ELSE cb' = Quad(c) /\ UNCHANGED state3d
  /\ job' = [job EXCEPT !.out = 1]
  /\ UNCHANGED <<td, hooks, pc, dma, marks>>

(* Another DRI client draws between two requests: the registers are its    *)
(* own now.                                                                *)
ClientDraws ==
  /\ Idle("client") /\ dri
  /\ ctxOwner' = "client" /\ v3d' = [v3d EXCEPT !.fresh = {}]
  /\ UNCHANGED <<cb, lastToUpload, td, hooks, pc, job, dma, marks>>

-----------------------------------------------------------------------------
(* Markers. *)

(* Mutant: a marker counts as passed when a later one has been blitted. *)
PassedByNext(m) == (lastMarkerRead - m - 1) % (2 * MarkMod) <= Window

(* The difference is one of unsigned words: a marker not reached yet is    *)
(* far behind, and so is one passed long ago.                              *)
Passed(m) == (lastMarkerRead - m) % (2 * MarkMod) <= Window

WaitMarker ==
  /\ pc = "wait"
  /\ IF cb.agpDMA /\ ~Passed(job.marker)
     THEN lastMarkerRead' = markerBuf /\ UNCHANGED <<pc, job>>
     ELSE /\ cb.agpDMA \/ cb.queue = <<>>        \* viaAccelSync
          /\ pc' = job.ret /\ UNCHANGED lastMarkerRead
          /\ job' = IF job.ret = "idle" THEN NoJob ELSE job
  /\ UNCHANGED <<cb, td, hooks, dma, state3d, curMarker, accelMarker,
                 markerBuf, exaSync>>

Engine ==
  /\ cb.queue # <<>>
  /\ cb' = [cb EXCEPT !.queue = Tail(@)]
  /\ markerBuf' = IF Head(cb.queue)[1] = "mark" THEN Head(cb.queue)[2] ELSE markerBuf
  /\ UNCHANGED <<td, hooks, pc, job, dma, state3d, curMarker, lastMarkerRead,
                 accelMarker, exaSync>>

(* exaWaitSync, and then on to ret. *)
WaitSync(ret, j) ==
  /\ pc' = IF exaSync.need THEN "wait" ELSE ret
  /\ job' = [j EXCEPT !.ret = ret, !.marker = exaSync.marker]
  /\ exaSync' = [need |-> FALSE, marker |-> 0]

(* A transfer too small for the engines, and what the core draws itself. *)
CpuAccess ==
  /\ Idle("cpu") /\ WaitSync("cpu", NoJob)
  /\ UNCHANGED <<cb, td, hooks, dma, state3d, curMarker, lastMarkerRead,
                 accelMarker, markerBuf>>

CpuCopy ==
  /\ pc = "cpu" /\ pc' = "idle" /\ job' = NoJob
  /\ UNCHANGED <<cb, td, hooks, dma, state3d, marks>>

-----------------------------------------------------------------------------
(* viaExaTexUploadToScreen: two halves of AGP memory, filled in turn and   *)
(* drawn as a texture.                                                     *)

TexUpload ==
  /\ Idle("texture") /\ dri
  /\ \E n \in 1..MaxBands, c \in Ring :
       LET v == Set3DFlags(Set3DDrawing(Set3DDestination(v3d)), 1)
       IN  /\ curMarker + n <= MaxMarks
           /\ LET v1 == Set3DTexture(v, 0, "src")
              IN  Emit(v1, EmitClipRect(StateEmitted(c, v1)))
           /\ job' = [NoJob EXCEPT !.left = n]
  /\ pc' = "next"
  /\ UNCHANGED <<td, hooks, dma, marks>>

(* Mutant: only the end of the upload waits. *)
TexNextAtOnce ==
  LET b == IF job.left > 0 THEN 1 - job.buf ELSE job.buf
  IN  /\ pc = "next"
      /\ pc' = IF job.left > 0 THEN "fill" ELSE "wait"
      /\ job' = [job EXCEPT !.buf = b, !.ret = "idle", !.marker = job.sync[b]]
      /\ UNCHANGED <<cb, td, hooks, dma, state3d, marks>>

(* The other half, when it has been drawn from; after the last band, the   *)
(* half used last.                                                         *)
TexNext ==
  LET b == IF job.left > 0 THEN 1 - job.buf ELSE job.buf
      ret == IF job.left > 0 THEN "fill" ELSE "idle"
  IN  /\ pc = "next"
      /\ pc' = IF job.sync[b] >= 0 THEN "wait" ELSE ret
      /\ job' = [job EXCEPT !.buf = b, !.ret = ret, !.marker = job.sync[b]]
      /\ UNCHANGED <<cb, td, hooks, dma, state3d, marks>>

TexFill ==
  /\ pc = "fill" /\ Len(cb.queue) < MaxQueue
  /\ \E c \in Ring : cb' = MarkSync(EmitQuad(c, v3d, <<<<"read", job.buf>>>>))
  /\ curMarker' = MarkAfter(curMarker)
  /\ job' = [job EXCEPT !.left = @ - 1, !.out = 1,
                        !.sync[job.buf] = curMarker']
  /\ pc' = "next"
  /\ UNCHANGED <<td, hooks, dma, state3d, lastMarkerRead, accelMarker,
                 markerBuf, exaSync>>

-----------------------------------------------------------------------------
(* viaExaDownloadFromScreen and viaExaUploadToScreen: blits by the DMA     *)
(* engine, one straight to its end, or several through the two halves of   *)
(* the bounce buffer.  EAGAIN is asked again; any other error ends it.     *)

Transfer ==
  /\ Idle("blit") /\ dri
  /\ \E bounce \in BOOLEAN, n \in 1..MaxBands :
       /\ ~bounce => n = 1
       /\ WaitSync("blit", [NoJob EXCEPT !.left = n, !.bounce = bounce,
                                         !.buf = 0])
  /\ half' = [b \in Halves |-> -1] /\ UNCHANGED <<cb, td, hooks, dmaq, state3d, curMarker, lastMarkerRead,
                 accelMarker, markerBuf>>

(* Mutant: the other half is not waited for. *)
BlitOnly ==
  /\ pc = "blit" /\ job.left > 0
  /\ Len(dmaq) < MaxQueue /\ dmaq' = Append(dmaq, <<job.buf, job.next>>)
  /\ job' = [job EXCEPT !.left = @ - 1, !.next = @ + 1, !.buf = 1 - @,
                        !.sync[job.buf] = 1]
  /\ pc' = "blit"
  /\ UNCHANGED <<cb, td, hooks, half, state3d, marks>>

Blit ==
  /\ pc = "blit" /\ job.left > 0
  /\ Len(dmaq) < MaxQueue /\ dmaq' = Append(dmaq, <<job.buf, job.next>>)
  /\ job' = [job EXCEPT !.left = @ - 1, !.next = @ + 1, !.buf = 1 - @,
                        !.sync[job.buf] = 1]
  /\ pc' = IF job.sync[1 - job.buf] = 1 THEN "sync" ELSE "blit"
  /\ UNCHANGED <<cb, td, hooks, half, state3d, marks>>

BlitsEnd ==
  /\ pc = "blit" /\ job.left = 0
  /\ IF job.sync[1 - job.buf] = 1
     THEN pc' = "sync" /\ job' = [job EXCEPT !.buf = 1 - @]
     ELSE pc' = "idle" /\ job' = NoJob
  /\ UNCHANGED <<cb, td, hooks, dma, state3d, marks>>

BlitSync ==
  /\ pc = "sync" /\ \A i \in 1..Len(dmaq) : dmaq[i][1] # job.buf
  /\ pc' = IF job.bounce THEN "bounced" ELSE "blit"
  /\ job' = [job EXCEPT !.sync[job.buf] = 0]
  /\ UNCHANGED <<cb, td, hooks, dma, state3d, marks>>

BounceCopy ==
  /\ pc = "bounced" /\ pc' = "blit" /\ job' = [job EXCEPT !.out = @ + 1]
  /\ UNCHANGED <<cb, td, hooks, dma, state3d, marks>>

BlitFails ==
  /\ pc = "sync" \/ (pc = "blit" /\ job.left > 0)
  /\ pc' = "idle" /\ job' = NoJob
  /\ UNCHANGED <<cb, td, hooks, dma, state3d, marks>>

DmaEngine ==
  /\ dmaq # <<>> /\ dmaq' = Tail(dmaq)
  /\ half' = [half EXCEPT ![Head(dmaq)[1]] = Head(dmaq)[2]]
  /\ UNCHANGED <<cb, td, hooks, pc, job, state3d, marks>>

-----------------------------------------------------------------------------
(* XAA: job.src is what has been set up last.  Transfers from the CPU      *)
(* cannot go over AGP: they start and end with a flush of their own.       *)

FromCpu == {"expand", "image"}
SetupRegs == [copy |-> 0, solid |-> 0, mono |-> 0, color |-> 0, line |-> 3,
              dashed |-> 4, expand |-> 0, image |-> 0]
SubsequentRegs == [copy |-> {8}, solid |-> {7}, mono |-> {11}, color |-> {7},
                   line |-> {5, 7}, dashed |-> {7}, expand |-> {10}, image |-> {8}]
Keyed == {"copy", "color", "image"}

SetClippingRectangle ==
  /\ Idle("xaa") /\ td' = [td EXCEPT !.clipping = ~@]
  /\ UNCHANGED <<cb, hooks, pc, job, dma, state3d, marks>>

XaaSetup ==
  /\ Idle("xaa")
  /\ \E kind \in DOMAIN SetupRegs, transparent \in BOOLEAN, c \in Ring :
       /\ transparent => kind \in Keyed
       /\ LET k == Key(IF kind \in FromCpu THEN Flush(c) ELSE c, transparent)
          IN  cb' = IF SetupRegs[kind] = 0 THEN k ELSE Regs(k, SetupRegs[kind])
       /\ job' = [NoJob EXCEPT !.src = kind]
  /\ td' = [td EXCEPT !.masked = FALSE]
  /\ UNCHANGED <<hooks, pc, dma, state3d, marks>>

XaaSubsequent ==
  /\ Idle("xaa") /\ job.src # "no"
  /\ \E c \in Ring, skipleft \in BOOLEAN, n \in SubsequentRegs[job.src] :
       LET clip == td.clipping \/ (skipleft /\ job.src \in FromCpu)
           d == Regs(IF clip THEN Regs(c, 2) ELSE c, n)
       IN  cb' = IF job.src \in FromCpu THEN FlushPCI(d) ELSE Flush(d)
  /\ td' = IF job.src \in FromCpu THEN [td EXCEPT !.clipping = FALSE] ELSE td
  /\ UNCHANGED <<hooks, pc, job, dma, state3d, marks>>

-----------------------------------------------------------------------------
(* DGA: a copy or a fill of the screen and its marker, in one go. *)

DgaDraws ==
  /\ Idle("dga") /\ CanMark
  /\ \E c \in Ring, helper \in {"blit", "fill"} :
       LET k == Key(c, FALSE)
           d == IF helper = "blit" THEN Regs(k, 8) ELSE Regs(k, 7)
       IN  cb' = Flush(MarkSync(d))
  /\ curMarker' = MarkAfter(curMarker) /\ accelMarker' = curMarker'
  /\ td' = [td EXCEPT !.masked = FALSE]
  /\ job' = NoJob
  /\ UNCHANGED <<hooks, pc, dma, state3d, lastMarkerRead, markerBuf, exaSync>>

DgaSync ==
  /\ Idle("dga") /\ pc' = "wait"
  /\ job' = [NoJob EXCEPT !.marker = accelMarker]
  /\ UNCHANGED <<cb, td, hooks, dma, state3d, marks>>

Next ==
  \/ PrepareSolid \/ PrepareCopy \/ Draw \/ Done
  \/ PrepareComposite \/ Composite \/ ClientDraws
  \/ WaitMarker \/ Engine \/ CpuAccess \/ CpuCopy
  \/ TexUpload \/ TexNext \/ TexFill
  \/ Transfer \/ Blit \/ BlitsEnd \/ BlitSync \/ BounceCopy \/ BlitFails \/ DmaEngine
  \/ SetClippingRectangle \/ XaaSetup \/ XaaSubsequent
  \/ DgaDraws \/ DgaSync

(* The engine executes what it is given, and a server that waits looks     *)
(* again: both are loops that nobody stops.                                *)
Spec == Init /\ [][Next]_vars /\ WF_vars(Engine) /\ WF_vars(WaitMarker)

-----------------------------------------------------------------------------

(* Every word of the stream is read as what it was written for: none ends  *)
(* up among the vertices, outside a section, or in one of another type.    *)
(* This rests on the mode of the buffer, which a register write does not   *)
(* change and only a flush resets.                                         *)
StreamParses == cb.ok

(* No 3D state reaches a DRI screen behind the kernel's back, however      *)
(* often the flag was saved and restored around a flush.                   *)
StateThroughDrm == ~cb.leaked

(* Texture units that blend as masks bring no constant colour of their own.*)
Needed(v) == InUse(v) \ {ColGroup(i) : i \in v.masks}

(* A quad is drawn with the 3D state the server has set for it, whoever    *)
(* has used the engine since it was emitted.                               *)
QuadState == job.out > 0 /\ pc \in {"comp", "next", "wait", "fill"} =>
               Needed(v3d) \subseteq v3d.fresh

Pending(w) == \E q \in {cb.queue, cb.work} : \E i \in 1..Len(q) : q[i] = w

(* Where the server waits for the engine, the CPU touches the screen, and  *)
(* the DMA engine starts on it, when EXA's drawing is finished; and a half *)
(* of the AGP buffer is filled again when the engine has drawn from it.    *)
(* viaExaComposite does not wait before it reads a one-pixel picture: of   *)
(* what is still to be drawn then, EXA at least knows that nobody has      *)
(* waited for it, so that a wait there would be one for the pixel.         *)
CpuAfterEngine ==
  /\ pc \in {"cpu", "blit", "sync", "bounced"} => ~Pending(<<"draw", 0>>)
  /\ pc = "fill" => ~Pending(<<"read", job.buf>>)
  /\ ReadsPixel /\ job.out = 0 /\ Pending(<<"draw", 0>>) => exaSync.need

(* A one-pixel picture is read when the engine has drawn all that was      *)
(* asked for before the composite.  This does not hold of viaExaComposite, *)
(* see MCAccelerationPixel.cfg.                                            *)
PixelAfterEngine == ReadsPixel /\ job.out = 0 => ~Pending(<<"draw", 0>>)

(* What is copied out of the bounce buffer is the next band of the         *)
(* picture, whole, even after a transfer that failed; and the last band    *)
(* has been copied when the transfer ends.                                 *)
BandsInOrder ==
  /\ pc = "bounced" => /\ half[job.buf] = job.out
                       /\ \A i \in 1..Len(dmaq) : dmaq[i][1] # job.buf
  /\ pc = "blit" /\ job.left = 0 /\ job.bounce /\ (\A b \in Halves : job.sync[b] # 1)
       => job.out = job.next

(* Who waits for a marker is answered. *)
WaitEnds == pc = "wait" ~> pc # "wait"

(* A fill or a copy masks the bytes its plane mask leaves out, no others.  *)
MaskIsOwn == pc \in {"solid", "copy"} => td.masked = (job.planes = "bytes")
=============================================================================
