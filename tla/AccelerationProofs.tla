-------------------------- MODULE AccelerationProofs --------------------------
(***************************************************************************)
(* Proofs about the acceleration hooks, for any set of screens, pixmaps,   *)
(* plane masks, sizes of the buffer and of the queues: that the stream of  *)
(* commands parses and its 3D state goes through the DRM, that a quad has  *)
(* its state, that the CPU and the DMA engine come after the engine, and   *)
(* that bands are copied in order.                                         *)
(***************************************************************************)
EXTENDS Acceleration, TLAPS

-----------------------------------------------------------------------------
(* The states a hook is in, and its locals.                                *)
Kinds == DOMAIN SetupRegs
States == {"idle", "solid", "copy", "comp", "wait", "cpu", "next", "fill",
           "blit", "sync", "bounced"}
Jobs ==
  [ret : {"idle", "cpu", "blit", "fill"}, marker : Int, left : Nat, buf : Halves,
   next : Nat, out : Nat, sync : [Halves -> Int], bounce : BOOLEAN,
   planes : PlaneMasks \cup {"all"}, src : {"no", "onepix", "texture"} \cup Kinds,
   mask : {"no", "onepix", "texture"}]
States3D == [dirty : SUBSET Groups, numTextures : {0, 1, 2}, masks : SUBSET {0, 1},
             fresh : SUBSET Groups]

HooksTypeOK ==
  /\ pc \in States /\ job \in Jobs /\ v3d \in States3D
  /\ curMarker \in Nat /\ accelMarker \in Nat
  /\ exaSync \in [need : BOOLEAN, marker : Nat]
  /\ dmaq \in Seq(Halves \X Nat) /\ half \in [Halves -> Int]

(* viaExaTexUploadToScreen, and what stands of its locals: markers are     *)
(* there from the first band on, and there is a band to fill before that.  *)
Uploading == pc \in {"next", "fill"} \/ (pc = "wait" /\ job.ret = "fill")

JobInv ==
  /\ pc # "comp" => job.src \in {"no"} \cup Kinds
  /\ pc = "wait" /\ job.ret \in {"cpu", "blit"} => job.out = 0
  /\ pc = "fill" \/ (pc = "wait" /\ job.ret = "fill") => job.left > 0
  /\ pc = "next" /\ job.out = 0 => job.left > 0
  /\ pc = "wait" => job.marker >= 0
  /\ Uploading => \/ job.out = 0 /\ \A b \in Halves : job.sync[b] = -1
                  \/ job.out = 1 /\ (pc # "fill" => job.sync[job.buf] >= 0)

-----------------------------------------------------------------------------
(* The 3D state: what a quad needs is fresh, but for the colour of a mask  *)
(* of one pixel, which comes with the first quad.                          *)
QuadInv ==
  /\ pc = "comp" =>
       Needed(v3d) \ (IF job.mask = "onepix" /\ job.out = 0 THEN {"col0"} ELSE {})
         \subseteq v3d.fresh
  /\ Uploading => Needed(v3d) \subseteq v3d.fresh
  /\ pc = "wait" /\ job.ret # "fill" /\ job.out > 0 => Needed(v3d) \subseteq v3d.fresh

-----------------------------------------------------------------------------
(* The band that half b has, or will have when the DMA engine is done.     *)
Will(q, h, b, n) ==
  /\ (\A i \in 1..Len(q) : q[i][1] # b) => h[b] = n
  /\ \A i \in 1..Len(q) :
       q[i][1] = b /\ (\A j \in (i + 1)..Len(q) : q[j][1] # b) => q[i][2] = n

(* A transfer: the half written last has the last band, the other one the  *)
(* band before while it is not copied.                                     *)
BandInv ==
  /\ pc = "blit" \/ (pc = "wait" /\ job.ret = "blit") =>
       /\ job.sync[job.buf] # 1
       /\ job.sync[1 - job.buf] = 1 => Will(dmaq, half, 1 - job.buf, job.next - 1)
       /\ job.bounce => job.next = job.out + (IF job.sync[1 - job.buf] = 1 THEN 1 ELSE 0)
       /\ ~ job.bounce => job.out = 0
  /\ pc = "sync" =>
       /\ job.sync[job.buf] = 1
       /\ IF job.sync[1 - job.buf] = 1
          THEN /\ Will(dmaq, half, 1 - job.buf, job.next - 1) /\ Will(dmaq, half, job.buf, job.next - 2)
               /\ job.bounce => job.next = job.out + 2
          ELSE /\ Will(dmaq, half, job.buf, job.next - 1)
               /\ job.bounce => job.next = job.out + 1
       /\ ~ job.bounce => job.out = 0
  /\ pc = "bounced" =>
       /\ job.bounce /\ job.sync[job.buf] # 1
       /\ half[job.buf] = job.out /\ \A i \in 1..Len(dmaq) : dmaq[i][1] # job.buf
       /\ job.sync[1 - job.buf] = 1 => Will(dmaq, half, 1 - job.buf, job.next - 1)
       /\ job.next = job.out + (IF job.sync[1 - job.buf] = 1 THEN 2 ELSE 1)

-----------------------------------------------------------------------------
(* The kernel takes what it is given. *)
Accepted == DrmAnswers \subseteq {TRUE}

Works == {"draw", "mark", "read"} \X Nat
Buffers ==
  [pos : Nat, mode : {0, 2}, rindex : Paras \cup {"none"}, has3d : BOOLEAN,
   flushFunc : {"dri", "pci"}, agpDMA : BOOLEAN, drm : BOOLEAN,
   sect : Paras \cup {"none", "h1"}, ok : BOOLEAN, state3d : BOOLEAN,
   work : Seq(Works), queue : Seq(Works), leaked : BOOLEAN]

(* Within a header 2 the parser and the driver agree on its parameters;    *)
(* outside there is an even number of words.  What is 3D state is marked.  *)
Sound(c) ==
  /\ c \in Buffers
  /\ c.ok /\ c.drm /\ ~ c.leaked
  /\ c.mode = 2 => c.sect = c.rindex /\ c.rindex \in Paras
  /\ c.mode = 0 => c.sect \notin Paras /\ c.pos % 2 = 0 /\ ~ c.state3d
  /\ c.state3d => c.has3d

Open(c) == Sound(c) /\ c.sect # Vdata
Quiet(c) == Sound(c) /\ c.mode = 0

(* Who writes 3D state below a header 2 that is there already does it in a *)
(* buffer that is marked.                                                  *)
Marked(c) == c.mode = 2 => c.has3d

StreamInv ==
  /\ Open(cb) /\ Marked(cb) /\ cb.work = <<>>
  /\ (pc \in {"comp", "next", "fill"} /\ job.out = 0) \/ cb.mode = 0

-----------------------------------------------------------------------------
(* No behaviour has so many markers that they wrap. *)
NoWrap == MaxMarks < MarkMod

Missing(q, w) == \A i \in 1..Len(q) : q[i] # w
Followed(q, w, m) ==
  \A i \in 1..Len(q) :
     q[i] = w => \E j \in (i + 1)..Len(q) : q[j][1] = "mark" /\ q[j][2] <= m
Ahead(q, m, n) ==
  \A i \in 1..Len(q) :
     q[i][1] = "mark" => /\ m < q[i][2] /\ q[i][2] <= n
                         /\ \A j \in 1..(i - 1) : q[j][1] = "mark" => q[j][2] < q[i][2]

ADraw == <<"draw", 0>>
ReadOf(b) == <<"read", b>>
Drawing == pc \in {"solid", "copy", "comp"}
HasDrawn == pc \in {"solid", "copy"} \/ (pc = "comp" /\ job.out # 0)
ForCpu == pc = "wait" /\ job.ret \in {"cpu", "blit"}

(* Markers come in order, and those in the queue are still to come.        *)
Counters ==
  /\ markerBuf \in Nat /\ lastMarkerRead \in Nat
  /\ lastMarkerRead <= markerBuf /\ markerBuf <= curMarker /\ curMarker <= MaxMarks
  /\ accelMarker <= curMarker /\ exaSync.marker <= curMarker
  /\ Ahead(cb.queue, markerBuf, curMarker)

(* A hook waits for a marker that has been given, and can give its own.    *)
JobMarks ==
  /\ pc = "wait" => job.marker <= curMarker
  /\ Drawing => curMarker < MaxMarks
  /\ Uploading => /\ curMarker + job.left <= MaxMarks
                  /\ \A b \in Halves : -1 <= job.sync[b] /\ job.sync[b] <= curMarker
                  /\ pc = "next" /\ job.out = 1 => job.sync[job.buf] = curMarker
                  /\ pc = "wait" => job.marker = job.sync[job.buf]

MarkInv == Counters /\ JobMarks

(* EXA's marker follows what has been drawn.                               *)
DrawInv ==
  /\ pc \in {"cpu", "blit", "sync", "bounced"} \/ ForCpu => ~ exaSync.need
  /\ ~ exaSync.need => HasDrawn \/ ForCpu \/ Missing(cb.queue, ADraw)
  /\ cb.agpDMA /\ exaSync.need /\ ~ Drawing => Followed(cb.queue, ADraw, exaSync.marker)
  /\ cb.agpDMA /\ ForCpu => Followed(cb.queue, ADraw, job.marker)

(* The marker of a half of the AGP memory follows what reads from it.      *)
ReadInv ==
  \A b \in Halves :
    /\ Uploading => IF job.sync[b] = -1 THEN Missing(cb.queue, ReadOf(b))
                    ELSE cb.agpDMA => Followed(cb.queue, ReadOf(b), job.sync[b])
    /\ pc = "fill" => Missing(cb.queue, ReadOf(job.buf))
    /\ pc = "wait" /\ job.ret = "idle" /\ cb.agpDMA => Followed(cb.queue, ReadOf(b), job.marker)
    /\ Uploading \/ (pc = "wait" /\ job.ret = "idle") \/ Missing(cb.queue, ReadOf(b))

-----------------------------------------------------------------------------
(* Fields and locals.                                                      *)
LEMMA KindsAre ==
  /\ Kinds = {"copy", "solid", "mono", "color", "line", "dashed", "expand", "image"}
  /\ \A k \in Kinds : SetupRegs[k] \in Nat /\ SubsequentRegs[k] \subseteq Nat
<1>1. Kinds = {"copy", "solid", "mono", "color", "line", "dashed", "expand", "image"}
  BY DEF Kinds, SetupRegs
<1>2. /\ SetupRegs["copy"] \in Nat /\ SetupRegs["solid"] \in Nat /\ SetupRegs["mono"] \in Nat
      /\ SetupRegs["color"] \in Nat /\ SetupRegs["line"] \in Nat /\ SetupRegs["dashed"] \in Nat
      /\ SetupRegs["expand"] \in Nat /\ SetupRegs["image"] \in Nat
  BY DEF SetupRegs
<1>3. /\ SubsequentRegs["copy"] \subseteq Nat /\ SubsequentRegs["solid"] \subseteq Nat
      /\ SubsequentRegs["mono"] \subseteq Nat /\ SubsequentRegs["color"] \subseteq Nat
      /\ SubsequentRegs["line"] \subseteq Nat /\ SubsequentRegs["dashed"] \subseteq Nat
      /\ SubsequentRegs["expand"] \subseteq Nat /\ SubsequentRegs["image"] \subseteq Nat
  BY DEF SubsequentRegs
<1> QED BY <1>1, <1>2, <1>3

(* The locals of a hook that has not begun.                                *)
LEMMA NoJobOK == /\ NoJob \in Jobs
                 /\ NoJob.out = 0 /\ NoJob.left = 0 /\ NoJob.buf = 1 /\ NoJob.next = 0
                 /\ NoJob.marker = 0 /\ NoJob.src = "no" /\ NoJob.mask = "no" /\ NoJob.ret = "idle"
                 /\ \A b \in Halves : NoJob.sync[b] = -1
  BY DEF NoJob, Jobs, Halves

(* viaAccelMarkSync's next marker is a number, and one more while nothing  *)
(* wraps.                                                                  *)
LEMMA MarkerOK == \A m \in Nat : MarkAfter(m) \in Nat /\ (m + 1 < MarkMod => MarkAfter(m) = m + 1)
<1> SUFFICES ASSUME NEW m \in Nat
             PROVE  MarkAfter(m) \in Nat /\ (m + 1 < MarkMod => MarkAfter(m) = m + 1)
  OBVIOUS
<1>1. MarkMod \in Nat /\ MarkMod > 0
  BY AccelAssumption
<1>2. m + 1 < MarkMod => (m + 1) % MarkMod = m + 1
  BY <1>1
<1>3. (m + 1) % MarkMod \in Nat
  BY <1>1
<1> QED BY <1>2, <1>3 DEF MarkAfter

(* The 3D state after viaInit3DState.                                      *)
LEMMA Init3DOK == Init3DState \in States3D
  BY DEF Init3DState, States3D, Groups, ColGroups

-----------------------------------------------------------------------------
(* What the functions of via_3d.c make of the 3D state.                    *)
LEMMA DirtyDoes ==
  ASSUME NEW v \in States3D, NEW gs \in SUBSET Groups
  PROVE  /\ Dirty(v, gs) \in States3D
         /\ Dirty(v, gs).dirty = v.dirty \cup gs /\ Dirty(v, gs).fresh = v.fresh \ gs
         /\ Dirty(v, gs).numTextures = v.numTextures /\ Dirty(v, gs).masks = v.masks
  BY DEF Dirty, States3D

(* viaSet3DFlags: units beyond the new number no longer blend as masks.    *)
LEMMA FlagsDo ==
  ASSUME NEW v \in States3D, NEW n \in {0, 1, 2}
  PROVE  /\ Set3DFlags(v, n) \in States3D
         /\ Set3DFlags(v, n).dirty = v.dirty \cup {"enable", "blend"}
         /\ Set3DFlags(v, n).fresh = v.fresh \ {"enable", "blend"}
         /\ Set3DFlags(v, n).numTextures = n
         /\ Set3DFlags(v, n).masks = v.masks \cap 0..(n - 1)
<1>1. {"enable", "blend"} \in SUBSET Groups
  BY DEF Groups
<1> DEFINE d == Dirty(v, {"enable", "blend"})
           ms == v.masks \cap 0..(n - 1)
<1>2. ms \in SUBSET {0, 1}
  BY DEF States3D
<1>3. /\ d \in States3D /\ d.masks = v.masks
      /\ d.dirty = v.dirty \cup {"enable", "blend"} /\ d.fresh = v.fresh \ {"enable", "blend"}
  BY <1>1, DirtyDoes
<1>4. Set3DFlags(v, n) = [d EXCEPT !.numTextures = n, !.masks = ms]
  BY <1>3 DEF Set3DFlags
<1> HIDE DEF d, ms
<1>5. Set3DFlags(v, n).masks = ms
  BY <1>3, <1>4 DEF States3D
<1> QED BY <1>2, <1>3, <1>4, <1>5 DEF States3D, ms

(* viaSet3DTexture dirties the unit, and its colour if it blends as a      *)
(* source.                                                                 *)
LEMMA TextureDoes ==
  ASSUME NEW v \in States3D, NEW i \in {0, 1}, NEW b
  PROVE  /\ Set3DTexture(v, i, b) \in States3D
         /\ Set3DTexture(v, i, b).numTextures = v.numTextures
         /\ v.dirty \cup {TexGroup(i)} \subseteq Set3DTexture(v, i, b).dirty
         /\ b = "src" => ColGroup(i) \in Set3DTexture(v, i, b).dirty
         /\ i \in Set3DTexture(v, i, b).masks <=> b = "mask"
         /\ \A j \in {0, 1} : j # i => (j \in Set3DTexture(v, i, b).masks <=> j \in v.masks)
<1> DEFINE gs == {TexGroup(i)} \cup (IF b = "src" THEN {ColGroup(i)} ELSE {})
           ms == IF b = "mask" THEN v.masks \cup {i} ELSE v.masks \ {i}
<1>1. gs \in SUBSET Groups /\ TexGroup(i) \in gs /\ (b = "src" => ColGroup(i) \in gs)
  BY DEF Groups, ColGroups, TexGroup, ColGroup
<1>2. ms \in SUBSET {0, 1} /\ (i \in ms <=> b = "mask")
      /\ \A j \in {0, 1} : j # i => (j \in ms <=> j \in v.masks)
  BY DEF States3D
<1>3. Set3DTexture(v, i, b) = [Dirty(v, gs) EXCEPT !.masks = ms]
  BY DirtyDoes, <1>1 DEF Set3DTexture, States3D
<1> HIDE DEF gs, ms
<1> QED BY <1>1, <1>2, <1>3, DirtyDoes DEF States3D

Common == {"dest", "blend", "drawing", "enable"}

(* What emitState looks at depends on the number of textures only.         *)
LEMMA InUseIs ==
  ASSUME NEW v \in States3D
  PROVE  InUse(v) = Common \cup (IF v.numTextures > 0 THEN {"tex0", "col0"} ELSE {})
                           \cup (IF v.numTextures > 1 THEN {"tex1", "col1"} ELSE {})
<1>1. CASE v.numTextures = 0
  <2>1. {0, 1} \ 0..(v.numTextures - 1) = {0, 1}
    BY <1>1
  <2> QED BY <1>1, <2>1 DEF InUse, Groups, ColGroups, TexGroup, ColGroup, Common
<1>2. CASE v.numTextures = 1
  <2>1. {0, 1} \ 0..(v.numTextures - 1) = {1}
    BY <1>2
  <2> QED BY <1>2, <2>1 DEF InUse, Groups, ColGroups, TexGroup, ColGroup, Common
<1>3. CASE v.numTextures = 2
  <2>1. {0, 1} \ 0..(v.numTextures - 1) = {}
    BY <1>3
  <2> QED BY <1>3, <2>1 DEF InUse, Groups, ColGroups, TexGroup, ColGroup, Common
<1> QED BY <1>1, <1>2, <1>3 DEF States3D

(* A group is needed as long as its texture does not blend as a mask.      *)
LEMMA NeededIs ==
  ASSUME NEW v \in States3D
  PROVE  /\ Common \subseteq Needed(v)
         /\ "tex0" \in Needed(v) <=> v.numTextures > 0
         /\ "tex1" \in Needed(v) <=> v.numTextures > 1
         /\ "col0" \in Needed(v) <=> v.numTextures > 0 /\ 0 \notin v.masks
         /\ "col1" \in Needed(v) <=> v.numTextures > 1 /\ 1 \notin v.masks
         /\ Needed(v) \subseteq InUse(v)
         /\ Needed(v) \subseteq Common \cup {"tex0", "tex1", "col0", "col1"}
<1>1. v.masks \subseteq {0, 1} /\ v.numTextures \in Nat
  BY DEF States3D
<1>2. \A g : g \in {ColGroup(i) : i \in v.masks} <=>
               \/ g = "col0" /\ 0 \in v.masks
               \/ g = "col1" /\ 1 \in v.masks
  BY <1>1 DEF ColGroup
<1> QED BY <1>1, <1>2, InUseIs DEF Needed, Common

(* After emitState all that is in use is fresh, and what a quad needs is   *)
(* the same.                                                               *)
LEMMA AfterEmitDoes ==
  ASSUME NEW v \in States3D, NEW f \in BOOLEAN
  PROVE  /\ AfterEmit(v, f) \in States3D /\ Needed(AfterEmit(v, f)) = Needed(v)
         /\ AfterEmit(v, f).numTextures = v.numTextures
         /\ v.fresh \subseteq AfterEmit(v, f).fresh
         /\ v.dirty \cap InUse(v) \subseteq AfterEmit(v, f).fresh
<1>1. Emitted(v, f) \in SUBSET Groups /\ v.dirty \cap InUse(v) \subseteq Emitted(v, f)
  BY DEF Emitted, InUse
<1>2. /\ AfterEmit(v, f) \in States3D /\ AfterEmit(v, f).fresh = v.fresh \cup Emitted(v, f)
      /\ AfterEmit(v, f).numTextures = v.numTextures /\ AfterEmit(v, f).masks = v.masks
  BY <1>1 DEF AfterEmit, States3D
<1>3. Needed(AfterEmit(v, f)) = Needed(v)
  BY <1>2 DEF Needed, InUse
<1> QED BY <1>1, <1>2, <1>3

-----------------------------------------------------------------------------
(* The states that PrepareComposite, Composite and the upload of a texture *)
(* set, named.                                                             *)
Based(v) == Set3DDrawing(Set3DCompositeOperator(Set3DDestination(v)))
Sourced(v, src, mask) ==
  IF src = "texture" THEN Set3DTexture(v, 0, IF mask = "onepix" THEN "onepix" ELSE "src") ELSE v
Units(src) == IF src = "texture" THEN 1 ELSE 0
Prepared(v, src, mask) ==
  Set3DFlags(IF mask = "texture" THEN Set3DTexture(Sourced(Based(v), src, mask), Units(src), "mask")
             ELSE Sourced(Based(v), src, mask),
             IF mask = "texture" THEN Units(src) + 1 ELSE Units(src))
Coloured(v, src, mask) ==
  LET v1 == IF mask = "onepix" THEN Set3DTexBlendCol(v, 0) ELSE v
  IN  IF src = "onepix" THEN Set3DDrawing(v1) ELSE v1
Textured(v) == Set3DTexture(Set3DFlags(Set3DDrawing(Set3DDestination(v)), 1), 0, "src")

(* What PrepareComposite sets first is dirty.                              *)
LEMMA BasedDoes ==
  ASSUME NEW v \in States3D
  PROVE  /\ Based(v) \in States3D /\ Based(v).numTextures = v.numTextures
         /\ {"dest", "drawing", "blend"} \subseteq Based(v).dirty
<1>1. {"drawing", "dest"} \in SUBSET Groups /\ {"drawing"} \in SUBSET Groups
      /\ {"blend"} \in SUBSET Groups
  BY DEF Groups
<1> DEFINE a == Dirty(v, {"drawing", "dest"})
           b == Dirty(a, {"blend"})
<1>2. a \in States3D /\ {"drawing", "dest"} \subseteq a.dirty /\ a.numTextures = v.numTextures
  BY <1>1, DirtyDoes
<1> HIDE DEF a
<1>3. b \in States3D /\ a.dirty \subseteq b.dirty /\ "blend" \in b.dirty
      /\ b.numTextures = a.numTextures
  BY <1>1, <1>2, DirtyDoes
<1> HIDE DEF b
<1>4. Dirty(b, {"drawing"}) \in States3D /\ b.dirty \subseteq Dirty(b, {"drawing"}).dirty
      /\ Dirty(b, {"drawing"}).numTextures = b.numTextures
  BY <1>1, <1>3, DirtyDoes
<1>5. Based(v) = Dirty(b, {"drawing"})
  BY DEF Based, a, b, Set3DDrawing, Set3DCompositeOperator, Set3DDestination
<1> QED BY <1>2, <1>3, <1>4, <1>5

(* The source of a composite dirties its unit.                             *)
LEMMA SourcedDoes ==
  ASSUME NEW v \in States3D, NEW src, NEW mask
  PROVE  /\ Sourced(v, src, mask) \in States3D
         /\ v.dirty \subseteq Sourced(v, src, mask).dirty
         /\ src = "texture" =>
              /\ "tex0" \in Sourced(v, src, mask).dirty /\ 0 \notin Sourced(v, src, mask).masks
              /\ mask # "onepix" => "col0" \in Sourced(v, src, mask).dirty
<1>1. CASE src = "texture" /\ mask = "onepix"
  BY <1>1, TextureDoes DEF Sourced, TexGroup, ColGroup
<1>2. CASE src = "texture" /\ mask # "onepix"
  BY <1>2, TextureDoes DEF Sourced, TexGroup, ColGroup
<1>3. CASE src # "texture"
  BY <1>3 DEF Sourced
<1> QED BY <1>1, <1>2, <1>3

(* All that a composite needs is dirty when its state is complete, but for *)
(* the colour of a mask of one pixel.                                      *)
LEMMA PreparedDoes ==
  ASSUME NEW v \in States3D, NEW src \in {"onepix", "texture"},
         NEW mask \in {"no", "onepix", "texture"}
  PROVE  /\ Prepared(v, src, mask) \in States3D
         /\ Needed(Prepared(v, src, mask)) \ (IF mask = "onepix" THEN {"col0"} ELSE {})
              \subseteq Prepared(v, src, mask).dirty
<1> DEFINE b == Based(v)
           s == Sourced(b, src, mask)
           m == IF mask = "texture" THEN Set3DTexture(s, Units(src), "mask") ELSE s
           n == IF mask = "texture" THEN Units(src) + 1 ELSE Units(src)
           p == Set3DFlags(m, n)
<1>1. b \in States3D /\ {"dest", "drawing", "blend"} \subseteq b.dirty
  BY BasedDoes
<1> HIDE DEF b
<1>2. /\ s \in States3D /\ b.dirty \subseteq s.dirty
      /\ src = "texture" => /\ "tex0" \in s.dirty /\ 0 \notin s.masks
                            /\ mask # "onepix" => "col0" \in s.dirty
  BY <1>1, SourcedDoes
<1> HIDE DEF s
<1>u. Units(src) \in {0, 1} /\ (src = "texture" <=> Units(src) = 1)
  BY DEF Units
<1>3. /\ m \in States3D /\ s.dirty \subseteq m.dirty
      /\ mask = "texture" => TexGroup(Units(src)) \in m.dirty /\ Units(src) \in m.masks
      /\ src = "texture" => 0 \notin m.masks
  <2>1. CASE mask = "texture"
    BY <2>1, <1>2, <1>u, TextureDoes
  <2>2. CASE mask # "texture"
    BY <2>2, <1>2
  <2> QED BY <2>1, <2>2
<1> HIDE DEF m
<1>n. n \in {0, 1, 2} /\ (n > 0 <=> src = "texture" \/ mask = "texture")
      /\ (n > 1 <=> src = "texture" /\ mask = "texture")
  BY <1>u
<1> HIDE DEF n
<1>4. /\ p \in States3D /\ p.dirty = m.dirty \cup {"enable", "blend"}
      /\ p.numTextures = n /\ p.masks = m.masks \cap 0..(n - 1)
  BY <1>3, <1>n, FlagsDo
<1> HIDE DEF p
<1>5. Common \subseteq p.dirty
  BY <1>1, <1>2, <1>3, <1>4 DEF Common
<1>6. n > 0 => "tex0" \in p.dirty
  BY <1>n, <1>u, <1>2, <1>3, <1>4 DEF TexGroup
<1>7. n > 1 => "tex1" \in p.dirty /\ 1 \in p.masks
  BY <1>n, <1>u, <1>3, <1>4 DEF TexGroup
<1>8. n > 0 /\ 0 \notin p.masks /\ mask # "onepix" => "col0" \in p.dirty
  BY <1>n, <1>u, <1>2, <1>3, <1>4
<1>9. Needed(p) \ (IF mask = "onepix" THEN {"col0"} ELSE {}) \subseteq p.dirty
  BY <1>4, <1>5, <1>6, <1>7, <1>8, NeededIs
<1>10. Prepared(v, src, mask) = p
  BY DEF Prepared, p, n, m, s, b
<1> QED BY <1>4, <1>9, <1>10

(* All that the quads of an upload need is dirty before emitState.         *)
LEMMA TexturedDoes ==
  ASSUME NEW v \in States3D
  PROVE  Textured(v) \in States3D /\ Needed(Textured(v)) \subseteq Textured(v).dirty
<1>1. {"drawing", "dest"} \in SUBSET Groups /\ {"drawing"} \in SUBSET Groups
  BY DEF Groups
<1> DEFINE a == Dirty(v, {"drawing", "dest"})
           b == Dirty(a, {"drawing"})
           f == Set3DFlags(b, 1)
           t == Set3DTexture(f, 0, "src")
<1>2. a \in States3D /\ {"drawing", "dest"} \subseteq a.dirty
  BY <1>1, DirtyDoes
<1> HIDE DEF a
<1>3. b \in States3D /\ a.dirty \subseteq b.dirty
  BY <1>1, <1>2, DirtyDoes
<1> HIDE DEF b
<1>4. /\ f \in States3D /\ f.dirty = b.dirty \cup {"enable", "blend"}
      /\ f.numTextures = 1 /\ f.masks = b.masks \cap 0..(1 - 1)
  BY <1>3, FlagsDo
<1> HIDE DEF f
<1>5. /\ t \in States3D /\ t.numTextures = 1 /\ f.dirty \subseteq t.dirty
      /\ {"tex0", "col0"} \subseteq t.dirty
  BY <1>4, TextureDoes DEF TexGroup, ColGroup
<1> HIDE DEF t
<1>6. Common \subseteq t.dirty
  BY <1>2, <1>3, <1>4, <1>5 DEF Common
<1>7. Needed(t) \subseteq t.dirty
  BY <1>5, <1>6, NeededIs
<1>8. Textured(v) = t
  BY DEF Textured, a, b, f, t, Set3DDrawing, Set3DDestination
<1> QED BY <1>5, <1>7, <1>8

(* The first quad brings the colour.                                       *)
LEMMA ColouredDoes ==
  ASSUME NEW v \in States3D, NEW src, NEW mask,
         Needed(v) \ (IF mask = "onepix" THEN {"col0"} ELSE {}) \subseteq v.fresh
  PROVE  /\ Coloured(v, src, mask) \in States3D
         /\ Needed(Coloured(v, src, mask))
              \subseteq Coloured(v, src, mask).fresh \cup Coloured(v, src, mask).dirty
<1>1. {"col0"} \in SUBSET Groups /\ {"drawing"} \in SUBSET Groups
  BY DEF Groups, ColGroups
<1> DEFINE a == IF mask = "onepix" THEN Dirty(v, {"col0"}) ELSE v
           b == IF src = "onepix" THEN Dirty(a, {"drawing"}) ELSE a
<1>2. /\ a \in States3D /\ a.numTextures = v.numTextures /\ a.masks = v.masks
      /\ Needed(v) \subseteq a.fresh \cup a.dirty
  <2>1. CASE mask = "onepix"
    BY <2>1, <1>1, DirtyDoes
  <2>2. CASE mask # "onepix"
    BY <2>2
  <2> QED BY <2>1, <2>2
<1> HIDE DEF a
<1>3. /\ b \in States3D /\ b.numTextures = v.numTextures /\ b.masks = v.masks
      /\ Needed(v) \subseteq b.fresh \cup b.dirty
  <2>1. CASE src = "onepix"
    BY <2>1, <1>1, <1>2, DirtyDoes
  <2>2. CASE src # "onepix"
    BY <2>2, <1>2
  <2> QED BY <2>1, <2>2
<1> HIDE DEF b
<1>4. Needed(b) = Needed(v)
  BY <1>3 DEF Needed, InUse
<1>5. Coloured(v, src, mask) = b
  BY DEF Coloured, a, b, Set3DTexBlendCol, Set3DDrawing, ColGroup
<1> QED BY <1>3, <1>4, <1>5

(* What was dirty and is needed is fresh when it has been emitted.         *)
LEMMA EmittedIsFresh ==
  ASSUME NEW v \in States3D, NEW f \in BOOLEAN, NEW X,
         Needed(v) \ X \subseteq v.fresh \cup v.dirty
  PROVE  AfterEmit(v, f) \in States3D /\ Needed(AfterEmit(v, f)) \ X \subseteq AfterEmit(v, f).fresh
  BY AfterEmitDoes, NeededIs

-----------------------------------------------------------------------------
(* What the hooks do to their locals.                                      *)
LEMMA JobOut ==
  ASSUME NEW j \in Jobs
  PROVE  [j EXCEPT !.out = 1] \in Jobs /\ [j EXCEPT !.out = j.out + 1] \in Jobs
<1>1. [j EXCEPT !.out = 1] \in Jobs
  BY DEF Jobs
<1>2. [j EXCEPT !.out = j.out + 1] \in Jobs
  BY DEF Jobs
<1> QED BY <1>1, <1>2

(* A wait takes its marker and where it returns to.                        *)
LEMMA JobMarker ==
  ASSUME NEW j \in Jobs, NEW m \in Int
  PROVE  /\ [j EXCEPT !.marker = m] \in Jobs
         /\ \A r \in {"idle", "cpu", "blit", "fill"} : [j EXCEPT !.ret = r, !.marker = m] \in Jobs
<1>1. [j EXCEPT !.marker = m] \in Jobs
  BY DEF Jobs
<1>2. \A r \in {"idle", "cpu", "blit", "fill"} : [j EXCEPT !.ret = r, !.marker = m] \in Jobs
  BY DEF Jobs
<1> QED BY <1>1, <1>2

(* The upload goes on to a half of the AGP memory.                         *)
LEMMA JobNext ==
  ASSUME NEW j \in Jobs, NEW b \in Halves, NEW r \in {"idle", "fill"}, NEW m \in Int
  PROVE  [j EXCEPT !.buf = b, !.ret = r, !.marker = m] \in Jobs
  BY DEF Jobs

(* A transfer begins, takes the other half, and forgets a blit.            *)
LEMMA JobBlits ==
  ASSUME NEW j \in Jobs
  PROVE  /\ \A n \in Nat, o \in BOOLEAN, b \in Halves :
              [j EXCEPT !.left = n, !.bounce = o, !.buf = b] \in Jobs
         /\ [j EXCEPT !.buf = 1 - j.buf] \in Jobs
         /\ [j EXCEPT !.sync[j.buf] = 0] \in Jobs
<1>1. \A n \in Nat, o \in BOOLEAN, b \in Halves :
        [j EXCEPT !.left = n, !.bounce = o, !.buf = b] \in Jobs
  BY DEF Jobs
<1>2. [j EXCEPT !.buf = 1 - j.buf] \in Jobs
  <2>1. 1 - j.buf \in Halves
    BY DEF Jobs, Halves
  <2> QED BY <2>1 DEF Jobs
<1>3. [j EXCEPT !.sync[j.buf] = 0] \in Jobs
  BY DEF Jobs
<1> QED BY <1>1, <1>2, <1>3

(* A band filled, and a band given to the DMA engine.                      *)
LEMMA JobFills ==
  ASSUME NEW j \in Jobs, NEW m \in Nat, j.left > 0
  PROVE  /\ [j EXCEPT !.left = j.left - 1, !.out = 1, !.sync[j.buf] = m] \in Jobs
         /\ [j EXCEPT !.left = j.left - 1, !.next = j.next + 1, !.buf = 1 - j.buf,
                      !.sync[j.buf] = 1] \in Jobs
<1> DEFINE k(m0) == [j.sync EXCEPT ![j.buf] = m0]
<1>1. /\ j.left - 1 \in Nat /\ j.next + 1 \in Nat /\ j.buf \in Halves /\ 1 - j.buf \in Halves
  BY DEF Jobs, Halves
<1>2. k(m) \in [Halves -> Int] /\ k(1) \in [Halves -> Int]
  BY DEF Jobs
<1> HIDE DEF k
<1>3. [j EXCEPT !.left = j.left - 1, !.out = 1, !.sync = k(m)] \in Jobs
  BY <1>1, <1>2 DEF Jobs
<1>4. [j EXCEPT !.left = j.left - 1, !.next = j.next + 1, !.buf = 1 - j.buf, !.sync = k(1)] \in Jobs
  BY <1>1, <1>2 DEF Jobs
<1> QED BY Zenon, <1>3, <1>4 DEF k

(* PrepareComposite, with the states it sets named.                        *)
LEMMA PrepareCompositeDoes ==
  ASSUME PrepareComposite
  PROVE  \E src \in {"onepix", "texture", "system"},
            mask \in {"no", "onepix", "texture", "system"}, c \in Ring :
           \/ /\ src = "system" \/ <<src, mask>> = <<"onepix", "onepix">>
              /\ v3d' = Based(v3d)
              /\ UNCHANGED <<cb, pc, job, lastToUpload, ctxOwner>>
           \/ /\ src # "system" /\ mask = "system"
              /\ v3d' = Sourced(Based(v3d), src, mask)
              /\ UNCHANGED <<cb, pc, job, lastToUpload, ctxOwner>>
           \/ /\ src # "system" /\ mask # "system"
              /\ <<src, mask>> # <<"onepix", "onepix">>
              /\ Emit(Prepared(v3d, src, mask),
                      EmitClipRect(StateEmitted(c, Prepared(v3d, src, mask))))
              /\ pc' = "comp"
              /\ job' = [NoJob EXCEPT !.src = src, !.mask = mask]
  BY Zenon DEF PrepareComposite, Based, Sourced, Units, Prepared

(* Every step keeps the types.                                             *)
LEMMA StepHooksType == HooksTypeOK /\ JobInv /\ [Next]_vars => HooksTypeOK'
<1> SUFFICES ASSUME HooksTypeOK, JobInv, [Next]_vars PROVE HooksTypeOK'
  OBVIOUS
<1>t. /\ pc \in States /\ job \in Jobs /\ v3d \in States3D
      /\ curMarker \in Nat /\ accelMarker \in Nat
      /\ exaSync \in [need : BOOLEAN, marker : Nat]
      /\ dmaq \in Seq(Halves \X Nat) /\ half \in [Halves -> Int]
  BY DEF HooksTypeOK
<1>j. NoJob \in Jobs /\ MarkAfter(curMarker) \in Nat
  BY <1>t, NoJobOK, MarkerOK
<1>m. [need |-> TRUE, marker |-> MarkAfter(curMarker)] \in [need : BOOLEAN, marker : Nat]
      /\ [need |-> FALSE, marker |-> 0] \in [need : BOOLEAN, marker : Nat]
  BY <1>j
<1>1. CASE UNCHANGED vars
  BY <1>1, <1>t DEF vars, HooksTypeOK
<1>2. ASSUME NEW kind \in {"solid", "copy"}, PrepareSolidOrCopy(kind) PROVE HooksTypeOK'
  <2>1. pc' \in States
    BY <1>2, <1>t DEF PrepareSolidOrCopy, States
  <2>2. job' \in Jobs
    <3>1. \A planes \in PlaneMasks : [NoJob EXCEPT !.planes = planes] \in Jobs
      BY <1>j DEF Jobs
    <3> QED BY <1>2, <1>t, <3>1 DEF PrepareSolidOrCopy
  <2> QED BY <1>2, <2>1, <2>2, <1>t DEF PrepareSolidOrCopy, HooksTypeOK, dma, state3d, marks
<1>3. CASE Draw
  BY <1>3, <1>t DEF Draw, HooksTypeOK, dma, state3d, marks
<1>4. CASE Done
  BY <1>4, <1>t, <1>j, <1>m DEF Done, HooksTypeOK, dma, state3d, States
<1>5. CASE PrepareComposite
  <2>1. PICK src \in {"onepix", "texture", "system"},
             mask \in {"no", "onepix", "texture", "system"} :
          \/ /\ src = "system" \/ <<src, mask>> = <<"onepix", "onepix">>
             /\ v3d' = Based(v3d) /\ UNCHANGED <<pc, job>>
          \/ /\ src # "system" /\ mask = "system"
             /\ v3d' = Sourced(Based(v3d), src, mask) /\ UNCHANGED <<pc, job>>
          \/ /\ src # "system" /\ mask # "system"
             /\ v3d' = AfterEmit(Prepared(v3d, src, mask), ForceUpload)
             /\ pc' = "comp" /\ job' = [NoJob EXCEPT !.src = src, !.mask = mask]
    BY <1>5, PrepareCompositeDoes DEF Emit
  <2>2. Based(v3d) \in States3D
    BY <1>t, BasedDoes
  <2>3. CASE /\ v3d' = Based(v3d) \/ v3d' = Sourced(Based(v3d), src, mask)
             /\ UNCHANGED <<pc, job>>
    <3>2. Sourced(Based(v3d), src, mask) \in States3D
      BY <2>2, SourcedDoes
    <3> QED BY <2>2, <2>3, <3>2, <1>5, <1>t DEF PrepareComposite, HooksTypeOK, dma, marks
  <2>4. CASE /\ src # "system" /\ mask # "system"
             /\ v3d' = AfterEmit(Prepared(v3d, src, mask), ForceUpload)
             /\ pc' = "comp" /\ job' = [NoJob EXCEPT !.src = src, !.mask = mask]
    <3>1. Prepared(v3d, src, mask) \in States3D
      BY <2>4, <1>t, PreparedDoes
    <3>2. ForceUpload \in BOOLEAN
      BY DEF ForceUpload
    <3>3. AfterEmit(Prepared(v3d, src, mask), ForceUpload) \in States3D
      BY <3>1, <3>2, AfterEmitDoes
    <3>4. [NoJob EXCEPT !.src = src, !.mask = mask] \in Jobs
      BY <2>4, <1>j DEF Jobs
    <3> QED BY <2>4, <3>3, <3>4, <1>5, <1>t
            DEF PrepareComposite, HooksTypeOK, dma, marks, States
  <2> QED BY <2>1, <2>3, <2>4
<1>6. CASE Composite
  <2>1. [job EXCEPT !.out = 1] \in Jobs
    BY <1>t, JobOut
  <2>2. v3d' \in States3D
    <3>1. v3d' = AfterEmit(Coloured(v3d, job.src, job.mask), ForceUpload) \/ v3d' = v3d
      BY <1>6 DEF Composite, Emit, Coloured, state3d
    <3>2. Coloured(v3d, job.src, job.mask) \in States3D
      <4>1. /\ {"col0"} \in SUBSET Groups /\ {"drawing"} \in SUBSET Groups
        BY DEF Groups, ColGroups
      <4>2. Dirty(v3d, {"col0"}) \in States3D
        BY <4>1, <1>t, DirtyDoes
      <4> QED BY <4>1, <4>2, <1>t, DirtyDoes
              DEF Coloured, Set3DTexBlendCol, Set3DDrawing, ColGroup
    <3>3. ForceUpload \in BOOLEAN
      BY DEF ForceUpload
    <3> QED BY <3>1, <3>2, <3>3, <1>t, AfterEmitDoes
  <2> QED BY <1>6, <2>1, <2>2, <1>t DEF Composite, HooksTypeOK, dma, marks
<1>7. CASE ClientDraws
  <2>1. [v3d EXCEPT !.fresh = {}] \in States3D
    BY <1>t DEF States3D
  <2> QED BY <1>7, <2>1, <1>t DEF ClientDraws, HooksTypeOK, dma, marks
<1>8. CASE WaitMarker
  <2>1. job' \in Jobs
    BY <1>8, <1>t, <1>j DEF WaitMarker
  <2>2. pc' \in States
    BY <1>8, <1>t DEF WaitMarker, States, Jobs
  <2> QED BY <1>8, <2>1, <2>2, <1>t DEF WaitMarker, HooksTypeOK, dma, state3d
<1>9. CASE Engine
  BY <1>9, <1>t DEF Engine, HooksTypeOK, dma, state3d
<1>10. CASE CpuAccess \/ Transfer
  <2>1. PICK ret \in {"cpu", "blit"}, j \in Jobs : WaitSync(ret, j)
    <3>1. CASE CpuAccess
      BY <3>1, <1>j DEF CpuAccess
    <3>2. CASE Transfer
      <4>1. \A bounce \in BOOLEAN, n \in 1..MaxBands :
              [NoJob EXCEPT !.left = n, !.bounce = bounce, !.buf = 0] \in Jobs
        <5>1. 0 \in Halves /\ 1..MaxBands \subseteq Nat
          BY AccelAssumption DEF Halves
        <5> QED BY <1>j, <5>1, JobBlits
      <4> QED BY <3>2, <4>1 DEF Transfer
    <3> QED BY <1>10, <3>1, <3>2
  <2>2. pc' \in States /\ job' \in Jobs /\ exaSync' = [need |-> FALSE, marker |-> 0]
    <3>1. exaSync.marker \in Int
      BY <1>t
    <3>2. [j EXCEPT !.ret = ret, !.marker = exaSync.marker] \in Jobs
      BY <3>1, JobMarker
    <3> QED BY <2>1, <3>2 DEF WaitSync, States
  <2>3. half' \in [Halves -> Int]
    <3>1. [b \in Halves |-> -1] \in [Halves -> Int]
      OBVIOUS
    <3> QED BY <1>10, <3>1, <1>t DEF CpuAccess, Transfer, dma
  <2> QED BY <1>10, <2>2, <2>3, <1>m, <1>t
          DEF CpuAccess, Transfer, HooksTypeOK, dma, state3d
<1>11. CASE CpuCopy
  BY <1>11, <1>t, <1>j DEF CpuCopy, HooksTypeOK, dma, state3d, marks, States
<1>12. CASE TexUpload
  <2>1. PICK n \in 1..MaxBands :
          /\ v3d' = AfterEmit(Textured(v3d), ForceUpload)
          /\ job' = [NoJob EXCEPT !.left = n]
    BY <1>12 DEF TexUpload, Emit, Textured
  <2>2. job' \in Jobs
    BY <2>1, <1>j, AccelAssumption DEF Jobs
  <2>3. v3d' \in States3D
    BY <2>1, <1>t, TexturedDoes, AfterEmitDoes DEF ForceUpload
  <2> QED BY <1>12, <2>2, <2>3, <1>t DEF TexUpload, HooksTypeOK, dma, marks, States
<1>13. CASE TexNext
  <2>1. /\ job' \in Jobs /\ pc' \in States
    <3>1. PICK b \in Halves, r \in {"idle", "fill"} :
            job' = [job EXCEPT !.buf = b, !.ret = r, !.marker = job.sync[b]]
            /\ pc' \in {"wait", r}
      <4>1. job.buf \in Halves /\ 1 - job.buf \in Halves
        BY <1>t DEF Jobs, Halves
      <4> QED BY <1>13, <4>1 DEF TexNext
    <3>2. job.sync[b] \in Int
      BY <1>t DEF Jobs
    <3> QED BY <3>1, <3>2, <1>t, JobNext DEF States
  <2> QED BY <1>13, <2>1, <1>t DEF TexNext, HooksTypeOK, dma, state3d, marks
<1>14. CASE TexFill
  <2>1. job' = [job EXCEPT !.left = job.left - 1, !.out = 1, !.sync[job.buf] = MarkAfter(curMarker)]
        /\ job.left > 0
    BY <1>14 DEF TexFill, JobInv
  <2>2. job' \in Jobs
    BY <2>1, <1>t, <1>j, JobFills
  <2> QED BY <1>14, <2>2, <1>t, <1>j DEF TexFill, HooksTypeOK, dma, state3d, States
<1>15. CASE Blit
  <2>1. job' = [job EXCEPT !.left = job.left - 1, !.next = job.next + 1, !.buf = 1 - job.buf,
                           !.sync[job.buf] = 1]
        /\ job.left > 0
    BY <1>15 DEF Blit
  <2>2. job' \in Jobs
    BY <2>1, <1>t, JobFills
  <2>3. <<job.buf, job.next>> \in Halves \X Nat
    BY <1>t DEF Jobs
  <2>4. dmaq' \in Seq(Halves \X Nat)
    BY <1>15, <2>3, <1>t DEF Blit
  <2> QED BY <1>15, <2>2, <2>4, <1>t DEF Blit, HooksTypeOK, state3d, marks, States
<1>16. CASE BlitsEnd
  <2>1. job' \in Jobs /\ pc' \in States
    <3>1. [job EXCEPT !.buf = 1 - job.buf] \in Jobs
      BY <1>t, JobBlits
    <3> QED BY <1>16, <3>1, <1>j DEF BlitsEnd, States
  <2> QED BY <1>16, <2>1, <1>t DEF BlitsEnd, HooksTypeOK, dma, state3d, marks
<1>17. CASE BlitSync
  <2>1. job' \in Jobs /\ pc' \in States
    <3>1. [job EXCEPT !.sync[job.buf] = 0] \in Jobs
      BY <1>t, JobBlits
    <3> QED BY <1>17, <3>1 DEF BlitSync, States
  <2> QED BY <1>17, <2>1, <1>t DEF BlitSync, HooksTypeOK, dma, state3d, marks
<1>18. CASE BounceCopy
  <2>1. job' \in Jobs /\ pc' \in States
    BY <1>18, <1>t, JobOut DEF BounceCopy, States
  <2> QED BY <1>18, <2>1, <1>t DEF BounceCopy, HooksTypeOK, dma, state3d, marks
<1>19. CASE BlitFails
  BY <1>19, <1>t, <1>j DEF BlitFails, HooksTypeOK, dma, state3d, marks, States
<1>20. CASE DmaEngine
  <2>1. dmaq' \in Seq(Halves \X Nat) /\ Head(dmaq) \in Halves \X Nat
    BY <1>20, <1>t DEF DmaEngine
  <2>2. half' \in [Halves -> Int]
    BY <1>20, <1>t, <2>1 DEF DmaEngine
  <2> QED BY <1>20, <2>1, <2>2, <1>t DEF DmaEngine, HooksTypeOK, state3d, marks
<1>21. CASE SetClippingRectangle \/ XaaSubsequent
  BY <1>21, <1>t DEF SetClippingRectangle, XaaSubsequent, HooksTypeOK, dma, state3d, marks
<1>22. CASE XaaSetup
  <2>1. job' \in Jobs
    <3>1. PICK kind \in Kinds : job' = [NoJob EXCEPT !.src = kind]
      BY <1>22 DEF XaaSetup, Kinds
    <3> QED BY <3>1, <1>j DEF Jobs
  <2> QED BY <1>22, <2>1, <1>t DEF XaaSetup, HooksTypeOK, dma, state3d, marks
<1>23. CASE DgaDraws
  BY <1>23, <1>t, <1>j DEF DgaDraws, HooksTypeOK, dma, state3d
<1>24. CASE DgaSync
  <2>1. job' \in Jobs
    <3>1. [NoJob EXCEPT !.marker = accelMarker] \in Jobs
      <4>1. accelMarker \in Int /\ NoJob \in Jobs
        BY <1>t, <1>j
      <4> QED BY <4>1, JobMarker
    <3> QED BY <1>24, <3>1 DEF DgaSync
  <2> QED BY <1>24, <2>1, <1>t DEF DgaSync, HooksTypeOK, dma, state3d, marks, States
<1> QED BY <1>1, <1>2, <1>3, <1>4, <1>5, <1>6, <1>7, <1>8, <1>9, <1>10, <1>11, <1>12,
           <1>13, <1>14, <1>15, <1>16, <1>17, <1>18, <1>19, <1>20, <1>21, <1>22, <1>23, <1>24
        DEF Next, PrepareSolid, PrepareCopy

-----------------------------------------------------------------------------
(* The fields of the locals after each step.                               *)
LEMMA NoJobPlanes ==
  ASSUME NEW planes
  PROVE  /\ [NoJob EXCEPT !.planes = planes].out = 0
         /\ [NoJob EXCEPT !.planes = planes].src = "no"
  BY DEF NoJob

(* The locals of a composite that begins.                                  *)
LEMMA PreparedJob ==
  ASSUME NEW src, NEW mask
  PROVE  /\ [NoJob EXCEPT !.src = src, !.mask = mask].out = 0
         /\ [NoJob EXCEPT !.src = src, !.mask = mask].src = src
         /\ [NoJob EXCEPT !.src = src, !.mask = mask].mask = mask
  BY DEF NoJob

(* The locals of a composite after a quad.                                 *)
LEMMA CompositeJob ==
  ASSUME NEW j \in Jobs
  PROVE  /\ [j EXCEPT !.out = 1].out = 1
         /\ [j EXCEPT !.out = 1].src = j.src /\ [j EXCEPT !.out = 1].mask = j.mask
  BY DEF Jobs

(* A wait changes where it returns to and its marker only.                 *)
LEMMA WaitJob ==
  ASSUME NEW j \in Jobs, NEW r, NEW m
  PROVE  LET k == [j EXCEPT !.ret = r, !.marker = m]
         IN  /\ k.ret = r /\ k.marker = m
             /\ k.left = j.left /\ k.buf = j.buf /\ k.next = j.next /\ k.out = j.out
             /\ k.sync = j.sync /\ k.bounce = j.bounce /\ k.src = j.src
  BY DEF Jobs

(* The locals of a transfer that begins.                                   *)
LEMMA TransferJob ==
  ASSUME NEW n, NEW o
  PROVE  LET k == [NoJob EXCEPT !.left = n, !.bounce = o, !.buf = 0]
         IN  /\ k.left = n /\ k.bounce = o /\ k.buf = 0 /\ k.next = 0 /\ k.out = 0
             /\ k.src = "no" /\ \A b \in Halves : k.sync[b] = -1
  BY DEF NoJob, Halves

(* The locals of an upload that begins.                                    *)
LEMMA UploadJob ==
  ASSUME NEW n
  PROVE  LET k == [NoJob EXCEPT !.left = n]
         IN  k.left = n /\ k.out = 0 /\ k.src = "no" /\ \A b \in Halves : k.sync[b] = -1
  BY DEF NoJob, Halves

(* TexNext, field by field.                                                *)
LEMMA TexNextDoes ==
  ASSUME job \in Jobs, TexNext
  PROVE  \E b \in Halves, r \in {"fill", "idle"} :
           /\ pc = "next" /\ b = IF job.left > 0 THEN 1 - job.buf ELSE job.buf
           /\ r = IF job.left > 0 THEN "fill" ELSE "idle"
           /\ pc' = IF job.sync[b] >= 0 THEN "wait" ELSE r
           /\ job'.buf = b /\ job'.ret = r /\ job'.marker = job.sync[b]
           /\ job'.left = job.left /\ job'.out = job.out /\ job'.sync = job.sync
           /\ job'.src = job.src
<1> DEFINE b == IF job.left > 0 THEN 1 - job.buf ELSE job.buf
           r == IF job.left > 0 THEN "fill" ELSE "idle"
<1>1. b \in Halves /\ r \in {"fill", "idle"}
  BY DEF Jobs, Halves
<1>2. /\ pc = "next" /\ pc' = IF job.sync[b] >= 0 THEN "wait" ELSE r
      /\ job' = [job EXCEPT !.buf = b, !.ret = r, !.marker = job.sync[b]]
  BY DEF TexNext
<1> HIDE DEF b, r
<1>3. /\ job'.buf = b /\ job'.ret = r /\ job'.marker = job.sync[b]
      /\ job'.left = job.left /\ job'.out = job.out /\ job'.sync = job.sync
      /\ job'.src = job.src
  BY <1>2 DEF Jobs
<1> QED BY <1>1, <1>2, <1>3 DEF b, r

(* TexFill, field by field.                                                *)
LEMMA TexFillDoes ==
  ASSUME job \in Jobs, TexFill
  PROVE  /\ pc = "fill" /\ pc' = "next"
         /\ job'.left = job.left - 1 /\ job'.out = 1 /\ job'.buf = job.buf /\ job'.src = job.src
         /\ \A b \in Halves :
              job'.sync[b] = IF b = job.buf THEN MarkAfter(curMarker) ELSE job.sync[b]
<1> DEFINE k == [job.sync EXCEPT ![job.buf] = MarkAfter(curMarker)]
<1>1. job' = [job EXCEPT !.left = job.left - 1, !.out = 1, !.sync = k]
  BY Zenon DEF TexFill
<1>2. \A b \in Halves : k[b] = IF b = job.buf THEN MarkAfter(curMarker) ELSE job.sync[b]
  BY DEF Jobs
<1> HIDE DEF k
<1>3. /\ job'.left = job.left - 1 /\ job'.out = 1 /\ job'.buf = job.buf /\ job'.src = job.src
      /\ job'.sync = k
  BY <1>1 DEF Jobs
<1> QED BY <1>2, <1>3 DEF TexFill

(* Blit, field by field.                                                   *)
LEMMA BlitDoes ==
  ASSUME job \in Jobs, Blit
  PROVE  /\ pc = "blit" /\ job.left > 0 /\ dmaq' = Append(dmaq, <<job.buf, job.next>>)
         /\ pc' = IF job.sync[1 - job.buf] = 1 THEN "sync" ELSE "blit"
         /\ job'.left = job.left - 1 /\ job'.next = job.next + 1 /\ job'.buf = 1 - job.buf
         /\ job'.out = job.out /\ job'.bounce = job.bounce /\ job'.src = job.src
         /\ \A b \in Halves : job'.sync[b] = IF b = job.buf THEN 1 ELSE job.sync[b]
<1> DEFINE k == [job.sync EXCEPT ![job.buf] = 1]
<1>1. job' = [job EXCEPT !.left = job.left - 1, !.next = job.next + 1, !.buf = 1 - job.buf,
                         !.sync = k]
  BY Zenon DEF Blit
<1>2. \A b \in Halves : k[b] = IF b = job.buf THEN 1 ELSE job.sync[b]
  BY DEF Jobs
<1> HIDE DEF k
<1>3. /\ job'.left = job.left - 1 /\ job'.next = job.next + 1 /\ job'.buf = 1 - job.buf
      /\ job'.out = job.out /\ job'.bounce = job.bounce /\ job'.src = job.src /\ job'.sync = k
  BY <1>1 DEF Jobs
<1> QED BY <1>2, <1>3 DEF Blit

(* BlitsEnd, field by field: the transfer is over, or waits for its last   *)
(* blit.                                                                   *)
LEMMA BlitsEndDoes ==
  ASSUME job \in Jobs, BlitsEnd
  PROVE  /\ pc = "blit" /\ job.left = 0
         /\ \/ pc' = "idle" /\ job' = NoJob
            \/ /\ job.sync[1 - job.buf] = 1 /\ pc' = "sync" /\ job'.buf = 1 - job.buf
               /\ job'.next = job.next /\ job'.out = job.out /\ job'.sync = job.sync
               /\ job'.bounce = job.bounce /\ job'.src = job.src
<1>1. CASE job.sync[1 - job.buf] = 1
  <2>1. job' = [job EXCEPT !.buf = 1 - job.buf]
    BY <1>1 DEF BlitsEnd
  <2>2. /\ job'.buf = 1 - job.buf /\ job'.next = job.next /\ job'.out = job.out
        /\ job'.sync = job.sync /\ job'.bounce = job.bounce /\ job'.src = job.src
    BY <2>1 DEF Jobs
  <2> QED BY <1>1, <2>2 DEF BlitsEnd
<1>2. CASE job.sync[1 - job.buf] # 1
  BY <1>2 DEF BlitsEnd
<1> QED BY <1>1, <1>2

(* BlitSync, field by field.                                               *)
LEMMA BlitSyncDoes ==
  ASSUME job \in Jobs, BlitSync
  PROVE  /\ pc = "sync" /\ \A i \in 1..Len(dmaq) : dmaq[i][1] # job.buf
         /\ pc' = IF job.bounce THEN "bounced" ELSE "blit"
         /\ job'.buf = job.buf /\ job'.next = job.next /\ job'.out = job.out
         /\ job'.bounce = job.bounce /\ job'.src = job.src
         /\ \A b \in Halves : job'.sync[b] = IF b = job.buf THEN 0 ELSE job.sync[b]
<1> DEFINE k == [job.sync EXCEPT ![job.buf] = 0]
<1>1. job' = [job EXCEPT !.sync = k]
  BY Zenon DEF BlitSync
<1>2. \A b \in Halves : k[b] = IF b = job.buf THEN 0 ELSE job.sync[b]
  BY DEF Jobs
<1> HIDE DEF k
<1>3. /\ job'.buf = job.buf /\ job'.next = job.next /\ job'.out = job.out
      /\ job'.bounce = job.bounce /\ job'.src = job.src /\ job'.sync = k
  BY <1>1 DEF Jobs
<1> QED BY <1>2, <1>3 DEF BlitSync

(* BounceCopy, field by field.                                             *)
LEMMA BounceDoes ==
  ASSUME job \in Jobs, BounceCopy
  PROVE  /\ pc = "bounced" /\ pc' = "blit"
         /\ job'.buf = job.buf /\ job'.next = job.next /\ job'.out = job.out + 1
         /\ job'.bounce = job.bounce /\ job'.src = job.src /\ job'.sync = job.sync
  BY DEF BounceCopy, Jobs

(* XAA remembers what it has set up.                                       *)
LEMMA SetupJob ==
  ASSUME XaaSetup
  PROVE  pc = "idle" /\ job'.src \in Kinds
<1>1. PICK kind \in Kinds : job' = [NoJob EXCEPT !.src = kind]
  BY DEF XaaSetup, Kinds
<1> QED BY <1>1 DEF XaaSetup, Idle, NoJob

-----------------------------------------------------------------------------
(* A wait is left for where it was begun for.                              *)
LEMMA WaitMarkerDoes ==
  ASSUME WaitMarker
  PROVE  /\ pc = "wait"
         /\ \/ pc' = pc /\ job' = job
            \/ /\ pc' = job.ret
               /\ job' = IF job.ret = "idle" THEN NoJob ELSE job
               /\ UNCHANGED lastMarkerRead
               /\ IF cb.agpDMA THEN Passed(job.marker) ELSE cb.queue = <<>>
  BY DEF WaitMarker

(* exaWaitSync, field by field.                                            *)
LEMMA WaitSyncDoes ==
  ASSUME NEW r, NEW j \in Jobs, WaitSync(r, j)
  PROVE  /\ pc' = IF exaSync.need THEN "wait" ELSE r
         /\ exaSync' = [need |-> FALSE, marker |-> 0]
         /\ job'.ret = r /\ job'.marker = exaSync.marker
         /\ job'.left = j.left /\ job'.buf = j.buf /\ job'.next = j.next /\ job'.out = j.out
         /\ job'.sync = j.sync /\ job'.bounce = j.bounce /\ job'.src = j.src
  BY WaitJob DEF WaitSync

(* The CPU's accesses and the transfers both begin with a wait.            *)
LEMMA AccessDoes ==
  ASSUME CpuAccess \/ Transfer
  PROVE  \E r \in {"cpu", "blit"} :
           /\ pc = "idle" /\ pc' = IF exaSync.need THEN "wait" ELSE r
           /\ exaSync' = [need |-> FALSE, marker |-> 0]
           /\ job'.ret = r /\ job'.marker = exaSync.marker
           /\ job'.out = 0 /\ job'.src = "no" /\ \A b \in Halves : job'.sync[b] = -1
           /\ Transfer => r = "blit" /\ job'.next = 0 /\ job'.buf = 0
           /\ ~ Transfer => r = "cpu"
           /\ UNCHANGED <<cb, dmaq, state3d, curMarker, lastMarkerRead, accelMarker, markerBuf>>
<1>j. NoJob \in Jobs /\ NoJob.out = 0 /\ NoJob.src = "no" /\ \A b \in Halves : NoJob.sync[b] = -1
  BY NoJobOK
<1>1. CASE Transfer
  <2>1. PICK n \in 1..MaxBands, o \in BOOLEAN :
          WaitSync("blit", [NoJob EXCEPT !.left = n, !.bounce = o, !.buf = 0])
    BY <1>1 DEF Transfer
  <2> DEFINE j == [NoJob EXCEPT !.left = n, !.bounce = o, !.buf = 0]
  <2>2. n \in Nat /\ 0 \in Halves
    BY AccelAssumption DEF Halves
  <2>3. j \in Jobs
    BY <2>2, <1>j, JobBlits
  <2>4. /\ j.next = 0 /\ j.out = 0 /\ j.buf = 0 /\ j.src = "no"
        /\ \A b \in Halves : j.sync[b] = -1
    BY TransferJob
  <2>5. WaitSync("blit", j)
    BY <2>1
  <2> HIDE DEF j
  <2> QED BY <2>3, <2>4, <2>5, <1>1, WaitSyncDoes DEF Transfer, Idle
<1>2. CASE CpuAccess /\ ~ Transfer
  <2>1. pc = "idle" /\ WaitSync("cpu", NoJob)
    BY <1>2 DEF CpuAccess, Idle
  <2> QED BY <2>1, <1>2, <1>j, WaitSyncDoes DEF CpuAccess, dma
<1> QED BY <1>1, <1>2

-----------------------------------------------------------------------------
(* Every step keeps what is known of the locals of a hook.                 *)
LEMMA StepJobInv == HooksTypeOK /\ JobInv /\ [Next]_vars => JobInv'
<1> SUFFICES ASSUME HooksTypeOK, JobInv, [Next]_vars PROVE JobInv'
  OBVIOUS
<1>t. /\ job \in Jobs /\ curMarker \in Nat /\ accelMarker \in Nat
      /\ exaSync.marker \in Nat /\ MarkAfter(curMarker) \in Nat
  BY MarkerOK DEF HooksTypeOK
<1>f. /\ job.out \in Nat /\ job.left \in Nat /\ job.buf \in {0, 1} /\ 1 - job.buf \in {0, 1}
      /\ \A b \in Halves : job.sync[b] \in Int
  BY <1>t DEF Jobs, Halves
<1>n. /\ NoJob.out = 0 /\ NoJob.src = "no" /\ NoJob.ret = "idle"
  BY NoJobOK
<1>u. ASSUME UNCHANGED <<pc, job>> PROVE JobInv'
  BY <1>u DEF JobInv, Uploading
<1>i. ASSUME pc' \in {"idle", "solid", "copy", "comp", "cpu", "blit", "sync", "bounced"},
             pc' = "comp" \/ job'.src \in {"no"} \cup Kinds
      PROVE  JobInv'
  BY <1>i DEF JobInv, Uploading
<1>1. ASSUME NEW kind \in {"solid", "copy"}, PrepareSolidOrCopy(kind) PROVE JobInv'
  <2>1. CASE UNCHANGED <<pc, job>>
    BY <2>1, <1>u
  <2>2. CASE \E planes \in PlaneMasks : pc' = kind /\ job' = [NoJob EXCEPT !.planes = planes]
    BY <2>2, <1>i, NoJobPlanes
  <2> QED BY <1>1, <2>1, <2>2 DEF PrepareSolidOrCopy
<1>2. CASE Draw \/ ClientDraws \/ Engine \/ DmaEngine \/ SetClippingRectangle \/ XaaSubsequent
           \/ UNCHANGED vars
  BY <1>2, <1>u DEF Draw, ClientDraws, Engine, DmaEngine, SetClippingRectangle, XaaSubsequent, vars
<1>3. CASE Done \/ CpuCopy \/ BlitFails
  <2>1. pc' = "idle" /\ job' = NoJob
    BY <1>3 DEF Done, CpuCopy, BlitFails
  <2> QED BY <2>1, <1>i, <1>n
<1>4. CASE PrepareComposite
  <2>1. UNCHANGED <<pc, job>> \/ pc' = "comp"
    BY <1>4, PrepareCompositeDoes
  <2> QED BY <2>1, <1>u, <1>i
<1>5. CASE Composite
  BY <1>5, <1>i DEF Composite
<1>6. CASE WaitMarker
  <2>1. CASE pc' = pc /\ job' = job
    BY <2>1, <1>u
  <2>2. CASE pc' = job.ret /\ job.ret = "idle" /\ job' = NoJob
    BY <2>2, <1>i, <1>n
  <2>3. CASE pc' = job.ret /\ job.ret # "idle" /\ job' = job /\ pc = "wait"
    <3>1. job.ret \in {"cpu", "blit", "fill"} /\ job.src \in {"no"} \cup Kinds
      BY <2>3, <1>t DEF Jobs, JobInv
    <3>2. CASE job.ret = "fill"
      BY <2>3, <3>1, <3>2 DEF JobInv, Uploading
    <3> QED BY <2>3, <3>1, <3>2, <1>i
  <2> QED BY <1>6, <2>1, <2>2, <2>3, WaitMarkerDoes
<1>7. CASE CpuAccess \/ Transfer
  <2>1. /\ pc' \in {"wait", "cpu", "blit"} /\ job'.ret \in {"cpu", "blit"}
        /\ job'.marker = exaSync.marker /\ job'.out = 0 /\ job'.src = "no"
    BY <1>7, AccessDoes
  <2> QED BY <2>1, <1>t DEF JobInv, Uploading
<1>8. CASE TexUpload
  <2>1. PICK n \in 1..MaxBands : job' = [NoJob EXCEPT !.left = n] /\ pc' = "next"
    BY <1>8 DEF TexUpload
  <2>2. job'.left = n /\ job'.out = 0 /\ job'.src = "no" /\ \A b \in Halves : job'.sync[b] = -1
    BY <2>1, UploadJob
  <2> QED BY <2>1, <2>2 DEF JobInv, Uploading
<1>9. CASE TexNext
  <2>1. PICK b \in Halves, r \in {"fill", "idle"} :
           /\ pc = "next" /\ b = IF job.left > 0 THEN 1 - job.buf ELSE job.buf
           /\ r = IF job.left > 0 THEN "fill" ELSE "idle"
           /\ pc' = IF job.sync[b] >= 0 THEN "wait" ELSE r
           /\ job'.buf = b /\ job'.ret = r /\ job'.marker = job.sync[b]
           /\ job'.left = job.left /\ job'.out = job.out /\ job'.sync = job.sync
           /\ job'.src = job.src
    BY <1>9, <1>t, TexNextDoes
  <2>2. /\ job.src \in {"no"} \cup Kinds
        /\ \/ job.out = 0 /\ job.left > 0 /\ \A h \in Halves : job.sync[h] = -1
           \/ job.out = 1 /\ job.sync[job.buf] >= 0
    BY <2>1 DEF JobInv, Uploading
  <2>3. CASE job.left > 0
    <3>1. /\ pc' = "wait" /\ job'.marker >= 0 /\ job'.sync[job'.buf] >= 0 /\ job.out = 1
          \/ pc' = "fill"
      BY <2>1, <2>2, <2>3, <1>f
    <3> QED BY <2>1, <2>2, <2>3, <3>1 DEF JobInv, Uploading
  <2>4. CASE ~ (job.left > 0)
    <3>1. pc' = "wait" /\ job'.marker >= 0 /\ job'.ret = "idle"
      BY <2>1, <2>2, <2>4, <1>f
    <3> QED BY <2>1, <2>2, <3>1 DEF JobInv, Uploading
  <2> QED BY <2>3, <2>4
<1>10. CASE TexFill
  <2>1. /\ pc = "fill" /\ pc' = "next" /\ job'.out = 1 /\ job'.buf = job.buf
        /\ job'.src = job.src /\ job'.sync[job.buf] = MarkAfter(curMarker)
    BY <1>10, <1>t, TexFillDoes DEF Jobs
  <2>2. MarkAfter(curMarker) >= 0
    BY <1>t
  <2> QED BY <2>1, <2>2 DEF JobInv, Uploading
<1>11. CASE Blit \/ BlitsEnd \/ BlitSync \/ BounceCopy
  <2>1. pc' \in {"idle", "sync", "blit", "bounced"} /\ job'.src \in {job.src, "no"} /\ pc # "comp"
    BY <1>11, <1>t, <1>n, BlitDoes, BlitsEndDoes, BlitSyncDoes, BounceDoes
  <2>2. job.src \in {"no"} \cup Kinds
    BY <2>1 DEF JobInv
  <2> QED BY <2>1, <2>2, <1>i
<1>12. CASE XaaSetup
  <2>1. pc = "idle" /\ job'.src \in Kinds
    BY <1>12, SetupJob
  <2>2. pc' = pc
    BY <1>12 DEF XaaSetup
  <2> QED BY <2>1, <2>2, <1>i
<1>13. CASE DgaDraws
  <2>1. pc' = "idle" /\ job' = NoJob
    BY <1>13 DEF DgaDraws, Idle
  <2> QED BY <2>1, <1>i, <1>n
<1>14. CASE DgaSync
  <2>1. job' = [NoJob EXCEPT !.marker = accelMarker] /\ pc' = "wait"
    BY <1>14 DEF DgaSync
  <2>2. /\ job'.marker = accelMarker /\ job'.ret = "idle" /\ job'.src = "no"
    BY <2>1 DEF NoJob
  <2> QED BY <2>1, <2>2, <1>t DEF JobInv, Uploading
<1> QED BY <1>1, <1>2, <1>3, <1>4, <1>5, <1>6, <1>7, <1>8, <1>9, <1>10, <1>11, <1>12, <1>13, <1>14
        DEF Next, PrepareSolid, PrepareCopy

(* Every step keeps the state of a quad fresh.                             *)
LEMMA StepQuadInv == HooksTypeOK /\ JobInv /\ QuadInv /\ [Next]_vars => QuadInv'
<1> SUFFICES ASSUME HooksTypeOK, JobInv, QuadInv, [Next]_vars PROVE QuadInv'
  OBVIOUS
<1>t. v3d \in States3D /\ job \in Jobs /\ job.out \in Nat
  BY DEF HooksTypeOK, Jobs
<1>n. NoJob.out = 0
  BY NoJobOK
<1>f. ForceUpload \in BOOLEAN
  BY DEF ForceUpload
<1>u. ASSUME UNCHANGED <<pc, job, v3d>> PROVE QuadInv'
  BY <1>u DEF QuadInv, Uploading, Needed, InUse
<1>i. ASSUME pc' \in {"idle", "solid", "copy", "cpu", "blit", "sync", "bounced"} PROVE QuadInv'
  BY <1>i DEF QuadInv, Uploading
<1>k. ASSUME v3d' = v3d, Needed(v3d) \subseteq v3d.fresh PROVE QuadInv'
  <2>1. Needed(v3d') \subseteq v3d'.fresh
    BY <1>k
  <2> QED BY <2>1 DEF QuadInv, Uploading
<1>1. ASSUME NEW kind \in {"solid", "copy"}, PrepareSolidOrCopy(kind) PROVE QuadInv'
  BY <1>1, <1>i DEF PrepareSolidOrCopy, Idle
<1>2. CASE Draw \/ Engine \/ DmaEngine \/ SetClippingRectangle \/ XaaSubsequent \/ UNCHANGED vars
  BY <1>2, <1>u DEF Draw, Engine, DmaEngine, SetClippingRectangle, XaaSubsequent, vars, state3d
<1>3. CASE Done \/ CpuCopy \/ BlitFails \/ XaaSetup \/ DgaDraws \/ ClientDraws
  BY <1>3, <1>i DEF Done, CpuCopy, BlitFails, XaaSetup, DgaDraws, ClientDraws, Idle
<1>4. CASE PrepareComposite
  <2>1. PICK src \in {"onepix", "texture", "system"},
             mask \in {"no", "onepix", "texture", "system"} :
          \/ UNCHANGED <<pc, job>>
          \/ /\ src # "system" /\ mask # "system"
             /\ v3d' = AfterEmit(Prepared(v3d, src, mask), ForceUpload)
             /\ pc' = "comp" /\ job' = [NoJob EXCEPT !.src = src, !.mask = mask]
    BY <1>4, PrepareCompositeDoes DEF Emit
  <2>2. CASE UNCHANGED <<pc, job>>
    BY <2>2, <1>i, <1>4 DEF PrepareComposite, Idle
  <2>3. CASE /\ src # "system" /\ mask # "system"
             /\ v3d' = AfterEmit(Prepared(v3d, src, mask), ForceUpload)
             /\ pc' = "comp" /\ job' = [NoJob EXCEPT !.src = src, !.mask = mask]
    <3> DEFINE p == Prepared(v3d, src, mask)
               X == IF mask = "onepix" THEN {"col0"} ELSE {}
    <3>1. p \in States3D /\ Needed(p) \ X \subseteq p.dirty
      BY <2>3, <1>t, PreparedDoes
    <3>2. job'.out = 0 /\ job'.mask = mask
      BY <2>3, PreparedJob
    <3>3. v3d' = AfterEmit(p, ForceUpload)
      BY <2>3
    <3> HIDE DEF p
    <3>4. Needed(v3d') \ X \subseteq v3d'.fresh
      BY <3>1, <3>3, <1>f, EmittedIsFresh
    <3>5. Needed(v3d') \ (IF job'.mask = "onepix" /\ job'.out = 0 THEN {"col0"} ELSE {})
            \subseteq v3d'.fresh
      BY <3>2, <3>4
    <3> QED BY <2>3, <3>5 DEF QuadInv, Uploading
  <2> QED BY <2>1, <2>2, <2>3
<1>5. CASE Composite
  <2> DEFINE X == IF job.mask = "onepix" THEN {"col0"} ELSE {}
             v == Coloured(v3d, job.src, job.mask)
  <2>1. pc = "comp" /\ pc' = "comp"
        /\ job' = [job EXCEPT !.out = 1]
    BY <1>5 DEF Composite
  <2>2. job'.out = 1 /\ job'.mask = job.mask
    BY <2>1, <1>t, CompositeJob
  <2>3. Needed(v3d) \ X \subseteq v3d.fresh
    BY <2>1 DEF QuadInv
  <2>4. v \in States3D /\ Needed(v) \subseteq v.fresh \cup v.dirty
    BY <2>3, <1>t, ColouredDoes
  <2>5. \/ v3d' = AfterEmit(v, ForceUpload)
        \/ v3d' = v3d /\ job.mask # "onepix"
    BY <1>5 DEF Composite, ReadsPixel, Emit, Coloured, state3d
  <2> HIDE DEF v
  <2>6. Needed(v3d') \subseteq v3d'.fresh
    <3>1. CASE v3d' = AfterEmit(v, ForceUpload)
      <4>1. Needed(AfterEmit(v, ForceUpload)) \ {} \subseteq AfterEmit(v, ForceUpload).fresh
        BY <2>4, <1>f, EmittedIsFresh
      <4> QED BY <3>1, <4>1
    <3>2. CASE v3d' = v3d /\ job.mask # "onepix"
      BY <3>2, <2>3
    <3> QED BY <2>5, <3>1, <3>2
  <2> QED BY <2>1, <2>2, <2>6 DEF QuadInv, Uploading
<1>6. CASE WaitMarker
  <2>1. pc = "wait" /\ v3d' = v3d
    BY <1>6 DEF WaitMarker, state3d
  <2>2. CASE pc' = pc /\ job' = job
    BY <2>1, <2>2, <1>u
  <2>3. CASE pc' = job.ret
    <3>1. CASE job.ret = "fill"
      BY <2>1, <3>1, <1>k DEF QuadInv, Uploading
    <3>2. CASE job.ret # "fill"
      BY <2>3, <3>2, <1>i, <1>t DEF Jobs
    <3> QED BY <3>1, <3>2
  <2> QED BY <1>6, <2>2, <2>3, WaitMarkerDoes
<1>7. CASE CpuAccess \/ Transfer
  <2>1. pc' \in {"wait", "cpu", "blit"} /\ job'.ret \in {"cpu", "blit"} /\ job'.out = 0
    BY <1>7, AccessDoes
  <2> QED BY <2>1 DEF QuadInv, Uploading
<1>8. CASE TexUpload
  <2>1. v3d' = AfterEmit(Textured(v3d), ForceUpload) /\ pc' = "next"
    BY <1>8 DEF TexUpload, Emit, Textured
  <2>2. Textured(v3d) \in States3D /\ Needed(Textured(v3d)) \subseteq Textured(v3d).dirty
    BY <1>t, TexturedDoes
  <2>3. Needed(AfterEmit(Textured(v3d), ForceUpload)) \ {}
          \subseteq AfterEmit(Textured(v3d), ForceUpload).fresh
    BY <2>2, <1>f, EmittedIsFresh
  <2>4. Needed(v3d') \subseteq v3d'.fresh
    BY <2>1, <2>3
  <2> QED BY <2>1, <2>4 DEF QuadInv, Uploading
<1>9. CASE TexNext \/ TexFill
  <2>1. Uploading /\ v3d' = v3d
    BY <1>9 DEF TexNext, TexFill, Uploading, state3d
  <2> QED BY <2>1, <1>k DEF QuadInv
<1>10. CASE Blit \/ BlitsEnd \/ BlitSync \/ BounceCopy
  <2>1. pc' \in {"idle", "sync", "blit", "bounced"}
    BY <1>10, <1>t, BlitDoes, BlitsEndDoes, BlitSyncDoes, BounceDoes
  <2> QED BY <2>1, <1>i
<1>11. CASE DgaSync
  <2>1. job' = [NoJob EXCEPT !.marker = accelMarker] /\ pc' = "wait"
    BY <1>11 DEF DgaSync
  <2>2. job'.out = 0 /\ job'.ret = "idle"
    BY <2>1 DEF NoJob
  <2> QED BY <2>1, <2>2 DEF QuadInv, Uploading
<1> QED BY <1>1, <1>2, <1>3, <1>4, <1>5, <1>6, <1>7, <1>8, <1>9, <1>10, <1>11
        DEF Next, PrepareSolid, PrepareCopy

-----------------------------------------------------------------------------
HooksInv == HooksTypeOK /\ JobInv /\ QuadInv

(* The types and the invariants of hooks and quads hold at first.          *)
LEMMA InitHooks == Init => HooksInv
<1> SUFFICES ASSUME Init PROVE HooksInv
  OBVIOUS
<1>1. HooksTypeOK
  <2>1. <<>> \in Seq(Halves \X Nat) /\ [b \in Halves |-> -1] \in [Halves -> Int]
    OBVIOUS
  <2>2. [need |-> FALSE, marker |-> 0] \in [need : BOOLEAN, marker : Nat]
    OBVIOUS
  <2> QED BY <2>1, <2>2, NoJobOK, Init3DOK DEF Init, HooksTypeOK, States
<1>2. JobInv /\ QuadInv
  BY NoJobOK DEF Init, JobInv, QuadInv, Uploading
<1> QED BY <1>1, <1>2 DEF HooksInv

(* Every step keeps them.                                                  *)
LEMMA StepHooks == HooksInv /\ [Next]_vars => HooksInv'
  BY StepHooksType, StepJobInv, StepQuadInv DEF HooksInv

(* A quad of a composite or an upload is drawn with the 3D state set for   *)
(* it, although only the groups thought to differ are emitted and other    *)
(* clients use the engine between the hooks (QuadState).                   *)
THEOREM QuadsHaveState == Spec => []QuadState
<1>1. HooksInv => QuadState
  <2> SUFFICES ASSUME HooksInv, job.out > 0, pc \in {"comp", "next", "wait", "fill"}
               PROVE  Needed(v3d) \subseteq v3d.fresh
    BY DEF QuadState
  <2>1. CASE pc = "comp"
    BY <2>1 DEF HooksInv, QuadInv
  <2>2. CASE Uploading
    BY <2>2 DEF HooksInv, QuadInv
  <2>3. CASE pc = "wait" /\ job.ret # "fill"
    BY <2>3 DEF HooksInv, QuadInv
  <2> QED BY <2>1, <2>2, <2>3 DEF Uploading
<1> QED BY <1>1, InitHooks, StepHooks, PTL DEF Spec

-----------------------------------------------------------------------------
(* What the DMA engine is given and what it does.                          *)
LEMMA WillAppend ==
  ASSUME dmaq \in Seq(Halves \X Nat), NEW h \in Halves, NEW k \in Nat,
         dmaq' = Append(dmaq, <<h, k>>), half' = half
  PROVE  /\ Will(dmaq', half', h, k)
         /\ \A b \in Halves, n \in Int : b # h /\ Will(dmaq, half, b, n) => Will(dmaq', half', b, n)
<1>1. /\ Len(dmaq') = Len(dmaq) + 1 /\ Len(dmaq) \in Nat
      /\ dmaq'[Len(dmaq) + 1] = <<h, k>>
      /\ \A i \in 1..Len(dmaq) : dmaq'[i] = dmaq[i]
  OBVIOUS
<1>2. dmaq'[Len(dmaq) + 1][1] = h /\ dmaq'[Len(dmaq) + 1][2] = k
  BY <1>1
<1>3. Len(dmaq) + 1 \in 1..Len(dmaq')
  BY <1>1
<1>4. ASSUME NEW i \in 1..Len(dmaq'), dmaq'[i][1] = h,
             \A j \in (i + 1)..Len(dmaq') : dmaq'[j][1] # h
      PROVE  dmaq'[i][2] = k
  <2>1. CASE i = Len(dmaq) + 1
    BY <2>1, <1>2
  <2>2. CASE i \in 1..Len(dmaq)
    <3>1. Len(dmaq) + 1 \in (i + 1)..Len(dmaq')
      BY <2>2, <1>1
    <3> QED BY <3>1, <1>2, <1>4
  <2> QED BY <2>1, <2>2, <1>1
<1>5. Will(dmaq', half', h, k)
  BY <1>2, <1>3, <1>4 DEF Will
<1>6. ASSUME NEW b \in Halves, NEW n \in Int, b # h, Will(dmaq, half, b, n)
      PROVE  Will(dmaq', half', b, n)
  <2>1. (\A i \in 1..Len(dmaq') : dmaq'[i][1] # b) => \A i \in 1..Len(dmaq) : dmaq[i][1] # b
    BY <1>1
  <2>2. ASSUME NEW i \in 1..Len(dmaq'), dmaq'[i][1] = b,
               \A j \in (i + 1)..Len(dmaq') : dmaq'[j][1] # b
        PROVE  dmaq'[i][2] = n
    <3>1. i \in 1..Len(dmaq) /\ dmaq[i][1] = b
      BY <2>2, <1>1, <1>2, <1>6
    <3>2. \A j \in (i + 1)..Len(dmaq) : dmaq[j][1] # b
      BY <2>2, <1>1, <3>1
    <3> QED BY <3>1, <3>2, <1>1, <1>6 DEF Will
  <2> QED BY <2>1, <2>2, <1>6 DEF Will
<1> QED BY <1>5, <1>6

(* Nothing changes while the DMA engine rests.                             *)
LEMMA WillStay ==
  ASSUME UNCHANGED <<dmaq, half>>
  PROVE  \A b \in Halves, n \in Int : Will(dmaq, half, b, n) => Will(dmaq', half', b, n)
  BY DEF Will

(* A blit that is done leaves what the halves will have.                   *)
LEMMA WillBe ==
  ASSUME HooksTypeOK, DmaEngine
  PROVE  \A b \in Halves :
           /\ \A n \in Int : Will(dmaq, half, b, n) => Will(dmaq', half', b, n)
           /\ (\A i \in 1..Len(dmaq) : dmaq[i][1] # b) =>
                half'[b] = half[b] /\ \A i \in 1..Len(dmaq') : dmaq'[i][1] # b
<1>1. /\ Len(dmaq) \in Nat /\ Len(dmaq) >= 1 /\ Len(dmaq') = Len(dmaq) - 1
      /\ \A i \in 1..Len(dmaq') : dmaq'[i] = dmaq[i + 1]
      /\ 1 \in 1..Len(dmaq) /\ Head(dmaq) = dmaq[1] /\ dmaq[1] \in Halves \X Nat
  BY DEF DmaEngine, HooksTypeOK
<1>2. \A b \in Halves : half'[b] = IF b = dmaq[1][1] THEN dmaq[1][2] ELSE half[b]
  BY <1>1 DEF DmaEngine, HooksTypeOK
<1> SUFFICES ASSUME NEW b \in Halves
             PROVE  /\ \A n \in Int : Will(dmaq, half, b, n) => Will(dmaq', half', b, n)
                    /\ (\A i \in 1..Len(dmaq) : dmaq[i][1] # b) =>
                         half'[b] = half[b] /\ \A i \in 1..Len(dmaq') : dmaq'[i][1] # b
  OBVIOUS
<1>3. \A i \in 1..Len(dmaq') : i + 1 \in 1..Len(dmaq) /\ i + 1 # 1
  BY <1>1
<1>4. \A i \in 1..Len(dmaq) : i = 1 \/ (i - 1 \in 1..Len(dmaq') /\ dmaq'[i - 1] = dmaq[i])
  BY <1>1
<1>5. (\A i \in 1..Len(dmaq) : dmaq[i][1] # b) =>
        half'[b] = half[b] /\ \A i \in 1..Len(dmaq') : dmaq'[i][1] # b
  BY <1>1, <1>2, <1>3
<1>6. ASSUME NEW n \in Int, Will(dmaq, half, b, n) PROVE Will(dmaq', half', b, n)
  <2>1. ASSUME \A i \in 1..Len(dmaq') : dmaq'[i][1] # b PROVE half'[b] = n
    <3>1. \A i \in 2..Len(dmaq) : dmaq[i][1] # b
      BY <2>1, <1>1, <1>4
    <3>2. CASE dmaq[1][1] = b
      BY <3>1, <3>2, <1>1, <1>2, <1>6 DEF Will
    <3>3. CASE dmaq[1][1] # b
      <4>1. \A i \in 1..Len(dmaq) : dmaq[i][1] # b
        BY <3>1, <3>3, <1>1
      <4> QED BY <4>1, <3>3, <1>2, <1>6 DEF Will
    <3> QED BY <3>2, <3>3
  <2>2. ASSUME NEW i \in 1..Len(dmaq'), dmaq'[i][1] = b,
               \A j \in (i + 1)..Len(dmaq') : dmaq'[j][1] # b
        PROVE  dmaq'[i][2] = n
    <3>1. i + 1 \in 1..Len(dmaq) /\ dmaq[i + 1][1] = b /\ dmaq'[i] = dmaq[i + 1]
      BY <2>2, <1>1, <1>3
    <3>2. ASSUME NEW j \in ((i + 1) + 1)..Len(dmaq) PROVE dmaq[j][1] # b
      <4>1. j - 1 \in (i + 1)..Len(dmaq') /\ dmaq'[j - 1] = dmaq[j]
        BY <1>1, <1>4
      <4> QED BY <4>1, <2>2
    <3> QED BY <3>1, <3>2, <1>6 DEF Will
  <2> QED BY <2>1, <2>2 DEF Will
<1> QED BY <1>5, <1>6

(* Every step keeps the bands of a transfer in order.                      *)
LEMMA StepBandInv == HooksTypeOK /\ BandInv /\ [Next]_vars => BandInv'
<1> SUFFICES ASSUME HooksTypeOK, BandInv, [Next]_vars PROVE BandInv'
  OBVIOUS
<1>t. /\ job \in Jobs /\ dmaq \in Seq(Halves \X Nat)
      /\ job.next \in Nat /\ job.out \in Nat /\ job.buf \in Halves
      /\ 1 - job.buf \in Halves /\ 1 - job.buf # job.buf /\ 1 - (1 - job.buf) = job.buf
      /\ job.bounce \in BOOLEAN
  BY DEF HooksTypeOK, Jobs, Halves
<1>u. ASSUME UNCHANGED <<pc, job, dmaq, half>> PROVE BandInv'
  BY <1>u DEF BandInv, Will
<1>i. ASSUME pc' \in {"idle", "solid", "copy", "comp", "cpu", "next", "fill"}
             \/ (pc' = "wait" /\ job'.ret # "blit")
      PROVE  BandInv'
  BY <1>i DEF BandInv
<1>1. ASSUME NEW kind \in {"solid", "copy"}, PrepareSolidOrCopy(kind) PROVE BandInv'
  BY <1>1, <1>i DEF PrepareSolidOrCopy, Idle
<1>2. CASE Draw \/ Engine \/ SetClippingRectangle \/ XaaSubsequent \/ UNCHANGED vars \/ ClientDraws
  BY <1>2, <1>u
  DEF Draw, Engine, SetClippingRectangle, XaaSubsequent, vars, dma, ClientDraws
<1>3. CASE Done \/ CpuCopy \/ BlitFails \/ XaaSetup \/ DgaDraws \/ TexUpload \/ Composite
           \/ PrepareComposite \/ TexFill
  BY <1>3, <1>i DEF Done, CpuCopy, BlitFails, XaaSetup, DgaDraws, TexUpload, Composite, Idle,
                    PrepareComposite, TexFill
<1>4. CASE WaitMarker
  <2>1. pc = "wait" /\ UNCHANGED <<dmaq, half>> /\ job.ret \in {"idle", "cpu", "blit", "fill"}
    BY <1>4, <1>t DEF WaitMarker, dma, Jobs
  <2>2. CASE pc' = pc /\ job' = job
    BY <2>1, <2>2, <1>u
  <2>3. CASE pc' = job.ret /\ job.ret # "blit"
    BY <2>1, <2>3, <1>i
  <2>4. CASE pc' = "blit" /\ job' = job /\ job.ret = "blit"
    BY <2>1, <2>4 DEF BandInv, Will
  <2> QED BY <1>4, <2>2, <2>3, <2>4, WaitMarkerDoes
<1>5. CASE CpuAccess \/ Transfer
  <2>1. PICK r \in {"cpu", "blit"} :
           /\ pc' \in {"wait", r} /\ job'.ret = r
           /\ job'.out = 0 /\ \A b \in Halves : job'.sync[b] = -1
           /\ r = "blit" => job'.next = 0 /\ job'.buf = 0
    BY <1>5, AccessDoes
  <2>2. CASE r = "cpu"
    BY <2>1, <2>2, <1>i
  <2>3. CASE r = "blit"
    <3>1. job'.sync[0] = -1 /\ job'.sync[1] = -1 /\ job'.buf = 0 /\ 1 - job'.buf = 1
      BY <2>1, <2>3 DEF Halves
    <3> QED BY <2>1, <2>3, <3>1 DEF BandInv
  <2> QED BY <2>2, <2>3
<1>6. CASE TexNext
  <2>1. pc' \in {"wait", "fill", "idle"} /\ job'.ret \in {"fill", "idle"}
    BY <1>6, <1>t, TexNextDoes
  <2> QED BY <2>1, <1>i
<1>7. CASE Blit
  <2>1. /\ pc = "blit" /\ dmaq' = Append(dmaq, <<job.buf, job.next>>) /\ half' = half
        /\ pc' = IF job.sync[1 - job.buf] = 1 THEN "sync" ELSE "blit"
        /\ job'.next = job.next + 1 /\ job'.buf = 1 - job.buf
        /\ job'.out = job.out /\ job'.bounce = job.bounce
        /\ \A b \in Halves : job'.sync[b] = IF b = job.buf THEN 1 ELSE job.sync[b]
    BY <1>7, <1>t, BlitDoes DEF Blit
  <2>2. /\ job.sync[job.buf] # 1
        /\ job.sync[1 - job.buf] = 1 => Will(dmaq, half, 1 - job.buf, job.next - 1)
        /\ job.bounce => job.next = job.out + (IF job.sync[1 - job.buf] = 1 THEN 1 ELSE 0)
        /\ ~ job.bounce => job.out = 0
    BY <2>1 DEF BandInv
  <2>3. /\ job'.sync[job.buf] = 1 /\ job'.sync[1 - job.buf] = job.sync[1 - job.buf]
        /\ 1 - job'.buf = job.buf
    BY <2>1, <1>t
  <2>4. /\ Will(dmaq', half', job.buf, job.next)
        /\ \A b \in Halves, n \in Int : b # job.buf /\ Will(dmaq, half, b, n) => Will(dmaq', half', b, n)
    BY <2>1, <1>t, WillAppend
  <2>5. /\ job'.next - 1 = job.next /\ job'.next - 2 = job.next - 1
        /\ job.next - 1 \in Int
    <3>1. job'.next = job.next + 1
      BY <2>1
    <3>2. job.next \in Int
      BY <1>t
    <3> QED BY ONLY <3>1, <3>2
  <2>6. Will(dmaq', half', 1 - job'.buf, job'.next - 1) /\ job'.sync[1 - job'.buf] = 1
    BY <2>3, <2>4, <2>5
  <2>7. CASE job.sync[1 - job.buf] = 1
    <3>1. Will(dmaq', half', job'.buf, job'.next - 2)
      BY <2>1, <2>2, <2>4, <2>5, <2>7, <1>t
    <3>2. job'.bounce => job'.next = job'.out + 2
      BY <2>1, <2>2, <2>7, <1>t
    <3> QED BY <2>1, <2>2, <2>3, <2>6, <2>7, <3>1, <3>2 DEF BandInv
  <2>8. CASE job.sync[1 - job.buf] # 1
    <3>1. job'.bounce => job'.next = job'.out + 1
      BY <2>1, <2>2, <2>8, <1>t
    <3> QED BY <2>1, <2>2, <2>3, <2>6, <2>8, <3>1 DEF BandInv
  <2> QED BY <2>7, <2>8
<1>8. CASE BlitsEnd
  <2>1. /\ pc = "blit" /\ UNCHANGED <<dmaq, half>>
        /\ \/ pc' = "idle" /\ job' = NoJob
           \/ /\ job.sync[1 - job.buf] = 1 /\ pc' = "sync" /\ job'.buf = 1 - job.buf
              /\ job'.next = job.next /\ job'.out = job.out /\ job'.sync = job.sync
              /\ job'.bounce = job.bounce
    BY <1>8, <1>t, BlitsEndDoes DEF BlitsEnd, dma
  <2>2. /\ job.sync[job.buf] # 1
        /\ job.sync[1 - job.buf] = 1 => Will(dmaq, half, 1 - job.buf, job.next - 1)
        /\ job.bounce => job.next = job.out + (IF job.sync[1 - job.buf] = 1 THEN 1 ELSE 0)
        /\ ~ job.bounce => job.out = 0
    BY <2>1 DEF BandInv
  <2>3. CASE pc' = "idle"
    BY <2>3, <1>i
  <2>4. CASE pc' = "sync"
    BY <2>1, <2>2, <2>4, <1>t DEF BandInv, Will
  <2> QED BY <2>1, <2>3, <2>4
<1>9. CASE BlitSync
  <2>1. /\ pc = "sync" /\ UNCHANGED <<dmaq, half>>
        /\ \A i \in 1..Len(dmaq) : dmaq[i][1] # job.buf
        /\ pc' = IF job.bounce THEN "bounced" ELSE "blit"
        /\ job'.buf = job.buf /\ job'.next = job.next /\ job'.out = job.out
        /\ job'.bounce = job.bounce
        /\ \A b \in Halves : job'.sync[b] = IF b = job.buf THEN 0 ELSE job.sync[b]
    BY <1>9, <1>t, BlitSyncDoes DEF BlitSync, dma
  <2>2. /\ job.sync[job.buf] = 1
        /\ IF job.sync[1 - job.buf] = 1
           THEN /\ Will(dmaq, half, 1 - job.buf, job.next - 1) /\ Will(dmaq, half, job.buf, job.next - 2)
                /\ job.bounce => job.next = job.out + 2
           ELSE /\ Will(dmaq, half, job.buf, job.next - 1)
                /\ job.bounce => job.next = job.out + 1
        /\ ~ job.bounce => job.out = 0
    BY <2>1 DEF BandInv
  <2>3. job'.sync[job.buf] = 0 /\ job'.sync[1 - job.buf] = job.sync[1 - job.buf]
    BY <2>1, <1>t
  <2>4. \A n \in Int : Will(dmaq, half, job.buf, n) => half[job.buf] = n
    BY <2>1 DEF Will
  <2>5. \A n \in Int : Will(dmaq, half, 1 - job.buf, n) => Will(dmaq', half', 1 - job'.buf, n)
    BY <2>1, <1>t DEF Will
  <2>6. CASE job.bounce
    <3>1. half'[job'.buf] = job'.out
      BY <2>1, <2>2, <2>4, <2>6, <1>t
    <3>2. /\ job'.sync[1 - job'.buf] = 1 => Will(dmaq', half', 1 - job'.buf, job'.next - 1)
          /\ job'.next = job'.out + (IF job'.sync[1 - job'.buf] = 1 THEN 2 ELSE 1)
      <4>1. job.next - 1 \in Int
        BY <1>t
      <4>2. job.sync[1 - job.buf] = 1 => Will(dmaq', half', 1 - job'.buf, job.next - 1)
        BY <2>2, <2>5, <4>1
      <4>3. job'.sync[1 - job'.buf] = 1 <=> job.sync[1 - job.buf] = 1
        BY <2>1, <2>3
      <4>4. job.sync[1 - job.buf] = 1 => Will(dmaq', half', 1 - job'.buf, job'.next - 1)
        BY <2>1, <4>2 DEF Will
      <4> QED BY <2>1, <2>2, <2>6, <4>3, <4>4
    <3> QED BY <2>1, <2>3, <2>6, <3>1, <3>2 DEF BandInv
  <2>7. CASE ~ job.bounce
    <3>1. job'.sync[1 - job'.buf] = 1 => Will(dmaq', half', 1 - job'.buf, job'.next - 1)
      BY <2>1, <2>2, <2>3, <1>t DEF Will
    <3> QED BY <2>1, <2>2, <2>3, <2>7, <3>1 DEF BandInv
  <2> QED BY <2>6, <2>7, <1>t
<1>10. CASE BounceCopy
  <2>1. /\ pc = "bounced" /\ pc' = "blit" /\ UNCHANGED <<dmaq, half>>
        /\ job'.buf = job.buf /\ job'.next = job.next /\ job'.out = job.out + 1
        /\ job'.bounce = job.bounce /\ job'.sync = job.sync
    BY <1>10, <1>t, BounceDoes DEF BounceCopy, dma
  <2>2. /\ job.bounce /\ job.sync[job.buf] # 1
        /\ job.sync[1 - job.buf] = 1 => Will(dmaq, half, 1 - job.buf, job.next - 1)
        /\ job.next = job.out + (IF job.sync[1 - job.buf] = 1 THEN 2 ELSE 1)
    BY <2>1 DEF BandInv
  <2>3. job'.sync[1 - job'.buf] = 1 => Will(dmaq', half', 1 - job'.buf, job'.next - 1)
    BY <2>1, <2>2 DEF Will
  <2> QED BY <2>1, <2>2, <2>3, <1>t DEF BandInv
<1>11. CASE DmaEngine
  <2>1. UNCHANGED <<pc, job>>
    BY <1>11 DEF DmaEngine
  <2>2. \A b \in Halves :
           /\ \A n \in Int : Will(dmaq, half, b, n) => Will(dmaq', half', b, n)
           /\ (\A i \in 1..Len(dmaq) : dmaq[i][1] # b) =>
                half'[b] = half[b] /\ \A i \in 1..Len(dmaq') : dmaq'[i][1] # b
    BY <1>11, WillBe
  <2>3. job.next - 1 \in Int /\ job.next - 2 \in Int
    BY <1>t
  <2>4. /\ Will(dmaq, half, 1 - job.buf, job.next - 1) => Will(dmaq', half', 1 - job'.buf, job'.next - 1)
        /\ Will(dmaq, half, job.buf, job.next - 1) => Will(dmaq', half', job'.buf, job'.next - 1)
        /\ Will(dmaq, half, job.buf, job.next - 2) => Will(dmaq', half', job'.buf, job'.next - 2)
    BY <2>1, <2>2, <2>3, <1>t
  <2>5. CASE pc \in {"blit", "wait", "sync"}
    BY <2>1, <2>4, <2>5 DEF BandInv
  <2>6. CASE pc = "bounced"
    BY <2>1, <2>2, <2>4, <2>6, <1>t DEF BandInv
  <2>7. CASE pc \notin {"blit", "wait", "sync", "bounced"}
    BY <2>1, <2>7 DEF BandInv
  <2> QED BY <2>5, <2>6, <2>7
<1>12. CASE DgaSync
  <2>1. job' = [NoJob EXCEPT !.marker = accelMarker] /\ pc' = "wait"
    BY <1>12 DEF DgaSync
  <2>2. job'.ret = "idle"
    BY <2>1 DEF NoJob
  <2> QED BY <2>1, <2>2, <1>i
<1> QED BY <1>1, <1>2, <1>3, <1>4, <1>5, <1>6, <1>7, <1>8, <1>9, <1>10, <1>11, <1>12
        DEF Next, PrepareSolid, PrepareCopy

(* A band is copied out of the bounce buffer when it is there, whole, and  *)
(* in its turn, whatever earlier transfers that failed have left to the    *)
(* DMA engine; and all bands are copied (BandsInOrder).                    *)
THEOREM BandsComeInOrder == Spec => []BandsInOrder
<1> DEFINE I == HooksInv /\ BandInv
<1>1. Init => I
  <2> SUFFICES ASSUME Init PROVE BandInv
    BY InitHooks
  <2> QED BY DEF Init, BandInv
<1>2. I /\ [Next]_vars => I'
  BY StepHooks, StepBandInv DEF HooksInv
<1>3. I => BandsInOrder
  <2> SUFFICES ASSUME I PROVE BandsInOrder
    OBVIOUS
  <2>1. job.buf \in Halves /\ 1 - job.buf \in Halves
    BY DEF HooksInv, HooksTypeOK, Jobs, Halves
  <2>2. ASSUME pc = "blit", job.bounce, \A b \in Halves : job.sync[b] # 1
        PROVE  job.out = job.next
    <3>1. job.sync[1 - job.buf] # 1 /\ job.out \in Nat
      BY <2>1, <2>2 DEF HooksInv, HooksTypeOK, Jobs
    <3> QED BY <3>1, <2>2 DEF BandInv
  <2> QED BY <2>2 DEF BandInv, BandsInOrder
<1> QED BY <1>1, <1>2, <1>3, PTL DEF Spec

-----------------------------------------------------------------------------
(* The command buffer. *)
Same(c, d) == d.flushFunc = c.flushFunc /\ (d.agpDMA <=> c.agpDMA)
Kept(c, d) == Same(c, d) /\ d.queue = c.queue /\ d.work = c.work

(* The buffer after viaSetupCBuffer.                                       *)
LEMMA SetupSound ==
  ASSUME NEW dri0 \in BOOLEAN, NEW agp0 \in BOOLEAN
  PROVE  /\ Quiet(SetupCBuffer(dri0, agp0))
         /\ SetupCBuffer(dri0, agp0).work = <<>> /\ SetupCBuffer(dri0, agp0).queue = <<>>
<1> DEFINE c == SetupCBuffer(dri0, agp0)
<1>1. <<>> \in Seq(Works)
  OBVIOUS
<1>2. c \in Buffers
  BY <1>1 DEF SetupCBuffer, Buffers
<1>3. /\ c.ok /\ c.drm /\ ~ c.leaked /\ c.mode = 0 /\ c.sect = "none" /\ c.pos = 0 /\ ~ c.state3d
      /\ c.work = <<>> /\ c.queue = <<>>
  BY DEF SetupCBuffer
<1> HIDE DEF c
<1>4. "none" \notin Paras /\ 0 % 2 = 0
  BY DEF Paras, Vdata
<1>5. Sound(c)
  BY <1>2, <1>3, <1>4 DEF Sound
<1> QED BY <1>3, <1>5 DEF Quiet, c

(* A buffer whose words the engine was given.                              *)
LEMMA EmptiedDoes ==
  ASSUME NEW c \in Buffers
  PROVE  LET d == Emptied(c)
         IN  /\ d \in Buffers /\ Same(c, d)
             /\ d.queue = c.queue \o c.work /\ d.work = <<>>
             /\ d.pos = 0 /\ d.sect = "none" /\ ~ d.state3d
             /\ d.mode = c.mode /\ d.rindex = c.rindex
             /\ (d.has3d <=> c.has3d) /\ (d.drm <=> c.drm) /\ (d.ok <=> c.ok)
             /\ (d.leaked <=> c.leaked)
<1>1. c.queue \o c.work \in Seq(Works) /\ <<>> \in Seq(Works)
  BY DEF Buffers
<1> DEFINE q == c.queue \o c.work
<1>2. Emptied(c) = [c EXCEPT !.pos = 0, !.sect = "none", !.state3d = FALSE, !.work = <<>>,
                             !.queue = q]
  BY DEF Emptied
<1>q. q \in Seq(Works) /\ 0 \in Nat
  BY <1>1
<1> HIDE DEF q
<1>3. Emptied(c) \in Buffers
  BY <1>1, <1>q, <1>2 DEF Buffers
<1>4. /\ Emptied(c).queue = q /\ Emptied(c).work = <<>>
      /\ Emptied(c).pos = 0 /\ Emptied(c).sect = "none" /\ Emptied(c).state3d = FALSE
      /\ Emptied(c).mode = c.mode /\ Emptied(c).rindex = c.rindex
      /\ Emptied(c).has3d = c.has3d /\ Emptied(c).drm = c.drm /\ Emptied(c).ok = c.ok
      /\ Emptied(c).leaked = c.leaked
      /\ Emptied(c).flushFunc = c.flushFunc /\ Emptied(c).agpDMA = c.agpDMA
  BY <1>2 DEF Buffers
<1> QED BY <1>3, <1>4 DEF Same, q

(* A dummy below a header 2 changes nothing that counts.                   *)
LEMMA DummyDoes ==
  ASSUME NEW c, Sound(c), c.mode = 2
  PROVE  /\ Sound(Dummy(c)) /\ Kept(c, Dummy(c))
         /\ Dummy(c).mode = 2 /\ Dummy(c).rindex = c.rindex /\ Dummy(c).sect = c.sect
         /\ (Dummy(c).has3d <=> c.has3d) /\ (Dummy(c).state3d <=> c.state3d)
<1>1. /\ c \in Buffers /\ c.ok /\ c.sect \in Paras
  BY DEF Sound
<1>2. Dummy(c) = [c EXCEPT !.pos = c.pos + 1, !.ok = TRUE]
  BY <1>1 DEF Dummy
<1>p. c \in Buffers /\ c.pos + 1 \in Nat
  BY <1>1 DEF Buffers
<1>3. Dummy(c) \in Buffers
  BY <1>p, <1>2 DEF Buffers
<1>4. /\ Dummy(c).ok = TRUE /\ Dummy(c).mode = c.mode /\ Dummy(c).rindex = c.rindex
      /\ Dummy(c).sect = c.sect /\ Dummy(c).has3d = c.has3d /\ Dummy(c).state3d = c.state3d
      /\ Dummy(c).drm = c.drm /\ Dummy(c).leaked = c.leaked
      /\ Dummy(c).queue = c.queue /\ Dummy(c).work = c.work
      /\ Dummy(c).flushFunc = c.flushFunc /\ Dummy(c).agpDMA = c.agpDMA
  BY <1>1, <1>2 DEF Buffers
<1> QED BY <1>3, <1>4 DEF Sound, Kept, Same

(* A flush to PCI, of a buffer without 3D state if the screen has the DRI. *)
LEMMA FlushPCIDoes ==
  ASSUME NEW c, Sound(c), c.flushFunc = "dri" => ~ c.state3d
  PROVE  LET d == FlushPCI(c)
         IN  /\ Quiet(d) /\ Same(c, d) /\ d.sect = "none"
             /\ d.queue = c.queue \o c.work /\ d.work = <<>>
<1> DEFINE e == Emptied(c)
           d == FlushPCI(c)
<1>1. /\ e \in Buffers /\ Same(c, e) /\ e.queue = c.queue \o c.work /\ e.work = <<>>
      /\ e.pos = 0 /\ e.sect = "none" /\ ~ e.state3d /\ e.drm /\ e.ok /\ ~ e.leaked
  BY EmptiedDoes DEF Sound
<1>2. ~ (c.state3d /\ c.flushFunc = "dri")
  OBVIOUS
<1>3. d = [e EXCEPT !.mode = 0, !.has3d = FALSE, !.leaked = FALSE]
  BY <1>1, <1>2 DEF FlushPCI
<1> HIDE DEF e, d
<1>4. d \in Buffers
  BY <1>1, <1>3 DEF Buffers
<1>5. /\ d.mode = 0 /\ d.leaked = FALSE /\ d.queue = e.queue /\ d.work = e.work
      /\ d.pos = e.pos /\ d.sect = e.sect /\ d.state3d = e.state3d /\ d.drm = e.drm
      /\ d.ok = e.ok /\ d.flushFunc = e.flushFunc /\ d.agpDMA = e.agpDMA
  BY <1>1, <1>3 DEF Buffers
<1>6. Quiet(d) /\ d.sect = "none"
  BY <1>1, <1>4, <1>5 DEF Quiet, Sound, Paras, Vdata
<1> QED BY <1>1, <1>5, <1>6 DEF Same, d

(* Either flush leaves the buffer empty, and the engine what was in it.    *)
LEMMA FlushDoes ==
  ASSUME NEW c, Sound(c)
  PROVE  LET d == Flush(c)
         IN  /\ Quiet(d) /\ Same(c, d) /\ d.sect = "none"
             /\ d.queue = c.queue \o c.work /\ d.work = <<>>
<1>1. CASE c.flushFunc # "dri"
  BY <1>1, FlushPCIDoes DEF Flush
<1>2. CASE c.flushFunc = "dri"
  <2> DEFINE odd == c.agpDMA /\ c.mode = 2 /\ c.rindex # Vdata /\ c.pos % 2 = 1
             b == IF odd THEN Dummy(c) ELSE c
             s == [b EXCEPT !.mode = 0, !.has3d = FALSE]
  <2>1. Flush(c) = IF ~ (b.agpDMA \/ b.has3d) THEN FlushPCI(b)
                   ELSE IF b.drm THEN Emptied(s) ELSE s
    BY <1>2 DEF Flush, FlushDRI
  <2>2. Sound(b) /\ Kept(c, b)
    BY DummyDoes DEF Kept, Same
  <2> HIDE DEF b
  <2>3. CASE ~ (b.agpDMA \/ b.has3d)
    <3>1. ~ b.state3d
      BY <2>2, <2>3 DEF Sound
    <3>2. Flush(c) = FlushPCI(b)
      BY <2>1, <2>3
    <3> DEFINE d == FlushPCI(b)
    <3>3. /\ Quiet(d) /\ Same(b, d) /\ d.sect = "none"
          /\ d.queue = b.queue \o b.work /\ d.work = <<>>
      BY <2>2, <3>1, FlushPCIDoes
    <3> HIDE DEF d
    <3>4. Same(c, d) /\ d.queue = c.queue \o c.work
      BY <2>2, <3>3 DEF Kept, Same
    <3> QED BY <3>2, <3>3, <3>4 DEF d
  <2>4. CASE b.agpDMA \/ b.has3d
    <3>1. b.drm /\ b \in Buffers /\ b.ok /\ ~ b.leaked
      BY <2>2 DEF Sound
    <3>2. Flush(c) = Emptied(s)
      BY <2>1, <2>4, <3>1
    <3>3. s \in Buffers
      BY <3>1 DEF Buffers
    <3>4. /\ s.mode = 0 /\ s.drm = b.drm /\ s.ok = b.ok /\ s.leaked = b.leaked
          /\ s.queue = b.queue /\ s.work = b.work
          /\ s.flushFunc = b.flushFunc /\ s.agpDMA = b.agpDMA
      BY <3>1 DEF Buffers
    <3> HIDE DEF s
    <3> DEFINE d == Emptied(s)
    <3>5. /\ d \in Buffers /\ Same(s, d) /\ d.queue = s.queue \o s.work /\ d.work = <<>>
          /\ d.pos = 0 /\ d.sect = "none" /\ ~ d.state3d /\ d.mode = 0
          /\ d.drm /\ d.ok /\ ~ d.leaked
      BY <3>1, <3>3, <3>4, EmptiedDoes
    <3> HIDE DEF d
    <3>6. Quiet(d)
      BY <3>5 DEF Quiet, Sound, Paras, Vdata
    <3>7. d.queue = c.queue \o c.work /\ Same(c, d)
      BY <2>2, <3>4, <3>5 DEF Kept, Same
    <3> QED BY <3>2, <3>5, <3>6, <3>7 DEF d
  <2> QED BY <2>3, <2>4
<1> QED BY <1>1, <1>2

-----------------------------------------------------------------------------
(* The buffer at the start of a hook, and room made for a command.         *)
LEMMA RingIs ==
  ASSUME Accepted, Sound(cb), NEW c \in Ring
  PROVE  c = cb
<1>1. PICK a \in DrmAnswers : c = [cb EXCEPT !.drm = a]
  BY DEF Ring
<1>2. a = TRUE /\ cb \in Buffers /\ cb.drm
  BY DEF Accepted, Sound
<1>3. cb.drm = TRUE
  BY <1>2 DEF Buffers
<1> QED BY <1>1, <1>2, <1>3 DEF Buffers

(* Making room flushes or does nothing.                                    *)
LEMMA BeginRingDoes ==
  ASSUME NEW c, Open(c), c.work = <<>>, NEW size
  PROVE  LET d == BeginRing(c, size)
         IN  /\ Open(d) /\ Kept(c, d)
             /\ d = c \/ (Quiet(d) /\ ~ d.state3d)
             /\ Quiet(c) => Quiet(d)
<1>1. CASE BeginRing(c, size) = c
  BY <1>1 DEF Kept, Same
<1>2. CASE BeginRing(c, size) = Flush(c)
  <2> DEFINE d == Flush(c)
  <2>1. /\ Quiet(d) /\ Same(c, d) /\ d.sect = "none"
        /\ d.queue = c.queue \o c.work /\ d.work = <<>>
    BY FlushDoes DEF Open
  <2> HIDE DEF d
  <2>2. c.queue \in Seq(Works)
    BY DEF Open, Sound, Buffers
  <2>3. d.queue = c.queue
    BY <2>1, <2>2
  <2>4. Open(d) /\ ~ d.state3d
    BY <2>1 DEF Open, Quiet, Sound, Vdata
  <2> QED BY <1>2, <2>1, <2>3, <2>4 DEF Kept, d
<1> QED BY <1>1, <1>2 DEF BeginRing

(* Register writes keep the number of words even.                          *)
LEMMA OutH1Does ==
  ASSUME NEW c, Quiet(c), NEW n \in Nat
  PROVE  Quiet(OutH1(c, n)) /\ Kept(c, OutH1(c, n))
<1>1. c \in Buffers /\ c.ok /\ c.sect \notin Paras /\ c.mode = 0 /\ c.pos \in Nat /\ c.pos % 2 = 0
  BY DEF Quiet, Sound, Buffers
<1>2. c.sect # Vdata /\ Vdata \in Paras
  BY <1>1 DEF Paras
<1> DEFINE p == c.pos + 2 * n
           d == OutH1(c, n)
<1>3. p \in Nat /\ p % 2 = 0
  BY <1>1
<1> HIDE DEF p
<1>4. d = [c EXCEPT !.pos = p, !.sect = "h1", !.ok = TRUE]
  BY <1>1, <1>2 DEF OutH1, p
<1> HIDE DEF d
<1>5. d \in Buffers
  BY <1>1, <1>3, <1>4 DEF Buffers
<1>6. /\ d.pos = p /\ d.sect = "h1" /\ d.ok = TRUE /\ d.mode = c.mode /\ d.drm = c.drm
      /\ d.leaked = c.leaked /\ d.state3d = c.state3d
      /\ d.queue = c.queue /\ d.work = c.work
      /\ d.flushFunc = c.flushFunc /\ d.agpDMA = c.agpDMA
  BY <1>1, <1>4 DEF Buffers
<1>7. "h1" \notin Paras
  BY DEF Paras, Vdata
<1>8. Sound(d)
  BY <1>1, <1>3, <1>5, <1>6, <1>7 DEF Quiet, Sound
<1> QED BY <1>1, <1>6, <1>8 DEF Quiet, Kept, Same, d

(* Register writes outside a header 2.                                     *)
LEMMA RegsDo ==
  ASSUME NEW c, Quiet(c), c.work = <<>>, NEW n \in Nat, NEW size
  PROVE  LET d == OutH1(BeginRing(c, size), n)
         IN  Quiet(d) /\ Kept(c, d)
<1> DEFINE b == BeginRing(c, size)
<1>1. Open(c)
  BY DEF Quiet, Open, Sound, Paras
<1>2. Quiet(b) /\ Kept(c, b)
  BY <1>1, BeginRingDoes
<1> HIDE DEF b
<1>3. Quiet(OutH1(b, n)) /\ Kept(b, OutH1(b, n))
  BY <1>2, OutH1Does
<1> QED BY <1>2, <1>3 DEF Kept, Same, b

(* Work is added to the buffered words.                                    *)
LEMMA WorkDoes ==
  ASSUME NEW c, Quiet(c), c.work = <<>>, NEW w \in Works
  PROVE  /\ Quiet(Work(c, w)) /\ Same(c, Work(c, w))
         /\ Work(c, w).queue = c.queue /\ Work(c, w).work = <<w>>
<1>1. c \in Buffers /\ <<w>> \in Seq(Works)
  BY DEF Quiet, Sound
<1>2. Append(c.work, w) = <<w>>
  OBVIOUS
<1> DEFINE d == Work(c, w)
<1>3. d = [c EXCEPT !.work = <<w>>]
  BY <1>2 DEF Work
<1> HIDE DEF d
<1>4. d \in Buffers
  BY <1>1, <1>3 DEF Buffers
<1>5. /\ d.work = <<w>> /\ d.queue = c.queue /\ d.flushFunc = c.flushFunc /\ d.agpDMA = c.agpDMA
      /\ d.mode = c.mode /\ d.sect = c.sect /\ d.rindex = c.rindex /\ d.pos = c.pos
      /\ d.ok = c.ok /\ d.drm = c.drm /\ d.leaked = c.leaked
      /\ d.state3d = c.state3d /\ d.has3d = c.has3d
  BY <1>1, <1>3 DEF Buffers
<1> QED BY <1>4, <1>5 DEF Quiet, Sound, Same, d

-----------------------------------------------------------------------------
(* A header 2, and what is written below it.                               *)
Ready(c) == Open(c) /\ c.work = <<>>

(* A header 2, new or left out: the buffer is in its section, and marked   *)
(* if the parameters are 3D state.                                         *)
LEMMA BeginH2Does ==
  ASSUME NEW c, Ready(c), NEW para \in Paras, NEW size
  PROVE  LET d == BeginH2(c, para, size)
         IN  /\ Sound(d) /\ Kept(c, d) /\ d.mode = 2 /\ d.rindex = para
             /\ d.state3d => c.state3d
             /\ para # Vdata /\ Marked(c) => d.has3d
<1> DEFINE b == BeginRing(c, size + 6)
           e == IF b.pos % 2 = 1 THEN Dummy(b) ELSE b
<1>1. Open(b) /\ Kept(c, b) /\ (b = c \/ (Quiet(b) /\ ~ b.state3d))
  BY BeginRingDoes DEF Ready
<1>2. BeginH2(c, para, size) =
        IF b.mode = 2 /\ b.rindex = para THEN b
        ELSE [e EXCEPT !.pos = @ + 2, !.rindex = para, !.mode = 2,
                       !.has3d = @ \/ para # Vdata,
                       !.sect = IF @ = Vdata THEN @ ELSE para,
                       !.ok = @ /\ e.sect # Vdata]
  BY Zenon DEF BeginH2
<1> HIDE DEF b
<1>3. CASE b.mode = 2 /\ b.rindex = para
  <2>1. ~ Quiet(b)
    BY <1>3 DEF Quiet
  <2>2. BeginH2(c, para, size) = c /\ b = c
    BY <1>1, <1>2, <1>3, <2>1
  <2>3. c.sect = para /\ para # Vdata
    BY <1>3, <2>2 DEF Ready, Open, Sound
  <2> QED BY <1>3, <2>2, <2>3 DEF Ready, Open, Marked, Kept, Same
<1>4. CASE ~ (b.mode = 2 /\ b.rindex = para)
  <2>1. /\ Sound(e) /\ Kept(b, e) /\ e.sect = b.sect /\ (e.state3d <=> b.state3d)
    <3>1. CASE b.pos % 2 = 1
      <4>s. Sound(b) /\ b.mode \in {0, 2} /\ (b.mode = 0 => b.pos % 2 = 0)
        BY <1>1 DEF Open, Sound, Buffers
      <4>1. b.mode = 2
        BY <4>s, <3>1
      <4>2. e = Dummy(b)
        BY <3>1
      <4> HIDE DEF e
      <4> QED BY <4>s, <4>1, <4>2, DummyDoes
    <3>2. CASE b.pos % 2 # 1
      <4>1. e = b /\ Sound(b)
        BY <1>1, <3>2 DEF Open
      <4> HIDE DEF e
      <4> QED BY <4>1 DEF Kept, Same
    <3> QED BY <3>1, <3>2
  <2> HIDE DEF e
  <2>2. e.sect # Vdata /\ e \in Buffers /\ e.ok
    <3>1. b.sect # Vdata
      BY <1>1 DEF Open
    <3> QED BY <3>1, <2>1 DEF Sound
  <2> DEFINE h == e.has3d \/ para # Vdata
             d == BeginH2(c, para, size)
  <2>3. d = [e EXCEPT !.pos = e.pos + 2, !.rindex = para, !.mode = 2, !.has3d = h,
                      !.sect = para, !.ok = TRUE]
    BY <1>2, <1>4, <2>2
  <2>4. h \in BOOLEAN /\ e.pos + 2 \in Nat /\ (e.has3d => h) /\ (para # Vdata => h)
    BY <2>2 DEF Buffers
  <2> HIDE DEF d, h
  <2>5. d \in Buffers
    BY <2>2, <2>3, <2>4 DEF Buffers
  <2>6. /\ d.rindex = para /\ d.mode = 2 /\ d.has3d = h /\ d.sect = para /\ d.ok = TRUE
        /\ d.drm = e.drm /\ d.leaked = e.leaked /\ d.state3d = e.state3d
        /\ d.queue = e.queue /\ d.work = e.work
        /\ d.flushFunc = e.flushFunc /\ d.agpDMA = e.agpDMA
    BY <2>2, <2>3 DEF Buffers
  <2>7. Sound(d)
    BY <2>1, <2>4, <2>5, <2>6 DEF Sound
  <2>8. Kept(c, d)
    <3>1. Kept(c, b) /\ Kept(b, e)
      BY <1>1, <2>1
    <3>2. Kept(e, d)
      BY <2>6 DEF Kept, Same
    <3> QED BY <3>1, <3>2 DEF Kept, Same
  <2>9. d.state3d => c.state3d
    BY <1>1, <2>1, <2>6
  <2>10. para # Vdata => d.has3d
    BY <2>4, <2>6
  <2> QED BY <2>6, <2>7, <2>8, <2>9, <2>10 DEF d
<1> QED BY <1>3, <1>4

(* Parameters are written where the parser expects them.                   *)
LEMMA OutSubADoes ==
  ASSUME NEW c, Sound(c), c.mode = 2, NEW n \in Nat
  PROVE  LET d == OutSubA(c, n)
         IN  /\ Sound(d) /\ Kept(c, d) /\ d.mode = 2 /\ d.rindex = c.rindex
             /\ (d.has3d <=> c.has3d) /\ (d.state3d <=> c.state3d)
<1>1. c \in Buffers /\ c.ok /\ c.sect = c.rindex /\ c.pos + n \in Nat
  BY DEF Sound, Buffers
<1> DEFINE d == OutSubA(c, n)
<1>2. d = [c EXCEPT !.pos = c.pos + n, !.ok = TRUE]
  BY <1>1 DEF OutSubA
<1> HIDE DEF d
<1>3. d \in Buffers
  BY <1>1, <1>2 DEF Buffers
<1>4. /\ d.ok = TRUE /\ d.mode = c.mode /\ d.rindex = c.rindex /\ d.sect = c.sect
      /\ d.has3d = c.has3d /\ d.state3d = c.state3d /\ d.drm = c.drm /\ d.leaked = c.leaked
      /\ d.queue = c.queue /\ d.work = c.work
      /\ d.flushFunc = c.flushFunc /\ d.agpDMA = c.agpDMA
  BY <1>1, <1>2 DEF Buffers
<1> QED BY <1>3, <1>4 DEF Sound, Kept, Same, d

(* So are those that are 3D state, if the buffer is marked.                *)
LEMMA OutStateDoes ==
  ASSUME NEW c, Sound(c), c.mode = 2, c.has3d, NEW n \in Nat
  PROVE  LET d == OutState(c, n)
         IN  /\ Sound(d) /\ Kept(c, d) /\ d.mode = 2 /\ d.rindex = c.rindex /\ d.has3d
<1> DEFINE s == OutSubA(c, n)
           d == OutState(c, n)
<1>1. /\ Sound(s) /\ Kept(c, s) /\ s.mode = 2 /\ s.rindex = c.rindex /\ s.has3d
  BY OutSubADoes
<1>2. d = [s EXCEPT !.state3d = TRUE] /\ s \in Buffers
  BY <1>1 DEF OutState, Sound
<1> HIDE DEF s, d
<1>3. d \in Buffers
  BY <1>2 DEF Buffers
<1>4. /\ d.ok = s.ok /\ d.mode = s.mode /\ d.rindex = s.rindex /\ d.sect = s.sect
      /\ d.has3d = s.has3d /\ d.drm = s.drm /\ d.leaked = s.leaked
      /\ d.queue = s.queue /\ d.work = s.work
      /\ d.flushFunc = s.flushFunc /\ d.agpDMA = s.agpDMA
  BY <1>2 DEF Buffers
<1> QED BY <1>1, <1>3, <1>4 DEF Sound, Kept, Same, d

(* Parameters that are no 3D state to the kernel: the mark is restored.    *)
LEMMA UnmarkedDoes ==
  ASSUME NEW c, Ready(c), NEW para \in Paras \ {Vdata}, NEW size
  PROVE  LET d == [OutSubA(BeginH2(c, para, size), 2) EXCEPT !.has3d = c.has3d]
         IN  Ready(d) /\ Kept(c, d) /\ (d.has3d <=> c.has3d)
<1> DEFINE b == BeginH2(c, para, size)
           s == OutSubA(b, 2)
           d == [s EXCEPT !.has3d = c.has3d]
<1>1. Sound(b) /\ Kept(c, b) /\ b.mode = 2 /\ b.rindex = para /\ (b.state3d => c.state3d)
  BY BeginH2Does
<1> HIDE DEF b
<1>2. /\ Sound(s) /\ Kept(b, s) /\ s.mode = 2 /\ s.rindex = para /\ (s.state3d <=> b.state3d)
  BY <1>1, OutSubADoes
<1> HIDE DEF s
<1>3. s \in Buffers /\ c.has3d \in BOOLEAN /\ (c.state3d => c.has3d)
  BY <1>2 DEF Sound, Ready, Open, Buffers
<1>4. d \in Buffers
  BY <1>3 DEF Buffers
<1>5. /\ d.has3d = c.has3d /\ d.ok = s.ok /\ d.mode = s.mode /\ d.rindex = s.rindex
      /\ d.sect = s.sect /\ d.state3d = s.state3d /\ d.drm = s.drm /\ d.leaked = s.leaked
      /\ d.queue = s.queue /\ d.work = s.work
      /\ d.flushFunc = s.flushFunc /\ d.agpDMA = s.agpDMA
  BY <1>3 DEF Buffers
<1> HIDE DEF d
<1>6. Sound(d)
  BY <1>1, <1>2, <1>3, <1>4, <1>5 DEF Sound
<1>7. d.sect # Vdata
  BY <1>2, <1>5 DEF Sound
<1>8. Kept(c, d) /\ d.work = <<>>
  BY <1>1, <1>2, <1>5 DEF Kept, Same, Ready
<1> QED BY <1>5, <1>6, <1>7, <1>8 DEF Ready, Open, d, s, b

(* Parameters that are 3D state, in a marked buffer.                       *)
LEMMA MarkedDoes ==
  ASSUME NEW c, Ready(c), Marked(c), NEW para \in Paras \ {Vdata}, NEW size, NEW n \in Nat
  PROVE  LET d == OutState(BeginH2(c, para, size), n)
         IN  Ready(d) /\ Kept(c, d) /\ d.has3d
<1> DEFINE b == BeginH2(c, para, size)
           d == OutState(b, n)
<1>1. Sound(b) /\ Kept(c, b) /\ b.mode = 2 /\ b.rindex = para /\ b.has3d
  BY BeginH2Does
<1> HIDE DEF b
<1>2. /\ Sound(d) /\ Kept(b, d) /\ d.mode = 2 /\ d.rindex = para /\ d.has3d
  BY <1>1, OutStateDoes
<1> HIDE DEF d
<1>3. d.sect # Vdata
  BY <1>2 DEF Sound
<1>4. Kept(c, d) /\ d.work = <<>>
  BY <1>1, <1>2 DEF Kept, Same, Ready
<1> QED BY <1>2, <1>3, <1>4 DEF Ready, Open, d, b

-----------------------------------------------------------------------------
(* emitState, one group after the other.                                   *)
Registers == {"dest", "blend", "drawing", "enable", "tex0", "tex1"}
(* The groups that are 3D state are no vertices.                           *)
LEMMA GroupsAre ==
  \A g \in Registers : /\ g \notin ColGroups /\ Size[g] \in Nat
                       /\ Para(g) \in Paras \ {Vdata}
  BY DEF Registers, ColGroups, Size, Para, Paras, Vdata

(* A group of registers is written below its header 2 and marks the        *)
(* buffer.                                                                 *)
LEMMA EmitGroupDoes ==
  ASSUME NEW c, Ready(c), Marked(c), NEW g \in Registers, NEW textures \in BOOLEAN
  PROVE  LET d == EmitGroup(c, g, textures)
         IN  Ready(d) /\ Kept(c, d) /\ d.has3d
<1>g. g \notin ColGroups /\ Size[g] \in Nat /\ Para(g) \in Paras \ {Vdata}
  BY GroupsAre
<1> DEFINE Out(n) == OutState(BeginH2(c, Para(g), Size[g]), n)
<1>o. ASSUME NEW n \in Nat PROVE Ready(Out(n)) /\ Kept(c, Out(n)) /\ Out(n).has3d
  BY <1>g, MarkedDoes
<1> HIDE DEF Out
<1>1. CASE g = "enable" /\ textures
  <2> DEFINE d == OutState(BeginH2(Out(1), "TexGeneral", 2), 2)
  <2>1. EmitGroup(c, g, textures) = d
    BY <1>g, <1>1 DEF EmitGroup, Out
  <2>2. Ready(Out(1)) /\ Kept(c, Out(1)) /\ Out(1).has3d
    BY <1>o
  <2>3. "TexGeneral" \in Paras \ {Vdata}
    BY DEF Paras, Vdata
  <2>4. Ready(d) /\ Kept(Out(1), d) /\ d.has3d
    BY <2>2, <2>3, MarkedDoes DEF Marked
  <2> HIDE DEF d
  <2>5. Kept(c, d)
    BY <2>2, <2>4 DEF Kept, Same
  <2> QED BY <2>1, <2>4, <2>5
<1>2. CASE ~ (g = "enable" /\ textures)
  <2>1. EmitGroup(c, g, textures) = Out(Size[g])
    BY <1>g, <1>2 DEF EmitGroup, Out
  <2> QED BY <2>1, <1>g, <1>o
<1> QED BY <1>1, <1>2

(* A group of registers, if it is to be emitted.                           *)
LEMMA RegisterStep ==
  ASSUME NEW c, Ready(c), Marked(c), NEW g \in Registers, NEW v, NEW f
  PROVE  LET d == EmitIfNeeded(c, g, v, f)
         IN  /\ Ready(d) /\ Marked(d) /\ Kept(c, d)
             /\ c.has3d => d.has3d
             /\ g \in Emitted(v, f) => d.has3d
<1>1. CASE g \in Emitted(v, f)
  <2> DEFINE d == EmitGroup(c, g, v.numTextures > 0)
  <2>b. (v.numTextures > 0) \in BOOLEAN
    OBVIOUS
  <2>1. Ready(d) /\ Kept(c, d) /\ d.has3d
    BY <2>b, EmitGroupDoes
  <2>2. EmitIfNeeded(c, g, v, f) = d
    BY <1>1 DEF EmitIfNeeded
  <2> HIDE DEF d
  <2> QED BY <2>1, <2>2 DEF Marked
<1>2. CASE g \notin Emitted(v, f)
  <2>1. EmitIfNeeded(c, g, v, f) = c
    BY <1>2 DEF EmitIfNeeded
  <2> QED BY <2>1, <1>2 DEF Kept, Same
<1> QED BY <1>1, <1>2

(* A constant colour, if it is to be emitted.                              *)
LEMMA ColourStep ==
  ASSUME NEW c, Ready(c), NEW g \in ColGroups, NEW v, NEW f
  PROVE  LET d == EmitIfNeeded(c, g, v, f)
         IN  Ready(d) /\ Kept(c, d) /\ (c.has3d => d.has3d)
<1>g. Para(g) \in Paras \ {Vdata}
  BY DEF ColGroups, Para, Paras, Vdata
<1>1. CASE g \in Emitted(v, f)
  <2> DEFINE d == [OutSubA(BeginH2(c, Para(g), Size[g]), 2) EXCEPT !.has3d = c.has3d]
  <2>1. Ready(d) /\ Kept(c, d) /\ (d.has3d <=> c.has3d)
    BY <1>g, UnmarkedDoes
  <2>2. EmitIfNeeded(c, g, v, f) = EmitGroup(c, g, v.numTextures > 0)
    BY <1>1 DEF EmitIfNeeded
  <2>3. g # "enable"
    BY DEF ColGroups
  <2>4. EmitGroup(c, g, v.numTextures > 0) = d
    BY <2>3 DEF EmitGroup
  <2> HIDE DEF d
  <2> QED BY <2>1, <2>2, <2>4
<1>2. CASE g \notin Emitted(v, f)
  <2>1. EmitIfNeeded(c, g, v, f) = c
    BY <1>2 DEF EmitIfNeeded
  <2> QED BY <2>1 DEF Kept, Same
<1> QED BY <1>1, <1>2

(* emitState keeps the buffer sound and marks it if the enable register is *)
(* written.                                                                *)
LEMMA EmitStateDoes ==
  ASSUME NEW c, Ready(c), Marked(c), NEW v, NEW f
  PROVE  LET d == EmitState(c, v, f)
         IN  Ready(d) /\ Kept(c, d) /\ ("enable" \in Emitted(v, f) => d.has3d)
<1> DEFINE c1 == EmitIfNeeded(c, "dest", v, f)
           c2 == EmitIfNeeded(c1, "blend", v, f)
           c3 == EmitIfNeeded(c2, "drawing", v, f)
           c4 == EmitIfNeeded(c3, "enable", v, f)
           c5 == EmitIfNeeded(c4, "tex0", v, f)
           c6 == EmitIfNeeded(c5, "tex1", v, f)
           c7 == EmitIfNeeded(c6, "col0", v, f)
           c8 == EmitIfNeeded(c7, "col1", v, f)
<1>g. /\ "dest" \in Registers /\ "blend" \in Registers /\ "drawing" \in Registers
      /\ "enable" \in Registers /\ "tex0" \in Registers /\ "tex1" \in Registers
      /\ "col0" \in ColGroups /\ "col1" \in ColGroups
  BY DEF Registers, ColGroups
<1>e. EmitState(c, v, f) = c8
  BY Zenon DEF EmitState
<1>1. Ready(c1) /\ Marked(c1) /\ Kept(c, c1)
  BY <1>g, RegisterStep
<1> HIDE DEF c1
<1>2. Ready(c2) /\ Marked(c2) /\ Kept(c1, c2)
  BY <1>g, <1>1, RegisterStep
<1> HIDE DEF c2
<1>3. Ready(c3) /\ Marked(c3) /\ Kept(c2, c3)
  BY <1>g, <1>2, RegisterStep
<1> HIDE DEF c3
<1>4. Ready(c4) /\ Marked(c4) /\ Kept(c3, c4) /\ ("enable" \in Emitted(v, f) => c4.has3d)
  BY <1>g, <1>3, RegisterStep
<1> HIDE DEF c4
<1>5. Ready(c5) /\ Marked(c5) /\ Kept(c4, c5) /\ (c4.has3d => c5.has3d)
  BY <1>g, <1>4, RegisterStep
<1> HIDE DEF c5
<1>6. Ready(c6) /\ Kept(c5, c6) /\ (c5.has3d => c6.has3d)
  BY <1>g, <1>5, RegisterStep
<1> HIDE DEF c6
<1>7. Ready(c7) /\ Kept(c6, c7) /\ (c6.has3d => c7.has3d)
  BY <1>g, <1>6, ColourStep
<1> HIDE DEF c7
<1>8. Ready(c8) /\ Kept(c7, c8) /\ (c7.has3d => c8.has3d)
  BY <1>g, <1>7, ColourStep
<1> HIDE DEF c8
<1>9. Kept(c, c8)
  BY <1>1, <1>2, <1>3, <1>4, <1>5, <1>6, <1>7, <1>8 DEF Kept, Same
<1> QED BY <1>e, <1>4, <1>5, <1>6, <1>7, <1>8, <1>9

(* emitClipRect keeps the buffer sound and its mark.                       *)
LEMMA ClipRectDoes ==
  ASSUME NEW c, Ready(c)
  PROVE  LET d == EmitClipRect(c) IN Ready(d) /\ Kept(c, d) /\ (c.has3d => d.has3d)
<1>1. "NotTex" \in Paras \ {Vdata}
  BY DEF Paras, Vdata
<1> DEFINE d == [OutSubA(BeginH2(c, "NotTex", 4), 2) EXCEPT !.has3d = c.has3d]
<1>2. Ready(d) /\ Kept(c, d) /\ (d.has3d <=> c.has3d)
  BY <1>1, UnmarkedDoes
<1>3. EmitClipRect(c) = d
  BY DEF EmitClipRect
<1> HIDE DEF d
<1> QED BY <1>2, <1>3

(* The state and the clipping of a first quad.                             *)
LEMMA ClippedDoes ==
  ASSUME NEW c, Ready(c), Marked(c), NEW v, NEW f, "enable" \in Emitted(v, f)
  PROVE  LET d == EmitClipRect(EmitState(c, v, f))
         IN  Ready(d) /\ Marked(d) /\ Kept(c, d)
<1> DEFINE s == EmitState(c, v, f)
<1>1. Ready(s) /\ Kept(c, s) /\ s.has3d
  BY EmitStateDoes
<1> HIDE DEF s
<1>2. Ready(EmitClipRect(s)) /\ Kept(s, EmitClipRect(s)) /\ EmitClipRect(s).has3d
  BY <1>1, ClipRectDoes
<1>3. Kept(c, EmitClipRect(s))
  BY <1>1, <1>2 DEF Kept, Same
<1> QED BY <1>2, <1>3 DEF Marked, s

(* emitQuad gives the engine its work and ends with a flush.               *)
LEMMA QuadDoes ==
  ASSUME NEW c, Ready(c), NEW v \in States3D, NEW reads \in Seq(Works)
  PROVE  LET d == EmitQuad(c, v, reads)
         IN  /\ Quiet(d) /\ Same(c, d) /\ d.work = <<>> /\ d.queue = c.queue \o reads
<1> DEFINE b == BeginH2(c, Vdata, 22 + 6 * v.numTextures)
           s == OutSubA(b, 22 + 12 * v.numTextures)
           w == [s EXCEPT !.work = s.work \o reads]
<1>n. 22 + 12 * v.numTextures \in Nat /\ Vdata \in Paras
  BY DEF States3D, Paras
<1>e. EmitQuad(c, v, reads) = Flush(w)
  BY Zenon DEF EmitQuad
<1>1. Sound(b) /\ Kept(c, b) /\ b.mode = 2
  BY <1>n, BeginH2Does
<1> HIDE DEF b
<1>2. /\ Sound(s) /\ Kept(b, s)
  BY <1>n, <1>1, OutSubADoes
<1> HIDE DEF s
<1>3. s \in Buffers /\ s.work = <<>>
  BY <1>1, <1>2 DEF Sound, Kept, Ready
<1>4. w = [s EXCEPT !.work = reads]
  BY <1>3
<1> HIDE DEF w
<1>5. w \in Buffers
  BY <1>3, <1>4 DEF Buffers
<1>6. /\ w.ok = s.ok /\ w.mode = s.mode /\ w.rindex = s.rindex /\ w.sect = s.sect /\ w.pos = s.pos
      /\ w.has3d = s.has3d /\ w.state3d = s.state3d /\ w.drm = s.drm /\ w.leaked = s.leaked
      /\ w.queue = s.queue /\ w.work = reads
      /\ w.flushFunc = s.flushFunc /\ w.agpDMA = s.agpDMA
  BY <1>3, <1>4 DEF Buffers
<1>7. Sound(w)
  BY <1>2, <1>5, <1>6 DEF Sound
<1> DEFINE d == Flush(w)
<1>8. Quiet(d) /\ Same(w, d) /\ d.queue = w.queue \o w.work /\ d.work = <<>>
  BY <1>7, FlushDoes
<1> HIDE DEF d
<1>9. Same(c, d) /\ d.queue = c.queue \o reads
  BY <1>1, <1>2, <1>6, <1>8 DEF Kept, Same
<1> QED BY <1>e, <1>8, <1>9 DEF d

-----------------------------------------------------------------------------
(* What the hooks write between two headers, and what they give the engine.*)
Settled(c) == Quiet(c) /\ c.work = <<>>

(* A buffer between two hooks.                                             *)
LEMMA SettledIs ==
  ASSUME NEW c, Settled(c)
  PROVE  /\ Ready(c) /\ Marked(c) /\ Sound(c) /\ Quiet(c) /\ c.work = <<>> /\ c.mode = 0
         /\ c.queue \in Seq(Works) /\ c.queue \o c.work = c.queue
         /\ c.agpDMA \in BOOLEAN
<1>1. Sound(c) /\ c.mode = 0 /\ c.work = <<>>
  BY DEF Settled, Quiet
<1>2. c.queue \in Seq(Works) /\ c.agpDMA \in BOOLEAN
  BY <1>1 DEF Sound, Buffers
<1>3. c.queue \o c.work = c.queue
  BY <1>1, <1>2
<1>4. c.sect # Vdata
  BY <1>1 DEF Sound, Paras
<1> QED BY <1>1, <1>2, <1>3, <1>4 DEF Ready, Open, Marked, Settled

(* Register writes between two hooks.                                      *)
LEMMA RegsKeep ==
  ASSUME NEW c, Settled(c), NEW n \in Nat
  PROVE  Settled(Regs(c, n)) /\ Kept(c, Regs(c, n))
<1> DEFINE d == Regs(c, n)
<1>1. Quiet(d) /\ Kept(c, d)
  BY SettledIs, RegsDo DEF Regs
<1> HIDE DEF d
<1> QED BY <1>1 DEF Settled, Kept, d

(* The key of a blit, likewise.                                           *)
LEMMA KeyKeeps ==
  ASSUME NEW c, Settled(c), NEW transparent \in BOOLEAN
  PROVE  Settled(Key(c, transparent)) /\ Kept(c, Key(c, transparent))
<1> DEFINE n == IF transparent THEN 2 ELSE 1
           d == Key(c, transparent)
<1>1. n \in Nat /\ d = OutH1(BeginRing(c, 4), n)
  BY DEF Key
<1> HIDE DEF n
<1>2. Quiet(d) /\ Kept(c, d)
  BY <1>1, SettledIs, RegsDo
<1> HIDE DEF d
<1> QED BY <1>2 DEF Settled, Kept, d

(* A flush with nothing to do for the engine.                              *)
LEMMA FlushKeeps ==
  ASSUME NEW c, Settled(c)
  PROVE  /\ Settled(Flush(c)) /\ Kept(c, Flush(c))
         /\ Settled(FlushPCI(c)) /\ Kept(c, FlushPCI(c))
<1>1. Settled(Flush(c)) /\ Kept(c, Flush(c))
  <2> DEFINE d == Flush(c)
  <2>1. Quiet(d) /\ Same(c, d) /\ d.queue = c.queue \o c.work /\ d.work = <<>>
    BY SettledIs, FlushDoes
  <2> HIDE DEF d
  <2>2. d.queue = c.queue /\ d.work = c.work
    BY <2>1, SettledIs
  <2> QED BY <2>1, <2>2 DEF Settled, Kept, d
<1>2. Settled(FlushPCI(c)) /\ Kept(c, FlushPCI(c))
  <2> DEFINE d == FlushPCI(c)
  <2>s. Sound(c) /\ ~ c.state3d
    BY DEF Settled, Quiet, Sound
  <2>1. Quiet(d) /\ Same(c, d) /\ d.queue = c.queue \o c.work /\ d.work = <<>>
    BY <2>s, FlushPCIDoes
  <2> HIDE DEF d
  <2>2. d.queue = c.queue /\ d.work = c.work
    BY <2>1, SettledIs
  <2> QED BY <2>1, <2>2 DEF Settled, Kept, d
<1> QED BY <1>1, <1>2

(* One piece of work, flushed.                                             *)
LEMMA HelperDoes ==
  ASSUME NEW c, Settled(c), NEW n \in Nat, NEW w \in Works
  PROVE  LET d == Flush(Work(Regs(c, n), w))
         IN  Settled(d) /\ Same(c, d) /\ d.queue = Append(c.queue, w)
<1> DEFINE r == Regs(c, n)
           k == Work(r, w)
           d == Flush(k)
<1>1. Settled(r) /\ Kept(c, r)
  BY RegsKeep
<1> HIDE DEF r
<1>2. /\ Quiet(k) /\ Same(r, k) /\ k.queue = r.queue /\ k.work = <<w>>
  BY <1>1, SettledIs, WorkDoes
<1> HIDE DEF k
<1>3. Quiet(d) /\ Same(k, d) /\ d.queue = k.queue \o k.work /\ d.work = <<>>
  BY <1>2, FlushDoes DEF Quiet
<1> HIDE DEF d
<1>4. c.queue \in Seq(Works)
  BY SettledIs
<1>5. d.queue = c.queue \o <<w>>
  BY <1>1, <1>2, <1>3 DEF Kept
<1>6. c.queue \o <<w>> = Append(c.queue, w)
  BY <1>4
<1>7. Same(c, d)
  BY <1>1, <1>2, <1>3 DEF Kept, Same
<1> QED BY <1>3, <1>5, <1>6, <1>7 DEF Settled, d, k, r

(* viaAccelMarkSync: the marker is blitted behind all else, over AGP only. *)
LEMMA MarkSyncDoes ==
  ASSUME NEW c, Settled(c), curMarker \in Nat
  PROVE  LET d == MarkSync(c)
         IN  /\ Settled(d) /\ Same(c, d)
             /\ d.queue = IF c.agpDMA THEN Append(c.queue, <<"mark", MarkAfter(curMarker)>>)
                          ELSE c.queue
<1> DEFINE w == <<"mark", MarkAfter(curMarker)>>
<1>w. w \in Works
  BY MarkerOK DEF Works
<1>1. CASE c.agpDMA
  <2> DEFINE r == Regs(c, 1)
             d == Flush(Work(Regs(r, 7), w))
  <2>1. MarkSync(c) = d
    BY <1>1 DEF MarkSync, SolidHelper
  <2>2. Settled(r) /\ Kept(c, r)
    BY RegsKeep
  <2> HIDE DEF r, w
  <2>3. Settled(d) /\ Same(r, d) /\ d.queue = Append(r.queue, w)
    BY <1>w, <2>2, HelperDoes
  <2> HIDE DEF d
  <2>4. Same(c, d) /\ d.queue = Append(c.queue, w)
    BY <2>2, <2>3 DEF Kept, Same
  <2> QED BY <1>1, <2>1, <2>3, <2>4 DEF w
<1>2. CASE ~ c.agpDMA
  <2>1. MarkSync(c) = c
    BY <1>2 DEF MarkSync
  <2> QED BY <1>2, <2>1 DEF Same
<1> QED BY <1>1, <1>2

(* The buffer after each hook that writes to it, and what the engine has   *)
(* been given.                                                             *)
LEMMA SettledHere ==
  ASSUME StreamInv, ~ (pc \in {"comp", "next", "fill"} /\ job.out = 0)
  PROVE  Settled(cb)
  BY DEF StreamInv, Settled, Quiet, Open

(* After PrepareSolid and PrepareCopy.                                     *)
LEMMA PrepareBuffer ==
  ASSUME Accepted, StreamInv, NEW kind, PrepareSolidOrCopy(kind)
  PROVE  Settled(cb') /\ Kept(cb, cb')
<1>1. Settled(cb)
  BY SettledHere DEF PrepareSolidOrCopy, Idle
<1>2. cb' = cb \/ \E c \in Ring : cb' = Key(c, FALSE)
  BY DEF PrepareSolidOrCopy
<1>3. cb' = cb \/ cb' = Key(cb, FALSE)
  BY <1>1, <1>2, RingIs, SettledIs
<1>4. Settled(Key(cb, FALSE)) /\ Kept(cb, Key(cb, FALSE))
  BY <1>1, KeyKeeps
<1> QED BY <1>1, <1>3, <1>4 DEF Kept, Same

(* After a fill or a copy.                                                 *)
LEMMA DrawBuffer ==
  ASSUME Accepted, StreamInv, Draw
  PROVE  Settled(cb') /\ Same(cb, cb') /\ cb'.queue = Append(cb.queue, ADraw)
<1>1. Settled(cb) /\ ADraw = <<"draw", 0>> /\ ADraw \in Works
  BY SettledHere DEF Draw, ADraw, Works
<1> DEFINE D(n) == Flush(Work(Regs(cb, n), ADraw))
<1>2. cb' = D(7) \/ cb' = D(8)
  BY <1>1, RingIs, SettledIs DEF Draw, SolidHelper, CopyHelper
<1>3. \A n \in Nat : Settled(D(n)) /\ Same(cb, D(n)) /\ D(n).queue = Append(cb.queue, ADraw)
  BY <1>1, HelperDoes
<1> HIDE DEF D
<1> QED BY <1>2, <1>3

(* After the marker of EXA.                                                *)
LEMMA DoneBuffer ==
  ASSUME Accepted, StreamInv, curMarker \in Nat, Done
  PROVE  /\ Settled(cb') /\ Same(cb, cb')
         /\ cb'.queue = IF cb.agpDMA THEN Append(cb.queue, <<"mark", MarkAfter(curMarker)>>)
                        ELSE cb.queue
<1>1. ~ (pc \in {"comp", "next", "fill"} /\ job.out = 0)
  BY DEF Done
<1>2. Settled(cb)
  BY <1>1, SettledHere
<1>3. cb' = MarkSync(cb)
  BY <1>2, RingIs, SettledIs DEF Done
<1> QED BY <1>2, <1>3, MarkSyncDoes

(* After PrepareComposite and at the start of an upload.                   *)
LEMMA ClippedBuffer ==
  ASSUME Accepted, HooksTypeOK, StreamInv, PrepareComposite \/ TexUpload
  PROVE  /\ Ready(cb') /\ Marked(cb') /\ Kept(cb, cb')
         /\ PrepareComposite /\ pc' # "comp" => cb' = cb
         /\ pc' = "comp" => job'.out = 0
<1>1. pc = "idle" /\ Settled(cb) /\ v3d \in States3D
  BY SettledHere DEF PrepareComposite, TexUpload, Idle, HooksTypeOK
<1>2. Ready(cb) /\ Marked(cb) /\ Sound(cb)
  BY <1>1, SettledIs
<1>3. CASE cb' = cb /\ pc' = pc
  BY <1>1, <1>2, <1>3 DEF Kept, Same
<1>4. ASSUME NEW v \in States3D, "enable" \in v.dirty, NEW c \in Ring,
             cb' = EmitClipRect(StateEmitted(c, v))
      PROVE  Ready(cb') /\ Marked(cb') /\ Kept(cb, cb')
  <2>1. c = cb
    BY <1>2, RingIs
  <2>2. "enable" \in InUse(v)
    BY InUseIs DEF Common
  <2>3. "enable" \in Emitted(v, ForceUpload)
    BY <1>4, <2>2 DEF Emitted
  <2>4. cb' = EmitClipRect(EmitState(cb, v, ForceUpload))
    BY <1>4, <2>1 DEF StateEmitted
  <2> QED BY <1>2, <2>3, <2>4, ClippedDoes
<1>5. CASE TexUpload
  <2>1. PICK c \in Ring : cb' = EmitClipRect(StateEmitted(c, Textured(v3d)))
    BY <1>5 DEF TexUpload, Emit, Textured
  <2>2. Textured(v3d) \in States3D /\ Needed(Textured(v3d)) \subseteq Textured(v3d).dirty
    BY <1>1, TexturedDoes
  <2>3. "enable" \in Textured(v3d).dirty
    BY <2>2, NeededIs DEF Common
  <2>4. pc' = "next"
    BY <1>5 DEF TexUpload
  <2> QED BY <2>1, <2>2, <2>3, <2>4, <1>4, <1>5 DEF TexUpload, PrepareComposite
<1>6. CASE PrepareComposite
  <2>1. PICK src \in {"onepix", "texture", "system"},
             mask \in {"no", "onepix", "texture", "system"}, c \in Ring :
          \/ UNCHANGED <<cb, pc, job>>
          \/ /\ src # "system" /\ mask # "system"
             /\ cb' = EmitClipRect(StateEmitted(c, Prepared(v3d, src, mask)))
             /\ pc' = "comp" /\ job' = [NoJob EXCEPT !.src = src, !.mask = mask]
    BY <1>6, PrepareCompositeDoes DEF Emit
  <2>2. CASE UNCHANGED <<cb, pc, job>>
    BY <2>2, <1>3
  <2>3. CASE /\ src # "system" /\ mask # "system"
             /\ cb' = EmitClipRect(StateEmitted(c, Prepared(v3d, src, mask)))
             /\ pc' = "comp" /\ job' = [NoJob EXCEPT !.src = src, !.mask = mask]
    <3> DEFINE p == Prepared(v3d, src, mask)
    <3>1. /\ p \in States3D
          /\ Needed(p) \ (IF mask = "onepix" THEN {"col0"} ELSE {}) \subseteq p.dirty
      BY <2>3, <1>1, PreparedDoes
    <3>2. cb' = EmitClipRect(StateEmitted(c, p))
      BY <2>3
    <3> HIDE DEF p
    <3>3. "enable" \in p.dirty
      BY <3>1, NeededIs DEF Common
    <3>4. job'.out = 0
      BY <2>3, PreparedJob
    <3>5. Ready(cb') /\ Marked(cb') /\ Kept(cb, cb')
      BY <3>1, <3>2, <3>3, <1>4
    <3> QED BY <2>3, <3>4, <3>5
  <2> QED BY <2>1, <2>2, <2>3
<1> QED BY <1>5, <1>6

(* After a quad of a composite.                                            *)
LEMMA CompositeBuffer ==
  ASSUME Accepted, HooksTypeOK, StreamInv, Composite
  PROVE  Settled(cb') /\ Same(cb, cb') /\ cb'.queue = Append(cb.queue, ADraw)
<1>1. /\ Ready(cb) /\ Marked(cb) /\ Sound(cb) /\ v3d \in States3D /\ cb.queue \in Seq(Works)
  BY DEF StreamInv, Ready, Open, Sound, Buffers, HooksTypeOK
<1>2. <<ADraw>> \in Seq(Works) /\ ADraw = <<"draw", 0>>
  BY DEF ADraw, Works
<1>3. ASSUME NEW c, Ready(c), Kept(cb, c), NEW v \in States3D, cb' = EmitQuad(c, v, <<ADraw>>)
      PROVE  Settled(cb') /\ Same(cb, cb') /\ cb'.queue = Append(cb.queue, ADraw)
  <2> DEFINE d == EmitQuad(c, v, <<ADraw>>)
  <2>1. Quiet(d) /\ Same(c, d) /\ d.work = <<>> /\ d.queue = c.queue \o <<ADraw>>
    BY <1>2, <1>3, QuadDoes
  <2>2. cb' = d
    BY <1>3
  <2> HIDE DEF d
  <2>3. cb.queue \o <<ADraw>> = Append(cb.queue, ADraw)
    BY <1>1
  <2> QED BY <1>3, <2>1, <2>2, <2>3 DEF Settled, Kept, Same
<1> DEFINE v == Coloured(v3d, job.src, job.mask)
<1>4. v \in States3D
  <2>1. /\ {"col0"} \in SUBSET Groups /\ {"drawing"} \in SUBSET Groups
    BY DEF Groups, ColGroups
  <2>2. Dirty(v3d, {"col0"}) \in States3D
    BY <2>1, <1>1, DirtyDoes
  <2> QED BY <2>1, <2>2, <1>1, DirtyDoes DEF Coloured, Set3DTexBlendCol, Set3DDrawing, ColGroup
<1>5. PICK c \in Ring : \/ cb' = EmitQuad(StateEmitted(c, v), v, <<ADraw>>)
                        \/ cb' = EmitQuad(c, v, <<ADraw>>)
  BY <1>2 DEF Composite, Emit, Coloured
<1> HIDE DEF v
<1>6. c = cb /\ Kept(cb, cb)
  BY <1>1, RingIs DEF Kept, Same
<1>7. Ready(StateEmitted(cb, v)) /\ Kept(cb, StateEmitted(cb, v))
  BY <1>1, EmitStateDoes DEF StateEmitted
<1> QED BY <1>1, <1>3, <1>4, <1>5, <1>6, <1>7

(* After a band of an upload.                                              *)
LEMMA TexFillBuffer ==
  ASSUME Accepted, HooksTypeOK, StreamInv, TexFill
  PROVE  LET q == Append(cb.queue, ReadOf(job.buf))
         IN  /\ Settled(cb') /\ Same(cb, cb')
             /\ cb'.queue = IF cb.agpDMA THEN Append(q, <<"mark", MarkAfter(curMarker)>>) ELSE q
<1>1. /\ Ready(cb) /\ Sound(cb) /\ v3d \in States3D /\ curMarker \in Nat /\ cb.queue \in Seq(Works)
  BY DEF StreamInv, Ready, Open, Sound, Buffers, HooksTypeOK
<1>2. <<ReadOf(job.buf)>> \in Seq(Works) /\ ReadOf(job.buf) = <<"read", job.buf>>
  BY DEF ReadOf, Works, HooksTypeOK, Jobs, Halves
<1> DEFINE e == EmitQuad(cb, v3d, <<ReadOf(job.buf)>>)
           d == MarkSync(e)
<1>3. cb' = d
  <2>1. PICK c \in Ring : cb' = MarkSync(EmitQuad(c, v3d, <<ReadOf(job.buf)>>))
    BY <1>2 DEF TexFill
  <2>2. c = cb
    BY <1>1, RingIs
  <2> QED BY <2>1, <2>2
<1>4. Quiet(e) /\ Same(cb, e) /\ e.work = <<>> /\ e.queue = cb.queue \o <<ReadOf(job.buf)>>
  BY <1>1, <1>2, QuadDoes
<1> HIDE DEF e
<1>5. /\ Settled(d) /\ Same(e, d)
      /\ d.queue = IF e.agpDMA THEN Append(e.queue, <<"mark", MarkAfter(curMarker)>>) ELSE e.queue
  BY <1>1, <1>4, MarkSyncDoes DEF Settled
<1> HIDE DEF d
<1>6. e.queue = Append(cb.queue, ReadOf(job.buf))
  BY <1>1, <1>4
<1> QED BY <1>3, <1>4, <1>5, <1>6 DEF Same

(* After the hooks of XAA.                                                 *)
LEMMA XaaBuffer ==
  ASSUME Accepted, JobInv, StreamInv, XaaSetup \/ XaaSubsequent
  PROVE  Settled(cb') /\ Kept(cb, cb')
<1>1. Settled(cb) /\ pc = "idle"
  BY SettledHere DEF XaaSetup, XaaSubsequent, Idle
<1>2. \A c \in Ring : c = cb
  BY <1>1, RingIs, SettledIs
<1>t. ASSUME NEW c, NEW d, Kept(cb, c), Kept(c, d) PROVE Kept(cb, d)
  BY <1>t DEF Kept, Same
<1>3. CASE XaaSetup
  <2>1. PICK kind \in Kinds, transparent \in BOOLEAN :
          LET k == Key(IF kind \in FromCpu THEN Flush(cb) ELSE cb, transparent)
          IN  cb' = IF SetupRegs[kind] = 0 THEN k ELSE Regs(k, SetupRegs[kind])
    BY <1>2, <1>3 DEF XaaSetup, Kinds
  <2> DEFINE f == IF kind \in FromCpu THEN Flush(cb) ELSE cb
             k == Key(f, transparent)
  <2>2. Settled(f) /\ Kept(cb, f)
    BY <1>1, FlushKeeps DEF Kept, Same
  <2>3. cb' = k \/ cb' = Regs(k, SetupRegs[kind])
    BY <2>1
  <2> HIDE DEF f
  <2>4. Settled(k) /\ Kept(f, k)
    BY <2>2, KeyKeeps
  <2> HIDE DEF k
  <2>5. Settled(Regs(k, SetupRegs[kind])) /\ Kept(k, Regs(k, SetupRegs[kind]))
    BY <2>4, KindsAre, RegsKeep
  <2>6. Kept(cb, k)
    BY <2>2, <2>4, <1>t
  <2>7. Kept(cb, Regs(k, SetupRegs[kind]))
    BY <2>5, <2>6, <1>t
  <2> QED BY <2>3, <2>4, <2>5, <2>6, <2>7
<1>4. CASE XaaSubsequent
  <2>1. job.src \in Kinds
    BY <1>1, <1>4 DEF JobInv, XaaSubsequent
  <2>2. PICK skipleft \in BOOLEAN, n \in SubsequentRegs[job.src] :
          LET clip == td.clipping \/ (skipleft /\ job.src \in FromCpu)
              d == Regs(IF clip THEN Regs(cb, 2) ELSE cb, n)
          IN  cb' = IF job.src \in FromCpu THEN FlushPCI(d) ELSE Flush(d)
    BY <1>2, <1>4 DEF XaaSubsequent
  <2> DEFINE clip == td.clipping \/ (skipleft /\ job.src \in FromCpu)
             e == IF clip THEN Regs(cb, 2) ELSE cb
             d == Regs(e, n)
  <2>3. Settled(e) /\ Kept(cb, e)
    BY <1>1, RegsKeep DEF Kept, Same
  <2>4. cb' = FlushPCI(d) \/ cb' = Flush(d)
    BY <2>2
  <2>n. n \in Nat
    BY <2>1, KindsAre
  <2> HIDE DEF e
  <2>5. Settled(d) /\ Kept(e, d)
    BY <2>3, <2>n, RegsKeep
  <2> HIDE DEF d
  <2>6. /\ Settled(Flush(d)) /\ Kept(d, Flush(d))
        /\ Settled(FlushPCI(d)) /\ Kept(d, FlushPCI(d))
    BY <2>5, FlushKeeps
  <2>7. Kept(cb, d)
    BY <2>3, <2>5, <1>t
  <2>8. Kept(cb, Flush(d)) /\ Kept(cb, FlushPCI(d))
    BY <2>6, <2>7, <1>t
  <2> QED BY <2>4, <2>6, <2>8
<1> QED BY <1>3, <1>4

(* After a copy or a fill of DGA.                                          *)
LEMMA DgaBuffer ==
  ASSUME Accepted, StreamInv, curMarker \in Nat, DgaDraws
  PROVE  /\ Settled(cb') /\ Same(cb, cb')
         /\ cb'.queue = IF cb.agpDMA THEN Append(cb.queue, <<"mark", MarkAfter(curMarker)>>)
                        ELSE cb.queue
<1>1. Settled(cb)
  BY SettledHere DEF DgaDraws, Idle
<1> DEFINE k == Key(cb, FALSE)
           D(n) == MarkSync(Regs(k, n))
<1>2. cb' = Flush(D(7)) \/ cb' = Flush(D(8))
  BY <1>1, RingIs, SettledIs DEF DgaDraws
<1>3. Settled(k) /\ Kept(cb, k)
  BY <1>1, KeyKeeps
<1> HIDE DEF k
<1>4. ASSUME NEW n \in Nat
      PROVE  /\ Settled(Flush(D(n))) /\ Same(cb, Flush(D(n)))
             /\ Flush(D(n)).queue = IF cb.agpDMA
                                    THEN Append(cb.queue, <<"mark", MarkAfter(curMarker)>>)
                                    ELSE cb.queue
  <2> DEFINE r == Regs(k, n)
             d == MarkSync(r)
  <2>1. Settled(r) /\ Kept(k, r)
    BY <1>3, RegsKeep
  <2> HIDE DEF r
  <2>2. /\ Settled(d) /\ Same(r, d)
        /\ d.queue = IF r.agpDMA THEN Append(r.queue, <<"mark", MarkAfter(curMarker)>>) ELSE r.queue
    BY <2>1, MarkSyncDoes
  <2> HIDE DEF d
  <2>3. Settled(Flush(d)) /\ Kept(d, Flush(d))
    BY <2>2, FlushKeeps
  <2>4. /\ Same(cb, Flush(d))
        /\ Flush(d).queue = IF cb.agpDMA THEN Append(cb.queue, <<"mark", MarkAfter(curMarker)>>)
                            ELSE cb.queue
    BY <1>3, <2>1, <2>2, <2>3 DEF Kept, Same
  <2> QED BY <2>3, <2>4 DEF d, r
<1> HIDE DEF D
<1> QED BY <1>2, <1>4

(* After the engine has done one piece of its work.                        *)
LEMMA EngineBuffer ==
  ASSUME StreamInv, Engine
  PROVE  /\ Ready(cb') /\ Marked(cb') /\ Same(cb, cb') /\ cb'.mode = cb.mode
         /\ cb'.queue = Tail(cb.queue)
<1>1. /\ cb \in Buffers /\ cb.queue # <<>> /\ Ready(cb) /\ Marked(cb)
  BY DEF StreamInv, Open, Sound, Ready, Engine
<1>2. Tail(cb.queue) \in Seq(Works)
  <2>1. cb.queue \in Seq(Works) /\ cb.queue # <<>>
    BY <1>1 DEF Buffers
  <2> QED BY <2>1
<1> DEFINE q == Tail(cb.queue)
<1>3. cb' = [cb EXCEPT !.queue = q]
  BY DEF Engine
<1>4. q \in Seq(Works)
  BY <1>2
<1> HIDE DEF q
<1>5. cb' \in Buffers
  BY <1>1, <1>3, <1>4 DEF Buffers
<1>6. /\ cb'.ok = cb.ok /\ cb'.mode = cb.mode /\ cb'.rindex = cb.rindex /\ cb'.sect = cb.sect
      /\ cb'.pos = cb.pos /\ cb'.has3d = cb.has3d /\ cb'.state3d = cb.state3d /\ cb'.drm = cb.drm
      /\ cb'.leaked = cb.leaked /\ cb'.queue = q /\ cb'.work = cb.work
      /\ cb'.flushFunc = cb.flushFunc /\ cb'.agpDMA = cb.agpDMA
  BY <1>1, <1>3 DEF Buffers
<1>7. Sound(cb')
  BY <1>1, <1>5, <1>6 DEF Ready, Open, Sound
<1> QED BY <1>1, <1>6, <1>7 DEF Ready, Open, Marked, Same, q

-----------------------------------------------------------------------------
(* Every step keeps the buffer sound.                                      *)
LEMMA StepStreamInv ==
  Accepted /\ HooksTypeOK /\ JobInv /\ StreamInv /\ [Next]_vars => StreamInv'
<1> SUFFICES ASSUME Accepted, HooksTypeOK, JobInv, StreamInv, [Next]_vars PROVE StreamInv'
  OBVIOUS
<1>t. job \in Jobs /\ curMarker \in Nat
  BY DEF HooksTypeOK
<1>s. ASSUME Settled(cb') PROVE StreamInv'
  BY <1>s, SettledIs DEF StreamInv, Ready
<1>k. ASSUME cb' = cb, cb.mode = 0 PROVE StreamInv'
  BY <1>k DEF StreamInv, Open, Marked, Sound
<1>i. ASSUME cb' = cb, ~ (pc \in {"comp", "next", "fill"} /\ job.out = 0) PROVE StreamInv'
  BY <1>i, <1>k DEF StreamInv
<1>u. ASSUME UNCHANGED <<cb, pc, job>> PROVE StreamInv'
  BY <1>u DEF StreamInv, Open, Marked, Sound
<1>1. ASSUME NEW kind \in {"solid", "copy"}, PrepareSolidOrCopy(kind) PROVE StreamInv'
  BY <1>1, <1>s, PrepareBuffer
<1>2. CASE Draw
  BY <1>2, <1>s, DrawBuffer
<1>3. CASE Done
  BY <1>3, <1>s, <1>t, DoneBuffer
<1>4. CASE PrepareComposite \/ TexUpload
  <2>1. Ready(cb') /\ Marked(cb') /\ (pc' = "comp" => job'.out = 0)
        /\ (PrepareComposite /\ pc' # "comp" => cb' = cb)
    BY <1>4, ClippedBuffer
  <2>2. CASE TexUpload
    <3>1. PICK n \in 1..MaxBands : job' = [NoJob EXCEPT !.left = n] /\ pc' = "next"
      BY <2>2 DEF TexUpload
    <3>2. job'.out = 0
      BY <3>1, UploadJob
    <3> QED BY <2>1, <3>1, <3>2 DEF StreamInv, Ready
  <2>3. CASE PrepareComposite /\ pc' = "comp"
    BY <2>1, <2>3 DEF StreamInv, Ready
  <2>4. CASE PrepareComposite /\ pc' # "comp"
    BY <2>1, <2>4, <1>i DEF PrepareComposite, Idle
  <2> QED BY <1>4, <2>2, <2>3, <2>4
<1>5. CASE Composite
  BY <1>5, <1>s, CompositeBuffer
<1>6. CASE TexFill
  BY <1>6, <1>s, TexFillBuffer
<1>7. CASE XaaSetup \/ XaaSubsequent
  BY <1>7, <1>s, XaaBuffer
<1>8. CASE DgaDraws
  BY <1>8, <1>s, <1>t, DgaBuffer
<1>9. CASE Engine
  <2>1. Ready(cb') /\ Marked(cb') /\ cb'.mode = cb.mode
    BY <1>9, EngineBuffer
  <2>2. UNCHANGED <<pc, job>>
    BY <1>9 DEF Engine
  <2> QED BY <2>1, <2>2 DEF StreamInv, Ready
<1>10. CASE TexNext
  <2>1. PICK b \in Halves, r \in {"fill", "idle"} :
           /\ pc = "next" /\ r = IF job.left > 0 THEN "fill" ELSE "idle"
           /\ pc' = IF job.sync[b] >= 0 THEN "wait" ELSE r
           /\ job'.out = job.out
    BY <1>10, <1>t, TexNextDoes
  <2>2. cb' = cb
    BY <1>10 DEF TexNext
  <2>3. CASE job.out = 0
    <3>1. job.left > 0 /\ job.sync[b] = -1
      BY <2>1, <2>3 DEF JobInv, Uploading
    <3>2. pc' = "fill" /\ job'.out = 0
      BY <2>1, <2>3, <3>1
    <3> QED BY <2>2, <3>2 DEF StreamInv, Open, Marked, Sound
  <2>4. CASE job.out # 0
    BY <2>2, <2>4, <1>i
  <2> QED BY <2>3, <2>4
<1>11. CASE UNCHANGED vars \/ DmaEngine \/ SetClippingRectangle \/ ClientDraws
  BY <1>11, <1>u DEF vars, DmaEngine, SetClippingRectangle, ClientDraws
<1>12. CASE WaitMarker \/ CpuAccess \/ CpuCopy \/ Transfer \/ Blit \/ BlitsEnd \/ BlitSync
            \/ BounceCopy \/ BlitFails \/ DgaSync
  BY <1>12, <1>i DEF WaitMarker, CpuAccess, CpuCopy, Transfer, Blit, BlitsEnd, BlitSync,
                     BounceCopy, BlitFails, DgaSync, Idle
<1> QED BY <1>1, <1>2, <1>3, <1>4, <1>5, <1>6, <1>7, <1>8, <1>9, <1>10, <1>11, <1>12
        DEF Next, PrepareSolid, PrepareCopy

(* It is at first.                                                         *)
LEMMA InitStream == Init => StreamInv /\ cb.queue = <<>>
<1> SUFFICES ASSUME Init PROVE StreamInv /\ cb.queue = <<>>
  OBVIOUS
<1>1. PICK s \in Screens : cb = SetupCBuffer(s[1] # "pci", s[1] = "agp")
  BY DEF Init
<1>2. (s[1] # "pci") \in BOOLEAN /\ (s[1] = "agp") \in BOOLEAN
  OBVIOUS
<1>3. Settled(cb) /\ cb.queue = <<>>
  BY <1>1, <1>2, SetupSound DEF Settled
<1> QED BY <1>3, SettledIs DEF StreamInv, Ready

(* So it always is, if the kernel takes what it is given.                  *)
LEMMA StreamHolds == Accepted => (Spec => [](HooksInv /\ StreamInv))
<1> SUFFICES ASSUME Accepted PROVE Spec => [](HooksInv /\ StreamInv)
  OBVIOUS
<1>1. Init => HooksInv /\ StreamInv
  BY InitHooks, InitStream
<1>2. HooksInv /\ StreamInv /\ [Next]_vars => (HooksInv /\ StreamInv)'
  BY StepHooks, StepStreamInv DEF HooksInv
<1> QED BY <1>1, <1>2, PTL DEF Spec

(* If the kernel takes what it is given, every word of the command stream  *)
(* is read as what it was written for, however headers are left out,       *)
(* flushes come between a hook and the next, and a wait leaves a hook in   *)
(* the middle of its vertices (StreamParses).                              *)
THEOREM StreamIsParsed == Accepted => (Spec => []StreamParses)
<1> SUFFICES ASSUME Accepted PROVE Spec => []StreamParses
  OBVIOUS
<1>1. HooksInv /\ StreamInv => StreamParses
  BY DEF StreamInv, Open, Sound, StreamParses
<1> QED BY <1>1, StreamHolds, PTL

(* If the kernel takes what it is given, 3D state never reaches the engine *)
(* of a DRI screen by register writes, although the mark that sends it to  *)
(* the kernel is saved and restored around flushes (StateThroughDrm).      *)
THEOREM StateIsVerified == Accepted => (Spec => []StateThroughDrm)
<1> SUFFICES ASSUME Accepted PROVE Spec => []StateThroughDrm
  OBVIOUS
<1>1. HooksInv /\ StreamInv => StateThroughDrm
  BY DEF StreamInv, Open, Sound, StateThroughDrm
<1> QED BY <1>1, StreamHolds, PTL

-----------------------------------------------------------------------------
(* Work, and the markers behind it, in the queue of the engine.            *)
LEMMA MissingLasts ==
  ASSUME NEW q \in Seq(Works), NEW w, Missing(q, w)
  PROVE  /\ q # <<>> => Missing(Tail(q), w)
         /\ \A x : x # w => Missing(Append(q, x), w)
         /\ \A m : Followed(q, w, m)
<1>1. ASSUME q # <<>> PROVE Missing(Tail(q), w)
  <2>1. /\ Len(q) \in Nat /\ Len(Tail(q)) = Len(q) - 1
        /\ \A i \in 1..Len(Tail(q)) : Tail(q)[i] = q[i + 1]
    BY <1>1
  <2>2. \A i \in 1..Len(Tail(q)) : i + 1 \in 1..Len(q)
    BY <2>1
  <2> QED BY <2>1, <2>2 DEF Missing
<1>2. ASSUME NEW x, x # w PROVE Missing(Append(q, x), w)
  <2>1. /\ Len(q) \in Nat /\ Len(Append(q, x)) = Len(q) + 1
        /\ \A i \in 1..Len(q) : Append(q, x)[i] = q[i]
        /\ Append(q, x)[Len(q) + 1] = x
    OBVIOUS
  <2>2. \A i \in 1..Len(Append(q, x)) : i \in 1..Len(q) \/ i = Len(q) + 1
    BY <2>1
  <2> QED BY <1>2, <2>1, <2>2 DEF Missing
<1>3. \A m : Followed(q, w, m)
  BY DEF Missing, Followed
<1> QED BY <1>1, <1>2, <1>3

(* A marker stays behind what it follows.                                  *)
LEMMA FollowedLasts ==
  ASSUME NEW q \in Seq(Works), NEW w, NEW m \in Int, Followed(q, w, m)
  PROVE  /\ q # <<>> => Followed(Tail(q), w, m)
         /\ \A x : x # w => Followed(Append(q, x), w, m)
         /\ \A n \in Int : m <= n => Followed(q, w, n)
<1>1. ASSUME q # <<>> PROVE Followed(Tail(q), w, m)
  <2>1. /\ Len(q) \in Nat /\ Len(Tail(q)) = Len(q) - 1
        /\ \A i \in 1..Len(Tail(q)) : Tail(q)[i] = q[i + 1]
    BY <1>1
  <2> SUFFICES ASSUME NEW i \in 1..Len(Tail(q)), Tail(q)[i] = w
               PROVE  \E j \in (i + 1)..Len(Tail(q)) :
                        Tail(q)[j][1] = "mark" /\ Tail(q)[j][2] <= m
    BY DEF Followed
  <2>2. i + 1 \in 1..Len(q) /\ q[i + 1] = w
    BY <2>1
  <2>3. PICK j \in ((i + 1) + 1)..Len(q) : q[j][1] = "mark" /\ q[j][2] <= m
    BY <2>2 DEF Followed
  <2>4. j - 1 \in (i + 1)..Len(Tail(q)) /\ j - 1 \in 1..Len(Tail(q)) /\ (j - 1) + 1 = j
    BY <2>1
  <2>5. Tail(q)[j - 1] = q[j]
    BY <2>1, <2>4
  <2> QED BY <2>3, <2>4, <2>5
<1>2. ASSUME NEW x, x # w PROVE Followed(Append(q, x), w, m)
  <2>1. /\ Len(q) \in Nat /\ Len(Append(q, x)) = Len(q) + 1
        /\ \A i \in 1..Len(q) : Append(q, x)[i] = q[i]
        /\ Append(q, x)[Len(q) + 1] = x
    OBVIOUS
  <2> SUFFICES ASSUME NEW i \in 1..Len(Append(q, x)), Append(q, x)[i] = w
               PROVE  \E j \in (i + 1)..Len(Append(q, x)) :
                        Append(q, x)[j][1] = "mark" /\ Append(q, x)[j][2] <= m
    BY DEF Followed
  <2>2. i \in 1..Len(q) /\ q[i] = w
    BY <1>2, <2>1
  <2>3. PICK j \in (i + 1)..Len(q) : q[j][1] = "mark" /\ q[j][2] <= m
    BY <2>2 DEF Followed
  <2>4. j \in 1..Len(q) /\ j \in (i + 1)..Len(Append(q, x))
    BY <2>1
  <2> QED BY <2>1, <2>3, <2>4
<1>3. ASSUME NEW n \in Int, m <= n PROVE Followed(q, w, n)
  <2> SUFFICES ASSUME NEW i \in 1..Len(q), q[i] = w
               PROVE  \E j \in (i + 1)..Len(q) : q[j][1] = "mark" /\ q[j][2] <= n
    BY DEF Followed
  <2>1. PICK j \in (i + 1)..Len(q) : q[j][1] = "mark" /\ q[j][2] <= m
    BY DEF Followed
  <2>2. j \in 1..Len(q) /\ Len(q) \in Nat
    OBVIOUS
  <2>3. q[j][2] \in Nat
    BY <2>2 DEF Works
  <2> QED BY <2>1, <2>3, <1>3
<1> QED BY <1>1, <1>2, <1>3

(* A marker follows everything that is there.                              *)
LEMMA MarkFollows ==
  ASSUME NEW q \in Seq(Works), NEW w, NEW m \in Nat, w[1] # "mark"
  PROVE  Followed(Append(q, <<"mark", m>>), w, m)
<1> DEFINE x == <<"mark", m>>
<1>1. /\ Len(q) \in Nat /\ Len(Append(q, x)) = Len(q) + 1
      /\ Append(q, x)[Len(q) + 1] = x
  OBVIOUS
<1>2. x[1] = "mark" /\ x[2] <= m
  OBVIOUS
<1> HIDE DEF x
<1> SUFFICES ASSUME NEW i \in 1..Len(Append(q, x)), Append(q, x)[i] = w
             PROVE  \E j \in (i + 1)..Len(Append(q, x)) :
                      Append(q, x)[j][1] = "mark" /\ Append(q, x)[j][2] <= m
  BY DEF Followed, x
<1>3. i # Len(q) + 1
  BY <1>1, <1>2
<1>4. Len(q) + 1 \in (i + 1)..Len(Append(q, x))
  BY <1>1, <1>3
<1> QED BY <1>1, <1>2, <1>4

(* What a marker that is already there follows is not there any more.      *)
LEMMA FollowedIsDone ==
  ASSUME NEW q \in Seq(Works), NEW w, NEW m \in Int, NEW b \in Int, NEW n,
         Followed(q, w, m), Ahead(q, b, n), m <= b
  PROVE  Missing(q, w)
<1> SUFFICES ASSUME NEW i \in 1..Len(q), q[i] = w PROVE FALSE
  BY DEF Missing
<1>1. PICK j \in (i + 1)..Len(q) : q[j][1] = "mark" /\ q[j][2] <= m
  BY DEF Followed
<1>2. j \in 1..Len(q)
  OBVIOUS
<1>3. q[j][2] \in Nat /\ b < q[j][2]
  BY <1>1, <1>2 DEF Ahead, Works
<1> QED BY <1>1, <1>3

(* Markers stay in order when the engine blits one, and when other work is *)
(* added.                                                                  *)
LEMMA AheadLasts ==
  ASSUME NEW q \in Seq(Works), NEW b \in Int, NEW n \in Int, Ahead(q, b, n)
  PROVE  /\ q # <<>> =>
              LET d == IF Head(q)[1] = "mark" THEN Head(q)[2] ELSE b
              IN  Ahead(Tail(q), d, n) /\ b <= d /\ (d = b \/ d <= n) /\ d \in Int
         /\ \A x : x[1] # "mark" => Ahead(Append(q, x), b, n)
         /\ \A m \in Int : n <= m => Ahead(q, b, m)
<1>t. \A i \in 1..Len(q) : q[i][2] \in Nat
  BY DEF Works
<1>1. ASSUME q # <<>>
      PROVE  LET d == IF Head(q)[1] = "mark" THEN Head(q)[2] ELSE b
             IN  Ahead(Tail(q), d, n) /\ b <= d /\ (d = b \/ d <= n) /\ d \in Int
  <2> DEFINE d == IF Head(q)[1] = "mark" THEN Head(q)[2] ELSE b
  <2>1. /\ Len(q) \in Nat /\ Len(Tail(q)) = Len(q) - 1 /\ 1 \in 1..Len(q) /\ Head(q) = q[1]
        /\ \A i \in 1..Len(Tail(q)) : Tail(q)[i] = q[i + 1]
    BY <1>1
  <2>2. b <= d /\ (d = b \/ d <= n) /\ d \in Int
    BY <2>1, <1>t DEF Ahead
  <2>3. ASSUME NEW i \in 1..Len(Tail(q)), Tail(q)[i][1] = "mark"
        PROVE  /\ d < Tail(q)[i][2] /\ Tail(q)[i][2] <= n
               /\ \A j \in 1..(i - 1) : Tail(q)[j][1] = "mark" => Tail(q)[j][2] < Tail(q)[i][2]
    <3>1. /\ i + 1 \in 1..Len(q) /\ Tail(q)[i] = q[i + 1] /\ q[i + 1][1] = "mark"
          /\ 1 \in 1..((i + 1) - 1)
      BY <2>1, <2>3
    <3>2. /\ b < q[i + 1][2] /\ q[i + 1][2] <= n
          /\ \A j \in 1..((i + 1) - 1) : q[j][1] = "mark" => q[j][2] < q[i + 1][2]
      BY <3>1 DEF Ahead
    <3>3. d < q[i + 1][2]
      BY <2>1, <3>1, <3>2
    <3>4. ASSUME NEW j \in 1..(i - 1), Tail(q)[j][1] = "mark"
          PROVE  Tail(q)[j][2] < Tail(q)[i][2]
      <4>1. j \in 1..Len(Tail(q)) /\ j + 1 \in 1..((i + 1) - 1)
        BY <2>1
      <4>2. Tail(q)[j] = q[j + 1]
        BY <4>1, <2>1
      <4> QED BY <3>1, <3>2, <3>4, <4>1, <4>2
    <3> QED BY <3>1, <3>2, <3>3, <3>4
  <2> HIDE DEF d
  <2>4. Ahead(Tail(q), d, n)
    BY <2>3 DEF Ahead
  <2> QED BY <2>2, <2>4 DEF d
<1>2. ASSUME NEW x, x[1] # "mark" PROVE Ahead(Append(q, x), b, n)
  <2>1. /\ Len(q) \in Nat /\ Len(Append(q, x)) = Len(q) + 1
        /\ \A i \in 1..Len(q) : Append(q, x)[i] = q[i]
        /\ Append(q, x)[Len(q) + 1] = x
    OBVIOUS
  <2>2. ASSUME NEW i \in 1..Len(Append(q, x)), Append(q, x)[i][1] = "mark"
        PROVE  i \in 1..Len(q) /\ \A j \in 1..i : Append(q, x)[j] = q[j]
    BY <1>2, <2>1, <2>2
  <2> QED BY <2>1, <2>2 DEF Ahead
<1>3. ASSUME NEW m \in Int, n <= m PROVE Ahead(q, b, m)
  BY <1>3, <1>t DEF Ahead
<1> QED BY <1>1, <1>2, <1>3

(* The next marker is behind all others.                                   *)
LEMMA MarkIsAhead ==
  ASSUME NEW q \in Seq(Works), NEW b \in Nat, NEW n \in Nat, Ahead(q, b, n), b <= n
  PROVE  Ahead(Append(q, <<"mark", n + 1>>), b, n + 1)
<1> DEFINE x == <<"mark", n + 1>>
           r == Append(q, x)
<1>1. /\ Len(q) \in Nat /\ Len(r) = Len(q) + 1
      /\ \A i \in 1..Len(q) : r[i] = q[i]
      /\ r[Len(q) + 1] = x
  OBVIOUS
<1>2. x[1] = "mark" /\ x[2] = n + 1
  OBVIOUS
<1>t. \A i \in 1..Len(q) : q[i][2] \in Nat
  BY DEF Works
<1> HIDE DEF x, r
<1>3. ASSUME NEW i \in 1..Len(r), r[i][1] = "mark"
      PROVE  /\ b < r[i][2] /\ r[i][2] <= n + 1
             /\ \A j \in 1..(i - 1) : r[j][1] = "mark" => r[j][2] < r[i][2]
  <2>1. CASE i = Len(q) + 1
    <3>1. ASSUME NEW j \in 1..(i - 1), r[j][1] = "mark" PROVE r[j][2] < r[i][2]
      <4>1. j \in 1..Len(q) /\ r[j] = q[j]
        BY <2>1, <1>1
      <4>2. q[j][2] <= n /\ q[j][2] \in Nat
        BY <4>1, <3>1, <1>t DEF Ahead
      <4> QED BY <2>1, <4>1, <4>2, <1>1, <1>2
    <3> QED BY <2>1, <3>1, <1>1, <1>2
  <2>2. CASE i \in 1..Len(q)
    <3>1. r[i] = q[i] /\ \A j \in 1..(i - 1) : r[j] = q[j]
      BY <2>2, <1>1
    <3>2. /\ b < q[i][2] /\ q[i][2] <= n
          /\ \A j \in 1..(i - 1) : q[j][1] = "mark" => q[j][2] < q[i][2]
      BY <2>2, <3>1, <1>3 DEF Ahead
    <3>3. q[i][2] \in Nat /\ q[i][2] <= n + 1
      BY <2>2, <3>2, <1>t
    <3>4. ASSUME NEW j \in 1..(i - 1), r[j][1] = "mark" PROVE r[j][2] < r[i][2]
      <4>1. r[j] = q[j] /\ r[i] = q[i]
        BY <3>1
      <4>2. q[j][1] = "mark"
        BY <3>4, <4>1
      <4>3. q[j][2] < q[i][2]
        BY <3>2, <4>2
      <4> QED BY <4>1, <4>3
    <3> QED BY <3>1, <3>2, <3>3, <3>4
  <2> QED BY <2>1, <2>2, <1>1
<1> QED BY <1>3 DEF Ahead, r, x

-----------------------------------------------------------------------------
(* Markers.                                                                *)
LEMMA FarBehind ==
  ASSUME NEW n \in Nat, NEW x \in Int, x < 0, - n <= x
  PROVE  x % n = x + n
  OBVIOUS

(* Without a wrap, a marker that counts as passed has been read.           *)
LEMMA PassedIsRead ==
  ASSUME NoWrap, NEW m \in Nat, m <= MaxMarks, lastMarkerRead \in Nat, Passed(m)
  PROVE  m <= lastMarkerRead
<1> SUFFICES ASSUME lastMarkerRead < m PROVE FALSE
  OBVIOUS
<1> DEFINE x == lastMarkerRead - m
           n == 2 * MarkMod
<1>1. MarkMod \in Nat /\ Window \in Nat /\ Window < MarkMod /\ MaxMarks \in Nat
  BY AccelAssumption
<1>2. x \in Int /\ n \in Nat /\ x < 0 /\ - n <= x /\ Window < x + n
  BY <1>1 DEF NoWrap
<1>3. x % n <= Window
  BY DEF Passed
<1> HIDE DEF x, n
<1>4. x % n = x + n
  BY <1>2, FarBehind
<1> QED BY <1>1, <1>2, <1>3, <1>4

(* The markers in the queue when one more is given.                        *)
LEMMA NewMark ==
  ASSUME NoWrap, curMarker \in Nat, Counters, curMarker < MaxMarks,
         NEW q \in Seq(Works), Ahead(q, markerBuf, curMarker)
  PROVE  /\ MarkAfter(curMarker) = curMarker + 1
         /\ Ahead(IF cb.agpDMA THEN Append(q, <<"mark", MarkAfter(curMarker)>>) ELSE q,
                  markerBuf, curMarker + 1)
<1>1. MarkAfter(curMarker) = curMarker + 1
  BY MarkerOK, AccelAssumption DEF NoWrap
<1>2. Ahead(Append(q, <<"mark", curMarker + 1>>), markerBuf, curMarker + 1)
  BY MarkIsAhead DEF Counters
<1>3. Ahead(q, markerBuf, curMarker + 1)
  <2>1. curMarker + 1 \in Int /\ curMarker <= curMarker + 1 /\ markerBuf \in Int /\ curMarker \in Int
    BY DEF Counters
  <2> QED BY <2>1, AheadLasts
<1> QED BY <1>1, <1>2, <1>3

(* The types of the queue.                                                 *)
LEMMA QueueIs ==
  ASSUME StreamInv
  PROVE  cb.queue \in Seq(Works) /\ cb.work = <<>> /\ cb.agpDMA \in BOOLEAN
  BY DEF StreamInv, Open, Sound, Buffers

(* Every step keeps the markers in order.                                  *)
LEMMA StepCounters ==
  Accepted /\ NoWrap /\ HooksTypeOK /\ JobInv /\ StreamInv /\ MarkInv /\ [Next]_vars => Counters'
<1> SUFFICES ASSUME Accepted, NoWrap, HooksTypeOK, JobInv, StreamInv, MarkInv, [Next]_vars
             PROVE  Counters'
  OBVIOUS
<1>q. cb.queue \in Seq(Works) /\ curMarker \in Nat /\ accelMarker \in Nat /\ exaSync.marker \in Nat
  BY QueueIs DEF HooksTypeOK
<1>c. Counters /\ Ahead(cb.queue, markerBuf, curMarker)
  BY DEF MarkInv, Counters
<1>m. markerBuf \in Int /\ curMarker \in Int
  BY <1>q, <1>c DEF Counters
<1>k. ASSUME UNCHANGED marks, cb'.queue = cb.queue PROVE Counters'
  BY <1>k, <1>c DEF Counters, marks
<1>w. ASSUME UNCHANGED marks, NEW x, x[1] # "mark", cb'.queue = Append(cb.queue, x) PROVE Counters'
  <2>1. Ahead(Append(cb.queue, x), markerBuf, curMarker)
    BY <1>q, <1>c, <1>m, <1>w, AheadLasts
  <2> QED BY <2>1, <1>w, <1>c DEF Counters, marks
<1>n. ASSUME curMarker < MaxMarks, NEW q \in Seq(Works), Ahead(q, markerBuf, curMarker),
             cb'.queue = IF cb.agpDMA THEN Append(q, <<"mark", MarkAfter(curMarker)>>) ELSE q,
             curMarker' = MarkAfter(curMarker), UNCHANGED <<lastMarkerRead, markerBuf>>,
             accelMarker' \in {accelMarker, curMarker'},
             exaSync' = exaSync \/ exaSync'.marker = curMarker'
      PROVE  Counters'
  <2>1. curMarker' = curMarker + 1 /\ Ahead(cb'.queue, markerBuf', curMarker')
    BY <1>n, <1>q, <1>c, NewMark
  <2>2. accelMarker' <= curMarker' /\ exaSync'.marker <= curMarker'
    BY <2>1, <1>n, <1>q, <1>c DEF Counters
  <2>3. curMarker' <= MaxMarks
    BY <2>1, <1>n, <1>q, AccelAssumption
  <2>4. markerBuf' \in Nat /\ lastMarkerRead' \in Nat /\ lastMarkerRead' <= markerBuf'
        /\ markerBuf' <= curMarker'
    BY <2>1, <1>n, <1>q, <1>c DEF Counters
  <2> QED BY <2>1, <2>2, <2>3, <2>4 DEF Counters
<1>1. ASSUME NEW kind \in {"solid", "copy"}, PrepareSolidOrCopy(kind) PROVE Counters'
  BY <1>1, <1>k, PrepareBuffer DEF Kept, PrepareSolidOrCopy
<1>2. CASE Draw \/ Composite
  <2>1. cb'.queue = Append(cb.queue, ADraw) /\ ADraw[1] # "mark"
    BY <1>2, DrawBuffer, CompositeBuffer DEF ADraw
  <2> QED BY <2>1, <1>2, <1>w DEF Draw, Composite
<1>3. CASE Done
  <2>1. curMarker < MaxMarks
    BY <1>3 DEF Done, MarkInv, JobMarks, Drawing
  <2>2. cb'.queue = IF cb.agpDMA THEN Append(cb.queue, <<"mark", MarkAfter(curMarker)>>)
                    ELSE cb.queue
    BY <1>3, <1>q, DoneBuffer
  <2>3. /\ curMarker' = MarkAfter(curMarker) /\ exaSync'.marker = curMarker'
        /\ UNCHANGED <<lastMarkerRead, accelMarker, markerBuf>>
    BY <1>3 DEF Done
  <2> QED BY <2>1, <2>2, <2>3, <1>n, <1>q, <1>c
<1>4. CASE PrepareComposite \/ TexUpload
  BY <1>4, <1>k, ClippedBuffer DEF Kept, PrepareComposite, TexUpload
<1>5. CASE TexFill
  <2> DEFINE q == Append(cb.queue, ReadOf(job.buf))
  <2>1. curMarker < MaxMarks
    <3>1. job.left \in Nat /\ job.left > 0 /\ curMarker + job.left <= MaxMarks
      BY <1>5 DEF TexFill, HooksTypeOK, Jobs, JobInv, MarkInv, JobMarks, Uploading
    <3> QED BY <3>1, <1>q, AccelAssumption
  <2>2. /\ cb'.queue = IF cb.agpDMA THEN Append(q, <<"mark", MarkAfter(curMarker)>>) ELSE q
    BY <1>5, TexFillBuffer
  <2>3. q \in Seq(Works) /\ Ahead(q, markerBuf, curMarker)
    <3>1. ReadOf(job.buf) \in Works /\ ReadOf(job.buf)[1] # "mark"
      BY DEF ReadOf, Works, HooksTypeOK, Jobs, Halves
    <3> HIDE DEF ReadOf
    <3>2. Ahead(q, markerBuf, curMarker)
      BY <3>1, <1>q, <1>c, <1>m, AheadLasts
    <3> QED BY <3>1, <3>2, <1>q
  <2> HIDE DEF q
  <2>4. /\ curMarker' = MarkAfter(curMarker)
        /\ UNCHANGED <<lastMarkerRead, accelMarker, markerBuf, exaSync>>
    BY <1>5 DEF TexFill
  <2> QED BY <2>1, <2>2, <2>3, <2>4, <1>n
<1>6. CASE XaaSetup \/ XaaSubsequent
  BY <1>6, <1>k, XaaBuffer DEF Kept, XaaSetup, XaaSubsequent
<1>7. CASE DgaDraws
  <2>1. /\ cb'.queue = IF cb.agpDMA THEN Append(cb.queue, <<"mark", MarkAfter(curMarker)>>)
                       ELSE cb.queue
        /\ curMarker < MaxMarks /\ curMarker' = MarkAfter(curMarker) /\ accelMarker' = curMarker'
        /\ UNCHANGED <<lastMarkerRead, markerBuf, exaSync>>
    BY <1>7, <1>q, DgaBuffer DEF DgaDraws, CanMark
  <2> QED BY <2>1, <1>n, <1>q, <1>c
<1>8. CASE Engine
  <2> DEFINE d == IF Head(cb.queue)[1] = "mark" THEN Head(cb.queue)[2] ELSE markerBuf
  <2>1. /\ cb.queue # <<>> /\ markerBuf' = d
        /\ UNCHANGED <<curMarker, lastMarkerRead, accelMarker, exaSync>>
    BY <1>8 DEF Engine
  <2>2. cb'.queue = Tail(cb.queue)
    BY <1>8, EngineBuffer
  <2>3. /\ Ahead(Tail(cb.queue), d, curMarker) /\ markerBuf <= d
        /\ (d = markerBuf \/ d <= curMarker) /\ d \in Int
    BY <2>1, <1>q, <1>c, <1>m, AheadLasts
  <2> HIDE DEF d
  <2> QED BY <2>1, <2>2, <2>3, <1>q, <1>c DEF Counters
<1>9. CASE WaitMarker
  <2>1. cb' = cb /\ lastMarkerRead' \in {lastMarkerRead, markerBuf}
        /\ UNCHANGED <<curMarker, accelMarker, markerBuf, exaSync>>
    BY <1>9 DEF WaitMarker
  <2> QED BY <2>1, <1>c DEF Counters
<1>10. CASE CpuAccess \/ Transfer
  <2>1. /\ exaSync'.marker = 0
        /\ UNCHANGED <<cb, curMarker, lastMarkerRead, accelMarker, markerBuf>>
    BY <1>10, AccessDoes
  <2> QED BY <2>1, <1>c, <1>q DEF Counters
<1>11. CASE UNCHANGED vars
  BY <1>11, <1>k DEF vars, marks
<1>12. CASE DmaEngine \/ SetClippingRectangle \/ ClientDraws \/ CpuCopy \/ Blit \/ BlitsEnd
            \/ BlitSync \/ BounceCopy \/ BlitFails \/ DgaSync \/ TexNext
  BY <1>12, <1>k DEF DmaEngine, SetClippingRectangle, ClientDraws, CpuCopy, Blit, BlitsEnd,
                     BlitSync, BounceCopy, BlitFails, DgaSync, TexNext
<1> QED BY <1>1, <1>2, <1>3, <1>4, <1>5, <1>6, <1>7, <1>8, <1>9, <1>10, <1>11, <1>12
        DEF Next, PrepareSolid, PrepareCopy

(* Every step has hooks wait for markers that were given.                  *)
LEMMA StepJobMarks ==
  Accepted /\ NoWrap /\ HooksTypeOK /\ JobInv /\ StreamInv /\ MarkInv /\ [Next]_vars => JobMarks'
<1> SUFFICES ASSUME Accepted, NoWrap, HooksTypeOK, JobInv, StreamInv, MarkInv, [Next]_vars
             PROVE  JobMarks'
  OBVIOUS
<1>t. job \in Jobs /\ curMarker \in Nat /\ job.left \in Nat /\ job.buf \in Halves
      /\ \A b \in Halves : job.sync[b] \in Int
  BY DEF HooksTypeOK, Jobs
<1>c. accelMarker <= curMarker /\ exaSync.marker <= curMarker /\ MaxMarks \in Nat
  BY AccelAssumption DEF MarkInv, Counters
<1>j. JobMarks
  BY DEF MarkInv
<1>u. ASSUME UNCHANGED <<pc, job, curMarker>> PROVE JobMarks'
  BY <1>u, <1>j DEF JobMarks, Drawing, Uploading
<1>n. ASSUME pc' \notin {"wait", "next", "fill", "solid", "copy", "comp"} PROVE JobMarks'
  BY <1>n DEF JobMarks, Drawing, Uploading
<1>d. ASSUME pc' \in {"solid", "copy", "comp"}, curMarker' = curMarker, curMarker < MaxMarks
      PROVE  JobMarks'
  BY <1>d DEF JobMarks, Drawing, Uploading
<1>1. ASSUME NEW kind \in {"solid", "copy"}, PrepareSolidOrCopy(kind) PROVE JobMarks'
  <2>1. pc' \in {"idle", kind} /\ curMarker' = curMarker /\ curMarker < MaxMarks
    BY <1>1 DEF PrepareSolidOrCopy, Idle, CanMark, marks
  <2> QED BY <2>1, <1>n, <1>d
<1>2. CASE PrepareComposite
  <2>1. pc' \in {"idle", "comp"} /\ curMarker' = curMarker /\ curMarker < MaxMarks
    BY <1>2, PrepareCompositeDoes DEF PrepareComposite, Idle, CanMark, marks
  <2> QED BY <2>1, <1>n, <1>d
<1>3. CASE Composite
  <2>1. pc' = "comp" /\ curMarker' = curMarker /\ pc = "comp"
    BY <1>3 DEF Composite, marks
  <2>2. curMarker < MaxMarks
    BY <2>1, <1>j DEF JobMarks, Drawing
  <2> QED BY <2>1, <2>2, <1>d
<1>4. CASE WaitMarker
  <2>1. curMarker' = curMarker /\ pc = "wait"
    BY <1>4 DEF WaitMarker
  <2>2. CASE pc' = pc /\ job' = job
    BY <2>1, <2>2, <1>u
  <2>3. CASE pc' = job.ret /\ job.ret # "fill"
    BY <2>3, <1>t, <1>n DEF Jobs
  <2>4. CASE pc' = job.ret /\ job.ret = "fill" /\ job' = job
    <3>1. Uploading
      BY <2>1, <2>4 DEF Uploading
    <3> QED BY <2>1, <2>4, <3>1, <1>j DEF JobMarks, Drawing
  <2> QED BY <1>4, <2>2, <2>3, <2>4, WaitMarkerDoes
<1>5. CASE CpuAccess \/ Transfer
  <2>1. PICK r \in {"cpu", "blit"} :
          /\ pc' = IF exaSync.need THEN "wait" ELSE r
          /\ job'.ret = r /\ job'.marker = exaSync.marker /\ curMarker' = curMarker
    BY <1>5, AccessDoes
  <2>2. CASE pc' = "wait"
    BY <2>1, <2>2, <1>c DEF JobMarks, Drawing, Uploading
  <2>3. CASE pc' # "wait"
    BY <2>1, <2>3, <1>n
  <2> QED BY <2>2, <2>3
<1>6. CASE TexUpload
  <2>1. PICK n \in 1..MaxBands : /\ curMarker + n <= MaxMarks /\ pc' = "next" /\ curMarker' = curMarker
                                 /\ job' = [NoJob EXCEPT !.left = n]
    BY <1>6 DEF TexUpload, marks
  <2>2. job'.left = n /\ job'.out = 0 /\ \A b \in Halves : job'.sync[b] = -1
    BY <2>1, UploadJob
  <2> QED BY <2>1, <2>2, <1>t DEF JobMarks, Drawing
<1>7. CASE TexNext
  <2>1. PICK b \in Halves, r \in {"fill", "idle"} :
          /\ pc = "next" /\ pc' = IF job.sync[b] >= 0 THEN "wait" ELSE r
          /\ job'.buf = b /\ job'.ret = r /\ job'.marker = job.sync[b]
          /\ job'.left = job.left /\ job'.sync = job.sync
    BY <1>7, <1>t, TexNextDoes
  <2>2. curMarker' = curMarker
    BY <1>7 DEF TexNext, marks
  <2>3. Uploading
    BY <2>1 DEF Uploading
  <2>4. /\ curMarker + job.left <= MaxMarks
        /\ \A h \in Halves : -1 <= job.sync[h] /\ job.sync[h] <= curMarker
    BY <2>3, <1>j DEF JobMarks
  <2>5. pc' \in {"wait", "fill", "idle"}
    BY <2>1
  <2> QED BY <2>1, <2>2, <2>4, <2>5 DEF JobMarks, Drawing
<1>8. CASE TexFill
  <2>1. /\ pc = "fill" /\ pc' = "next" /\ job'.left = job.left - 1 /\ job'.buf = job.buf
        /\ \A b \in Halves :
              job'.sync[b] = IF b = job.buf THEN MarkAfter(curMarker) ELSE job.sync[b]
    BY <1>8, <1>t, TexFillDoes
  <2>2. /\ curMarker + job.left <= MaxMarks
        /\ \A b \in Halves : -1 <= job.sync[b] /\ job.sync[b] <= curMarker
    BY <2>1, <1>j DEF JobMarks, Uploading
  <2>3. curMarker' = curMarker + 1 /\ MarkAfter(curMarker) = curMarker + 1
    <3>1. curMarker + 1 < MarkMod
      <4>1. job.left > 0 /\ MarkMod \in Nat
        BY <2>1, AccelAssumption DEF JobInv
      <4> QED BY <2>2, <4>1, <1>t, <1>c DEF NoWrap
    <3> QED BY <3>1, <1>8, <1>t, MarkerOK DEF TexFill
  <2>4. curMarker' + job'.left <= MaxMarks
    BY <2>1, <2>2, <2>3, <1>t, <1>c
  <2>5. \A b \in Halves : -1 <= job'.sync[b] /\ job'.sync[b] <= curMarker'
    BY <2>1, <2>2, <2>3, <1>t
  <2>6. job'.sync[job'.buf] = curMarker'
    BY <2>1, <2>3, <1>t
  <2> QED BY <2>1, <2>4, <2>5, <2>6 DEF JobMarks, Drawing
<1>9. CASE DgaSync
  <2>1. /\ pc' = "wait" /\ job' = [NoJob EXCEPT !.marker = accelMarker] /\ curMarker' = curMarker
    BY <1>9 DEF DgaSync, marks
  <2>2. job'.marker = accelMarker /\ job'.ret = "idle"
    BY <2>1 DEF NoJob
  <2> QED BY <2>1, <2>2, <1>c DEF JobMarks, Drawing, Uploading
<1>10. CASE Done \/ CpuCopy \/ Blit \/ BlitsEnd \/ BlitSync \/ BounceCopy \/ BlitFails
            \/ SetClippingRectangle \/ XaaSetup \/ XaaSubsequent \/ DgaDraws \/ ClientDraws
  BY <1>10, <1>n DEF Done, CpuCopy, Blit, BlitsEnd, BlitSync, BounceCopy, BlitFails,
                     SetClippingRectangle, XaaSetup, XaaSubsequent, DgaDraws, ClientDraws, Idle
<1>11. CASE UNCHANGED vars \/ Draw \/ Engine \/ DmaEngine
  BY <1>11, <1>u DEF vars, Draw, Engine, DmaEngine, marks
<1> QED BY <1>1, <1>2, <1>3, <1>4, <1>5, <1>6, <1>7, <1>8, <1>9, <1>10, <1>11
        DEF Next, PrepareSolid, PrepareCopy

-----------------------------------------------------------------------------
(* What a step leaves of the work in the queue that it does not add to.    *)
Keeps(q, r, w) == /\ Missing(q, w) => Missing(r, w)
                  /\ \A m \in Int : Followed(q, w, m) => Followed(r, w, m)

(* Other work that is added.                                               *)
LEMMA AppendKeeps ==
  ASSUME NEW q \in Seq(Works), NEW w, NEW x \in Works, x # w
  PROVE  Keeps(q, Append(q, x), w) /\ Append(q, x) \in Seq(Works)
  BY MissingLasts, FollowedLasts DEF Keeps

(* Work that is done.                                                      *)
LEMMA TailKeeps ==
  ASSUME NEW q \in Seq(Works), NEW w, q # <<>>
  PROVE  Keeps(q, Tail(q), w)
  BY MissingLasts, FollowedLasts DEF Keeps

(* A marker that is added.                                                 *)
LEMMA MarkKeeps ==
  ASSUME NEW q \in Seq(Works), NEW w, w[1] # "mark", curMarker \in Nat,
         NEW r, r = IF cb.agpDMA THEN Append(q, <<"mark", MarkAfter(curMarker)>>) ELSE q
  PROVE  Keeps(q, r, w)
<1>1. <<"mark", MarkAfter(curMarker)>> \in Works /\ <<"mark", MarkAfter(curMarker)>> # w
  BY MarkerOK DEF Works
<1>2. Keeps(q, Append(q, <<"mark", MarkAfter(curMarker)>>), w)
  BY <1>1, AppendKeeps
<1> QED BY <1>2 DEF Keeps

(* Only a draw adds draws, and only a band of an upload adds reads of its  *)
(* half.                                                                   *)
LEMMA StepKeeps ==
  ASSUME Accepted, HooksTypeOK, JobInv, StreamInv, [Next]_vars,
         NEW w \in {ADraw, ReadOf(0), ReadOf(1)},
         w = ADraw => ~ Draw /\ ~ Composite,
         TexFill => w # ReadOf(job.buf)
  PROVE  Keeps(cb.queue, cb'.queue, w)
<1>q. cb.queue \in Seq(Works) /\ curMarker \in Nat /\ job.buf \in Halves
  BY QueueIs DEF HooksTypeOK, Jobs
<1>w. w[1] # "mark" /\ ADraw \in Works /\ ReadOf(job.buf) \in Works
  BY <1>q DEF ADraw, ReadOf, Works, Halves
<1>k. ASSUME cb'.queue = cb.queue PROVE Keeps(cb.queue, cb'.queue, w)
  BY <1>k DEF Keeps
<1>1. ASSUME NEW kind \in {"solid", "copy"}, PrepareSolidOrCopy(kind)
      PROVE  Keeps(cb.queue, cb'.queue, w)
  BY <1>1, <1>k, PrepareBuffer DEF Kept
<1>2. CASE Draw \/ Composite
  <2>1. w # ADraw
    BY <1>2
  <2>2. cb'.queue = Append(cb.queue, ADraw)
    BY <1>2, DrawBuffer, CompositeBuffer
  <2> QED BY <2>1, <2>2, <1>q, <1>w, AppendKeeps
<1>3. CASE Done \/ DgaDraws
  <2>1. cb'.queue = IF cb.agpDMA THEN Append(cb.queue, <<"mark", MarkAfter(curMarker)>>)
                    ELSE cb.queue
    BY <1>3, <1>q, DoneBuffer, DgaBuffer
  <2> QED BY <2>1, <1>q, <1>w, MarkKeeps
<1>4. CASE PrepareComposite \/ TexUpload
  BY <1>4, <1>k, ClippedBuffer DEF Kept
<1>5. CASE TexFill
  <2> DEFINE q == Append(cb.queue, ReadOf(job.buf))
  <2>1. cb'.queue = IF cb.agpDMA THEN Append(q, <<"mark", MarkAfter(curMarker)>>) ELSE q
    BY <1>5, TexFillBuffer
  <2>2. Keeps(cb.queue, q, w) /\ q \in Seq(Works)
    BY <1>5, <1>q, <1>w, AppendKeeps
  <2> HIDE DEF q
  <2>3. Keeps(q, cb'.queue, w)
    BY <2>1, <2>2, <1>q, <1>w, MarkKeeps
  <2> QED BY <2>2, <2>3 DEF Keeps
<1>6. CASE XaaSetup \/ XaaSubsequent
  BY <1>6, <1>k, XaaBuffer DEF Kept
<1>7. CASE Engine
  <2>1. cb.queue # <<>> /\ cb'.queue = Tail(cb.queue)
    BY <1>7, EngineBuffer DEF Engine
  <2> QED BY <2>1, <1>q, TailKeeps
<1>8. CASE CpuAccess \/ Transfer
  BY <1>8, <1>k, AccessDoes
<1>9. CASE UNCHANGED vars
  BY <1>9, <1>k DEF vars
<1>10. CASE DmaEngine \/ SetClippingRectangle \/ ClientDraws \/ CpuCopy \/ Blit \/ BlitsEnd
            \/ BlitSync \/ BounceCopy \/ BlitFails \/ DgaSync \/ TexNext \/ WaitMarker
  BY <1>10, <1>k DEF DmaEngine, SetClippingRectangle, ClientDraws, CpuCopy, Blit, BlitsEnd,
                     BlitSync, BounceCopy, BlitFails, DgaSync, TexNext, WaitMarker
<1> QED BY <1>1, <1>2, <1>3, <1>4, <1>5, <1>6, <1>7, <1>8, <1>9, <1>10
        DEF Next, PrepareSolid, PrepareCopy

(* No step changes the kind of a screen.                                   *)
LEMMA StepSame ==
  ASSUME Accepted, HooksTypeOK, JobInv, StreamInv, [Next]_vars
  PROVE  cb'.agpDMA <=> cb.agpDMA
<1>q. curMarker \in Nat
  BY DEF HooksTypeOK
<1>k. ASSUME cb' = cb PROVE cb'.agpDMA <=> cb.agpDMA
  BY <1>k
<1>1. ASSUME NEW kind \in {"solid", "copy"}, PrepareSolidOrCopy(kind)
      PROVE  cb'.agpDMA <=> cb.agpDMA
  BY <1>1, PrepareBuffer DEF Kept, Same
<1>2. CASE Draw \/ Composite
  BY <1>2, DrawBuffer, CompositeBuffer DEF Same
<1>3. CASE Done \/ DgaDraws
  BY <1>3, <1>q, DoneBuffer, DgaBuffer DEF Same
<1>4. CASE PrepareComposite \/ TexUpload
  BY <1>4, ClippedBuffer DEF Kept, Same
<1>5. CASE TexFill
  BY <1>5, TexFillBuffer DEF Same
<1>6. CASE XaaSetup \/ XaaSubsequent
  BY <1>6, XaaBuffer DEF Kept, Same
<1>7. CASE Engine
  BY <1>7, EngineBuffer DEF Same
<1>8. CASE CpuAccess \/ Transfer
  BY <1>8, <1>k, AccessDoes
<1>9. CASE UNCHANGED vars
  BY <1>9, <1>k DEF vars
<1>10. CASE DmaEngine \/ SetClippingRectangle \/ ClientDraws \/ CpuCopy \/ Blit \/ BlitsEnd
            \/ BlitSync \/ BounceCopy \/ BlitFails \/ DgaSync \/ TexNext \/ WaitMarker
  BY <1>10, <1>k DEF DmaEngine, SetClippingRectangle, ClientDraws, CpuCopy, Blit, BlitsEnd,
                     BlitSync, BounceCopy, BlitFails, DgaSync, TexNext, WaitMarker
<1> QED BY <1>1, <1>2, <1>3, <1>4, <1>5, <1>6, <1>7, <1>8, <1>9, <1>10
        DEF Next, PrepareSolid, PrepareCopy

-----------------------------------------------------------------------------
(* A wait that ends has seen the engine finish what its marker follows.    *)
LEMMA WaitIsOver ==
  ASSUME NoWrap, HooksTypeOK, JobInv, StreamInv, MarkInv, WaitMarker,
         ~ (pc' = pc /\ job' = job),
         NEW w, cb.agpDMA => Followed(cb.queue, w, job.marker)
  PROVE  Missing(cb.queue, w)
<1>q. cb.queue \in Seq(Works) /\ cb.agpDMA \in BOOLEAN
  BY QueueIs
<1>1. pc = "wait" /\ (IF cb.agpDMA THEN Passed(job.marker) ELSE cb.queue = <<>>)
  BY WaitMarkerDoes
<1>2. CASE ~ cb.agpDMA
  BY <1>1, <1>2 DEF Missing
<1>3. CASE cb.agpDMA
  <2>1. job.marker \in Nat /\ job.marker <= curMarker /\ curMarker \in Nat
    BY <1>1 DEF HooksTypeOK, Jobs, JobInv, MarkInv, JobMarks
  <2>2. /\ lastMarkerRead \in Nat /\ markerBuf \in Nat /\ lastMarkerRead <= markerBuf
        /\ curMarker <= MaxMarks /\ Ahead(cb.queue, markerBuf, curMarker)
    BY DEF MarkInv, Counters
  <2>3. job.marker <= MaxMarks
    BY <2>1, <2>2, AccelAssumption
  <2>4. job.marker <= lastMarkerRead
    BY <1>1, <1>3, <2>1, <2>2, <2>3, PassedIsRead
  <2>5. job.marker <= markerBuf
    BY <2>1, <2>2, <2>4
  <2> QED BY <1>3, <1>q, <2>1, <2>2, <2>5, FollowedIsDone
<1> QED BY <1>2, <1>3, <1>q

Touches == {"cpu", "blit", "sync", "bounced"}

(* Every step keeps EXA's marker behind EXA's drawing.                     *)
LEMMA StepDrawInv ==
  Accepted /\ NoWrap /\ HooksTypeOK /\ JobInv /\ StreamInv /\ MarkInv /\ DrawInv /\ [Next]_vars
    => DrawInv'
<1> SUFFICES ASSUME Accepted, NoWrap, HooksTypeOK, JobInv, StreamInv, MarkInv, DrawInv, [Next]_vars
             PROVE  DrawInv'
  OBVIOUS
<1>t. /\ job \in Jobs /\ curMarker \in Nat /\ exaSync.marker \in Int /\ job.marker \in Int
      /\ exaSync.need \in BOOLEAN
  BY DEF HooksTypeOK, Jobs
<1>q. cb.queue \in Seq(Works) /\ cb.agpDMA \in BOOLEAN /\ (cb'.agpDMA <=> cb.agpDMA)
  BY QueueIs, StepSame
<1>k. ASSUME ~ Draw, ~ Composite PROVE Keeps(cb.queue, cb'.queue, ADraw)
  <2>1. TexFill => ADraw # ReadOf(job.buf)
    BY DEF ADraw, ReadOf
  <2> QED BY <1>k, <2>1, StepKeeps
<1>u. ASSUME ~ Draw, ~ Composite, UNCHANGED <<pc, job, exaSync>> PROVE DrawInv'
  BY <1>u, <1>k, <1>q, <1>t DEF DrawInv, Keeps, Drawing, HasDrawn, ForCpu
<1>d. ASSUME HasDrawn' PROVE DrawInv'
  BY <1>d DEF DrawInv, Drawing, HasDrawn, ForCpu
<1>n. ASSUME ~ Draw, ~ Composite, ~ Drawing, ~ ForCpu, exaSync' = exaSync,
             pc' # "wait" \/ job'.ret \in {"idle", "fill"}, pc' \in Touches => pc \in Touches
      PROVE  DrawInv'
  <2>1. ~ HasDrawn
    BY <1>n DEF HasDrawn, Drawing
  <2> QED BY <2>1, <1>n, <1>k, <1>q, <1>t DEF DrawInv, Keeps, ForCpu, Touches
<1>1. ASSUME NEW kind \in {"solid", "copy"}, PrepareSolidOrCopy(kind) PROVE DrawInv'
  <2>1. pc' = kind \/ UNCHANGED <<pc, job>>
    BY <1>1 DEF PrepareSolidOrCopy
  <2>2. exaSync' = exaSync /\ ~ Draw /\ ~ Composite
    BY <1>1 DEF PrepareSolidOrCopy, marks, Draw, Composite, Idle
  <2> QED BY <2>1, <2>2, <1>d, <1>u DEF HasDrawn
<1>2. CASE Draw \/ Composite
  <2>1. pc' \in {"solid", "copy"} \/ (pc' = "comp" /\ job'.out = 1)
    BY <1>2, <1>t DEF Draw, Composite, Jobs
  <2> QED BY <2>1, <1>d DEF HasDrawn
<1>3. CASE Done
  <2>1. /\ exaSync' = [need |-> TRUE, marker |-> MarkAfter(curMarker)] /\ pc' = "idle"
    BY <1>3 DEF Done
  <2>2. cb.agpDMA => cb'.queue = Append(cb.queue, <<"mark", MarkAfter(curMarker)>>)
    BY <1>3, <1>t, DoneBuffer
  <2>3. MarkAfter(curMarker) \in Nat /\ ADraw[1] # "mark"
    BY <1>t, MarkerOK DEF ADraw
  <2>4. cb.agpDMA => Followed(cb'.queue, ADraw, MarkAfter(curMarker))
    BY <2>2, <2>3, <1>q, MarkFollows
  <2> QED BY <2>1, <2>4, <1>q DEF DrawInv, Drawing, HasDrawn, ForCpu
<1>4. CASE PrepareComposite
  <2>1. pc' = "comp" \/ UNCHANGED <<pc, job>>
    BY <1>4, PrepareCompositeDoes
  <2>2. pc = "idle" /\ exaSync' = exaSync /\ ~ Draw /\ ~ Composite
    BY <1>4 DEF PrepareComposite, marks, Draw, Composite, Idle
  <2>3. CASE pc' = "comp"
    <3>1. ~ HasDrawn /\ ~ ForCpu
      BY <2>2 DEF HasDrawn, ForCpu
    <3>2. ~ exaSync.need => Missing(cb'.queue, ADraw)
      BY <3>1, <2>2, <1>k DEF DrawInv, Keeps
    <3> QED BY <2>2, <2>3, <3>2 DEF DrawInv, Drawing, HasDrawn, ForCpu
  <2> QED BY <2>1, <2>2, <2>3, <1>u
<1>5. CASE WaitMarker
  <2>1. /\ exaSync' = exaSync /\ pc = "wait" /\ cb' = cb /\ ~ Draw /\ ~ Composite
    BY <1>5 DEF WaitMarker, Draw, Composite
  <2>2. CASE pc' = pc /\ job' = job
    BY <2>1, <2>2, <1>u
  <2>3. ASSUME ~ (pc' = pc /\ job' = job), job.ret \in {"cpu", "blit"} PROVE DrawInv'
    <3>1. ForCpu /\ ~ exaSync.need
      BY <2>1, <2>3 DEF ForCpu, DrawInv
    <3>2. cb.agpDMA => Followed(cb.queue, ADraw, job.marker)
      BY <3>1 DEF DrawInv
    <3>3. Missing(cb.queue, ADraw)
      BY <3>2, <1>5, <2>3, WaitIsOver
    <3>4. pc' \in {"cpu", "blit"}
      BY <2>3, <1>5, WaitMarkerDoes
    <3> QED BY <2>1, <3>1, <3>3, <3>4 DEF DrawInv, ForCpu
  <2>4. ASSUME ~ (pc' = pc /\ job' = job), job.ret \in {"idle", "fill"} PROVE DrawInv'
    <3>1. pc' \in {"idle", "fill"}
      BY <2>4, <1>5, WaitMarkerDoes
    <3>2. ~ Drawing /\ ~ ForCpu
      BY <2>1, <2>4 DEF Drawing, ForCpu
    <3> QED BY <2>1, <3>1, <3>2, <1>n DEF Touches
  <2> QED BY <2>2, <2>3, <2>4, <1>t DEF Jobs
<1>6. CASE CpuAccess \/ Transfer
  <2>1. PICK r \in {"cpu", "blit"} :
          /\ pc = "idle" /\ pc' = IF exaSync.need THEN "wait" ELSE r
          /\ exaSync' = [need |-> FALSE, marker |-> 0]
          /\ job'.ret = r /\ job'.marker = exaSync.marker /\ cb' = cb
    BY <1>6, AccessDoes
  <2>2. ~ Drawing /\ ~ ForCpu
    BY <2>1 DEF Drawing, ForCpu
  <2>3. CASE exaSync.need
    <3>1. cb.agpDMA => Followed(cb.queue, ADraw, job'.marker)
      BY <2>1, <2>2, <2>3 DEF DrawInv
    <3> QED BY <2>1, <2>3, <3>1 DEF DrawInv, ForCpu
  <2>4. CASE ~ exaSync.need
    <3>1. Missing(cb.queue, ADraw)
      BY <2>1, <2>2, <2>4 DEF DrawInv, HasDrawn
    <3> QED BY <2>1, <2>4, <3>1 DEF DrawInv, ForCpu
  <2> QED BY <2>3, <2>4, <1>t
<1>7. CASE TexNext
  <2>1. pc = "next" /\ job'.ret \in {"fill", "idle"} /\ pc' \in {"wait", "fill", "idle"}
    <3>1. PICK b \in Halves, r \in {"fill", "idle"} :
             pc = "next" /\ pc' = (IF job.sync[b] >= 0 THEN "wait" ELSE r) /\ job'.ret = r
      BY <1>7, <1>t, TexNextDoes
    <3> QED BY <3>1
  <2>2. exaSync' = exaSync /\ ~ Draw /\ ~ Composite
    BY <1>7 DEF TexNext, marks, Draw, Composite
  <2> QED BY <2>1, <2>2, <1>n DEF Touches, Drawing, ForCpu
<1>8. CASE TexUpload \/ TexFill
  <2>1. /\ pc \in {"idle", "fill"} /\ pc' = "next" /\ exaSync' = exaSync /\ ~ Draw /\ ~ Composite
    BY <1>8 DEF TexUpload, TexFill, marks, Draw, Composite, Idle
  <2> QED BY <2>1, <1>n DEF Touches, Drawing, ForCpu
<1>9. CASE DgaSync
  <2>1. /\ pc = "idle" /\ pc' = "wait" /\ exaSync' = exaSync /\ ~ Draw /\ ~ Composite
        /\ job' = [NoJob EXCEPT !.marker = accelMarker]
    BY <1>9 DEF DgaSync, marks, Draw, Composite, Idle
  <2>2. job'.ret = "idle"
    BY <2>1 DEF NoJob
  <2> QED BY <2>1, <2>2, <1>n DEF Touches, Drawing, ForCpu
<1>10. CASE CpuCopy \/ Blit \/ BlitsEnd \/ BlitSync \/ BounceCopy \/ BlitFails
  <2>1. pc \in Touches /\ pc' \in Touches \cup {"idle"} /\ exaSync' = exaSync
    BY <1>10 DEF CpuCopy, Blit, BlitsEnd, BlitSync, BounceCopy, BlitFails, marks, Touches
  <2>2. ~ Draw /\ ~ Composite /\ ~ Drawing /\ ~ ForCpu
    BY <2>1 DEF Touches, Draw, Composite, Drawing, ForCpu
  <2>3. pc' # "wait"
    BY <2>1 DEF Touches
  <2> QED BY <2>1, <2>2, <2>3, <1>n
<1>11. CASE SetClippingRectangle \/ XaaSetup \/ XaaSubsequent \/ DgaDraws \/ ClientDraws
  <2>1. pc = "idle" /\ pc' = "idle" /\ exaSync' = exaSync
    BY <1>11 DEF SetClippingRectangle, XaaSetup, XaaSubsequent, DgaDraws, ClientDraws, Idle, marks
  <2> QED BY <2>1, <1>n DEF Touches, Draw, Composite, Drawing, ForCpu
<1>12. CASE Engine \/ DmaEngine \/ UNCHANGED vars
  <2>1. UNCHANGED <<pc, job, exaSync>>
    BY <1>12 DEF Engine, DmaEngine, vars, marks
  <2>2. CASE Draw \/ Composite
    BY <2>2, <1>2
  <2> QED BY <2>1, <2>2, <1>u
<1> QED BY <1>1, <1>2, <1>3, <1>4, <1>5, <1>6, <1>7, <1>8, <1>9, <1>10, <1>11, <1>12
        DEF Next, PrepareSolid, PrepareCopy

-----------------------------------------------------------------------------
(* The two halves of the AGP memory, one at a time.                        *)
Reading == Uploading \/ (pc = "wait" /\ job.ret = "idle")
ReadOfHalf(b) ==
  /\ Uploading => IF job.sync[b] = -1 THEN Missing(cb.queue, ReadOf(b))
                  ELSE cb.agpDMA => Followed(cb.queue, ReadOf(b), job.sync[b])
  /\ pc = "fill" => Missing(cb.queue, ReadOf(job.buf))
  /\ pc = "wait" /\ job.ret = "idle" /\ cb.agpDMA => Followed(cb.queue, ReadOf(b), job.marker)
  /\ Reading \/ Missing(cb.queue, ReadOf(b))

(* The invariant of the halves, as that of each.                           *)
LEMMA ReadInvIs == ReadInv <=> \A b \in Halves : ReadOfHalf(b)
  BY DEF ReadInv, ReadOfHalf, Reading

(* Every step keeps the marker of a half behind what reads from it.        *)
LEMMA StepReadInv ==
  Accepted /\ NoWrap /\ HooksTypeOK /\ JobInv /\ StreamInv /\ MarkInv /\ ReadInv /\ [Next]_vars
    => ReadInv'
<1> SUFFICES ASSUME Accepted, NoWrap, HooksTypeOK, JobInv, StreamInv, MarkInv, ReadInv, [Next]_vars,
                    NEW b \in Halves
             PROVE  ReadOfHalf(b)'
  <2>1. ReadInv' <=> \A b \in Halves : ReadOfHalf(b)'
    BY DEF ReadInv, ReadOfHalf, Reading
  <2> QED BY <2>1
<1>t. /\ job \in Jobs /\ curMarker \in Nat /\ job.marker \in Int /\ job.buf \in Halves
      /\ job.left \in Nat /\ \A h \in Halves : job.sync[h] \in Int
  BY DEF HooksTypeOK, Jobs
<1>q. cb.queue \in Seq(Works) /\ cb.agpDMA \in BOOLEAN /\ (cb'.agpDMA <=> cb.agpDMA)
  BY QueueIs, StepSame
<1>r. \A h \in Halves : ReadOfHalf(h)
  BY ReadInvIs
<1>k. ASSUME NEW h \in Halves, TexFill => h # job.buf
      PROVE  Keeps(cb.queue, cb'.queue, ReadOf(h))
  <2>1. ReadOf(h) # ADraw /\ ReadOf(h) \in {ADraw, ReadOf(0), ReadOf(1)}
    BY DEF ReadOf, ADraw, Halves
  <2>2. TexFill => ReadOf(h) # ReadOf(job.buf)
    BY <1>k DEF ReadOf
  <2> QED BY <2>1, <2>2, StepKeeps
<1>u. ASSUME ~ TexFill, UNCHANGED <<pc, job>> PROVE ReadOfHalf(b)'
  <2>1. Keeps(cb.queue, cb'.queue, ReadOf(b)) /\ Keeps(cb.queue, cb'.queue, ReadOf(job.buf))
    BY <1>u, <1>k, <1>t
  <2>2. ReadOfHalf(b) /\ (Reading' <=> Reading) /\ (Uploading' <=> Uploading)
    BY <1>r, <1>u DEF Reading, Uploading
  <2>3. Uploading => IF job.sync[b] = -1 THEN Missing(cb'.queue, ReadOf(b))
                     ELSE cb.agpDMA => Followed(cb'.queue, ReadOf(b), job.sync[b])
    BY <2>1, <2>2, <1>t DEF ReadOfHalf, Keeps
  <2>4. pc = "fill" => Missing(cb'.queue, ReadOf(job.buf))
    BY <2>1, <2>2 DEF ReadOfHalf, Keeps
  <2>5. pc = "wait" /\ job.ret = "idle" /\ cb.agpDMA => Followed(cb'.queue, ReadOf(b), job.marker)
    BY <2>1, <2>2, <1>t DEF ReadOfHalf, Keeps
  <2>6. Reading \/ Missing(cb'.queue, ReadOf(b))
    BY <2>1, <2>2 DEF ReadOfHalf, Keeps
  <2> QED BY <1>u, <1>q, <2>2, <2>3, <2>4, <2>5, <2>6 DEF ReadOfHalf
<1>n. ASSUME ~ TexFill, ~ Reading, pc' \notin {"wait", "next", "fill"} PROVE ReadOfHalf(b)'
  <2>1. Missing(cb'.queue, ReadOf(b))
    BY <1>n, <1>k, <1>r DEF ReadOfHalf, Keeps
  <2> QED BY <1>n, <2>1 DEF ReadOfHalf, Uploading
<1>1. ASSUME NEW kind \in {"solid", "copy"}, PrepareSolidOrCopy(kind) PROVE ReadOfHalf(b)'
  <2>1. pc = "idle" /\ pc' \in {"idle", kind} /\ ~ TexFill
    BY <1>1 DEF PrepareSolidOrCopy, Idle, TexFill
  <2> QED BY <2>1, <1>n DEF Reading, Uploading
<1>2. CASE Draw \/ Composite \/ Engine \/ DmaEngine
  <2>1. UNCHANGED pc /\ (Composite \/ UNCHANGED job) /\ (Composite => pc = "comp")
    BY <1>2 DEF Draw, Composite, Engine, DmaEngine
  <2>2. CASE Composite
    <3>1. ~ TexFill /\ pc = "comp" /\ pc' = "comp"
      BY <2>1, <2>2 DEF TexFill
    <3> QED BY <3>1, <1>n DEF Reading, Uploading
  <2>3. CASE ~ Composite
    <3>1. ~ TexFill
      BY <1>2, <2>1, <2>3 DEF TexFill
    <3> QED BY <2>1, <2>3, <3>1, <1>u
  <2> QED BY <2>2, <2>3
<1>3. CASE Done \/ PrepareComposite
  <2>1. pc \in {"idle", "solid", "copy", "comp"} /\ pc' \in {"idle", "comp"} /\ ~ TexFill
    <3>1. CASE Done
      BY <3>1 DEF Done, TexFill
    <3>2. CASE PrepareComposite
      <4>1. pc = "idle"
        BY <3>2 DEF PrepareComposite, Idle
      <4>2. pc' = "comp" \/ pc' = pc
        BY <3>2, PrepareCompositeDoes
      <4> QED BY <4>1, <4>2 DEF TexFill
    <3> QED BY <1>3, <3>1, <3>2
  <2> QED BY <2>1, <1>n DEF Reading, Uploading
<1>4. CASE WaitMarker
  <2>1. pc = "wait" /\ cb' = cb /\ ~ TexFill
    BY <1>4 DEF WaitMarker, TexFill
  <2>2. CASE pc' = pc /\ job' = job
    BY <2>1, <2>2, <1>u
  <2>3. ASSUME ~ (pc' = pc /\ job' = job), job.ret \in {"cpu", "blit"} PROVE ReadOfHalf(b)'
    <3>1. ~ Reading /\ pc' \in {"cpu", "blit"}
      BY <2>1, <2>3, <1>4, WaitMarkerDoes DEF Reading, Uploading
    <3> QED BY <2>1, <3>1, <1>n
  <2>4. ASSUME ~ (pc' = pc /\ job' = job), job.ret = "idle" PROVE ReadOfHalf(b)'
    <3>1. cb.agpDMA => Followed(cb.queue, ReadOf(b), job.marker)
      BY <2>1, <2>4, <1>r DEF ReadOfHalf
    <3>2. Missing(cb.queue, ReadOf(b))
      BY <3>1, <2>4, <1>4, WaitIsOver
    <3>3. pc' = "idle"
      BY <2>4, <1>4, WaitMarkerDoes
    <3> QED BY <2>1, <3>2, <3>3 DEF ReadOfHalf, Uploading
  <2>5. ASSUME ~ (pc' = pc /\ job' = job), job.ret = "fill" PROVE ReadOfHalf(b)'
    <3>1. Uploading /\ pc' = "fill" /\ job' = job
      BY <2>1, <2>5, <1>4, WaitMarkerDoes DEF Uploading
    <3>2. job.marker = job.sync[job.buf] /\ job.sync[job.buf] # -1
      <4>1. job.marker >= 0
        BY <2>1 DEF JobInv
      <4>2. job.marker = job.sync[job.buf]
        BY <2>1, <3>1 DEF MarkInv, JobMarks
      <4> QED BY <4>1, <4>2, <1>t
    <3>3. cb.agpDMA => Followed(cb.queue, ReadOf(job.buf), job.marker)
      BY <3>1, <3>2, <1>r, <1>t DEF ReadOfHalf
    <3>4. Missing(cb.queue, ReadOf(job.buf))
      BY <3>3, <2>5, <1>4, WaitIsOver
    <3> QED BY <2>1, <3>1, <3>4, <1>r DEF ReadOfHalf, Uploading, Reading
  <2> QED BY <2>2, <2>3, <2>4, <2>5, <1>t DEF Jobs
<1>5. CASE CpuAccess \/ Transfer
  <2>1. PICK r \in {"cpu", "blit"} :
          pc = "idle" /\ pc' = (IF exaSync.need THEN "wait" ELSE r) /\ job'.ret = r /\ cb' = cb
    BY <1>5, AccessDoes
  <2>2. ~ TexFill /\ ~ Reading
    BY <2>1 DEF TexFill, Reading, Uploading
  <2>3. Missing(cb'.queue, ReadOf(b))
    BY <2>1, <2>2, <1>r DEF ReadOfHalf
  <2> QED BY <2>1, <2>3 DEF ReadOfHalf, Uploading
<1>6. CASE TexUpload \/ DgaSync
  <2>1. pc = "idle" /\ ~ TexFill
    BY <1>6 DEF TexUpload, DgaSync, Idle, TexFill
  <2>2. Missing(cb'.queue, ReadOf(b))
    <3>1. Missing(cb.queue, ReadOf(b))
      BY <2>1, <1>r DEF ReadOfHalf, Reading, Uploading
    <3> QED BY <2>1, <3>1, <1>k DEF Keeps
  <2>3. CASE TexUpload
    <3>1. PICK n \in 1..MaxBands : pc' = "next" /\ job' = [NoJob EXCEPT !.left = n]
      BY <2>3 DEF TexUpload
    <3>2. job'.sync[b] = -1
      BY <3>1, UploadJob
    <3> QED BY <2>2, <3>1, <3>2 DEF ReadOfHalf, Reading, Uploading
  <2>4. CASE DgaSync
    <3>1. pc' = "wait" /\ job' = [NoJob EXCEPT !.marker = accelMarker]
      BY <2>4 DEF DgaSync
    <3>2. job'.ret = "idle"
      BY <3>1 DEF NoJob
    <3>3. \A m : Followed(cb'.queue, ReadOf(b), m)
      BY <2>2 DEF Missing, Followed
    <3> QED BY <2>2, <3>1, <3>2, <3>3 DEF ReadOfHalf, Reading, Uploading
  <2> QED BY <1>6, <2>3, <2>4
<1>7. CASE TexNext
  <2>1. PICK h \in Halves, r \in {"fill", "idle"} :
           /\ pc = "next" /\ h = (IF job.left > 0 THEN 1 - job.buf ELSE job.buf)
           /\ r = IF job.left > 0 THEN "fill" ELSE "idle"
           /\ pc' = IF job.sync[h] >= 0 THEN "wait" ELSE r
           /\ job'.buf = h /\ job'.ret = r /\ job'.marker = job.sync[h]
           /\ job'.sync = job.sync
    BY <1>7, <1>t, TexNextDoes
  <2>2. cb' = cb
    BY <1>7 DEF TexNext
  <2>3. Uploading
    BY <2>1 DEF Uploading
  <2>4. /\ \A i \in Halves : -1 <= job.sync[i] /\ job.sync[i] <= curMarker
        /\ job.out = 1 => job.sync[job.buf] = curMarker
    BY <2>1, <2>3 DEF MarkInv, JobMarks
  <2>5. CASE job.left > 0
    <3>1. r = "fill" /\ pc' \in {"wait", "fill"}
      BY <2>1, <2>5
    <3>2. Uploading'
      BY <2>1, <3>1 DEF Uploading
    <3>3. pc' = "fill" => Missing(cb.queue, ReadOf(h))
      <4>1. ASSUME pc' = "fill" PROVE job.sync[h] = -1
        BY <4>1, <2>1, <2>4, <1>t
      <4> QED BY <4>1, <2>3, <1>r DEF ReadOfHalf
    <3> QED BY <2>1, <2>2, <2>3, <3>1, <3>2, <3>3, <1>r DEF ReadOfHalf, Reading
  <2>6. CASE ~ (job.left > 0)
    <3>1. h = job.buf /\ r = "idle"
      BY <2>1, <2>6
    <3>2. job.out = 1 /\ job.sync[job.buf] >= 0
      BY <2>1, <2>3, <2>6 DEF JobInv
    <3>3. pc' = "wait" /\ job'.marker = curMarker
      BY <2>1, <2>4, <3>1, <3>2
    <3>4. cb.agpDMA => Followed(cb.queue, ReadOf(b), curMarker)
      <4>1. CASE job.sync[b] = -1
        BY <4>1, <2>3, <1>r, <1>q, MissingLasts DEF ReadOfHalf
      <4>2. ASSUME job.sync[b] # -1, cb.agpDMA PROVE Followed(cb.queue, ReadOf(b), curMarker)
        <5>1. Followed(cb.queue, ReadOf(b), job.sync[b])
          BY <4>2, <2>3, <1>r DEF ReadOfHalf
        <5>2. job.sync[b] \in Int /\ curMarker \in Int /\ job.sync[b] <= curMarker
          BY <2>4, <1>t
        <5> QED BY <5>1, <5>2, <1>q, FollowedLasts
      <4> QED BY <4>1, <4>2
    <3> QED BY <2>1, <2>2, <3>1, <3>3, <3>4 DEF ReadOfHalf, Reading, Uploading
  <2> QED BY <2>5, <2>6
<1>8. CASE TexFill
  <2>1. /\ pc = "fill" /\ pc' = "next"
        /\ \A i \in Halves :
              job'.sync[i] = IF i = job.buf THEN MarkAfter(curMarker) ELSE job.sync[i]
    BY <1>8, <1>t, TexFillDoes
  <2>2. MarkAfter(curMarker) \in Nat
    BY <1>t, MarkerOK
  <2>3. Uploading /\ Uploading'
    BY <2>1 DEF Uploading
  <2>4. CASE b = job.buf
    <3> DEFINE q == Append(cb.queue, ReadOf(job.buf))
    <3>1. job'.sync[b] = MarkAfter(curMarker) /\ job'.sync[b] # -1
      BY <2>1, <2>2, <2>4
    <3>2. cb.agpDMA => cb'.queue = Append(q, <<"mark", MarkAfter(curMarker)>>)
      BY <1>8, TexFillBuffer
    <3>3. q \in Seq(Works) /\ ReadOf(b)[1] # "mark"
      <4>1. ReadOf(job.buf) \in Works
        BY <1>t DEF ReadOf, Works, Halves
      <4> QED BY <4>1, <1>q DEF ReadOf
    <3> HIDE DEF q
    <3>4. cb.agpDMA => Followed(cb'.queue, ReadOf(b), MarkAfter(curMarker))
      BY <2>2, <3>2, <3>3, MarkFollows
    <3> QED BY <1>q, <2>1, <2>3, <3>1, <3>4 DEF ReadOfHalf, Reading
  <2>5. CASE b # job.buf
    <3>1. job'.sync[b] = job.sync[b]
      BY <2>1, <2>5
    <3>2. Keeps(cb.queue, cb'.queue, ReadOf(b))
      BY <2>5, <1>k
    <3>3. IF job.sync[b] = -1 THEN Missing(cb'.queue, ReadOf(b))
          ELSE cb.agpDMA => Followed(cb'.queue, ReadOf(b), job.sync[b])
      BY <2>3, <3>2, <1>r, <1>t DEF ReadOfHalf, Keeps
    <3> QED BY <1>q, <2>1, <2>3, <3>1, <3>3 DEF ReadOfHalf, Reading
  <2> QED BY <2>4, <2>5
<1>9. CASE CpuCopy \/ Blit \/ BlitsEnd \/ BlitSync \/ BounceCopy \/ BlitFails
  <2>1. pc \in Touches /\ pc' \in Touches \cup {"idle"}
    BY <1>9 DEF CpuCopy, Blit, BlitsEnd, BlitSync, BounceCopy, BlitFails, Touches
  <2> QED BY <2>1, <1>n DEF Touches, Reading, Uploading, TexFill
<1>10. CASE SetClippingRectangle \/ XaaSetup \/ XaaSubsequent \/ DgaDraws \/ ClientDraws
  <2>1. pc = "idle" /\ pc' = "idle"
    BY <1>10 DEF SetClippingRectangle, XaaSetup, XaaSubsequent, DgaDraws, ClientDraws, Idle
  <2> QED BY <2>1, <1>n DEF Reading, Uploading, TexFill
<1>11. CASE UNCHANGED vars
  <2>1. UNCHANGED <<pc, job>>
    BY <1>11 DEF vars
  <2> QED BY <2>1, <1>8, <1>u
<1> QED BY <1>1, <1>2, <1>3, <1>4, <1>5, <1>6, <1>7, <1>8, <1>9, <1>10, <1>11
        DEF Next, PrepareSolid, PrepareCopy

-----------------------------------------------------------------------------
(* Nothing is in the queue at first.                                       *)
LEMMA InitMarks == NoWrap /\ Init => MarkInv /\ DrawInv /\ ReadInv
<1> SUFFICES ASSUME NoWrap, Init PROVE MarkInv /\ DrawInv /\ ReadInv
  OBVIOUS
<1>1. /\ cb.queue = <<>> /\ pc = "idle" /\ exaSync = [need |-> FALSE, marker |-> 0]
      /\ curMarker = 0 /\ lastMarkerRead = 0 /\ accelMarker = 0 /\ markerBuf = 0
  BY InitStream DEF Init
<1>2. \A w : Missing(cb.queue, w)
  BY <1>1 DEF Missing
<1>3. Ahead(cb.queue, markerBuf, curMarker)
  BY <1>1 DEF Ahead
<1>4. MarkInv
  BY <1>1, <1>3, AccelAssumption DEF MarkInv, Counters, JobMarks, Drawing, Uploading
<1> QED BY <1>1, <1>2, <1>4 DEF DrawInv, ReadInv, Drawing, HasDrawn, ForCpu, Uploading

(* If the kernel takes what it is given and the markers of a behaviour do  *)
(* not wrap, then on every kind of screen the CPU, where it waits, and the *)
(* DMA engine never come before the drawing of EXA, no half of the AGP     *)
(* memory is filled while the engine may still read from it, and what a    *)
(* one-pixel picture is read ahead of, in viaExaComposite, is drawing that *)
(* EXA knows nobody has waited for (CpuAfterEngine).                       *)
THEOREM CpuWaitsForEngine == Accepted /\ NoWrap => (Spec => []CpuAfterEngine)
<1> SUFFICES ASSUME Accepted, NoWrap PROVE Spec => []CpuAfterEngine
  OBVIOUS
<1> DEFINE Inv == HooksInv /\ StreamInv /\ MarkInv /\ DrawInv /\ ReadInv
<1>1. Init => Inv
  BY InitHooks, InitStream, InitMarks
<1>2. Inv /\ [Next]_vars => Inv'
  <2>1. Inv /\ [Next]_vars => HooksInv' /\ StreamInv'
    BY StepHooks, StepStreamInv DEF HooksInv
  <2>2. Inv /\ [Next]_vars => MarkInv'
    BY StepCounters, StepJobMarks DEF HooksInv, MarkInv
  <2>3. Inv /\ [Next]_vars => DrawInv' /\ ReadInv'
    BY StepDrawInv, StepReadInv DEF HooksInv
  <2> QED BY <2>1, <2>2, <2>3
<1>3. Inv => CpuAfterEngine
  <2> SUFFICES ASSUME Inv PROVE CpuAfterEngine
    OBVIOUS
  <2>1. cb.work = <<>>
    BY QueueIs
  <2>2. ASSUME NEW w, Missing(cb.queue, w) PROVE ~ Pending(w)
    BY <2>1, <2>2 DEF Missing, Pending
  <2>3. ASSUME pc \in {"cpu", "blit", "sync", "bounced"} PROVE ~ Pending(<<"draw", 0>>)
    <3>1. Missing(cb.queue, ADraw)
      BY <2>3 DEF DrawInv, Drawing, HasDrawn, ForCpu
    <3> QED BY <2>2, <3>1 DEF ADraw
  <2>4. ASSUME pc = "fill" PROVE ~ Pending(<<"read", job.buf>>)
    <3>1. Missing(cb.queue, ReadOf(job.buf))
      BY <2>4 DEF ReadInv, Halves
    <3> QED BY <2>2, <3>1 DEF ReadOf
  <2>5. ASSUME ReadsPixel, job.out = 0, Pending(<<"draw", 0>>) PROVE exaSync.need
    <3>1. ~ HasDrawn /\ ~ ForCpu
      BY <2>5 DEF ReadsPixel, HasDrawn, ForCpu
    <3> QED BY <2>2, <2>5, <3>1 DEF DrawInv, ADraw
  <2> QED BY <2>3, <2>4, <2>5 DEF CpuAfterEngine
<1> QED BY <1>1, <1>2, <1>3, PTL DEF Spec
=============================================================================
