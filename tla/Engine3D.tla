------------------------------- MODULE Engine3D -------------------------------
(***************************************************************************)
(* The 3D state of the X server (via_3d.c): which groups of registers are  *)
(* dirty, what emitState writes for them, and how a quad is drawn.  v is   *)
(* the state: dirty groups, the texture units in use, those that blend as  *)
(* a mask, and fresh, the groups whose value in the command stream is the  *)
(* one v holds.                                                            *)
(***************************************************************************)
EXTENDS CommandBuffer

TexGroup(i) == IF i = 0 THEN "tex0" ELSE "tex1"
ColGroup(i) == IF i = 0 THEN "col0" ELSE "col1"
ColGroups == {"col0", "col1"}
Groups == {"dest", "blend", "drawing", "enable", "tex0", "tex1"} \cup ColGroups

\* A zeroed Via3DState: nothing dirty, nothing known of the engine.
Init3DState == [dirty |-> {}, numTextures |-> 0, masks |-> {}, fresh |-> {}]

Dirty(v, gs) == [v EXCEPT !.dirty = @ \cup gs, !.fresh = @ \ gs]

Set3DDestination(v) == Dirty(v, {"drawing", "dest"})
Set3DDrawing(v) == Dirty(v, {"drawing"})
Set3DCompositeOperator(v) == Dirty(v, {"blend"})
Set3DFlags(v, n) == [Dirty(v, {"enable", "blend"}) EXCEPT
                       !.numTextures = n, !.masks = @ \cap 0..(n - 1)]
Set3DTexBlendCol(v, i) == Dirty(v, {ColGroup(i)})

(* Mutant: the constant colour changes and is not marked dirty. *)
TextureOnly(v, i, blending) ==
  [Dirty(v, {TexGroup(i)})
     EXCEPT !.masks = IF blending = "mask" THEN @ \cup {i} ELSE @ \ {i},
            !.fresh = IF blending = "src" THEN @ \ {ColGroup(i)} ELSE @]

(* A texture that blends as the source brings a new constant colour, one   *)
(* with a one-pixel mask leaves that to Set3DTexBlendCol.                  *)
Set3DTexture(v, i, blending) ==
  [Dirty(v, {TexGroup(i)} \cup (IF blending = "src" THEN {ColGroup(i)} ELSE {}))
     EXCEPT !.masks = IF blending = "mask" THEN @ \cup {i} ELSE @ \ {i}]

-----------------------------------------------------------------------------

\* The number of parameters of each group.
Size == [dest |-> 3, blend |-> 6, drawing |-> 4, enable |-> 1,
         tex0 |-> 13, tex1 |-> 13, col0 |-> 2, col1 |-> 2]
Para(g) == IF g \in {"tex0", "col0"} THEN "Tex0"
           ELSE IF g \in {"tex1", "col1"} THEN "Tex1" ELSE "NotTex"
InUse(v) == Groups \ UNION {{TexGroup(i), ColGroup(i)} :
                              i \in {0, 1} \ 0..(v.numTextures - 1)}
Emitted(v, forceUpload) == IF forceUpload THEN InUse(v) ELSE v.dirty \cap InUse(v)

(* Mutant: every texture group restores has3dState. *)
EmitUnimportant(cb, g, textures) ==
  LET c == BeginH2(cb, Para(g), Size[g])
  IN  CASE g = "enable" /\ textures ->
             OutState(BeginH2(OutState(c, 1), "TexGeneral", 2), 2)
        [] g \in ColGroups -> [OutSubA(c, 2) EXCEPT !.has3d = cb.has3d]
        [] OTHER -> [OutState(c, Size[g]) EXCEPT !.has3d = cb.has3d]

(* The enable bits are followed by the number of textures; a constant      *)
(* colour does not count as 3D state for the kernel.                       *)
EmitGroup(cb, g, textures) ==
  LET c == BeginH2(cb, Para(g), Size[g])
  IN  CASE g \in ColGroups -> [OutSubA(c, 2) EXCEPT !.has3d = cb.has3d]
        [] g = "enable" /\ textures ->
             OutState(BeginH2(OutState(c, 1), "TexGeneral", 2), 2)
        [] OTHER -> OutState(c, Size[g])

(* The groups follow each other in a fixed order, each if it is emitted.   *)
EmitIfNeeded(cb, g, v, forceUpload) ==
  IF g \in Emitted(v, forceUpload) THEN EmitGroup(cb, g, v.numTextures > 0) ELSE cb

EmitState(cb, v, forceUpload) ==
  LET Step(c, g) == EmitIfNeeded(c, g, v, forceUpload)
      common   == Step(Step(Step(Step(cb, "dest"), "blend"), "drawing"), "enable")
      textures == Step(Step(common, "tex0"), "tex1")
  IN  Step(Step(textures, "col0"), "col1")

AfterEmit(v, forceUpload) ==
  [v EXCEPT !.dirty = @ \ Emitted(v, forceUpload),
            !.fresh = @ \cup Emitted(v, forceUpload)]

\* "Considered not important for the DRM 3D State".
EmitClipRect(cb) ==
  [OutSubA(BeginH2(cb, "NotTex", 4), 2) EXCEPT !.has3d = cb.has3d]

(* Six vertices of three words and two more per texture, between two       *)
(* commands in front and two behind; reads are the work of the textures.   *)
EmitQuad(cb, v, reads) ==
  LET n == v.numTextures
      c == OutSubA(BeginH2(cb, Vdata, 22 + 6 * n), 22 + 12 * n)
  IN  Flush([c EXCEPT !.work = @ \o reads])

\* The groups a quad depends on that are not what v says they are.
Stale(v) == InUse(v) \ v.fresh
=============================================================================
