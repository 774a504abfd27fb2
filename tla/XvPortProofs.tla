----------------------------- MODULE XvPortProofs -----------------------------
(***************************************************************************)
(* Proofs about the Xv port, for any number of formats, image sizes,       *)
(* positions, clips and blocks of video memory: the port is well typed, its*)
(* color key is where it believes to have painted it, no image is copied   *)
(* into the half of an unchanged surface that the overlay shows, and, until*)
(* a put fails or an image has another size than the last of which the same*)
(* part was shown, an image is copied into memory allocated for it; the    *)
(* overlay reads what it was given, and a put that succeeds shows its image.*)
(***************************************************************************)
EXTENDS XvPort, TLAPS

-----------------------------------------------------------------------------
(* What the functions of via_swov.c make of the surfaces.                  *)

(* The part of TypeOK about the memory of the surfaces.                    *)
MemOK(s) ==
  /\ s.sw # None => s.sw # s.hqv
  /\ s.sw = None <=> s.for = NoImage

(* ViaSwovSurfaceDestroy leaves no created surface.                        *)
LEMMA DestroyedOK ==
  ASSUME NEW s \in Surfaces, MemOK(s)
  PROVE  /\ Destroyed(s) \in Surfaces
         /\ MemOK(Destroyed(s))
         /\ Destroyed(s).created => Destroyed(s).src = s.src
         /\ ~ Destroyed(s).created
<1>1. CASE ~ s.created
  BY <1>1 DEF Destroyed
<1>2. CASE s.created
  <2> DEFINE u == [s EXCEPT !.fourcc = None, !.created = FALSE, !.src = None, !.hqv = None]
  <2>1. u \in Surfaces /\ ~ u.created /\ u.hqv = None /\ u.sw = s.sw /\ u.for = s.for
    BY DEF Surfaces
  <2>2. Destroyed(s) = u \/ Destroyed(s) = [u EXCEPT !.sw = None, !.for = NoImage]
    BY <1>2 DEF Destroyed, Surfaces
  <2> HIDE DEF u
  <2>3. CASE Destroyed(s) = u
    BY <2>1, <2>3 DEF MemOK
  <2>4. CASE Destroyed(s) = [u EXCEPT !.sw = None, !.for = NoImage]
    BY <2>1, <2>4 DEF MemOK, Surfaces
  <2>. QED
    BY <2>2, <2>3, <2>4
<1>. QED
  BY <1>1, <1>2

(* CreateSurface sets the format and keeps the two allocations apart.      *)
LEMMA BufferOK ==
  ASSUME NEW s \in Surfaces, MemOK(s), NEW f \in FourCCs, NEW i \in Sizes,
         NEW n \in WithBuffer(s, f, i)
  PROVE  /\ n \in Surfaces /\ MemOK(n) /\ n.src = f /\ n.fourcc = f
         /\ f # Xvmc /\ n.sw # None => n.for = <<f, i>>
         /\ f = Xvmc \/ n.sw # None => n.dev = i
<1> DEFINE t == [s EXCEPT !.fourcc = f, !.src = f]
           u(b) == [t EXCEPT !.sw = b, !.for = IF b = None THEN NoImage ELSE <<f, i>>,
                             !.dev = IF b = None THEN @ ELSE i]
<1>1. /\ t \in Surfaces /\ t.src = f /\ t.fourcc = f
      /\ t.sw = s.sw /\ t.hqv = s.hqv /\ t.for = s.for
  BY DEF Surfaces
<1>0. t.dev \in Sizes \cup {None}
  BY DEF Surfaces
<1>2. CASE f = Xvmc
  <2>1. n = [t EXCEPT !.dev = i]
    BY <1>2 DEF WithBuffer
  <2>. HIDE DEF t
  <2>2. /\ n \in Surfaces /\ n.dev = i /\ n.src = t.src /\ n.fourcc = t.fourcc
        /\ n.sw = t.sw /\ n.hqv = t.hqv /\ n.for = t.for
    BY <1>1, <2>1 DEF Surfaces
  <2>. QED
    BY <1>1, <1>2, <2>2 DEF MemOK
<1>3. CASE f # Xvmc
  <2>1. PICK b \in Allocs(s.hqv) : n = u(b)
    BY <1>3 DEF WithBuffer
  <2>2. b \in Blocks \cup {None} /\ (b # s.hqv \/ b = None)
    BY <2>1, PortAssumption DEF Allocs
  <2>3. <<f, i>> \in Images /\ <<f, i>> # NoImage
    BY PortAssumption DEF Images, NoImage, FourCCs
  <2>. HIDE DEF t
  <2>4. n \in Surfaces
    <3>1. (IF b = None THEN NoImage ELSE <<f, i>>) \in Images \cup {NoImage}
      BY <2>3
    <3>2. (IF b = None THEN t.dev ELSE i) \in Sizes \cup {None}
      BY <1>0
    <3>3. PICK x \in Images \cup {NoImage}, y \in Sizes \cup {None} :
            n = [t EXCEPT !.sw = b, !.for = x, !.dev = y]
      BY <2>1, <3>1, <3>2
    <3>. QED
      BY <1>1, <2>2, <3>3 DEF Surfaces
  <2>5. /\ n.sw = b /\ n.for = (IF b = None THEN NoImage ELSE <<f, i>>)
        /\ n.hqv = t.hqv /\ n.src = t.src /\ n.fourcc = t.fourcc
        /\ b # None => n.dev = i
    BY <1>1, <2>1 DEF Surfaces
  <2>. QED
    BY <1>1, <1>3, <2>2, <2>3, <2>4, <2>5 DEF MemOK
<1>. QED
  BY <1>2, <1>3

(* So does AddHQVSurface.                                                  *)
LEMMA HQVOK ==
  ASSUME NEW s \in Surfaces, MemOK(s), NEW n \in WithHQV(s)
  PROVE  /\ n \in Surfaces /\ MemOK(n) /\ n.src = s.src
         /\ n.fourcc = s.fourcc /\ n.sw = s.sw /\ n.for = s.for /\ n.dev = s.dev
<1>1. CASE n = s
  BY <1>1
<1>2. CASE n # s
  <2>1. PICK b \in Allocs(s.sw) : n = [s EXCEPT !.hqv = b]
    BY <1>2 DEF WithHQV
  <2>2. b \in Blocks \cup {None} /\ (b # s.sw \/ b = None)
    BY <2>1, PortAssumption DEF Allocs
  <2>3. n \in Surfaces
    BY <2>1, <2>2 DEF Surfaces
  <2>4. /\ n.hqv = b /\ n.sw = s.sw /\ n.for = s.for /\ n.src = s.src
        /\ n.fourcc = s.fourcc /\ n.dev = s.dev
    BY <2>1 DEF Surfaces
  <2>. QED
    BY <2>2, <2>3, <2>4 DEF MemOK
<1>. QED
  BY <1>1, <1>2

(* After ViaSwovSurfaceCreate, successful or not, there is a source format.*)
LEMMA CreationOK ==
  ASSUME NEW s \in Surfaces, MemOK(s), s.created => s.src # None,
         NEW f \in FourCCs, NEW i \in Sizes, NEW n \in Creations(s, f, i)
  PROVE  n.s \in Surfaces /\ MemOK(n.s) /\ n.s.src # None
<1>1. CASE s.created /\ f = s.fourcc
  BY <1>1 DEF Creations
<1>2. CASE ~ (s.created /\ f = s.fourcc)
  <2> DEFINE N == UNION {WithHQV(t) : t \in WithBuffer(s, f, i)}
             Result(m) == IF m.hqv = None \/ (f # Xvmc /\ m.sw = None)
                            THEN [ok |-> FALSE, s |-> m]
                            ELSE [ok |-> TRUE,
                                  s |-> [m EXCEPT !.created = TRUE, !.on = TRUE]]
  <2>1. PICK m \in N : n = Result(m)
    BY <1>2 DEF Creations
  <2>2. PICK t \in WithBuffer(s, f, i) : m \in WithHQV(t)
    OBVIOUS
  <2>3. t \in Surfaces /\ MemOK(t) /\ t.src = f
    BY <2>2, BufferOK
  <2>4. m \in Surfaces /\ MemOK(m) /\ m.src = f
    BY <2>2, <2>3, HQVOK
  <2>5. f # None
    BY PortAssumption DEF FourCCs
  <2>6. n.s = m \/ n.s = [m EXCEPT !.created = TRUE, !.on = TRUE]
    BY <2>1
  <2> HIDE DEF N, Result
  <2>. QED
    BY <2>4, <2>5, <2>6 DEF Surfaces, MemOK
<1>. QED
  BY <1>1, <1>2

(* The same of the surfaces viaPutImage goes on with.                      *)
LEMMA SurfacesForOK ==
  ASSUME surf \in Surfaces, MemOK(surf), surf.created => surf.src # None,
         NEW f \in FourCCs, NEW z \in Sizes, NEW i \in Sizes, NEW n \in SurfacesFor(f, z, i)
  PROVE  n.s \in Surfaces /\ MemOK(n.s) /\ n.s.src # None
<1> DEFINE s == IF oldSrc # z THEN Destroyed(surf) ELSE surf
<1>1. s \in Surfaces /\ MemOK(s) /\ (s.created => s.src # None)
  BY DestroyedOK
<1>2. n \in Creations(s, f, i)
  BY DEF SurfacesFor
<1> HIDE DEF s
<1>. QED
  BY <1>1, <1>2, CreationOK

-----------------------------------------------------------------------------
(* Types, and what the engine, the port and the frame counter have to do   *)
(* with each other: an engine that is on belongs to a port that is on,     *)
(* which has surfaces and a place, and shows the buffer that is not next.  *)
PortInv ==
  /\ hw.on => portOn
  /\ portOn \/ surf.created => surf.src # None
  /\ portOn => oldDrw # None
  /\ portOn /\ shown # None => shown[2] = 1 - frame

(* Programming the engine keeps its type.                                  *)
LEMMA UpdateOverlayOK ==
  ASSUME hw \in Engine, NEW s \in Surfaces, NEW z \in Sizes \cup {None},
         NEW p \in Positions, NEW d \in Dims, NEW q \in Pans, UpdateOverlay(s, z, p, d, q)
  PROVE  hw' \in Engine /\ oldPan' = q
BY DEF UpdateOverlay, Engine, Surfaces

(* Painting the key leaves a clip.                                         *)
LEMMA PaintKeyOK ==
  ASSUME clip \in Clips \cup {None}, painted \in Keys \cup {None},
         colorKey \in Keys, NEW c \in Clips, PaintKey(c)
  PROVE  clip' \in Clips /\ painted' \in Keys \cup {None}
BY DEF PaintKey

(* A copy goes into one of the two buffers.                                *)
LEMMA CopyImageOK ==
  ASSUME NEW s \in Surfaces, NEW f \in FourCCs, NEW z \in Sizes, NEW i \in Sizes, frame \in {0, 1},
         CopyImage(s, f, z, i)
  PROVE  copy' \in [fits : BOOLEAN, anew : BOOLEAN, clash : BOOLEAN]
BY DEF CopyImage, Surfaces, Images, Buffers

(* viaReputImage keeps the types, on a port that has a place.              *)
LEMMA ReputType ==
  ASSUME TypeOK, NEW p \in Positions, NEW c \in Clips, NEW q \in Pans,
         oldDrw # None, pan' = q, ReputImage(p, c, q)
  PROVE  TypeOK'
<1>1. surf \in Surfaces /\ surf' = surf
  BY DEF TypeOK, ReputImage
<1>2. oldDrw \in Positions \X Dims /\ oldDrw[2] \in Dims
  BY DEF TypeOK
<1>3. hw' \in Engine /\ oldPan' \in Pans /\ oldDrw' \in Positions \X Dims
  <2>1. CASE p = oldDrw[1] /\ oldPan = q
    BY <1>2, <2>1 DEF ReputImage, TypeOK
  <2>2. CASE ~ (p = oldDrw[1] /\ oldPan = q)
    <3>1. oldDrw' = <<p, oldDrw[2]>> /\ UpdateOverlay(surf, oldSrc, p, oldDrw[2], q)
      BY <2>2 DEF ReputImage
    <3>2. hw \in Engine /\ oldSrc \in Sizes \cup {None}
      BY DEF TypeOK
    <3>3. hw' \in Engine /\ oldPan' = q
      BY <1>1, <1>2, <3>1, <3>2, UpdateOverlayOK
    <3>. QED
      BY <1>2, <3>1, <3>3
  <2>. QED
    BY <2>1, <2>2
<1>4. clip' \in Clips /\ painted' \in Keys \cup {None}
  BY PaintKeyOK DEF TypeOK, ReputImage
<1>. QED
  BY <1>1, <1>3, <1>4 DEF TypeOK, ReputImage, history

(* viaPutImage keeps the types, and leaves surfaces and a place.           *)
LEMMA PutType ==
  ASSUME TypeOK, PortInv, NEW f \in FourCCs, NEW z \in Sizes, NEW i \in Sizes, NEW p \in Positions,
         NEW d \in Dims, NEW c \in Clips, PutImage(f, z, i, p, d, c)
  PROVE  TypeOK' /\ surf'.src # None /\ oldDrw' # None
<1>1. PICK n \in SurfacesFor(f, z, i) :
        /\ IF f = Xvmc THEN copy' = None ELSE CopyImage(n.s, f, z, i)
        /\ Flip(n.s, f)
        /\ IF SameAsBefore(n.s, z, p, d, c)
             THEN surf' = n.s /\ UNCHANGED <<portVars, hw, painted, oldPan>>
             ELSE /\ surf' = [n.s EXCEPT !.on = TRUE]
                  /\ oldSrc' = z /\ oldDrw' = <<p, d>>
                  /\ PaintKey(c)
                  /\ UpdateOverlay(n.s, z, p, d, pan)
  BY DEF PutImage
<1>2. n.s \in Surfaces /\ MemOK(n.s) /\ n.s.src # None
  BY SurfacesForOK DEF TypeOK, PortInv, MemOK
<1>3. surf' \in Surfaces /\ MemOK(surf') /\ surf'.src # None
  BY <1>1, <1>2 DEF Surfaces, MemOK
<1>4. copy' \in [fits : BOOLEAN, anew : BOOLEAN, clash : BOOLEAN] \cup {None}
  BY <1>1, <1>2, CopyImageOK DEF TypeOK
<1>5. shown' \in Buffers \cup {None}
  BY <1>1, <1>2 DEF Flip, Buffers, Surfaces, TypeOK
<1>6. /\ hw' \in Engine /\ oldPan' \in Pans
      /\ oldSrc' \in Sizes \cup {None}
      /\ oldDrw' \in (Positions \X Dims) \cup {None} /\ oldDrw' # None
      /\ clip' \in Clips \cup {None}
      /\ painted' \in Keys \cup {None}
  <2>0. <<p, d>> \in Positions \X Dims /\ <<p, d>> # None
    BY PortAssumption
  <2>1. CASE SameAsBefore(n.s, z, p, d, c)
    BY <1>1, <2>0, <2>1 DEF SameAsBefore, TypeOK, portVars
  <2>2. CASE ~ SameAsBefore(n.s, z, p, d, c)
    <3>1. hw' \in Engine /\ oldPan' = pan
      BY <1>1, <1>2, <2>2, UpdateOverlayOK DEF TypeOK
    <3>2. clip' \in Clips /\ painted' \in Keys \cup {None}
      BY <1>1, <2>2, PaintKeyOK DEF TypeOK
    <3>. QED
      BY <1>1, <2>0, <2>2, <3>1, <3>2 DEF TypeOK
  <2>. QED
    BY <2>1, <2>2
<1>7. missed' \subseteq {"refused", "noMemory", "switched", "resized"}
  BY DEF PutImage, Unnoticed, TypeOK
<1>8. /\ colorKey' \in Keys /\ pan' \in Pans /\ frame' \in {0, 1}
      /\ supported' \in BOOLEAN /\ bandwidth' \in BOOLEAN /\ portOn' \in BOOLEAN
      /\ oldImage' \in Sizes \cup {None} /\ autoPaint' \in BOOLEAN /\ remade' \in BOOLEAN
  <2>1. /\ UNCHANGED <<colorKey, autoPaint, pan, bandwidth>>
        /\ oldImage' = i /\ remade' = FALSE /\ supported' = TRUE /\ frame' = 1 - frame
        /\ portOn' = TRUE
    BY DEF PutImage
  <2>2. /\ colorKey \in Keys /\ pan \in Pans /\ frame \in {0, 1}
        /\ bandwidth \in BOOLEAN /\ autoPaint \in BOOLEAN
    BY DEF TypeOK
  <2>3. frame' \in {0, 1}
    BY <2>1, <2>2
  <2>4. /\ supported' \in BOOLEAN /\ portOn' \in BOOLEAN /\ remade' \in BOOLEAN
        /\ bandwidth' \in BOOLEAN /\ autoPaint' \in BOOLEAN
    BY <2>1, <2>2, Zenon
  <2>. QED
    BY <2>1, <2>2, <2>3, <2>4
<1>. QED
  BY <1>3, <1>4, <1>5, <1>6, <1>7, <1>8 DEF TypeOK, MemOK

(* All four hold when the port is set up.                                  *)
LEMMA InitOK == Init => TypeOK /\ PortInv /\ KeyPainted /\ DrawsOffScreen
<1> SUFFICES ASSUME Init PROVE TypeOK /\ PortInv /\ KeyPainted /\ DrawsOffScreen
  OBVIOUS
<1>1. surf \in Surfaces /\ surf.sw = None /\ surf.for = NoImage /\ ~ surf.created
  BY DEF Init, NoSurface, Surfaces
<1>2. hw \in Engine /\ ~ hw.on
  BY DEF Init, Engine
<1>3. TypeOK
  BY <1>1, <1>2 DEF Init, TypeOK
<1>4. PortInv
  BY <1>1, <1>2 DEF Init, PortInv
<1>. QED
  BY <1>3, <1>4 DEF Init, KeyPainted, DrawsOffScreen

(* ViaOverlayHide switches the engine off if there is a source format.     *)
LEMMA HideOK ==
  ASSUME hw \in Engine, Hide
  PROVE  /\ hw' \in Engine
         /\ hw'.on => hw.on
         /\ surf.src # None => ~ hw'.on
BY DEF Hide, Engine

(* A viaPutImage that ends early leaves surfaces with a format.            *)
LEMMA FailType ==
  ASSUME TypeOK, PortInv, NEW f \in FourCCs, NEW z \in Sizes, NEW i \in Sizes, PutImageFails(f, z, i)
  PROVE  TypeOK' /\ surf'.src # None
<1>1. PICK n \in SurfacesFor(f, z, i) : 
         /\ surf' = n.s 
         /\ copy' = None \/ CopyImage(n.s, f, z, i)
  BY DEF PutImageFails
<1>2. n.s \in Surfaces /\ MemOK(n.s) /\ n.s.src # None
  BY SurfacesForOK DEF TypeOK, PortInv, MemOK
<1>3. copy' \in [fits : BOOLEAN, anew : BOOLEAN, clash : BOOLEAN] \cup {None}
  BY <1>1, <1>2, CopyImageOK DEF TypeOK
<1>4. missed' \subseteq {"refused", "noMemory", "switched", "resized"}
  BY DEF PutImageFails, Unnoticed, TypeOK
<1>. QED
  BY <1>1, <1>2, <1>3, <1>4 DEF PutImageFails, TypeOK, MemOK, portVars, modeVars

(* viaStopVideo leaves none.                                               *)
LEMMA StopType ==
  ASSUME TypeOK, PortInv, StopVideo
  PROVE  TypeOK' /\ (surf'.created => surf'.src # None)
<1> DEFINE s == [surf EXCEPT !.on = FALSE]
<1>1. s \in Surfaces /\ MemOK(s)
  BY DEF TypeOK, Surfaces, MemOK
<1>2. surf' = Destroyed(s)
  BY DEF StopVideo
<1> HIDE DEF s
<1>3. surf' \in Surfaces /\ MemOK(surf') /\ ~ surf'.created
  BY <1>1, <1>2, DestroyedOK
<1>4. hw' \in Engine
  BY HideOK DEF StopVideo, TypeOK
<1>5. copy' = None /\ missed' \subseteq {"refused", "noMemory", "switched", "resized"}
  BY DEF StopVideo, Recovered, TypeOK
<1>. QED
  BY <1>3, <1>4, <1>5 DEF StopVideo, TypeOK, MemOK, modeVars

(* Every request keeps the types.                                          *)
LEMMA NextType == TypeOK /\ PortInv /\ [Next]_vars => TypeOK'
<1> SUFFICES ASSUME TypeOK, PortInv, [Next]_vars PROVE TypeOK'
  OBVIOUS
<1>1. CASE AnyPut
  BY <1>1, PutType DEF AnyPut
<1>2. ASSUME NEW f \in FourCCs, NEW z \in Sizes, NEW i \in Sizes, PutImageFails(f, z, i)  PROVE TypeOK'
  BY <1>2, FailType
<1>3. ASSUME NEW p \in Positions, NEW c \in Clips, MoveWindow(p, c)  PROVE TypeOK'
  BY <1>3, ReputType DEF MoveWindow, TypeOK, PortInv
<1>4. ASSUME NEW q \in Pans, AdjustFrame(q)  PROVE TypeOK'
  <2>1. CASE portOn /\ clip # None
    <3>1. oldDrw # None /\ oldDrw[1] \in Positions /\ clip \in Clips /\ pan' = q
      BY <1>4, <2>1 DEF TypeOK, PortInv, AdjustFrame
    <3>. QED
      BY <1>4, <2>1, <3>1, ReputType DEF AdjustFrame
  <2>2. CASE ~ (portOn /\ clip # None)
    BY <1>4, <2>2 DEF AdjustFrame, TypeOK, portVars, history
  <2>. QED
    BY <2>1, <2>2
<1>5. ASSUME NEW b \in BOOLEAN, SetMode(b)  PROVE TypeOK'
  <2>1. /\ bandwidth' \in BOOLEAN /\ supported' \in BOOLEAN /\ copy' = None
        /\ UNCHANGED <<surf, portVars, colorKey, autoPaint, pan, oldPan, frame, portOn, hw,
                       shown, painted, history>>
    BY <1>5 DEF SetMode
  <2>. QED
    BY <2>1 DEF TypeOK, portVars, history
<1>6. ASSUME NEW k \in Keys, SetColorKey(k)  PROVE TypeOK'
  BY <1>6 DEF SetColorKey, TypeOK, modeVars, history
<1>7. CASE XvmcHides
  <2>1. hw' \in Engine
    BY <1>7, HideOK DEF XvmcHides, TypeOK
  <2>2. surf' \in Surfaces /\ MemOK(surf')
    BY <1>7 DEF XvmcHides, TypeOK, Surfaces, MemOK
  <2>. QED
    BY <1>7, <2>1, <2>2 DEF XvmcHides, TypeOK, MemOK, portVars, modeVars, history
<1>8. CASE PauseVideo
  BY <1>8 DEF PauseVideo, TypeOK, modeVars, history
<1>9. CASE StopVideo
  BY <1>9, StopType
<1>10. CASE UNCHANGED vars
  BY <1>10 DEF vars, portVars, modeVars, history, TypeOK
<1>11. ASSUME NEW a \in BOOLEAN, SetAutoPaint(a)  PROVE TypeOK'
  BY <1>11 DEF SetAutoPaint, TypeOK, portVars, modeVars, history
<1>. QED
  BY <1>1, <1>2, <1>3, <1>4, <1>5, <1>6, <1>7, <1>8, <1>9, <1>10, <1>11 DEF Next

(* viaReputImage may switch the engine on, but only for a port that is on. *)
LEMMA ReputInv ==
  ASSUME TypeOK, PortInv, portOn, NEW p \in Positions, NEW c \in Clips, NEW q \in Pans,
         ReputImage(p, c, q)
  PROVE  PortInv'
BY PortAssumption DEF ReputImage, PortInv, TypeOK

(* Every request keeps PortInv.                                            *)
LEMMA NextInv == TypeOK /\ PortInv /\ [Next]_vars => PortInv'
<1> SUFFICES ASSUME TypeOK, PortInv, [Next]_vars PROVE PortInv'
  OBVIOUS
<1>1. ASSUME NEW f \in FourCCs, NEW z \in Sizes, NEW i \in Sizes, NEW p \in Positions, NEW d \in Dims,
             NEW c \in Clips, PutImage(f, z, i, p, d, c)
      PROVE  PortInv'
  <2>1. surf'.src # None /\ oldDrw' # None
    BY <1>1, PutType
  <2>2. portOn' /\ frame' = 1 - frame /\ frame \in {0, 1}
    BY <1>1 DEF PutImage, TypeOK
  <2>3. shown' # None => shown'[2] = frame
    BY <1>1 DEF PutImage, Flip
  <2>. QED
    BY <2>1, <2>2, <2>3 DEF PortInv
<1>2. ASSUME NEW f \in FourCCs, NEW z \in Sizes, NEW i \in Sizes, PutImageFails(f, z, i)  PROVE PortInv'
  <2>1. surf'.src # None
    BY <1>2, FailType
  <2>. QED
    BY <1>2, <2>1 DEF PutImageFails, PortInv, portVars
<1>3. ASSUME NEW p \in Positions, NEW c \in Clips, MoveWindow(p, c)  PROVE PortInv'
  BY <1>3, ReputInv DEF MoveWindow, TypeOK
<1>4. ASSUME NEW q \in Pans, AdjustFrame(q)  PROVE PortInv'
  <2>1. CASE portOn /\ clip # None
    <3>1. oldDrw[1] \in Positions /\ clip \in Clips
      BY <2>1 DEF TypeOK, PortInv
    <3>. QED
      BY <1>4, <2>1, <3>1, ReputInv DEF AdjustFrame
  <2>2. CASE ~ (portOn /\ clip # None)
    BY <1>4, <2>2 DEF AdjustFrame, PortInv, portVars
  <2>. QED
    BY <2>1, <2>2
<1>5. ASSUME NEW b \in BOOLEAN, SetMode(b)  PROVE PortInv'
  BY <1>5 DEF SetMode, PortInv, portVars
<1>6. ASSUME NEW k \in Keys, SetColorKey(k)  PROVE PortInv'
  BY <1>6 DEF SetColorKey, PortInv
<1>7. CASE XvmcHides
  <2>1. hw'.on => hw.on
    BY <1>7, HideOK DEF XvmcHides, TypeOK
  <2>2. surf'.src = surf.src /\ surf'.created = surf.created
    BY <1>7 DEF XvmcHides, TypeOK, Surfaces
  <2>. QED
    BY <1>7, <2>1, <2>2 DEF XvmcHides, PortInv, portVars
<1>8. CASE PauseVideo
  BY <1>8 DEF PauseVideo, PortInv
<1>9. CASE StopVideo
  <2>1. ~ hw'.on
    BY <1>9, HideOK DEF StopVideo, TypeOK, PortInv
  <2>2. surf'.created => surf'.src # None
    BY <1>9, StopType
  <2>. QED
    BY <1>9, <2>1, <2>2 DEF StopVideo, PortInv
<1>10. CASE UNCHANGED vars
  BY <1>10 DEF vars, portVars, PortInv
<1>11. ASSUME NEW a \in BOOLEAN, SetAutoPaint(a)  PROVE PortInv'
  BY <1>11 DEF SetAutoPaint, PortInv, portVars
<1>. QED
  BY <1>1, <1>2, <1>3, <1>4, <1>5, <1>6, <1>7, <1>8, <1>9, <1>10, <1>11 DEF Next, AnyPut

-----------------------------------------------------------------------------
(* Every request keeps the painted key in step with what the port believes.*)
LEMMA NextKey == TypeOK /\ KeyPainted /\ [Next]_vars => KeyPainted'
<1> SUFFICES ASSUME TypeOK, KeyPainted, [Next]_vars PROVE KeyPainted'
  OBVIOUS
<1>0. ASSUME NEW c \in Clips, PaintKey(c), UNCHANGED colorKey  PROVE KeyPainted'
  BY <1>0, PortAssumption DEF PaintKey, KeyPainted
<1>1. ASSUME NEW f \in FourCCs, NEW z \in Sizes, NEW i \in Sizes, NEW p \in Positions, NEW d \in Dims,
             NEW c \in Clips, PutImage(f, z, i, p, d, c)
      PROVE  KeyPainted'
  <2>1. UNCHANGED <<clip, painted>> \/ PaintKey(c)
    BY <1>1 DEF PutImage, portVars
  <2>. QED
    BY <1>0, <1>1, <2>1 DEF PutImage, KeyPainted
<1>2. ASSUME NEW p \in Positions, NEW c \in Clips, NEW q \in Pans, ReputImage(p, c, q)
      PROVE  KeyPainted'
  BY <1>0, <1>2 DEF ReputImage
<1>3. ASSUME NEW q \in Pans, AdjustFrame(q)  PROVE KeyPainted'
  BY <1>2, <1>3 DEF AdjustFrame, ReputImage, PaintKey, KeyPainted, portVars
<1>4. CASE \/ \E f \in FourCCs, z, i \in Sizes : PutImageFails(f, z, i)
           \/ \E b \in BOOLEAN : SetMode(b)
           \/ \E a \in BOOLEAN : SetAutoPaint(a)
           \/ XvmcHides
  BY <1>4 DEF PutImageFails, SetMode, SetAutoPaint, XvmcHides, KeyPainted, portVars
<1>5. CASE (\E k \in Keys : SetColorKey(k)) \/ PauseVideo \/ StopVideo
  BY <1>5 DEF SetColorKey, PauseVideo, StopVideo, KeyPainted
<1>6. CASE UNCHANGED vars
  BY <1>6 DEF vars, portVars, KeyPainted
<1>7. ASSUME NEW p \in Positions, NEW c \in Clips, MoveWindow(p, c)  PROVE KeyPainted'
  BY <1>2, <1>7 DEF MoveWindow, TypeOK
<1>. QED
  BY <1>1, <1>3, <1>4, <1>5, <1>6, <1>7 DEF Next, AnyPut

(* PortInv is what keeps a copy off the screen.                            *)
LEMMA CopyOff ==
  ASSUME TypeOK, PortInv, NEW s \in Surfaces, NEW f, NEW z, NEW i, CopyImage(s, f, z, i)
  PROVE  ~ copy'.anew => ~ copy'.clash
<1> DEFINE anew == remade \/ ~ Kept(f, z)
<1>1. copy'.anew = anew
      /\ copy'.clash = (/\ hw.on /\ shown # None
                        /\ shown[1] = s.sw /\ (anew \/ shown[2] = frame))
  BY DEF CopyImage
<1>2. hw.on /\ shown # None => shown[2] = 1 - frame /\ frame \in {0, 1}
  BY DEF PortInv, TypeOK
<1>3. hw.on /\ shown # None => shown[2] # frame
  BY <1>2
<1>. QED
  BY <1>1, <1>3

(* Every request that copies an image copies it off the screen.            *)
LEMMA NextOff == TypeOK /\ PortInv /\ DrawsOffScreen /\ [Next]_vars => DrawsOffScreen'
<1> SUFFICES ASSUME TypeOK, PortInv, DrawsOffScreen, [Next]_vars PROVE DrawsOffScreen'
  OBVIOUS
<1>0. ASSUME UNCHANGED copy \/ copy' = None  PROVE DrawsOffScreen'
  BY <1>0 DEF DrawsOffScreen
<1>1. ASSUME NEW f \in FourCCs, NEW z \in Sizes, NEW i \in Sizes,
             NEW n \in SurfacesFor(f, z, i), copy' = None \/ CopyImage(n.s, f, z, i)
      PROVE  DrawsOffScreen'
  <2>1. n.s \in Surfaces
    BY SurfacesForOK DEF TypeOK, PortInv, MemOK
  <2>. QED
    BY <1>0, <1>1, <2>1, CopyOff DEF DrawsOffScreen
<1>2. ASSUME NEW f \in FourCCs, NEW z \in Sizes, NEW i \in Sizes, NEW p \in Positions,
             NEW d \in Dims, NEW c \in Clips, PutImage(f, z, i, p, d, c)
      PROVE  DrawsOffScreen'
  BY <1>1, <1>2 DEF PutImage
<1>3. ASSUME NEW f \in FourCCs, NEW z \in Sizes, NEW i \in Sizes, PutImageFails(f, z, i)
      PROVE  DrawsOffScreen'
  BY <1>1, <1>3 DEF PutImageFails
<1>4. CASE \/ \E p \in Positions, c \in Clips : MoveWindow(p, c)
           \/ \E q \in Pans : AdjustFrame(q)
           \/ \E b \in BOOLEAN : SetMode(b)
           \/ \E k \in Keys : SetColorKey(k)
           \/ \E a \in BOOLEAN : SetAutoPaint(a)
           \/ XvmcHides \/ PauseVideo \/ StopVideo
           \/ UNCHANGED vars
  BY <1>0, <1>4 DEF MoveWindow, AdjustFrame, ReputImage, SetMode, SetColorKey, SetAutoPaint,
     XvmcHides, PauseVideo, StopVideo, vars
<1>. QED
  BY <1>2, <1>3, <1>4 DEF Next, AnyPut

-----------------------------------------------------------------------------
(* The port is well typed; its two kinds of surface never share memory.    *)
THEOREM TypeCorrect == Spec => []TypeOK
<1>1. TypeOK /\ PortInv /\ [Next]_vars => (TypeOK /\ PortInv)'
  BY NextType, NextInv
<1>. QED
  BY InitOK, <1>1, PTL DEF Spec

(* An engine that is on belongs to a port that is on.                      *)
THEOREM PortInvariant == Spec => []PortInv
<1>1. TypeOK /\ PortInv /\ [Next]_vars => (TypeOK /\ PortInv)'
  BY NextType, NextInv
<1>. QED
  BY InitOK, <1>1, PTL DEF Spec

(* Where the port believes to have painted its color key, viaPutImage and  *)
(* viaReputImage have painted the present one.                             *)
THEOREM KeyWherePainted == Spec => []KeyPainted
BY InitOK, NextKey, TypeCorrect, PTL DEF Spec

(* As long as the surface is the one whose half the overlay shows,         *)
(* viaPutImage copies no image into that half, although XvMC, stops and    *)
(* failed puts use the same frame counter.                                 *)
THEOREM CopiesOffScreen == Spec => []DrawsOffScreen
BY InitOK, NextOff, TypeCorrect, PortInvariant, PTL DEF Spec

-----------------------------------------------------------------------------
(* The surface was made for an image of size i.                            *)
Fits(s, i) ==
  s.created => s.dev = i /\ (s.fourcc # Xvmc => s.for = <<s.fourcc, i>>)

(* ViaSwovSurfaceCreate that succeeds leaves memory for its image.         *)
LEMMA CreationFits ==
  ASSUME NEW s \in Surfaces, MemOK(s), NEW f \in FourCCs, NEW i \in Sizes,
         Fits(s, i) \/ s.fourcc # f, NEW n \in Creations(s, f, i), n.ok
  PROVE  /\ n.s \in Surfaces
         /\ n.s.fourcc = f /\ n.s.dev = i
         /\ f # Xvmc => n.s.for = <<f, i>>
<1>1. CASE s.created /\ f = s.fourcc
  BY <1>1 DEF Creations, Fits
<1>2. CASE ~ (s.created /\ f = s.fourcc)
  <2> DEFINE N == UNION {WithHQV(t) : t \in WithBuffer(s, f, i)}
             Result(m) == IF m.hqv = None \/ (f # Xvmc /\ m.sw = None)
                            THEN [ok |-> FALSE, s |-> m]
                            ELSE [ok |-> TRUE,
                                  s |-> [m EXCEPT !.created = TRUE, !.on = TRUE]]
  <2>1. PICK m \in N : n = Result(m)
    BY <1>2 DEF Creations
  <2>2. PICK t \in WithBuffer(s, f, i) : m \in WithHQV(t)
    OBVIOUS
  <2>3. /\ t \in Surfaces /\ MemOK(t) /\ t.fourcc = f
        /\ f # Xvmc /\ t.sw # None => t.for = <<f, i>>
        /\ f = Xvmc \/ t.sw # None => t.dev = i
    BY <2>2, BufferOK
  <2>4. /\ m \in Surfaces /\ m.fourcc = f /\ m.sw = t.sw /\ m.for = t.for
        /\ m.dev = t.dev
    BY <2>2, <2>3, HQVOK
  <2>5. /\ f # Xvmc => m.sw # None
        /\ n.s = [m EXCEPT !.created = TRUE, !.on = TRUE]
    BY <2>1
  <2> HIDE DEF N, Result
  <2>. QED
    BY <2>3, <2>4, <2>5 DEF Surfaces
<1>. QED
  BY <1>1, <1>2

(* No put has failed, and none has shown the same part of another image,   *)
(* that the port has not recovered from.                                   *)
Noticed == missed \cap {"refused", "noMemory", "resized"} = {}

(* What has to be known to show SurfaceFitsImage inductively.              *)
FitInv == Noticed => Fits(surf, oldImage) /\ CopyFits

(* Every request keeps it.                                                 *)
LEMMA NextFits == TypeOK /\ FitInv /\ [Next]_vars => FitInv'
<1> SUFFICES ASSUME TypeOK, FitInv, [Next]_vars PROVE FitInv'
  OBVIOUS
<1>1. ASSUME NEW f \in FourCCs, NEW z \in Sizes, NEW i \in Sizes,
             NEW n \in SurfacesFor(f, z, i), n.ok, Fits(surf, oldImage),
             "resized" \notin Unnoticed(f, z, i)
      PROVE  /\ n.s \in Surfaces
             /\ n.s.fourcc = f /\ n.s.dev = i
             /\ f # Xvmc => n.s.for = <<f, i>>
  <2> DEFINE s == IF oldSrc # z THEN Destroyed(surf) ELSE surf
  <2>1. s \in Surfaces /\ MemOK(s) /\ Fits(s, i)
    <3>1. surf \in Surfaces /\ MemOK(surf)
      BY DEF TypeOK, MemOK
    <3>2. Destroyed(surf) \in Surfaces /\ MemOK(Destroyed(surf)) /\ ~ Destroyed(surf).created
      BY <3>1, DestroyedOK
    <3>3. oldSrc = z /\ surf.created => oldImage = i
      BY <1>1 DEF Unnoticed
    <3>. QED
      BY <1>1, <3>1, <3>2, <3>3 DEF Fits
  <2>2. n \in Creations(s, f, i)
    BY DEF SurfacesFor
  <2> HIDE DEF s
  <2>. QED
    BY <1>1, <2>1, <2>2, CreationFits
<1>2. ASSUME NEW f \in FourCCs, NEW z \in Sizes, NEW i \in Sizes, NEW p \in Positions,
             NEW d \in Dims, NEW c \in Clips, PutImage(f, z, i, p, d, c)
      PROVE  FitInv'
  <2>0. SUFFICES ASSUME Noticed' PROVE Fits(surf, oldImage)' /\ CopyFits'
    BY DEF FitInv
  <2>00. Fits(surf, oldImage) /\ "resized" \notin Unnoticed(f, z, i) /\ oldImage' = i
    BY <1>2, <2>0 DEF FitInv, Noticed, PutImage
  <2>1. PICK n \in SurfacesFor(f, z, i) :
          /\ n.ok
          /\ IF f = Xvmc THEN copy' = None ELSE CopyImage(n.s, f, z, i)
          /\ surf' = n.s \/ surf' = [n.s EXCEPT !.on = TRUE]
    BY <1>2 DEF PutImage
  <2>2. n.s \in Surfaces /\ n.s.fourcc = f /\ n.s.dev = i /\ (f # Xvmc => n.s.for = <<f, i>>)
    BY <1>1, <2>00, <2>1
  <2>3. surf'.fourcc = f /\ surf'.for = n.s.for /\ surf'.dev = i
    BY <2>1, <2>2 DEF Surfaces
  <2>4. Fits(surf, oldImage)'
    BY <2>00, <2>2, <2>3 DEF Fits
  <2>5. CopyFits'
    <3>1. CASE f = Xvmc
      BY <2>1, <3>1 DEF CopyFits
    <3>2. CASE f # Xvmc
      <4>1. copy'.fits = (n.s.for = <<f, i>>)
        BY <2>1, <3>2 DEF CopyImage
      <4>. QED
        BY <2>2, <3>2, <4>1 DEF CopyFits
    <3>. QED
      BY <3>1, <3>2
  <2>. QED
    BY <2>4, <2>5
<1>3. ASSUME NEW f \in FourCCs, NEW z \in Sizes, NEW i \in Sizes, PutImageFails(f, z, i)
      PROVE  FitInv'
  BY <1>3 DEF PutImageFails, FitInv, Noticed
<1>4. ASSUME UNCHANGED <<surf, oldImage, missed>>, UNCHANGED copy \/ copy' = None
      PROVE  FitInv'
  BY <1>4 DEF FitInv, Noticed, Fits, CopyFits
<1>5. CASE \/ \E p \in Positions, c \in Clips : MoveWindow(p, c)
           \/ \E q \in Pans : AdjustFrame(q)
           \/ \E b \in BOOLEAN : SetMode(b)
           \/ \E k \in Keys : SetColorKey(k)
           \/ \E a \in BOOLEAN : SetAutoPaint(a)
           \/ PauseVideo
           \/ UNCHANGED vars
  BY <1>4, <1>5 DEF MoveWindow, AdjustFrame, ReputImage, SetMode, SetColorKey, SetAutoPaint,
     PauseVideo, vars, history
<1>6. CASE XvmcHides
  <2>1. /\ surf'.created = surf.created /\ surf'.fourcc = surf.fourcc
        /\ surf'.for = surf.for /\ surf'.dev = surf.dev
    BY <1>6 DEF XvmcHides, TypeOK, Surfaces
  <2>. QED
    BY <1>6, <2>1 DEF XvmcHides, history, FitInv, Noticed, Fits, CopyFits
<1>7. CASE StopVideo
  <2> DEFINE s == [surf EXCEPT !.on = FALSE]
  <2>1. s \in Surfaces /\ MemOK(s)
    BY DEF TypeOK, Surfaces, MemOK
  <2>2. surf' = Destroyed(s)
    BY <1>7 DEF StopVideo
  <2> HIDE DEF s
  <2>3. ~ surf'.created
    BY <2>1, <2>2, DestroyedOK
  <2>. QED
    BY <1>7, <2>3 DEF StopVideo, FitInv, Fits, CopyFits
<1>. QED
  BY <1>2, <1>3, <1>5, <1>6, <1>7 DEF Next, AnyPut

(* FitInv holds of every state.                                            *)
THEOREM FitInvariant == Spec => []FitInv
<1>1. Init => FitInv
  BY DEF Init, FitInv, Fits, CopyFits, NoSurface
<1>. QED
  BY <1>1, NextFits, TypeCorrect, PTL DEF Spec

(* Until an allocation, a blit or a check of the bandwidth fails, or an    *)
(* image has another size than the last of which the same part was shown,  *)
(* and again after the port has been stopped and has given back its memory,*)
(* viaPutImage copies images only into memory allocated for their format   *)
(* and size.                                                               *)
THEOREM MemoryFits == Spec => []SurfaceFitsImage
<1>1. FitInv => SurfaceFitsImage
  BY DEF FitInv, Noticed, SurfaceFitsImage
<1>. QED
  BY <1>1, FitInvariant, PTL

-----------------------------------------------------------------------------
(* As long as no put has failed and no format has changed under the same   *)
(* part (missed has neither), the overlay is on only with the memory the   *)
(* port still has, and what the port believes to show is what the engine is set *)
(* up for, at the panning it was last told.                                *)
ShowsAt(q) ==
  hw = [on |-> TRUE, fourcc |-> surf.fourcc, size |-> oldSrc, dev |-> surf.dev,
        drw |-> oldDrw, pan |-> q, hqv |-> surf.hqv]

ShowInv ==
  /\ oldDrw # None => portOn
  /\ missed \subseteq {"resized"} =>
       /\ portOn => surf.created
       /\ surf.created => surf.hqv # None /\ surf.src = surf.fourcc
       /\ hw.on => hw.hqv = surf.hqv
       /\ portOn /\ surf.on =>
            ShowsAt(oldPan) \/ <<oldSrc, oldDrw[2]>> \in TooSmall
       /\ portOn /\ clip # None => oldPan = pan

(* ViaSwovSurfaceCreate that succeeds leaves a surface with an HQV buffer. *)
LEMMA CreationLive ==
  ASSUME NEW s \in Surfaces, MemOK(s), NEW f \in FourCCs, NEW i \in Sizes,
         NEW n \in Creations(s, f, i), n.ok
  PROVE  /\ n.s \in Surfaces /\ n.s.created
         /\ ~ s.created => n.s.hqv # None /\ n.s.src = f
         /\ f = Xvmc /\ ~ s.created => n.s.sw = s.sw
         /\ n.s.fourcc = f
         /\ s.created /\ f = s.fourcc => n.s = s
<1>1. CASE s.created /\ f = s.fourcc
  BY <1>1 DEF Creations
<1>2. CASE ~ (s.created /\ f = s.fourcc)
  <2> DEFINE N == UNION {WithHQV(t) : t \in WithBuffer(s, f, i)}
             Result(m) == IF m.hqv = None \/ (f # Xvmc /\ m.sw = None)
                            THEN [ok |-> FALSE, s |-> m]
                            ELSE [ok |-> TRUE,
                                  s |-> [m EXCEPT !.created = TRUE, !.on = TRUE]]
  <2>1. PICK m \in N : n = Result(m)
    BY <1>2 DEF Creations
  <2>2. PICK t \in WithBuffer(s, f, i) : m \in WithHQV(t)
    OBVIOUS
  <2>3. t \in Surfaces /\ MemOK(t) /\ t.fourcc = f /\ t.src = f
    BY <2>2, BufferOK
  <2>4. f = Xvmc => t.sw = s.sw
    BY <2>2 DEF WithBuffer, Surfaces
  <2>5. m \in Surfaces /\ m.fourcc = f /\ m.sw = t.sw /\ m.src = f
    <3>1. CASE m = t
      BY <2>3, <3>1
    <3>2. CASE m # t
      <4>1. PICK b \in Allocs(t.sw) : m = [t EXCEPT !.hqv = b]
        BY <2>2, <3>2 DEF WithHQV
      <4>. QED
        BY <2>2, <2>3, <4>1, HQVOK DEF Surfaces
    <3>. QED
      BY <3>1, <3>2
  <2>6. m.hqv # None /\ n.s = [m EXCEPT !.created = TRUE, !.on = TRUE]
    BY <2>1
  <2> HIDE DEF N, Result
  <2>. QED
    BY <1>2, <2>4, <2>5, <2>6 DEF Surfaces
<1>. QED
  BY <1>1, <1>2

(* A surface that SurfacesFor keeps is the port's, of that size.           *)
LEMMA SurfacesLive ==
  ASSUME TypeOK, NEW f \in FourCCs, NEW z \in Sizes, NEW i \in Sizes,
         NEW n \in SurfacesFor(f, z, i), n.ok
  PROVE  /\ n.s \in Surfaces /\ n.s.created /\ n.s.fourcc = f
         /\ \/ n.s.hqv # None /\ n.s.src = f
            \/ surf.created /\ oldSrc = z
         /\ surf.created /\ oldSrc = z /\ surf.fourcc = f => n.s = surf
<1> DEFINE s == IF oldSrc # z THEN Destroyed(surf) ELSE surf
<1>1. surf \in Surfaces /\ MemOK(surf)
  BY DEF TypeOK, MemOK
<1>2. s \in Surfaces /\ MemOK(s) /\ (oldSrc # z => ~ s.created) /\ (oldSrc = z => s = surf)
  BY <1>1, DestroyedOK
<1>3. n \in Creations(s, f, i)
  BY DEF SurfacesFor
<1> HIDE DEF s
<1>. QED
  BY <1>2, <1>3, CreationLive

-----------------------------------------------------------------------------
(* Programming the engine for a picture it can scale shows the picture.    *)
LEMMA UpdateShows ==
  ASSUME hw \in Engine, NEW s \in Surfaces, NEW z, NEW p, NEW d, NEW q,
         UpdateOverlay(s, z, p, d, q)
  PROVE  /\ hw'.hqv = s.hqv /\ oldPan' = q
         /\ \/ hw' = [on |-> TRUE, fourcc |-> s.src, size |-> z, dev |-> s.dev,
                      drw |-> <<p, d>>, pan |-> q, hqv |-> s.hqv]
            \/ <<z, d>> \in TooSmall
BY DEF UpdateOverlay

(* viaReputImage on a port that is on keeps ShowInv.                       *)
LEMMA ReputShows ==
  ASSUME TypeOK, PortInv, ShowInv, portOn, NEW p \in Positions, NEW c \in Clips,
         NEW q \in Pans, pan' = q, ReputImage(p, c, q)
  PROVE  ShowInv'
<1>1. /\ surf' = surf /\ oldSrc' = oldSrc /\ portOn' = portOn /\ missed' = missed
      /\ surf \in Surfaces /\ hw \in Engine
      /\ oldDrw \in Positions \X Dims
  BY DEF ReputImage, history, TypeOK, PortInv
<1>2. CASE p = oldDrw[1] /\ oldPan = q
  <2>1. UNCHANGED <<oldDrw, hw, oldPan>>
    BY <1>2 DEF ReputImage
  <2>. QED
    BY <1>1, <1>2, <2>1 DEF ShowInv, ShowsAt
<1>3. CASE ~ (p = oldDrw[1] /\ oldPan = q)
  <2>1. oldDrw' = <<p, oldDrw[2]>> /\ UpdateOverlay(surf, oldSrc, p, oldDrw[2], q)
    BY <1>3 DEF ReputImage
  <2>2. /\ hw'.hqv = surf.hqv /\ oldPan' = q
        /\ \/ hw' = [on |-> TRUE, fourcc |-> surf.src, size |-> oldSrc,
                     dev |-> surf.dev, drw |-> <<p, oldDrw[2]>>, pan |-> q, hqv |-> surf.hqv]
           \/ <<oldSrc, oldDrw[2]>> \in TooSmall
    BY <1>1, <2>1, UpdateShows
  <2>3. oldDrw'[2] = oldDrw[2]
    BY <2>1
  <2>. QED
    BY <1>1, <2>1, <2>2, <2>3 DEF ShowInv, ShowsAt
<1>. QED
  BY <1>2, <1>3

(* After a put that has succeeded the engine is set up for the picture.    *)
LEMMA PutShowsPicture ==
  ASSUME TypeOK, PortInv, ShowInv, NEW f \in FourCCs, NEW z \in Sizes, NEW i \in Sizes,
         NEW p \in Positions, NEW d \in Dims, NEW c \in Clips,
         PutImage(f, z, i, p, d, c), missed' \subseteq {"resized"}
  PROVE  /\ surf'.created /\ surf'.hqv # None /\ surf'.src = surf'.fourcc
         /\ hw'.hqv = surf'.hqv \/ ~ hw'.on
         /\ ShowsAt(pan)' \/ <<oldSrc', oldDrw'[2]>> \in TooSmall
         /\ oldPan' = pan'
<1>0. /\ missed \subseteq {"resized"} /\ pan' = pan /\ "switched" \notin Unnoticed(f, z, i)
      /\ surf \in Surfaces /\ hw \in Engine
  BY DEF PutImage, TypeOK
<1>1. PICK n \in SurfacesFor(f, z, i) :
        /\ n.ok
        /\ IF SameAsBefore(n.s, z, p, d, c)
             THEN surf' = n.s /\ UNCHANGED <<portVars, hw, painted, oldPan>>
             ELSE /\ surf' = [n.s EXCEPT !.on = TRUE]
                  /\ oldSrc' = z /\ oldDrw' = <<p, d>>
                  /\ PaintKey(c)
                  /\ UpdateOverlay(n.s, z, p, d, pan)
  BY DEF PutImage
<1>2. surf.created /\ oldSrc = z => surf.fourcc = f
  BY <1>0 DEF Unnoticed
<1>3. /\ n.s \in Surfaces /\ n.s.created /\ n.s.fourcc = f
      /\ n.s.hqv # None /\ n.s.src = f
      /\ surf.created /\ oldSrc = z => n.s = surf
  <2>1. surf.created => surf.hqv # None /\ surf.src = surf.fourcc
    BY <1>0 DEF ShowInv
  <2>. QED
    BY <1>1, <1>2, <2>1, SurfacesLive
<1>4. CASE SameAsBefore(n.s, z, p, d, c)
  <2>1. /\ surf' = n.s /\ oldDrw = <<p, d>> /\ oldSrc = z /\ n.s.on /\ clip = c
        /\ UNCHANGED <<oldSrc, oldDrw, clip, hw, oldPan>>
    BY <1>1, <1>4 DEF SameAsBefore, portVars
  <2>2. oldDrw # None /\ clip # None
    BY <2>1, PortAssumption
  <2>3. portOn /\ surf.created
    BY <1>0, <2>2 DEF ShowInv
  <2>4. n.s = surf
    BY <1>3, <2>1, <2>3
  <2>5. /\ hw.on => hw.hqv = surf.hqv
        /\ ShowsAt(oldPan) \/ <<oldSrc, oldDrw[2]>> \in TooSmall
        /\ oldPan = pan
    BY <1>0, <2>1, <2>2, <2>3, <2>4 DEF ShowInv
  <2>. QED
    BY <1>0, <1>3, <2>1, <2>4, <2>5 DEF ShowsAt
<1>5. CASE ~ SameAsBefore(n.s, z, p, d, c)
  <2>1. /\ surf' = [n.s EXCEPT !.on = TRUE] /\ oldSrc' = z /\ oldDrw' = <<p, d>>
        /\ UpdateOverlay(n.s, z, p, d, pan)
    BY <1>1, <1>5
  <2>2. /\ surf'.created /\ surf'.hqv = n.s.hqv /\ surf'.src = f /\ surf'.fourcc = f
    BY <1>3, <2>1 DEF Surfaces
  <2>3. /\ hw'.hqv = n.s.hqv /\ oldPan' = pan
        /\ \/ hw' = [on |-> TRUE, fourcc |-> n.s.src, size |-> z, dev |-> n.s.dev,
                     drw |-> <<p, d>>, pan |-> pan, hqv |-> n.s.hqv]
           \/ <<z, d>> \in TooSmall
    BY <1>0, <1>3, <2>1, UpdateShows
  <2>4. oldDrw'[2] = d
    BY <2>1
  <2>. QED
    BY <1>0, <1>3, <2>1, <2>2, <2>3, <2>4 DEF ShowsAt
<1>. QED
  BY <1>4, <1>5

(* Every request keeps ShowInv.                                            *)
LEMMA NextShow == TypeOK /\ PortInv /\ ShowInv /\ [Next]_vars => ShowInv'
<1> SUFFICES ASSUME TypeOK, PortInv, ShowInv, [Next]_vars PROVE ShowInv'
  OBVIOUS
<1>0. surf \in Surfaces /\ hw \in Engine
  BY DEF TypeOK
<1>1. ASSUME NEW f \in FourCCs, NEW z \in Sizes, NEW i \in Sizes, NEW p \in Positions, NEW d \in Dims,
             NEW c \in Clips, PutImage(f, z, i, p, d, c)
      PROVE  ShowInv'
  <2>1. portOn'
    BY <1>1 DEF PutImage
  <2>2. CASE missed' \subseteq {"resized"}
    BY <1>1, <2>1, <2>2, PutShowsPicture DEF ShowInv, ShowsAt
  <2>3. CASE ~ (missed' \subseteq {"resized"})
    BY <2>1, <2>3 DEF ShowInv
  <2>. QED
    BY <2>2, <2>3
<1>2. ASSUME NEW f \in FourCCs, NEW z \in Sizes, NEW i \in Sizes, PutImageFails(f, z, i)  PROVE ShowInv'
  <2>1. ~ (missed' \subseteq {"resized"}) /\ UNCHANGED <<oldDrw, portOn>>
    BY <1>2 DEF PutImageFails, portVars
  <2>. QED
    BY <2>1 DEF ShowInv
<1>3. ASSUME NEW p \in Positions, NEW c \in Clips, MoveWindow(p, c)  PROVE ShowInv'
  BY <1>3, ReputShows DEF MoveWindow, TypeOK
<1>4. ASSUME NEW q \in Pans, AdjustFrame(q)  PROVE ShowInv'
  <2>1. CASE portOn /\ clip # None
    <3>1. oldDrw[1] \in Positions /\ clip \in Clips /\ pan' = q
      BY <1>4, <2>1 DEF TypeOK, PortInv, AdjustFrame
    <3>. QED
      BY <1>4, <2>1, <3>1, ReputShows DEF AdjustFrame
  <2>2. CASE ~ (portOn /\ clip # None)
    BY <1>4, <2>2 DEF AdjustFrame, ShowInv, ShowsAt, portVars, history
  <2>. QED
    BY <2>1, <2>2
<1>5. ASSUME NEW b \in BOOLEAN, SetMode(b)  PROVE ShowInv'
  BY <1>5 DEF SetMode, ShowInv, ShowsAt, portVars, history
<1>6. ASSUME NEW k \in Keys, SetColorKey(k)  PROVE ShowInv'
  BY <1>6 DEF SetColorKey, ShowInv, ShowsAt, modeVars, history
<1>7. CASE XvmcHides
  <2>1. /\ surf'.created = surf.created /\ surf'.hqv = surf.hqv /\ surf'.src = surf.src
        /\ surf'.fourcc = surf.fourcc /\ ~ surf'.on
    BY <1>0, <1>7 DEF XvmcHides, Surfaces
  <2>2. hw'.on => hw.on /\ hw' = hw
    BY <1>0, <1>7 DEF XvmcHides, Hide, Engine
  <2>. QED
    BY <1>7, <2>1, <2>2 DEF XvmcHides, ShowInv, portVars, modeVars, history
<1>8. CASE PauseVideo
  BY <1>8 DEF PauseVideo, ShowInv, ShowsAt, modeVars, history
<1>9. CASE StopVideo
  <2>1. ~ hw'.on
    BY <1>0, <1>9, HideOK DEF StopVideo, PortInv
  <2>2. ~ surf'.created
    <3> DEFINE s == [surf EXCEPT !.on = FALSE]
    <3>1. s \in Surfaces /\ MemOK(s)
      BY DEF TypeOK, Surfaces, MemOK
    <3>2. surf' = Destroyed(s)
      BY <1>9 DEF StopVideo
    <3> HIDE DEF s
    <3>. QED
      BY <3>1, <3>2, DestroyedOK
  <2>. QED
    BY <1>9, <2>1, <2>2 DEF StopVideo, ShowInv
<1>10. CASE UNCHANGED vars
  BY <1>10 DEF vars, portVars, modeVars, history, ShowInv, ShowsAt
<1>11. ASSUME NEW a \in BOOLEAN, SetAutoPaint(a)  PROVE ShowInv'
  BY <1>11 DEF SetAutoPaint, ShowInv, ShowsAt, portVars, modeVars, history
<1>. QED
  BY <1>1, <1>2, <1>3, <1>4, <1>5, <1>6, <1>7, <1>8, <1>9, <1>10, <1>11 DEF Next, AnyPut

(* The port believes of the overlay what the engine does.                  *)
THEOREM ShowInvariant == Spec => []ShowInv
<1>1. Init => ShowInv
  BY DEF Init, ShowInv, NoSurface
<1>. QED
  BY <1>1, NextShow, TypeCorrect, PortInvariant, PTL DEF Spec

(* An overlay that is on reads memory that is still allocated to it, until *)
(* a put fails or changes the format at the same size.                     *)
THEOREM OverlayMemoryLive == Spec => []OverlayReadsLiveMemory
<1>1. PortInv /\ ShowInv => OverlayReadsLiveMemory
  BY DEF PortInv, ShowInv, OverlayReadsLiveMemory
<1>. QED
  BY <1>1, PortInvariant, ShowInvariant, PTL

(* Every successful viaPutImage leaves the overlay on and set up for its   *)
(* image, its rectangles, the panning and its memory, although most of     *)
(* them program nothing: none of the moves, pauses, re-keyings, pannings   *)
(* and hidings in between is missed.                                       *)
THEOREM PutsShow == Spec => PutShows
<1>1. TypeOK /\ PortInv /\ ShowInv /\ FitInv' /\ [Next]_vars =>
        [PutSucceeds /\ missed' = {} => \/ ShowsPort'
                                        \/ <<oldSrc', oldDrw'[2]>> \in TooSmall]_vars
  <2> SUFFICES ASSUME TypeOK, PortInv, ShowInv, FitInv', AnyPut, missed' = {}
               PROVE  ShowsPort' \/ <<oldSrc', oldDrw'[2]>> \in TooSmall
    BY DEF PutSucceeds
  <2>1. /\ surf'.created
        /\ ShowsAt(pan)' \/ <<oldSrc', oldDrw'[2]>> \in TooSmall
    BY PutShowsPicture DEF AnyPut
  <2>2. surf'.dev = oldImage'
    BY <2>1 DEF FitInv, Noticed, Fits
  <2>. QED
    BY <2>1, <2>2 DEF ShowsAt, ShowsPort
<1>2. FitInv /\ [Next]_vars /\ TypeOK => FitInv'
  BY NextFits
<1>. QED
  BY <1>1, <1>2, TypeCorrect, PortInvariant, ShowInvariant, FitInvariant, PTL
     DEF Spec, PutShows

===============================================================================
