-------------------------------- MODULE XvPort --------------------------------
(***************************************************************************)
(* The one Xv port: viaPutImage, viaReputImage, viaStopVideo and the color *)
(* key of src/via_video.c, with the surfaces of src/via_swov.c they create *)
(* and destroy, as the X server calls them, one request after another.     *)
(* Images of several formats, XvMC's dummy format among them, use the same *)
(* surfaces; XvMC also hides the overlay behind the port's back.  What is  *)
(* cached between requests (old rectangles, clip, VideoStatus, the format) *)
(* decides what the next request may leave out.                            *)
(*                                                                         *)
(* An image (width, height) may be shown in part (src_w, src_h): the port   *)
(* remembers the part, the surface is made for the image.                  *)
(* External: the server's Xv layer, which reputs the image of a port that  *)
(* is on when the screen is panned or its window moved; video memory as    *)
(* blocks; the overlay engine, V1 of a CLE266, as what it has been         *)
(* programmed with.                                                        *)
(***************************************************************************)
EXTENDS Naturals

CONSTANTS Xv,        \* image formats with pixels of their own
          Xvmc,      \* FOURCC_XVMC: the surfaces belong to the XvMC client
          WithXvmc,  \* XvMC uses the port too
          Sizes, Positions, Dims, Clips, Keys, Pans,
          Parts,     \* pairs <<part, image>> of sizes that clients show
          TooSmall,  \* pairs <<size, dim>> beyond the engine's scaling
          Blocks,    \* pieces of video memory, each large enough
          None,      \* a null pointer, format 0, an empty clip or rectangle
          Features   \* "noMemory": allocations fail; "noBlit": DMA blits do;
                     \* "noBandwidth": a mode has none for the overlay;
                     \* "autopaint": the client paints the key for a while

ASSUME PortAssumption ==
  /\ Xvmc \notin Xv /\ WithXvmc \in BOOLEAN
  /\ None \notin Xv \cup {Xvmc} \cup Blocks \cup Clips \cup Keys
  /\ None \notin (Positions \X Dims) \cup ((Blocks \cup {None}) \X {0, 1})
  /\ TooSmall \subseteq Sizes \X Dims /\ Parts \subseteq Sizes \X Sizes

FourCCs == Xv \cup (IF WithXvmc THEN {Xvmc} ELSE {})

VARIABLES
  surf,       \* the surfaces: format, flags of VideoStatus, memory
  oldSrc,     \* old_src_w, old_src_h
  oldDrw,     \* old_drw_*: position and dimensions
  clip,       \* clip
  colorKey,   \* colorKey
  autoPaint,  \* autoPaint
  pan,        \* panning_x, panning_y
  oldPan,     \* oldPanningX, oldPanningY
  frame,      \* dwFrameNum modulo 2
  supported,  \* OverlaySupported
  bandwidth,  \* mode: DecideOverlaySupport would say yes
  portOn,     \* Xv layer: an image has been put since the last stop
  hw,         \* overlay engine
  shown,      \* overlay engine: the buffer the HQV reads, by Flip
  painted,    \* screen: the key painted into the clip, None if left to clients
  copy,       \* history: how this request has copied an image, if it has
  missed,     \* history: what the port does not remember having happened
  oldImage,   \* history: the image of which oldSrc was a part
  remade      \* history: SWfbMem may have been allocated since the last flip

portVars == <<oldSrc, oldDrw, clip>>
modeVars == <<pan, supported, bandwidth>>
history  == <<missed, oldImage, remade>>
vars == <<surf, portVars, colorKey, autoPaint, modeVars, oldPan, frame, portOn, hw,
          shown, painted, copy, history>>

NoImage  == <<None, None>>
Images   == FourCCs \X Sizes
Buffers  == (Blocks \cup {None}) \X {0, 1}

(* Of the surfaces: what pPriv->FourCC and SrcFourCC say, the two flags of  *)
(* VideoStatus, SWfbMem with the image it was allocated for, HQVMem, and   *)
(* the image whose width, height and pitch SWDevice has.                   *)
Surfaces == [fourcc : FourCCs \cup {None}, src : FourCCs \cup {None},
             created : BOOLEAN, on : BOOLEAN,
             sw : Blocks \cup {None}, for : Images \cup {NoImage},
             hqv : Blocks \cup {None}, dev : Sizes \cup {None}]

(* The engine reads part size of an image laid out as dev.                 *)
Engine == [on : BOOLEAN, fourcc : FourCCs \cup {None}, size : Sizes \cup {None},
           dev : Sizes \cup {None},
           drw : (Positions \X Dims) \cup {None}, pan : Pans,
           hqv : Blocks \cup {None}]

(* The two kinds of surface never share memory, and memory is held for a   *)
(* known image.                                                            *)
TypeOK ==
  /\ surf \in Surfaces
  /\ surf.sw # None => surf.sw # surf.hqv
  /\ surf.sw = None <=> surf.for = NoImage
  /\ oldSrc \in Sizes \cup {None}
  /\ oldDrw \in (Positions \X Dims) \cup {None}
  /\ clip \in Clips \cup {None}
  /\ colorKey \in Keys
  /\ pan \in Pans /\ oldPan \in Pans
  /\ frame \in {0, 1}
  /\ supported \in BOOLEAN /\ bandwidth \in BOOLEAN /\ portOn \in BOOLEAN
  /\ hw \in Engine
  /\ shown \in Buffers \cup {None}
  /\ painted \in Keys \cup {None}
  /\ copy \in [fits : BOOLEAN, anew : BOOLEAN, clash : BOOLEAN] \cup {None}
  /\ missed \subseteq {"refused", "noMemory", "switched", "resized"}
  /\ oldImage \in Sizes \cup {None}
  /\ autoPaint \in BOOLEAN /\ remade \in BOOLEAN

NoSurface == [fourcc |-> None, src |-> None, created |-> FALSE, on |-> FALSE,
              sw |-> None, for |-> NoImage, hqv |-> None, dev |-> None]

(* viaInitVideo, viaSetupAdaptors and viaResetVideo.                       *)
Init ==
  /\ surf = NoSurface
  /\ oldSrc = None /\ oldDrw = None /\ clip = None
  /\ colorKey \in Keys /\ painted = None
  /\ pan \in Pans /\ oldPan = pan
  /\ frame = 0 /\ supported = FALSE /\ bandwidth = TRUE /\ portOn = FALSE
  /\ hw = [on |-> FALSE, fourcc |-> None, size |-> None, dev |-> None, drw |-> None,
           pan |-> pan, hqv |-> None]
  /\ shown = None /\ copy = None /\ missed = {} /\ oldImage = None
  /\ autoPaint = TRUE /\ remade = FALSE

-----------------------------------------------------------------------------
(* ViaSwovSurfaceDestroy: what goes depends on the format; SWfbMem stays   *)
(* if that is XvMC's.                                                      *)
Destroyed(s) ==
  IF ~ s.created THEN s
  ELSE [s EXCEPT !.fourcc = None, !.created = FALSE, !.src = None, !.hqv = None,
                 !.sw = IF s.fourcc = Xvmc THEN @ ELSE None,
                 !.for = IF s.fourcc = Xvmc THEN @ ELSE NoImage]

(* VIAAllocLinear when the block the caller had has been freed and another *)
(* one is in use.                                                          *)
Allocs(other) ==
  (Blocks \ {other}) \cup (IF "noMemory" \in Features THEN {None} ELSE {})

(* CreateSurface, which allocates no SWfbMem for XvMC and fails before it  *)
(* has told SWDevice of the image.                                         *)
WithBuffer(s, f, i) ==
  LET t == [s EXCEPT !.fourcc = f, !.src = f]
  IN IF f = Xvmc THEN {[t EXCEPT !.dev = i]}
     ELSE {[t EXCEPT !.sw = b, !.for = IF b = None THEN NoImage ELSE <<f, i>>,
                     !.dev = IF b = None THEN @ ELSE i] :
             b \in Allocs(s.hqv)}

(* AddHQVSurface, after a CreateSurface that has succeeded.                *)
WithHQV(s) ==
  IF s.fourcc # Xvmc /\ s.sw = None THEN {s}
  ELSE {[s EXCEPT !.hqv = b] : b \in Allocs(s.sw)}

(* ViaSwovSurfaceCreate: what it leaves, and whether it succeeds.  The two *)
(* flags of VideoStatus are set with the surface; a failure resets neither.*)
Creations_SameSurface(s, f, i) ==
  IF s.created THEN {[ok |-> TRUE, s |-> [s EXCEPT !.fourcc = f]]}
  ELSE {IF n.hqv = None \/ (f # Xvmc /\ n.sw = None)
          THEN [ok |-> FALSE, s |-> n]
          ELSE [ok |-> TRUE, s |-> [n EXCEPT !.created = TRUE, !.on = TRUE]] :
          n \in UNION {WithHQV(t) : t \in WithBuffer(s, f, i)}}

Creations(s, f, i) ==
  IF s.created /\ f = s.fourcc THEN {[ok |-> TRUE, s |-> s]}
  ELSE {IF n.hqv = None \/ (f # Xvmc /\ n.sw = None)
          THEN [ok |-> FALSE, s |-> n]
          ELSE [ok |-> TRUE, s |-> [n EXCEPT !.created = TRUE, !.on = TRUE]] :
          n \in UNION {WithHQV(t) : t \in WithBuffer(s, f, i)}}

-----------------------------------------------------------------------------
(* VIAVidUpdateOverlay and Upd_Video: the engine is programmed for the     *)
(* format and layout of the surfaces; for a picture scaled down too much   *)
(* its control registers are left alone.                                   *)
UpdateOverlay(s, z, p, d, q) ==
  LET fits == <<z, d>> \notin TooSmall
  IN /\ hw' = [on |-> hw.on \/ fits, fourcc |-> IF fits THEN s.src ELSE None,
               size |-> z, dev |-> s.dev, drw |-> <<p, d>>, pan |-> q, hqv |-> s.hqv]
     /\ oldPan' = q

(* A clip that has changed is noted, and the color key painted into it if  *)
(* the client does not do that.                                            *)
PaintKey(c) ==
  /\ clip' = c
  /\ painted' = IF c = clip THEN painted ELSE IF autoPaint THEN colorKey ELSE None

(* The port compares the part shown now with the part shown before: it     *)
(* destroys the surface only if they differ.                               *)
SurfacesFor(f, z, i) ==
  Creations(IF oldSrc # z THEN Destroyed(surf) ELSE surf, f, i)

Kept(f, z) == oldSrc = z /\ surf.created /\ surf.fourcc = f

(* What it takes no notice of: another format, or another image of which   *)
(* the same part is shown.                                                 *)
Unnoticed(f, z, i) ==
  {w \in {"switched"} : oldSrc = z /\ surf.created /\ surf.fourcc # f}
    \cup {w \in {"resized"} : oldSrc = z /\ surf.created /\ oldImage # i}

(* The image is copied into one half of SWfbMem.  Where the halves are     *)
(* depends on the image SWfbMem was allocated for: memory allocated anew   *)
(* may overlap a half of the former that is still shown, whichever it is.  *)
CopyImage(s, f, z, i) ==
  LET anew == remade \/ ~ Kept(f, z)
  IN copy' = [fits |-> s.for = <<f, i>>, anew |-> anew,
              clash |-> /\ hw.on /\ shown # None
                        /\ shown[1] = s.sw /\ (anew \/ shown[2] = frame)]

(* Flip makes the HQV read that half; XvMC flips to buffers of its own.    *)
Flip_Other(s, f) == shown' = IF f = Xvmc THEN None ELSE <<s.sw, 1 - frame>>

Flip(s, f) == shown' = IF f = Xvmc THEN None ELSE <<s.sw, frame>>

(* When viaPutImage leaves the update of the overlay out.                  *)
SameAsBefore_Hidden(s, z, p, d, c) ==
  oldDrw = <<p, d>> /\ oldSrc = z /\ clip = c

SameAsBefore(s, z, p, d, c) ==
  oldDrw = <<p, d>> /\ oldSrc = z /\ s.on /\ clip = c

(* viaPutImage that ends early: out of memory; with a blit that fails; in  *)
(* a mode without the bandwidth, which is asked for after the copy.        *)
PutImageFails(f, z, i) ==
  /\ \E n \in SurfacesFor(f, z, i) :
       /\ surf' = n.s
       /\ \/ ~ n.ok /\ copy' = None
          \/ /\ n.ok /\ "noBlit" \in Features /\ f # Xvmc
             /\ CopyImage(n.s, f, z, i)
          \/ /\ n.ok /\ ~ supported /\ ~ bandwidth
             /\ IF f = Xvmc THEN copy' = None ELSE CopyImage(n.s, f, z, i)
       /\ missed' = missed \cup Unnoticed(f, z, i)
                      \cup {IF n.ok THEN "refused" ELSE "noMemory"}
  /\ remade' = (remade \/ ~ Kept(f, z))
  /\ UNCHANGED <<portVars, colorKey, autoPaint, modeVars, oldPan, frame, portOn, hw,
                 shown, painted, oldImage>>

(* viaPutImage that returns Success, which it does even if the picture is  *)
(* scaled down too much.                                                   *)
PutImage(f, z, i, p, d, c) ==
  /\ supported \/ bandwidth
  /\ \E n \in SurfacesFor(f, z, i) :
       /\ n.ok
       /\ IF f = Xvmc THEN copy' = None ELSE CopyImage(n.s, f, z, i)
       /\ Flip(n.s, f)
       /\ IF SameAsBefore(n.s, z, p, d, c)
            THEN surf' = n.s /\ UNCHANGED <<portVars, hw, painted, oldPan>>
            ELSE /\ surf' = [n.s EXCEPT !.on = TRUE]
                 /\ oldSrc' = z /\ oldDrw' = <<p, d>>
                 /\ PaintKey(c)
                 /\ UpdateOverlay(n.s, z, p, d, pan)
  /\ missed' = missed \cup Unnoticed(f, z, i)
  /\ oldImage' = i /\ remade' = FALSE
  /\ supported' = TRUE
  /\ frame' = 1 - frame
  /\ portOn' = TRUE
  /\ UNCHANGED <<colorKey, autoPaint, pan, bandwidth>>

(* viaReputImage: the port's image at another place, or under another clip.*)
ReputImage(p, c, q) ==
  /\ copy' = None
  /\ PaintKey(c)
  /\ IF p = oldDrw[1] /\ oldPan = q
       THEN UNCHANGED <<oldDrw, hw, oldPan>>
       ELSE oldDrw' = <<p, oldDrw[2]>> /\ UpdateOverlay(surf, oldSrc, p, oldDrw[2], q)
  /\ UNCHANGED <<surf, oldSrc, colorKey, autoPaint, supported, bandwidth, frame, portOn,
                 shown, history>>

MoveWindow(p, c) == portOn /\ UNCHANGED pan /\ ReputImage(p, c, pan)

(* VIAAdjustFrame; the Xv layer then reputs the image of a port that is on.*)
AdjustFrame(q) ==
  /\ pan' = q
  /\ IF portOn /\ clip # None
       THEN ReputImage(oldDrw[1], clip, q)
       ELSE copy' = None /\ UNCHANGED <<surf, portVars, colorKey, autoPaint, oldPan, supported, bandwidth,
                        frame, portOn, hw, shown, painted, history>>

(* VIAWriteMode.                                                           *)
SetMode(b) ==
  /\ "noBandwidth" \in Features
  /\ copy' = None
  /\ bandwidth' = b /\ supported' = FALSE
  /\ UNCHANGED <<surf, portVars, colorKey, autoPaint, pan, oldPan, frame, portOn, hw, shown,
                 painted, history>>

(* ViaOverlayHide: without a format it switches off V3, which is not in use.*)
Hide == hw' = IF surf.src = None THEN hw ELSE [hw EXCEPT !.on = FALSE]

(* XvMC hides the overlay: UNDISPLAY, or its displayed surface destroyed.  *)
XvmcHides ==
  /\ WithXvmc
  /\ copy' = None
  /\ Hide
  /\ surf' = [surf EXCEPT !.on = FALSE]
  /\ UNCHANGED <<portVars, colorKey, autoPaint, modeVars, oldPan, frame, portOn, shown,
                 painted, history>>

(* viaStopVideo, for a while or for good.                                  *)
PauseVideo ==
  /\ copy' = None
  /\ clip' = None
  /\ UNCHANGED <<surf, oldSrc, oldDrw, colorKey, autoPaint, modeVars, oldPan, frame, portOn,
                 hw, shown, painted, history>>

(* A stop that leaves no memory behind ends whatever was missed.           *)
Recovered == IF surf'.sw = None /\ surf'.hqv = None THEN {} ELSE missed

StopVideo_NoHide ==
  /\ clip' = None
  /\ UNCHANGED hw
  /\ surf' = Destroyed([surf EXCEPT !.on = FALSE])
  /\ frame' = 0 /\ oldDrw' = None /\ portOn' = FALSE
  /\ copy' = None /\ missed' = Recovered
  /\ UNCHANGED <<oldSrc, colorKey, autoPaint, modeVars, oldPan, shown, painted, oldImage,
                 remade>>

StopVideo ==
  /\ clip' = None
  /\ Hide
  /\ surf' = Destroyed([surf EXCEPT !.on = FALSE])
  /\ frame' = 0 /\ oldDrw' = None /\ portOn' = FALSE
  /\ copy' = None /\ missed' = Recovered
  /\ UNCHANGED <<oldSrc, colorKey, autoPaint, modeVars, oldPan, shown, painted, oldImage,
                 remade>>

(* viaSetPortAttribute of XV_COLORKEY: the clip is forgotten.              *)
SetColorKey_KeepsClip(k) ==
  /\ copy' = None
  /\ colorKey' = k
  /\ UNCHANGED <<surf, portVars, autoPaint, modeVars, oldPan, frame, portOn, hw, shown,
                 painted, history>>

SetColorKey(k) ==
  /\ copy' = None
  /\ colorKey' = k
  /\ clip' = None
  /\ UNCHANGED <<surf, oldSrc, oldDrw, autoPaint, modeVars, oldPan, frame, portOn, hw,
                 shown, painted, history>>

(* ... and of XV_AUTOPAINT_COLORKEY: it is not.                            *)
SetAutoPaint(a) ==
  /\ "autopaint" \in Features
  /\ copy' = None
  /\ autoPaint' = a
  /\ UNCHANGED <<surf, portVars, colorKey, modeVars, oldPan, frame, portOn, hw, shown,
                 painted, history>>

AnyPut == \E f \in FourCCs, z, i \in Sizes, p \in Positions, d \in Dims, c \in Clips :
            <<z, i>> \in Parts /\ PutImage(f, z, i, p, d, c)

Next ==
  \/ AnyPut
  \/ \E f \in FourCCs, z, i \in Sizes : <<z, i>> \in Parts /\ PutImageFails(f, z, i)
  \/ \E p \in Positions, c \in Clips : MoveWindow(p, c)
  \/ \E q \in Pans : AdjustFrame(q)
  \/ \E b \in BOOLEAN : SetMode(b)
  \/ \E k \in Keys : SetColorKey(k)
  \/ \E a \in BOOLEAN : SetAutoPaint(a)
  \/ XvmcHides \/ PauseVideo \/ StopVideo

Spec == Init /\ [][Next]_vars

-----------------------------------------------------------------------------
(* An image is copied into memory that was allocated for its format and    *)
(* size: viaPutImage knows when the surface has to be created anew, from   *)
(* what it remembers of earlier images.                                    *)
CopyFits == copy # None => copy.fits

(* It is so as long as no put fails (a failed put is not remembered) and   *)
(* the same part is shown of images of one size (the size of the image is  *)
(* not remembered: a larger one overflows SWfbMem), and again once the port*)
(* has been stopped and has given its memory back.                         *)
SurfaceFitsImage ==
  missed \cap {"refused", "noMemory", "resized"} = {} => CopyFits

(* The two halves do their work: no image is copied into the one that the  *)
(* overlay is showing, whoever has used the frame counter in between, until*)
(* the surface is created anew while its former half is still shown: then  *)
(* the next copy may, and NeverOnScreen is what does not hold.             *)
DrawsOffScreen == copy # None /\ ~ copy.anew => ~ copy.clash

NeverOnScreen == copy # None => ~ copy.clash

(* Where the port has noted a clip with XV_AUTOPAINT_COLORKEY on, it has   *)
(* painted the present color key: the overlay appears where the key is.  A *)
(* clip noted while it was off stays unpainted when it is switched on (the *)
(* clip is not forgotten), and KeyAlwaysPainted is what does not hold.     *)
KeyPainted == clip # None /\ painted # None => painted = colorKey

KeyAlwaysPainted == clip # None /\ autoPaint => painted = colorKey

(* What the engine has to be programmed with to show the port's part of the *)
(* last image.                                                             *)
ShowsPort ==
  hw = [on |-> TRUE, fourcc |-> surf.fourcc, size |-> oldSrc, dev |-> oldImage,
        drw |-> oldDrw, pan |-> pan, hqv |-> surf.hqv]

(* Only such a put counts a frame.                                         *)
PutSucceeds == frame' # frame /\ AnyPut

(* After a put that has succeeded the overlay is on, set up for that image, *)
(* its rectangles and its memory, although most puts leave the setup out:  *)
(* no move, pause, panning or hiding in between goes unnoticed.  (A failed *)
(* put, and another format or image under the same part, do.)              *)
PutShows ==
  [][PutSucceeds /\ missed' = {} => \/ ShowsPort'
                                   \/ <<oldSrc', oldDrw'[2]>> \in TooSmall]_vars

(* An overlay that is on reads memory that is still allocated to it, as    *)
(* long as no put has failed and no format has changed under the same part.*)
OverlayReadsLiveMemory ==
  hw.on /\ missed \subseteq {"resized"} => hw.hqv # None /\ hw.hqv = surf.hqv
=============================================================================
