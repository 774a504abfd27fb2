---------------------------- MODULE ShadowRotation ----------------------------
(***************************************************************************)
(* The shadow frame buffer (via_shadow.c): what the X server draws into,   *)
(* and the hooks that copy each damaged box to the frame buffer, turned by *)
(* 90 degrees if the screen is.  The picture and the pointer are turned by *)
(* different functions, in terms of different sizes.                       *)
(*                                                                         *)
(* Addresses are in pixels.  A copy takes one pixel of the shadow (from)   *)
(* to one of the frame buffer (to); a hook that packs several pixels into  *)
(* a word is the set of their copies.  A screen is the frame buffer's      *)
(* virtualX, virtualY and displayWidth; rotate is 1, -1 or 0, as in VIARec.*)
(***************************************************************************)
EXTENDS Integers

(* VIAInternalScreenInit: the size and pitch of what the server draws into *)
ShadowScreen(fb, rotate, bytes) ==
  LET width == IF rotate = 0 THEN fb.virtualX ELSE fb.virtualY
  IN  [width  |-> width,
       height |-> IF rotate = 0 THEN fb.virtualY ELSE fb.virtualX,
       pitch  |-> (((width * bytes + 3) \div 4) * 4) \div bytes]

(* VIARefreshArea: displayWidth is a multiple of a word. *)
Straight(fb, shadow, box) ==
  {[from |-> y * shadow.pitch + x, to |-> y * fb.displayWidth + x] :
     x \in box.x1 .. box.x2 - 1, y \in box.y1 .. box.y2 - 1}

(* VIARefreshArea8, 16 and 32: pixels is how many a word of the frame      *)
(* buffer holds.  Each line of the frame buffer is filled word by word     *)
(* from a column of the shadow, upwards or downwards.                      *)
Turned(fb, shadow, rotate, pixels, box) ==
  LET y1    == (box.y1 \div pixels) * pixels
      y2    == ((box.y2 + pixels - 1) \div pixels) * pixels
      pitch == -rotate * shadow.pitch
      dst   == IF rotate = 1
               THEN box.x1 * fb.displayWidth + fb.virtualX - y2
               ELSE (fb.virtualY - box.x2) * fb.displayWidth + y1
      src   == IF rotate = 1
               THEN (1 - y2) * pitch + box.x1
               ELSE y1 * pitch + box.x2 - 1
  IN  {[from |-> src + rotate * line + pitch * pixel,
        to   |-> dst + line * fb.displayWidth + pixel] :
         line \in 0 .. box.x2 - box.x1 - 1, pixel \in 0 .. y2 - y1 - 1}

(* ViaShadowFBInit picks the hook by the depth. *)
Refresh(fb, rotate, bytes, box) ==
  LET shadow == ShadowScreen(fb, rotate, bytes)
  IN  IF rotate = 0 THEN Straight(fb, shadow, box)
      ELSE Turned(fb, shadow, rotate, 4 \div bytes, box)

(* VIAPointerMoved: where the hardware is told the pointer is. *)
Pointer(screen, rotate, x, y) ==
  CASE rotate = 1  -> [x |-> screen.height - y - 1, y |-> x]
    [] rotate = -1 -> [x |-> y, y |-> screen.width - x - 1]
    [] rotate = 0  -> [x |-> x, y |-> y]

-----------------------------------------------------------------------------
(* Mode widths are multiples of 8; displayWidth may be larger.             *)
LOCAL Screens == {[virtualX |-> 8, virtualY |-> 3, displayWidth |-> 16],
                  [virtualX |-> 8, virtualY |-> 6, displayWidth |-> 8],
                  [virtualX |-> 16, virtualY |-> 5, displayWidth |-> 16]}
LOCAL Corners(n) == {c \in (0 .. n) \X (0 .. n) : c[1] < c[2]}
LOCAL Boxes(shadow) ==
  {[x1 |-> c[1], x2 |-> c[2], y1 |-> r[1], y2 |-> r[2]] :
     c \in Corners(shadow.width), r \in Corners(shadow.height)}
LOCAL Damages == {[fb |-> fb, rotate |-> rotate, bytes |-> bytes] :
                    fb \in Screens, rotate \in {-1, 0, 1}, bytes \in {1, 2, 4}}
LOCAL ToOf(fb, p) == p.y * fb.displayWidth + p.x

(* A refresh brings every pixel of the damaged box to where the pointer    *)
(* over it is shown, and whatever else it writes because it rounds the box *)
(* to whole words is a pixel of the shadow in its own place: the picture   *)
(* and the pointer agree, and nothing outside the screen is written or     *)
(* read.                                                                   *)
ASSUME PictureUnderPointer ==
  \A d \in Damages :
    LET shadow == ShadowScreen(d.fb, d.rotate, d.bytes)
        place(x, y) == [from |-> y * shadow.pitch + x,
                        to   |-> ToOf(d.fb, Pointer(shadow, d.rotate, x, y))]
        all == {place(x, y) : x \in 0 .. shadow.width - 1, y \in 0 .. shadow.height - 1}
    IN  \A box \in Boxes(shadow) :
          LET copies == Refresh(d.fb, d.rotate, d.bytes, box)
          IN  /\ {place(x, y) : x \in box.x1 .. box.x2 - 1,
                                y \in box.y1 .. box.y2 - 1} \subseteq copies
              /\ copies \subseteq all

(* Words of the frame buffer are written whole, so a refresh starts each   *)
(* line at a word, whatever the box.                                       *)
ASSUME WordsAligned ==
  \A d \in Damages :
    LET shadow == ShadowScreen(d.fb, d.rotate, d.bytes)
        pixels == 4 \div d.bytes
    IN  d.rotate # 0 =>
          \A box \in Boxes(shadow) :
            LET to == {c.to : c \in Refresh(d.fb, d.rotate, d.bytes, box)}
            IN  \A t \in to : \A k \in 0 .. pixels - 1 : (t \div pixels) * pixels + k \in to
===============================================================================
