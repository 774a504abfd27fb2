---------------------------- MODULE OverlayScaling ----------------------------
(***************************************************************************)
(* What an update of the overlay programs (via_swov.c): the part of the    *)
(* picture that is on the screen, zoom factors, fetch counts and FIFO      *)
(* thresholds; and whether the memory is fast enough for an overlay        *)
(* (via_video.c).  The chips supported all scale in the HQV engine         *)
(* (ViaInitVideoStatusFlag); the other branches are for none of them.      *)
(***************************************************************************)
EXTENDS Integers

LOCAL Least(a, b) == IF a < b THEN a ELSE b
LOCAL Greatest(a, b) == IF a > b THEN a ELSE b
LOCAL RoundUp(n, k) == ((n + k - 1) \div k) * k
LOCAL Down(n, k) == n - (n % k)

Chips == {"CLE266A", "CLE266C", "KM400", "K8M800", "PM800", "VM800"}
Engine1(chip) == chip \in {"CLE266A", "CLE266C"}    \* VIDEO_1_INUSE, others V3
FetchByteUnit(chip) == chip # "CLE266A"
HQVBuffers(chip) == IF chip = "CLE266A" THEN 2 ELSE 3

-----------------------------------------------------------------------------
(* VIAVidUpdateOverlay: the destination after panning is cut at the edges  *)
(* of the screen, and the source with it.  Along one axis: dst from lo to  *)
(* hi, a screen of size pixels, orig pixels of the image.  The source is   *)
(* what the caller gave where no edge is cut.  Claimed of destinations that *)
(* reach the screen: panned off it, edges are compared as unsigned numbers. *)
SrcEdge(cut, lo, hi, orig) == (cut * orig + (hi - lo) \div 2) \div (hi - lo)

Visible(lo, hi, src, orig, size) ==
  [srcLo |-> IF lo < 0 THEN SrcEdge(- lo, lo, hi, orig) ELSE src[1],
   srcHi |-> IF hi > size THEN SrcEdge(size - lo, lo, hi, orig) ELSE src[2],
   dstLo |-> Greatest(lo, 0), dstHi |-> Least(hi, size)]

(* SetVideoWindow: the corners, in fields of 11 bits. *)
WindowField(n) == Least(n, 2047)
Window(v) == <<WindowField(v.dstLo), WindowField(v.dstHi - 1)>>

(* Of a whole image that is partly on the screen, the source window is in  *)
(* the image, its edges are those of the screen to half a pixel, and the   *)
(* window written is the visible part of the destination.                  *)
ASSUME SourceFollowsClip ==
  \A orig \in {2, 176, 720, 1920}, size \in {640, 1024, 1600},
     lo \in {-2000, -701, -1, 0, 5, 639}, length \in {1, 3, 176, 720, 1919, 4000} :
    LET hi == lo + length
        v  == Visible(lo, hi, <<0, orig>>, orig, size)
        within(edge, cut) == /\ 2 * (edge * length - cut * orig) <= length
                             /\ 2 * (cut * orig - edge * length) <= length
    IN  hi > 0 =>
          /\ 0 <= v.srcLo /\ v.srcLo <= v.srcHi /\ v.srcHi <= orig
          /\ within(v.srcLo, Greatest(- lo, 0)) /\ within(v.srcHi, Least(hi, size) - lo)
          /\ Window(v) = <<v.dstLo, v.dstHi - 1>>

-----------------------------------------------------------------------------
(* viaOverlayHQVCalcZoomWidth and ...Height: unit is 0x800 for the zoom of *)
(* the width, 0x400 for that of the height.  The HQV engine minifies, the  *)
(* overlay engine magnifies.                                               *)
Zoom(src, dst, unit) == IF src < dst THEN (src * unit) \div dst ELSE 0

(* Rounded up, from ten more bits than the field has. *)
Minify(src, dst) ==
  LET whole == (dst * 2048) \div src
      rest  == (((dst * 2048) % src) * 1024) \div src
  IN  IF src > dst THEN whole + (IF rest = 0 THEN 0 ELSE 1) ELSE 0

(* A picture is reduced by a power of two of at most 16 first. *)
ZoomOk(src, dst) == src \div 16 <= dst

(* Upd_Video: what it writes of these with the HQV in use.  It gives up    *)
(* between two writes if one axis cannot be scaled, and the engine keeps   *)
(* what it had.                                                            *)
ScalingWritten(w, h, dw, dh) ==
  IF ~ ZoomOk(w, dw) \/ ~ ZoomOk(h, dh) THEN [written |-> FALSE]
  ELSE [written |-> TRUE, zoomX |-> Zoom(w, dw, 2048) % 2048, zoomY |-> Zoom(h, dh, 1024) % 1024,
        miniX |-> Minify(w, dw) % 2048, miniY |-> Minify(h, dh) % 2048]

Lengths == {1, 2, 3, 7, 8, 15, 16, 17, 100, 176, 352, 719, 720, 1023, 1024, 1200, 1919, 1920}

(* The factors fit their fields, the source is enough for the window to    *)
(* the last pixel and not a pixel more than that is left over; a picture   *)
(* within a factor of 16 of its window is scaled and never refused.        *)
ASSUME ScalingFills ==
  \A src, dst \in Lengths :
    LET zoom == Zoom(src, dst, 2048)
        mini == Minify(src, dst)
    IN  /\ src < dst => /\ zoom \in 1..2047
                        /\ dst * zoom <= src * 2048 /\ src * 2048 < dst * (zoom + 1)
        /\ src > dst => /\ mini \in 1..2047
                        /\ mini * src > dst * 2048 - 2
                        /\ (mini - 1) * src < dst * 2048
        /\ (src <= 16 * dst) => ZoomOk(src, dst)
        /\ LET s == ScalingWritten(src, src, dst, dst)
           IN  s.written => (s.zoomX = zoom /\ s.miniX = mini)

-----------------------------------------------------------------------------
(* viaOverlayGetSrcStartAddress: where the overlay engine begins to read   *)
(* in the memory the HQV engine writes.  The offset of a packed picture is *)
(* reduced with the picture, that of a planar one is not: minified and cut *)
(* at the left or top, a planar picture is shown from a wrong place.       *)
HQVOffset(f, top, left, w, h, dw, dh, pitch) ==
  LET lines == IF h > dh THEN (Down(top, 4) * dh) \div h ELSE Down(top, 4)
      bytes == Down(left * (IF f = "RV32" THEN 4 ELSE 2), 32)
      shown == IF w > dw THEN (bytes * dw) \div w ELSE bytes
  IN  IF f = "YV12" THEN Down(top, 4) * pitch * 2 + bytes
      ELSE lines * pitch + shown

(* SurfaceSize of the HQV memory, per buffer (AddHQVSurface). *)
HQVBufferSize(f, pitch, height) == pitch * height * (IF f = "YV12" THEN 2 ELSE 1)

ASSUME OffsetInBuffer ==
  \A f \in {"YUY2", "RV32", "YV12"}, ow \in {64, 720}, oh \in {90, 576} :
    LET bpp   == IF f = "YV12" THEN 1 ELSE IF f = "RV32" THEN 4 ELSE 2
        pitch == RoundUp(ow * bpp, 32)
    IN  \A left \in {0, 1, 17, ow - 1}, top \in {0, 3, 4, oh - 1}, dw \in {10, 200, 1000} :
          HQVOffset(f, top, left, ow - left, oh - top, dw, dw, pitch)
            < HQVBufferSize(f, pitch, oh)

(* viaOverlayGetFetch: quadwords a line for the overlay engine, which      *)
(* reads what the HQV wrote, packed; and what the HQV engine fetches.      *)
PackedBytes(f) == IF f = "RV32" THEN 4 ELSE 2
Fetch(f, src, dst) ==
  Greatest(RoundUp(Least(src, dst) * PackedBytes(f), 16) \div 16 + 1, 4)

HQVFetch(f, chip, orig) ==
  LET bytes == orig * (IF f = "YV12" THEN 1 ELSE PackedBytes(f))
  IN  (IF FetchByteUnit(chip) THEN bytes ELSE bytes \div 8) - 1

(* The fetch counts cover the line, whatever its length; those of the HQV  *)
(* do where the line is a multiple of the fetch unit.                      *)
ASSUME FetchCoversLine ==
  \A f \in {"YUY2", "RV32", "YV12"}, src, dst \in Lengths, chip \in Chips :
    /\ 16 * Fetch(f, src, dst) >= Least(src, dst) * PackedBytes(f)
    /\ Fetch(f, src, dst) < 4096
    /\ LET bytes == src * (IF f = "YV12" THEN 1 ELSE PackedBytes(f))
           unit  == IF FetchByteUnit(chip) THEN 1 ELSE 8
       IN  bytes % unit = 0 => (HQVFetch(f, chip, src) + 1) * unit = bytes

-----------------------------------------------------------------------------
(* SetupFIFOs: depth, prethreshold and threshold. *)
Fifo(depth, pre, thr) == [depth |-> depth, pre |-> pre, thr |-> thr]

FifoV1(chip, planar, extended) ==
  IF chip = "CLE266C" THEN Fifo(64, 56, 56)
  ELSE IF ~ planar /\ extended THEN Fifo(48, 40, 40) ELSE Fifo(32, 29, 16)
FifoV3(chip) ==
  CASE chip = "KM400"  -> Fifo(32, 29, 29)
    [] chip = "K8M800" -> Fifo(100, 89, 89)
    [] chip = "PM800"  -> Fifo(32, 29, 29)
    [] chip = "VM800"  -> Fifo(64, 61, 61)

SetupFIFOs(chip, planar, width, extended) ==
  IF Engine1(chip) THEN FifoV1(chip, planar, extended)
  ELSE IF ~ planar /\ width <= 8 THEN Fifo(1, 0, 0) ELSE FifoV3(chip)

(* A FIFO is asked for more before it is empty and never for more than it  *)
(* holds, and what is written fits the fields.                             *)
ASSUME ThresholdsInFifo ==
  \A chip \in Chips, planar, extended \in BOOLEAN, width \in Lengths :
    LET f == SetupFIFOs(chip, planar, width, extended)
    IN  /\ f.thr <= f.pre /\ f.pre < f.depth /\ f.depth - 1 < 128

-----------------------------------------------------------------------------
(* DecideOverlaySupport.  Bandwidths of the newer chips are in hundredths. *)
(* SDR66 is what chips report that do not know (the FIXME of the code).     *)
Memories == {"SDR100", "SDR133", "DDR200", "DDR266", "DDR333", "SDR66", "other"}

OldSupport(mem, mode, bpp) ==
  LET bandwidth == (mode.w \div 16) * (mode.h \div 32) * bpp * mode.refresh
  IN  CASE mem = "DDR200" ->
             /\ bandwidth <= 1800000
             /\ mode.w > 800 => (bpp = 8 /\ mode.h <= 768 /\ mode.refresh <= 60)
        [] mem \in {"SDR66", "DDR266"} -> bandwidth <= 7901250
        [] OTHER -> FALSE

TotalBandwidth(mem) ==
  CASE mem = "SDR100" -> 50 * 16 * 41
    [] mem = "SDR133" -> 133 * 8 * 41
    [] mem = "DDR200" -> 100 * 16 * 41
    [] mem = "DDR266" -> 133 * 16 * 70
    [] OTHER          -> 166 * 16 * 70

DotClock(mode, out) ==
  LET refresh == IF ~ out.vbe THEN mode.refresh
                 ELSE IF out.tv THEN 60 ELSE IF out.panel THEN 70 ELSE 100
      onPanel == ~ out.vbe /\ out.panel
      shown   == CASE ~ onPanel -> [w |-> mode.w, h |-> mode.h, refresh |-> refresh]
                   [] onPanel /\ out.size = <<1400, 1050>> ->
                        [w |-> 1280, h |-> 1024, refresh |-> 60]
                   [] OTHER -> [w |-> out.size[1], h |-> out.size[2], refresh |-> refresh]
  IN  IF ~ out.vbe /\ ~ out.panel /\ out.tv
      THEN (shown.w * shown.h * 60) \div 580000
      ELSE (shown.w * shown.h * shown.refresh) \div 680000

DecideOverlaySupport(chip, mem, mode, bpp, out) ==
  IF Engine1(chip) THEN OldSupport(mem, mode, bpp)
  ELSE LET clock == DotClock(mode, out)
       IN  clock > 0 /\ 100 * (bpp \div 8 + 2) * clock < TotalBandwidth(mem)

LOCAL Screens == [w : {640, 800, 832, 1024, 1280, 1920}, h : {480, 600, 768, 1024, 1200},
                  refresh : {50, 60, 85}]
LOCAL Outs == [vbe : BOOLEAN, panel : BOOLEAN, tv : BOOLEAN,
               size : {<<1024, 768>>, <<1400, 1050>>}]

(* A mode with fewer pixels and a lower refresh rate is never refused an   *)
(* overlay that the larger mode gets, nor faster memory one that slower    *)
(* memory allows; the answer is remembered until the mode is set again.    *)
ASSUME SmallerIsSupported ==
  \A chip \in {"CLE266A", "K8M800"}, bpp \in {8, 16, 32}, out \in Outs :
    \A m, n \in Screens :
      (m.w <= n.w /\ m.h <= n.h /\ m.refresh <= n.refresh) =>
        /\ \A mem \in Memories : DecideOverlaySupport(chip, mem, n, bpp, out)
                                   => DecideOverlaySupport(chip, mem, m, bpp, out)
        /\ DecideOverlaySupport(chip, "DDR200", n, bpp, out)
             => DecideOverlaySupport(chip, "DDR266", m, bpp, out)
===============================================================================
