---------------------------- MODULE VideoGeometry ----------------------------
(***************************************************************************)
(* Where the bytes of a video image are: in the image of the X client, in  *)
(* the surface of the overlay, in the surfaces the server allocates for    *)
(* XvMC and its client addresses, and in what the overlay is told to read  *)
(* (via_video.c, via_swov.c, via_xvmc.c, xvmc/viaXvMC.c).  Half a dozen    *)
(* functions in two programs compute the same addresses independently.     *)
(*                                                                         *)
(* A plane is a rectangle of bytes: lines of width bytes, pitch apart,     *)
(* from at on.  Addresses are relative to the buffer.                      *)
(***************************************************************************)
EXTENDS Integers, FiniteSets

LOCAL Least(a, b) == IF a < b THEN a ELSE b
AlignTo(n, k) == ((n + k - 1) \div k) * k

Formats == {"YUY2", "RV15", "RV16", "RV32", "YV12"}
BytesOf == [YUY2 |-> 2, RV15 |-> 2, RV16 |-> 2, RV32 |-> 4, YV12 |-> 1, XVMC |-> 1]
Planar  == {"YV12", "XVMC"}

Plane(at, pitch, width, lines) ==
  [at |-> at, pitch |-> pitch, width |-> width, lines |-> lines]
LineOf(p, l) == p.at + l * p.pitch
EndOf(p) == LineOf(p, p.lines - 1) + p.width
Disjoint(p, q) == EndOf(p) <= q.at \/ EndOf(q) <= p.at

-----------------------------------------------------------------------------
(* The image of an Xv client, after its size is rounded and limited. *)

ImageSize(f, w, h) ==
  LET even(n) == AlignTo(n, 2)
  IN  [w |-> even(Least(w, 1920)),
       h |-> IF f \in Planar THEN even(Least(h, 1200)) ELSE Least(h, 1200)]

ImagePlanes(f, w, h, dma) ==
  LET pitch(n) == IF dma THEN AlignTo(n, 16) ELSE n
      luma     == pitch(BytesOf[f] * w)
      chroma   == pitch(w \div 2)
  IN  IF f \in Planar
      THEN [y |-> Plane(0, luma, w, h),
            v |-> Plane(luma * h, chroma, w \div 2, h \div 2),
            u |-> Plane(luma * h + chroma * (h \div 2), chroma, w \div 2, h \div 2)]
      ELSE [y |-> Plane(0, luma, BytesOf[f] * w, h)]

(* CreateSurface: two buffers of fbsize; the addresses of the first. *)
SurfacePitch(f, w) == AlignTo(BytesOf[f] * w, 32)
SurfaceSize(f, w, h) ==
  SurfacePitch(f, w) * h + IF f \in Planar THEN (SurfacePitch(f, w) * h) \div 2 ELSE 0

SurfacePlanes(f, w, h) ==
  LET pitch == SurfacePitch(f, w)
      cr    == pitch * h
  IN  IF f \in Planar
      THEN [y |-> Plane(0, pitch, w, h),
            v |-> Plane(cr, pitch \div 2, w \div 2, h \div 2),
            u |-> Plane(cr + (pitch \div 2) * (h \div 2), pitch \div 2, w \div 2, h \div 2)]
      ELSE [y |-> Plane(0, pitch, BytesOf[f] * w, h)]

(* The K8M800 reads chroma interleaved, from where v is. *)
InterleavedPlane(w, h) ==
  Plane(SurfacePitch("YV12", w) * h, SurfacePitch("YV12", w), w, h \div 2)

(* viaOverlayGetYCbCrStartAddress: what an update of the overlay writes to *)
(* the address registers that Flip writes from the surface.                *)
UpdateAddresses(w, h) ==
  LET pitch == SurfacePitch("YV12", w)
  IN  [y |-> 0, v |-> pitch * h, u |-> pitch * h + pitch * (h \div 4)]

(* viaFastVidCpy and viaDmaBlitImage: a copy of lines is a pair of planes  *)
(* of the same width and number of lines.  Both copy the chroma planes as  *)
(* one.                                                                    *)
Copies(f, w, h, dma) ==
  LET pitch  == SurfacePitch(f, w)
      luma   == IF dma THEN AlignTo(BytesOf[f] * w, 16) ELSE BytesOf[f] * w
      chroma == IF dma THEN AlignTo(w \div 2, 16) ELSE w \div 2
  IN  {[from |-> Plane(0, luma, luma, h), to |-> Plane(0, pitch, luma, h)]} \cup
      (IF f \notin Planar THEN {}
       ELSE {[from |-> Plane(luma * h, chroma, chroma, h),
              to   |-> Plane(pitch * h, pitch \div 2, chroma, h)]})

(* nv12Blit, by nv12cp or into the bounce buffer of the DMA: the chroma    *)
(* planes it reads and the plane it writes.                                *)
Interleave(w, h, dma) ==
  LET luma   == IF dma THEN AlignTo(w, 16) ELSE w
      chroma == IF dma THEN AlignTo(w \div 2, 16) ELSE w \div 2
      stride == IF dma THEN luma ELSE SurfacePitch("YV12", w)
  IN  [v |-> Plane(luma * h, chroma, w \div 2, h \div 2),
       u |-> Plane(luma * h + chroma * (h \div 2), chroma, w \div 2, h \div 2),
       to |-> Plane(stride * h, stride, w, h \div 2)]

(* The bounce buffer is allocated anew when its stride or lines change. *)
BounceSize(f, w, h) ==
  LET stride == AlignTo(BytesOf[f] * w, 16)
  IN  stride * h + 16 + IF f = "YV12" THEN AlignTo(stride \div 2, 16) * h ELSE 0

(* Byte b of line l of an image plane is copied to byte b of line l of the *)
(* plane the overlay reads, for the first and last line and byte.          *)
Carries(cs, p, q) ==
  \A l \in {0, p.lines - 1}, b \in {0, p.width - 1} :
    \E c \in cs : \E k \in {l, l + p.lines} :
      /\ k < c.from.lines /\ b < c.from.width
      /\ LineOf(c.from, k) + b = LineOf(p, l) + b
      /\ LineOf(c.to, k) + b = LineOf(q, l) + b

Widths  == {2, 8, 16, 30, 32, 34, 48, 64, 66, 176, 352, 720, 722, 1024, 1918, 1920}
Heights == {2, 4, 6, 16, 90, 240, 270, 576, 1080, 1200}
ClientImages ==
  {[f |-> f, w |-> ImageSize(f, w, h).w, h |-> ImageSize(f, w, h).h, dma |-> dma] :
     f \in Formats, w \in Widths \cup {1, 721, 2048}, h \in Heights \cup {5, 1300},
     dma \in BOOLEAN}

(* The bytes of every image reach the plane of the surface that Flip makes *)
(* the overlay read, copied by the CPU or by DMA.                          *)
ASSUME CopyCarriesImage ==
  \A i \in ClientImages :
    LET image   == ImagePlanes(i.f, i.w, i.h, i.dma)
        surface == SurfacePlanes(i.f, i.w, i.h)
    IN  \A p \in DOMAIN image :
          Carries(Copies(i.f, i.w, i.h, i.dma), image[p], surface[p])

(* No copy writes over another plane, beyond its buffer, or reads beyond   *)
(* the planes of the image.                                                *)
ASSUME CopyStaysInside ==
  \A i \in ClientImages :
    LET cs    == Copies(i.f, i.w, i.h, i.dma)
        image == ImagePlanes(i.f, i.w, i.h, i.dma)
    IN  \A c \in cs :
          /\ EndOf(c.to) <= SurfaceSize(i.f, i.w, i.h)
          /\ c.to.width <= c.to.pitch
          /\ \A d \in cs : c = d \/ Disjoint(c.to, d.to)
          /\ \E p \in DOMAIN image : EndOf(c.from) <= LineOf(image[p], image[p].lines)

(* Interleaving reads the planes of the image and writes what the chip     *)
(* reads, in the surface or in the bounce buffer that is sent after it.    *)
ASSUME InterleavesChroma ==
  \A w \in Widths, h \in Heights, dma \in BOOLEAN :
    LET image == ImagePlanes("YV12", w, h, dma)
        il    == Interleave(w, h, dma)
    IN  /\ il.v = image.v /\ il.u = image.u
        /\ IF dma THEN EndOf(il.to) <= BounceSize("YV12", w, h) - 16
           ELSE /\ il.to = InterleavedPlane(w, h)
                /\ EndOf(il.to) <= SurfaceSize("YV12", w, h)

(* What an update of the overlay writes to the address registers is what   *)
(* Flip wrote there.  For a height that is even but no multiple of four    *)
(* the two differ: half a pitch times half a height is not the pitch times *)
(* height >> 2 (via_swov.c:457), and the second chroma plane is read from  *)
(* one line too early until the next flip.                                 *)
ASSUME UpdateReadsWhatFlipShows ==
  \A w \in Widths, h \in Heights :
    LET s == SurfacePlanes("YV12", w, h)
        u == UpdateAddresses(w, h)
    IN  /\ u.y = s.y.at /\ u.v = s.v.at
        /\ u.u = s.u.at - IF h % 4 = 0 THEN 0 ELSE SurfacePitch("YV12", w) \div 2

-----------------------------------------------------------------------------
(* XvMC: the server allocates, the client addresses. *)

Stride(w) == AlignTo(w, 32)          \* of the server
YStride(w) == AlignTo(w, 32)         \* of the client
SizeYuv420(w, h) == h * (Stride(w) + Stride(w) \div 2)
SizeXx44(w, h) == h * Stride(w)

(* A surface takes 32 bytes more than its size: its offset is aligned. *)
ServerOffset(base) == AlignTo(base, 32)
ServerAllocates(size) == size + 32

(* yOffs, vOffs and uOffs of a surface, with the planes behind them. *)
ClientPlanes(w, h, interleaved) ==
  LET s == YStride(w)
      v == s * h
  IN  IF interleaved
      THEN [y |-> Plane(0, s, w, h), v |-> Plane(v, s, w, h \div 2)]
      ELSE [y |-> Plane(0, s, w, h),
            v |-> Plane(v, s \div 2, w \div 2, h \div 2),
            u |-> Plane(v + (s \div 2) * (h \div 2), s \div 2, w \div 2, h \div 2)]

SubpictureStride(w) == AlignTo(w, 32)
ClientSubpicture(w, h) == Plane(0, SubpictureStride(w), w, h)

(* XvMCBlendSubpicture2: the copies from a surface to another of its size. *)
BlendCopies(w, h, interleaved) ==
  LET p == ClientPlanes(w, h, interleaved) IN {p[q] : q \in DOMAIN p}

(* viaBlit: where the engine finds a base with 8 or 32 bits a pixel. *)
BlitAddress(base, bpp) ==
  (base - (base % 32)) + (IF bpp = 32 THEN ((base % 32) \div 16) * 4 ELSE base % 32)

(* The planes the client draws in lie in the memory the server allocated,  *)
(* apart from each other, wherever the memory begins; the server and the   *)
(* client compute the strides and offsets separately.                      *)
ASSUME ClientStaysInAllocation ==
  \A w \in Widths, h \in Heights, base \in {0, 8, 31, 4096} :
    LET room == base + ServerAllocates(SizeYuv420(w, h))
        at   == ServerOffset(base)
    IN  /\ \A interleaved \in BOOLEAN :
             LET planes == BlendCopies(w, h, interleaved)
             IN  /\ \A p \in planes : at + EndOf(p) <= room
                 /\ \A p, q \in planes : p = q \/ Disjoint(p, q)
        /\ at + EndOf(ClientSubpicture(w, h))
             <= base + ServerAllocates(SizeXx44(w, h))

(* The engine takes the address of a blit apart into an aligned base and a *)
(* position: it puts them together to the address meant, for every plane   *)
(* of a surface and for the time stamp.                                    *)
ASSUME BlitFindsPlane ==
  /\ \A w \in Widths, h \in Heights : \A p \in BlendCopies(w, h, FALSE) :
       /\ BlitAddress(p.at, 8) = p.at
       /\ p.pitch % 8 = 0
  /\ \A tsMem \in {0, 8, 40} : BlitAddress(AlignTo(tsMem, 32), 32) = AlignTo(tsMem, 32)

-----------------------------------------------------------------------------
(* findOverlap: positions are shorts, sizes unsigned.  A negative position *)
(* compares as a large unsigned number, so the clipping of negative        *)
(* positions that follows is never reached.                                *)
NoOverlap == [overlap |-> FALSE]
FindOverlap(width, height, dst, src, area) ==
  IF dst.x < 0 \/ dst.y < 0 \/ dst.x >= width \/ dst.y >= height
     \/ area.w <= 0 \/ area.h <= 0
  THEN NoOverlap
  ELSE [overlap |-> TRUE, dst |-> dst, src |-> src,
        area |-> [w |-> Least(area.w, width - dst.x), h |-> Least(area.h, height - dst.y)]]

(* XvMCClearSubpicture: the rectangle filled. *)
Cleared(sub, at, area) == FindOverlap(sub.w, sub.h, at, at, area)

(* XvMCCompositeSubpicture: clipped by the subpicture, then by the image   *)
(* with the two positions in exchanged roles.                              *)
Composed(sub, image, src, dst, area) ==
  LET first == FindOverlap(sub.w, sub.h, dst, src, area)
  IN  IF ~ first.overlap THEN NoOverlap
      ELSE LET second == FindOverlap(image.w, image.h, first.src, first.dst, first.area)
           IN  IF ~ second.overlap THEN NoOverlap
               ELSE [overlap |-> TRUE, src |-> second.dst, dst |-> second.src,
                     area |-> second.area]

LOCAL Sizes2 == [w : {4, 6}, h : {5}]
LOCAL Points(lo) == [x : lo..7, y : {0, 3, 5}]
LOCAL Areas == [w : {0, 2, 9}, h : {1, 7}]
LOCAL Pixels(at, area) == (at.x..(at.x + area.w - 1)) \X (at.y..(at.y + area.h - 1))
LOCAL Whole(s) == Pixels([x |-> 0, y |-> 0], s)

(* Where no position is negative, what is cleared or composed is just what *)
(* was asked for and lies in the subpicture and in the image; a negative   *)
(* position composes and clears nothing, although some of it may overlap.  *)
ASSUME OverlapIsIntersection ==
  \A sub, image \in Sizes2, src, dst \in Points(-1), area \in Areas :
    LET clear == Cleared(sub, dst, area)
        comp  == Composed(sub, image, src, dst, area)
        inSub == Pixels(dst, area) \cap Whole(sub)
        moved == {p \in inSub : <<p[1] - dst.x + src.x, p[2] - dst.y + src.y>> \in Whole(image)}
    IN  /\ clear.overlap => Pixels(clear.dst, clear.area) = inSub
        /\ (dst.x >= 0 /\ ~ clear.overlap) => inSub = {}
        /\ comp.overlap => /\ Pixels(comp.dst, comp.area) = moved
                           /\ Pixels(comp.src, comp.area) \subseteq Whole(image)
        /\ (dst.x >= 0 /\ src.x >= 0 /\ ~ comp.overlap) => moved = {}
=============================================================================
