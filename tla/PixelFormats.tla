----------------------------- MODULE PixelFormats -----------------------------
(***************************************************************************)
(* The arithmetic of pixel formats and textures in via_3d.c and            *)
(* via_accel.c, with what it is meant to compute stated as assumptions     *)
(* that TLC evaluates.                                                     *)
(***************************************************************************)
EXTENDS Integers, FiniteSets

LOCAL Pow2(n) == 2 ^ n

(* PICT_FORMAT of the Render extension.  type: "a", "argb", "abgr". *)
TypeNumber == [a |-> 1, argb |-> 2, abgr |-> 3]
Fmt(bpp, type, a, r, g, b) ==
  [bpp |-> bpp, type |-> type, a |-> a, r |-> r, g |-> g, b |-> b]
PictFormat(f) ==
  f.bpp * Pow2(24) + TypeNumber[f.type] * Pow2(16) + f.a * Pow2(12)
    + f.r * Pow2(8) + f.g * 16 + f.b

viaFormats ==
  {Fmt(16, t, 0, 5, 5, 5) : t \in {"argb", "abgr"}} \cup
  {Fmt(16, t, 0, 5, 6, 5) : t \in {"argb", "abgr"}} \cup
  {Fmt(16, t, 4, 4, 4, 4) : t \in {"argb", "abgr"}} \cup
  {Fmt(16, t, 1, 5, 5, 5) : t \in {"argb", "abgr"}} \cup
  {Fmt(32, t, 0, 8, 8, 8) : t \in {"argb", "abgr"}} \cup
  {Fmt(32, t, 8, 8, 8, 8) : t \in {"argb", "abgr"}} \cup
  {Fmt(8, "a", 8, 0, 0, 0), Fmt(4, "a", 4, 0, 0, 0), Fmt(1, "a", 1, 0, 0, 0)}

FmtHash(n) == ((n \div 2 + n) \div 256) % 256

(* The table of formats is indexed by this hash and holds one format per   *)
(* entry: two supported formats with one hash would lose the first ("BUG:  *)
(* Bad hash function").                                                    *)
ASSUME HashIsInjective ==
  \A f, g \in viaFormats :
    f # g => FmtHash(PictFormat(f)) # FmtHash(PictFormat(g))

(* An unsupported format that shares the hash of a supported one is told   *)
(* apart by the pictFormat in the entry.                                   *)
TexSupported(f) ==
  \E g \in viaFormats : /\ FmtHash(PictFormat(f)) = FmtHash(PictFormat(g))
                        /\ PictFormat(f) = PictFormat(g)
DstSupported(f) == TexSupported(f) /\ f.type # "a"

-----------------------------------------------------------------------------
(* One-pixel pictures as colours. *)

BitExpand(component, bits) ==
  component * Pow2(8 - bits)
    + IF component % 2 = 1 THEN Pow2(8 - bits) - 1 ELSE 0

(* Field i of a pixel, i bits wide, counted from the lowest bit. *)
Field(pixel, shift, bits) == BitExpand((pixel \div Pow2(shift)) % Pow2(bits), bits)

PixelARGB8888(f, pixel) ==
  LET lo == Field(pixel, 0, f.b)
      g  == Field(pixel, f.b, f.g)
      hi == Field(pixel, f.b + f.g, f.r)
      a  == IF f.a = 0 THEN 255 ELSE Field(pixel, f.b + f.g + f.r, f.a)
  IN  CASE f.type = "a"    -> [a |-> Field(pixel, 0, f.a), r |-> 0, g |-> 0, b |-> 0]
        [] f.type = "argb" -> [a |-> a, r |-> hi, g |-> g, b |-> lo]
        [] f.type = "abgr" -> [a |-> a, r |-> lo, g |-> g, b |-> hi]

(* Expansion keeps the component in the high bits, is monotonic, and takes *)
(* nothing to nothing and everything to everything.                        *)
ASSUME ExpansionIsFaithful ==
  \A bits \in {1, 4, 5, 6, 8} :
    /\ BitExpand(0, bits) = 0 /\ BitExpand(Pow2(bits) - 1, bits) = 255
    /\ \A c \in 0..(Pow2(bits) - 1) : BitExpand(c, bits) \div Pow2(8 - bits) = c
    /\ \A c \in 1..(Pow2(bits) - 1) : BitExpand(c - 1, bits) < BitExpand(c, bits)

(* A colour packed into any 16-bit or alpha format comes back with every   *)
(* component in its own place: red is not read as blue.                    *)
Some(bits) == {0, 1, Pow2(bits) - 1}
ASSUME PixelsUnpack ==
  \A f \in {g \in viaFormats : g.bpp = 16} :
    \A a \in Some(f.a), r \in Some(f.r), g \in Some(f.g), b \in Some(f.b) :
      LET low   == IF f.type = "argb" THEN b ELSE r
          high  == IF f.type = "argb" THEN r ELSE b
          pixel == (low + g * Pow2(f.b) + high * Pow2(f.b + f.g)
                    + a * Pow2(f.b + f.g + f.r)) % Pow2(16)
      IN  PixelARGB8888(f, pixel) =
            [a |-> IF f.a = 0 THEN 255 ELSE BitExpand(a % Pow2(f.a), f.a),
             r |-> BitExpand(r, f.r), g |-> BitExpand(g, f.g), b |-> BitExpand(b, f.b)]

-----------------------------------------------------------------------------
(* Texture geometry.  Order is the shift viaOrder finds. *)

Order2(val) == CHOOSE s \in 0..31 :
                 /\ val <= Pow2(s) /\ \A t \in 0..31 : t < s => val > Pow2(t)
LOCAL Least(a, b) == IF a < b THEN a ELSE b

AgpUploadSize == 128 * 1024       \* VIA_AGP_UPL_SIZE, one half of the buffer
UploadShape(w, bpp) ==
  LET wBytes == (w * bpp + 7) \div 8
      order  == IF Order2(wBytes) < 3 THEN 3 ELSE Order2(wBytes)
      height == Least(AgpUploadSize \div Pow2(order), 1024)
  IN  [wBytes |-> wBytes, pitch |-> Pow2(order), height |-> height,
       width |-> Pow2(Order2(w)), bufOffs |-> Pow2(order) * height]

(* A line fits its pitch, a half its share of the AGP buffer, and the      *)
(* texture that spans both halves stays within what the engine can address.*)
ASSUME UploadFitsHalves ==
  \A w \in {1, 2, 3, 63, 64, 65, 500, 512, 513, 1023, 1024, 1025, 2047, 2048},
     bpp \in {16, 32} :
    LET s == UploadShape(w, bpp)
    IN  /\ s.wBytes <= s.pitch /\ w <= s.width
        /\ s.height > 0 /\ s.bufOffs <= AgpUploadSize
        /\ 2 * s.height <= 2048
        /\ s.width * (bpp \div 8) <= s.pitch
=============================================================================
