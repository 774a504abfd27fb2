------------------------------ MODULE CrtcTimings ------------------------------
(***************************************************************************)
(* How a mode is checked and laid out in the registers of the two CRT      *)
(* controllers (via_mode.c), and how their start address is set            *)
(* (via_driver.c).                                                         *)
(*                                                                         *)
(* A timing is a number spread over registers: a field [of, from, n, reg,  *)
(* at] puts n bits of it, from bit from on, at bit at of a register.       *)
(* Written registers are the set of the bits that are one, so fields that  *)
(* collide spoil each other.  Read turns it round, and Shown says which    *)
(* mode a controller shows that counts as the VGA does.  The driver starts *)
(* no secondary screen (ViaOutputsSelect); its layout is modelled as is.   *)
(***************************************************************************)
EXTENDS Integers, Sequences, FiniteSets, FiniteSetsExt

Bit(n, b) == (n \div 2^b) % 2
Field(of, from, n, reg, at) == [of |-> of, from |-> from, n |-> n, reg |-> reg, at |-> at]

Written(layout, value) ==
  UNION {{<<f.reg, f.at + b>> : b \in {b \in 0 .. f.n - 1 : Bit(value[f.of], f.from + b) = 1}}
           : f \in layout}
Read(layout, ones, of) ==
  MapThenSumSet(LAMBDA f : MapThenSumSet(
                   LAMBDA b : IF <<f.reg, f.at + b>> \in ones THEN 2^(f.from + b) ELSE 0,
                   0 .. f.n - 1),
                {f \in layout : f.of = of})

(* Lines of a screen are padded to 32 bytes; counted in units of 8.        *)
Padded(bytes) == LET t == bytes \div 8 IN ((t + 3) \div 4) * 4

-----------------------------------------------------------------------------
(* The primary controller counts columns in characters of 8 pixels.        *)

PrimaryHorizontal ==
  {Field("HTotal", 0, 8, "cr00", 0), Field("HTotal", 8, 1, "cr36", 3),
   Field("HDisplay", 0, 8, "cr01", 0), Field("HBlankStart", 0, 8, "cr02", 0),
   Field("HBlankEnd", 0, 5, "cr03", 0), Field("HBlankEnd", 5, 1, "cr05", 7),
   Field("HBlankEnd", 6, 1, "cr33", 5),
   Field("HSyncStart", 0, 8, "cr04", 0), Field("HSyncStart", 8, 1, "cr33", 4),
   Field("HSyncEnd", 0, 5, "cr05", 0)}

PrimaryVertical ==
  {Field("VTotal", 0, 8, "cr06", 0), Field("VTotal", 8, 1, "cr07", 0),
   Field("VTotal", 9, 1, "cr07", 5), Field("VTotal", 10, 1, "cr35", 0),
   Field("VDisplay", 0, 8, "cr12", 0), Field("VDisplay", 8, 1, "cr07", 1),
   Field("VDisplay", 9, 1, "cr07", 6), Field("VDisplay", 10, 1, "cr35", 2),
   Field("VSyncStart", 0, 8, "cr10", 0), Field("VSyncStart", 8, 1, "cr07", 2),
   Field("VSyncStart", 9, 1, "cr07", 7), Field("VSyncStart", 10, 1, "cr35", 1),
   Field("VSyncEnd", 0, 4, "cr11", 0),
   Field("LineCompare", 0, 8, "cr18", 0), Field("LineCompare", 8, 1, "cr07", 4),
   Field("LineCompare", 9, 1, "cr09", 6), Field("LineCompare", 10, 2, "cr33", 1),
   Field("LineCompare", 12, 1, "cr35", 4)}

PrimaryBlankPitch ==
  {Field("VBlankStart", 0, 8, "cr15", 0), Field("VBlankStart", 8, 1, "cr07", 3),
   Field("VBlankStart", 9, 1, "cr09", 5), Field("VBlankStart", 10, 1, "cr35", 3),
   Field("VBlankEnd", 0, 8, "cr16", 0),
   Field("Offset", 0, 8, "cr13", 0), Field("Offset", 8, 3, "cr35", 5),
   Field("Fetch", 0, 8, "sr1c", 0), Field("Fetch", 8, 2, "sr1d", 0)}

PrimaryLayout == PrimaryHorizontal \cup PrimaryVertical \cup PrimaryBlankPitch

(* m has the mode's numbers, and the bytes of a visible and of a whole     *)
(* line; blanking is taken from display and total, not from the mode.      *)
PrimaryValues(m) ==
  [HTotal |-> m.HTotal \div 8 - 5, HDisplay |-> m.HDisplay \div 8 - 1,
   HBlankStart |-> m.HDisplay \div 8 - 1, HBlankEnd |-> m.HTotal \div 8 - 1,
   HSyncStart |-> m.HSyncStart \div 8, HSyncEnd |-> m.HSyncEnd \div 8,
   VTotal |-> m.VTotal - 2, VDisplay |-> m.VDisplay - 1,
   VSyncStart |-> m.VSyncStart, VSyncEnd |-> m.VSyncEnd, LineCompare |-> 2^13 - 1,
   VBlankStart |-> m.VDisplay - 1, VBlankEnd |-> m.VTotal - 1,
   Offset |-> Padded(m.pitch), Fetch |-> Padded(m.visible) \div 2]

PrimaryVGAValid(m) ==
  /\ m.HTotal <= 4100 /\ m.HDisplay <= 2048 /\ m.HBlankStart <= 2048
  /\ m.HBlankEnd - m.HBlankStart <= 1025
  /\ m.HSyncStart <= 4095 /\ m.HSyncEnd - m.HSyncStart <= 256
  /\ m.VTotal <= 2049 /\ m.VDisplay <= 2048
  /\ m.VSyncStart <= 2047 /\ m.VSyncEnd - m.VSyncStart <= 16
  /\ m.VBlankStart <= 2048 /\ m.VBlankEnd - m.VBlankStart <= 257

(* The count after start whose low bits are low: the controller compares   *)
(* no more of an end.                                                      *)
EndAfter(start, low, bits) == start + 1 + ((low - start - 1) % 2^bits)

PrimaryShown(ones) ==
  LET r(of) == Read(PrimaryLayout, ones, of)
  IN  [HTotal |-> (r("HTotal") + 5) * 8, HDisplay |-> (r("HDisplay") + 1) * 8,
       HBlank |-> <<(r("HBlankStart") + 1) * 8,
                    (EndAfter(r("HBlankStart"), r("HBlankEnd"), 7) + 1) * 8>>,
       HSync |-> <<r("HSyncStart") * 8, EndAfter(r("HSyncStart"), r("HSyncEnd"), 5) * 8>>,
       VTotal |-> r("VTotal") + 2, VDisplay |-> r("VDisplay") + 1,
       VBlank |-> <<r("VBlankStart") + 1, EndAfter(r("VBlankStart"), r("VBlankEnd"), 8) + 1>>,
       VSync |-> <<r("VSyncStart"), EndAfter(r("VSyncStart"), r("VSyncEnd"), 4)>>,
       pitch |-> r("Offset") * 8, visible |-> r("Fetch") * 16]

-----------------------------------------------------------------------------
(* The secondary controller counts pixels. *)

SecondaryHorizontal ==
  {Field("HTotal", 0, 8, "cr50", 0), Field("HTotal", 8, 4, "cr55", 0),
   Field("HDisplay", 0, 8, "cr51", 0), Field("HDisplay", 8, 3, "cr55", 4),
   Field("HBlankStart", 0, 8, "cr52", 0), Field("HBlankStart", 8, 3, "cr54", 0),
   Field("HBlankEnd", 0, 8, "cr53", 0), Field("HBlankEnd", 8, 3, "cr54", 3),
   Field("HBlankEnd", 11, 1, "cr5d", 6),
   Field("HSyncStart", 0, 8, "cr56", 0), Field("HSyncStart", 8, 2, "cr54", 6),
   Field("HSyncStart", 10, 1, "cr5c", 7),
   Field("HSyncEnd", 0, 8, "cr57", 0), Field("HSyncEnd", 8, 1, "cr5c", 6)}

SecondaryVertical ==
  {Field("VTotal", 0, 8, "cr58", 0), Field("VTotal", 8, 3, "cr5d", 0),
   Field("VDisplay", 0, 8, "cr59", 0), Field("VDisplay", 8, 3, "cr5d", 3),
   Field("VBlankStart", 0, 8, "cr5a", 0), Field("VBlankStart", 8, 3, "cr5c", 0),
   Field("VBlankEnd", 0, 8, "cr5b", 0), Field("VBlankEnd", 8, 3, "cr5c", 3),
   Field("VSyncStart", 0, 8, "cr5e", 0), Field("VSyncStart", 8, 3, "cr5f", 5),
   Field("VSyncEnd", 0, 5, "cr5f", 0)}

SecondaryPitch ==
  {Field("Offset", 0, 8, "cr66", 0), Field("Offset", 8, 2, "cr67", 0),
   Field("Fetch", 0, 8, "cr65", 0), Field("Fetch", 8, 2, "cr67", 2)}

SecondaryLayout == SecondaryHorizontal \cup SecondaryVertical \cup SecondaryPitch

SecondaryValues(m) ==
  [HTotal |-> m.HTotal - 1, HDisplay |-> m.HDisplay - 1,
   HBlankStart |-> m.HDisplay - 1, HBlankEnd |-> m.HTotal - 1,
   HSyncStart |-> m.HSyncStart, HSyncEnd |-> m.HSyncEnd,
   VTotal |-> m.VTotal - 1, VDisplay |-> m.VDisplay - 1,
   VBlankStart |-> m.VDisplay - 1, VBlankEnd |-> m.VTotal - 1,
   VSyncStart |-> m.VSyncStart, VSyncEnd |-> m.VSyncEnd,
   Offset |-> Padded(m.pitch), Fetch |-> Padded(m.visible) \div 2]

SecondaryVGAValid(m) ==
  /\ m.HTotal <= 4096 /\ m.HDisplay <= 2048
  /\ m.HBlankStart <= 2048 /\ m.HBlankEnd <= 4096
  /\ m.HSyncStart <= 2047 /\ m.HSyncEnd - m.HSyncStart <= 512
  /\ m.VTotal <= 2048 /\ m.VDisplay <= 2048
  /\ m.VBlankStart <= 2048 /\ m.VBlankEnd <= 2048
  /\ m.VSyncStart <= 2047 /\ m.VSyncEnd - m.VSyncStart <= 32

SecondaryShown(ones) ==
  LET r(of) == Read(SecondaryLayout, ones, of)
  IN  [HTotal |-> r("HTotal") + 1, HDisplay |-> r("HDisplay") + 1,
       HBlank |-> <<r("HBlankStart") + 1, r("HBlankEnd") + 1>>,
       HSync |-> <<r("HSyncStart"), EndAfter(r("HSyncStart"), r("HSyncEnd"), 9)>>,
       VTotal |-> r("VTotal") + 1, VDisplay |-> r("VDisplay") + 1,
       VBlank |-> <<r("VBlankStart") + 1, r("VBlankEnd") + 1>>,
       VSync |-> <<r("VSyncStart"), EndAfter(r("VSyncStart"), r("VSyncEnd"), 5)>>,
       pitch |-> r("Offset") * 8, visible |-> r("Fetch") * 16]

-----------------------------------------------------------------------------
(* The start address, in units of two bytes in 24 bits, on the primary     *)
(* controller; the virtual screen that PreInit allows at most.             *)
MaxPitch == 3344
MaxHeight == 2508
StartFields == {Field("Base", 0, 8, "cr0d", 0), Field("Base", 8, 8, "cr0c", 0),
                Field("Base", 16, 8, "cr34", 0)}
Base(width, bytes, x, y) == ((y * width + x) * bytes) \div 2
AdjustFrame(width, bytes, x, y) ==
  Written(StartFields, [Base |-> Base(width, bytes, x, y)])

-----------------------------------------------------------------------------
(* Modes at the limits of the checks, as the server passes them: it shrinks*)
(* blanking to what a plain VGA can hold, so that the driver's own checks  *)
(* see less than what it programs.                                         *)
LesserOf(a, b) == IF a < b THEN a ELSE b
Mode(hd, hs, hw, ht, vd, vs, vw, vt, bytes, width) ==
  [HDisplay |-> hd, HSyncStart |-> hs, HSyncEnd |-> hs + hw, HTotal |-> ht,
   HBlankEnd |-> ht, HBlankStart |-> IF ht - hd >= 504 THEN ht - 504 ELSE hd,
   VDisplay |-> vd, VSyncStart |-> vs, VSyncEnd |-> vs + vw, VTotal |-> vt,
   VBlankEnd |-> vt, VBlankStart |-> IF vt - vd >= 127 THEN vt - 127 ELSE vd,
   visible |-> hd * bytes, pitch |-> width * bytes]
Horizontals == {<<640, 656, 96, 800>>, <<2048, 2048, 256, 2560>>, <<2048, 2096, 8, 3072>>,
                <<1280, 2040, 248, 2304>>, <<640, 640, 8, 1800>>}
Verticals == {<<480, 489, 2, 525>>, <<1792, 1792, 16, 2048>>, <<2047, 2047, 1, 2049>>,
              <<1024, 1278, 2, 1280>>, <<480, 490, 2, 800>>}
Modes == {Mode(hh[1], hh[2], hh[3], hh[4], vv[1], vv[2], vv[3], vv[4], bytes, width)
            : hh \in Horizontals, vv \in Verticals, bytes \in {1, 2, 4}, width \in {2048, 3328}}
AsWanted(m) ==
  [HTotal |-> m.HTotal, HDisplay |-> m.HDisplay, HBlank |-> <<m.HDisplay, m.HTotal>>,
   HSync |-> <<m.HSyncStart, m.HSyncEnd>>,
   VTotal |-> m.VTotal, VDisplay |-> m.VDisplay, VBlank |-> <<m.VDisplay, m.VTotal>>,
   VSync |-> <<m.VSyncStart, m.VSyncEnd>>,
   pitch |-> Padded(m.pitch) * 8, visible |-> Padded(m.visible) * 8]
ShownAsWanted(m) == PrimaryShown(Written(PrimaryLayout, PrimaryValues(m))) = AsWanted(m)
Wide(m) == m.HTotal - m.HDisplay > 1024 \/ m.VTotal - m.VDisplay > 256

(* What the primary controller shows of a mode that passes the check is    *)
(* that mode, unless its blanking is wider than the registers hold: the    *)
(* check for that looks at the blanking as the server has shrunk it, and   *)
(* lets every such mode pass.                                              *)
ASSUME PrimaryRoundTrip ==
  \A m \in Modes : PrimaryVGAValid(m) => (ShownAsWanted(m) <=> ~Wide(m))

(* The same of the secondary controller, which has two bits less for the   *)
(* length of a line: one of 8192 bytes or more is cut.                     *)
ASSUME SecondaryRoundTrip ==
  \A m \in Modes : SecondaryVGAValid(m) =>
    ((SecondaryShown(Written(SecondaryLayout, SecondaryValues(m))) = AsWanted(m))
       <=> m.pitch < 8192)

(* Every frame of the largest virtual screen can be panned to.             *)
ASSUME StartAddressFits ==
  \A bytes \in {1, 2, 4}, x \in {0, 4, MaxPitch - 640}, y \in {0, 1, MaxHeight - 480} :
    Read(StartFields, AdjustFrame(MaxPitch, bytes, x, y), "Base") * 2
      = (y * MaxPitch + x) * bytes
=============================================================================
