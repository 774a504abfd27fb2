----------------------------- MODULE ModeSelection -----------------------------
(***************************************************************************)
(* How the driver accepts and sets a mode (via_mode.c, via_bandwidth.c):   *)
(* the panel and its modes, the dot clock, the memory bandwidth, the FIFO  *)
(* of the primary controller, and the outputs it feeds.                    *)
(*                                                                         *)
(* A chip is "CLE266A", "CLE266C" (the revisions of the CLE266), "KM400",  *)
(* "KM400A" (and P4M800), "K8M800" or "PM800"; memClk is its type of       *)
(* memory, 3 to 6 from DDR200 to DDR400.  A mode is a record with x, y,    *)
(* clock (kHz), refresh, name and private, the list of the driver's own    *)
(* modes it is from ("panel", "NTSC", "PAL") or "".                        *)
(***************************************************************************)
EXTENDS Outputs, FiniteSets, FiniteSetsExt

OldChips == {"CLE266A", "CLE266C", "KM400", "KM400A"}     \* the UniChrome
ProChips == {"K8M800", "PM800"}                           \* the UniChrome Pro
Magnitude(n) == IF n < 0 THEN -n ELSE n
BitSet(word, b) == (word \div 2^b) % 2 = 1

-----------------------------------------------------------------------------
(* The panel. *)

NoPanel == 255
NumPanel == 7

(* The widest standard timing of the monitor's data, else its widest       *)
(* detailed one (clock in Hz); 0 if there is none.                         *)
ViaGetPanelSizeFromEDID(standard, detailed) ==
  LET widths == {s \in standard : s > 256}
  IN  IF widths # {} THEN Max(widths)
      ELSE Max({0} \cup {d.x : d \in {d \in detailed : d.clock > 15000000}})

(* What the monitor's data say, read over either of two buses, goes before *)
(* what the BIOS left in a scratch register, whose 0 is no panel of 640 by *)
(* 480 but no answer.                                                      *)
VIAGetPanelSize(edid, scratch) ==
  IF edid # 0
  THEN CASE edid = 640 -> 0 [] edid = 800 -> 1 [] edid = 1024 -> 2 [] edid = 1280 -> 4
         [] edid = 1400 -> 5 [] edid = 1600 -> 6 [] OTHER -> NoPanel
  ELSE IF scratch = 0 THEN 2 ELSE scratch

Native == <<<<640, 480>>, <<800, 600>>, <<1024, 768>>, <<1280, 768>>, <<1280, 1024>>,
            <<1400, 1050>>, <<1600, 1200>>>>                  \* of panel size 0 .. 6
Resolutions ==
  {Native[i] : i \in 1 .. 7} \cup
  {<<1152, 864>>, <<1440, 1050>>, <<1280, 960>>, <<848, 480>>, <<720, 480>>, <<720, 576>>,
   <<1024, 512>>, <<856, 480>>, <<1024, 576>>}

(* VESA mode numbers at 8, 16 and 24 or 32 bits per pixel.                 *)
ViaVesaModes ==
  {<<400, 300, 34, 35, 36>>, <<512, 384, 37, 38, 39>>, <<640, 400, 48, 46, 47>>,
   <<640, 480, 49, 51, 52>>, <<800, 600, 54, 56, 57>>, <<1024, 768, 59, 61, 62>>,
   <<1152, 864, 64, 66, 67>>, <<1280, 1024, 69, 71, 72>>, <<1600, 1200, 74, 76, 77>>,
   <<1440, 1050, 80, 82, 83>>, <<1280, 768, 84, 86, 87>>, <<1280, 960, 88, 90, 91>>,
   <<320, 200, 92, 93, 94>>, <<1920, 1440, 96, 97, 98>>, <<848, 480, 99, 100, 101>>,
   <<1400, 1050, 102, 103, 104>>, <<720, 480, 112, 113, 114>>, <<720, 576, 115, 116, 117>>,
   <<1024, 512, 118, 119, 120>>, <<856, 480, 121, 122, 123>>, <<320, 240, 124, 125, 126>>}
VesaNumbers(mode, bpp) ==
  {v[CASE bpp = 8 -> 3 [] bpp = 16 -> 4 [] OTHER -> 5] :
     v \in {v \in ViaVesaModes : v[1] = mode.x /\ v[2] = mode.y}}

(* One bit per VESA mode, in words of 16, for each entry of lcdTable.      *)
SuptMode ==
  LET w(a, b, c, d, e) == <<57599, 15, a, b, c, d, e, 28672>>
  IN  <<w(49404, 27, 0, 28672, 0), w(49660, 891, 0, 28672, 0), w(49660, 28539, 0, 28672, 0),
        w(49404, 28539, 0, 28880, 0), w(49404, 28539, 432, 32208, 0),
        w(49404, 28539, 432, 32208, 448), w(49404, 28539, 14256, 32221, 448)>>

(* The entry of lcdTable for a mode on a panel, or NumPanel.  Only a mode  *)
(* of the driver's own, of the size of the panel, passes.                  *)
ViaPanelGetIndex(size, mode, bpp) ==
  IF /\ size \in 0 .. 6 /\ mode.private = "panel"
     /\ <<mode.x, mode.y>> \in Resolutions /\ <<mode.x, mode.y>> = Native[size + 1]
     /\ \E n \in VesaNumbers(mode, bpp) : BitSet(SuptMode[size + 1][n \div 16 + 1], n % 16)
  THEN size ELSE NumPanel

(* The panel's power sequence.  Every entry of lcdTable has sequence 1; an *)
(* index of NumPanel lies outside the table.                               *)
ViaLCDPower(chip, size, index) ==
  IF chip \notin {"CLE266A", "CLE266C"} THEN 2
  ELSE IF size = NoPanel THEN 0 ELSE IF index < NumPanel THEN 1 ELSE NumPanel

-----------------------------------------------------------------------------
(* Dot clocks: the clock in kHz and the values for the two families.       *)

ViaDotClocks ==
  {<<25200, \h513C, \hA79004>>, <<25312, \hC763, \hC49005>>, <<26591, \h471A, \hCE9005>>,
   <<31500, \hC558, \hAE9003>>, <<31704, \h471F, \hAF9002>>, <<32663, \hC449, \h479000>>,
   <<33750, \h4721, \h959002>>, <<35500, \h5877, \h759001>>, <<36000, \h5879, \h9F9002>>,
   <<39822, \hC459, \h578C02>>, <<40000, \h515F, \h848C04>>, <<41164, \h4417, \h2C8C00>>,
   <<46981, \h5069, \h678C02>>, <<49500, \hC353, \hA48C04>>, <<50000, \hC354, \h368C00>>,
   <<56300, \h4F76, \h3D8C00>>, <<57284, \h4E70, \h3E8C00>>, <<64995, \h0D3B, \h6B8C01>>,
   <<65000, \h0D3B, \h6B8C01>>, <<65028, \h866D, \h6B8C01>>, <<75000, \h156E, \h288800>>,
   <<78800, \h442C, \h2A8800>>, <<81135, \h0622, \h428801>>, <<81613, \h4539, \h708803>>,
   <<94500, \h4542, \h4D8801>>, <<108000, \h0B53, \h778802>>, <<108280, \h4879, \h778802>>,
   <<122000, \h0D6F, \h428800>>, <<122726, \h073C, \h878802>>, <<135000, \h0742, \h6F8801>>,
   <<148500, \h0853, \h518800>>, <<155800, \h0857, \h558402>>, <<157500, \h422C, \h2A8400>>,
   <<161793, \h4571, \h6F8403>>, <<162000, \h0A71, \h6F8403>>, <<175500, \h4231, \h2F8400>>,
   <<189000, \h0542, \h4D8401>>, <<202500, \h0763, \h6F8402>>, <<204800, \h0764, \h548401>>,
   <<218300, \h043D, \h3B8400>>, <<229500, \h0660, \h3E8400>>}
ClockRange == 20000 .. 230000

(* What the clock generators make of a value, from their 14.318 MHz: a     *)
(* multiplier over a divisor and a power of two (the UniChrome's as all    *)
(* values of the driver's tables have it, but for one clock of the Pro's). *)
Crystal == 14318
OldClock(value) ==
  LET hi == value \div 256 IN (Crystal * (value % 128)) \div ((hi % 64) * 2^(hi \div 64))
ProClock(value) ==
  LET dm == value \div 2^16 + 256 * ((value \div 256) % 4)
      dr == (value \div 1024) % 8
  IN  (Crystal * (dm + 2)) \div (((value % 128) + 2) * 2^dr)

(* The smallest power that takes the oscillator over 300 MHz, and the      *)
(* multiplier and divisor that come nearest, within 0.5 %; 0 if none do.   *)
ViaComputeProDotClock(clock) ==
  LET dr == Min({d \in 0 .. 8 : clock * 2^d >= 300000})
      maxdn == IF clock < 30000 THEN 6 ELSE IF clock < 45000 THEN 5
               ELSE IF clock < 170000 THEN 4 ELSE 3
      made(dm, dn) == (Crystal * (dm + 2)) \div ((dn + 2) * 2^dr)
      off(p) == Magnitude(made(p[1], p[2]) - clock)
      near == {p \in (0 .. 296) \X (0 .. maxdn - 1) : 200 * off(p) < clock}
      best == CHOOSE p \in near : \A q \in near : off(p) <= off(q)
  IN  IF near = {} THEN 0
      ELSE (best[1] % 256) * 2^16 + (128 + 4 * dr + best[1] \div 256) * 256 + best[2]

(* The UniChrome has only the clocks of the table; 0 is no clock.          *)
ViaModeDotClockTranslate(chip, clock) ==
  LET found == {d \in ViaDotClocks : d[1] = clock}
  IN  IF chip \in OldChips THEN IF found = {} THEN 0 ELSE (CHOOSE d \in found : TRUE)[2]
      ELSE IF found = {} THEN ViaComputeProDotClock(clock) ELSE (CHOOSE d \in found : TRUE)[3]

-----------------------------------------------------------------------------
(* Memory: its type, its size and its bandwidth (bytes per second). *)

MemoryClock(cr3d) == IF cr3d \div 16 >= 7 THEN 6 ELSE cr3d \div 16
VideoRam(configured, register) ==
  IF configured \in 16384 .. 65536 THEN configured
  ELSE IF register \in 17 .. 128 THEN (register + 1) * 512
  ELSE IF register \in 1 .. 30 THEN register * 4096 ELSE 16384

MinBandwidth == 74000000
ViaGetMemoryBandwidth(chip, memClk) ==
  CASE memClk = 3 -> 394000000
    [] memClk = 4 -> 461000000
    [] memClk = 5 /\ chip \notin {"CLE266A", "CLE266C"} -> 461000000
    [] memClk = 6 /\ chip \in {"KM400A", "K8M800", "PM800"} -> 461000000
    [] OTHER -> MinBandwidth

-----------------------------------------------------------------------------
(* The FIFO of the primary controller: its depth and its two thresholds,   *)
(* the expire number, and the extended FIFO of the CLE266A.  second: there *)
(* is a second screen.                                                     *)

(* Some modes have an expire number; the others keep what was set before.  *)
ExpireNumbers(chip) ==
  CASE chip = "CLE266A" ->
         {<<1280, 768, 32, 3, 3>>, <<1280, 1024, 32, 3, 4>>, <<1280, 1024, 32, 4, 3>>,
          <<1600, 1200, 16, 3, 4>>, <<1600, 1200, 32, 4, 4>>, <<1024, 768, 32, 3, 10>>,
          <<1400, 1050, 16, 3, 3>>, <<1400, 1050, 32, 3, 4>>, <<1400, 1050, 32, 4, 4>>,
          <<800, 600, 32, 3, 10>>}
    [] chip = "CLE266C" ->
         {<<1280, 768, 32, 3, 3>>, <<1280, 1024, 32, 3, 4>>, <<1280, 1024, 32, 4, 4>>,
          <<1600, 1200, 32, 3, 3>>, <<1600, 1200, 32, 4, 4>>, <<1024, 768, 32, 3, 10>>,
          <<1400, 1050, 32, 3, 4>>, <<1400, 1050, 32, 4, 4>>, <<800, 600, 32, 3, 10>>}
    [] OTHER ->
         {<<1280, 1024, 32, 3, 3>>, <<1280, 1024, 32, 4, 9>>, <<1280, 768, 32, 3, 3>>,
          <<1280, 768, 32, 4, 9>>, <<1400, 1050, 32, 3, 3>>, <<1400, 1050, 32, 4, 9>>,
          <<1600, 1200, 32, 3, 4>>, <<1600, 1200, 32, 4, 10>>}
ExpireNumber(chip, memClk, bpp, mode, old) ==
  LET found == {e \in ExpireNumbers(chip) : SubSeq(e, 1, 4) = <<mode.x, mode.y, bpp, memClk>>}
  IN  IF found = {} THEN old ELSE (CHOOSE e \in found : TRUE)[5]

FIFO(depth, threshold, high, expire, extended) ==
  [depth |-> depth, threshold |-> threshold, high |-> high, expire |-> expire,
   extended |-> extended]
StandardFIFO(x, old) ==
  FIFO(31, IF x >= 1600 THEN 15 ELSE IF x >= 1024 THEN 12 ELSE 8,
       IF x >= 1600 THEN 15 ELSE IF x >= 1024 THEN 12 ELSE 14, old.expire, old.extended)

ViaSetPrimaryFIFO(chip, second, memClk, bpp, mode, old) ==
  LET std == StandardFIFO(mode.x, old)
      expire == ExpireNumber(chip, memClk, bpp, mode, old.expire)
      wide == mode.x > 1024
      dense == mode.x >= 1400 /\ bpp = 32
  IN  CASE chip = "CLE266C" ->
             IF second /\ mode.x >= 1024 THEN FIFO(63, 28, 23, expire, old.extended)
             ELSE IF ~second /\ wide THEN FIFO(47, 23, 23, expire, old.extended)
             ELSE [std EXCEPT !.high = 23, !.expire = expire]
        [] chip = "CLE266A" ->
             IF second /\ wide THEN FIFO(47, 23, 23, expire, TRUE)
             ELSE [std EXCEPT !.expire = expire]
        [] chip \in {"KM400", "KM400A"} ->
             IF second
             THEN IF mode.x >= 1600 /\ memClk <= 3 THEN FIFO(28, 9, 23, expire, old.extended)
                  ELSE FIFO(63, 28, 23, expire, old.extended)
             ELSE FIFO(63, IF mode.x > 1280 THEN 28 ELSE IF wide THEN 23 ELSE 16, 23,
                       expire, old.extended)
        [] chip = "K8M800" -> FIFO(191, 82, 74, IF dense THEN 16 ELSE 0, old.extended)
        [] chip = "PM800"  -> FIFO(95, 32, 16, IF dense THEN 16 ELSE 31, old.extended)

(* On the way out the extended FIFO goes back off.                         *)
ViaDisablePrimaryFIFO(chip, second, mode, old) ==
  IF chip = "CLE266A" /\ (mode.x > 1024 \/ second) THEN [old EXCEPT !.extended = FALSE] ELSE old

-----------------------------------------------------------------------------
(* Checking and setting a mode.  c: the chip, memClk and bpp, the outputs  *)
(* used, the encoder and the standard of the TV, the panel's size and      *)
(* whether its bus is 12 bits wide.  The timing registers are in           *)
(* CrtcTimings; fits says that they hold the mode.                         *)

ViaValidMode(c, mode, fits) ==
  /\ fits
  /\ IF "tv" \in c.used THEN ViaTVModeValid(c.encoder, c.type, mode)
     ELSE /\ "lcd" \in c.used => ViaPanelGetIndex(c.size, mode, c.bpp) # NumPanel
          /\ ViaModeDotClockTranslate(c.chip, mode.clock) # 0
  /\ mode.x * mode.y * mode.refresh * (c.bpp \div 8) <= ViaGetMemoryBandwidth(c.chip, c.memClk)

(* The clocks of lcdTable's entries; a bus of 12 bits needs them doubled.  *)
PanelClock(index, narrow) ==
  IF narrow
  THEN <<\h4523, \h4643, \h46ED, \h05B9, \h4479, \h4479, \h0571>>[index + 1]
  ELSE <<\h0407, \h8643, \h86ED, \h45B9, \h8479, \h8479, \h4571>>[index + 1]

(* What setting a mode leaves: the value of the dot clock and whether the  *)
(* encoder drives it, whether the panel is on, and what feeds the CRT.     *)
ViaModePrimary(c, mode, old) ==
  LET index == ViaPanelGetIndex(c.size, mode, c.bpp)
      lcd == "lcd" \in c.used /\ index # NumPanel
      external == "tv" \in c.used /\ ClockExternal(c.encoder, c.chip)
  IN  [external |-> external,
       clock |-> IF external THEN IF c.chip = "CLE266A" THEN \h471C ELSE \h871C
                 ELSE IF lcd THEN PanelClock(index, c.narrow)
                 ELSE ViaModeDotClockTranslate(c.chip, mode.clock),
       panelOn |-> lcd,
       crtOff |-> "crt" \notin c.used \/ old.crtOff,
       crtShows |-> IF lcd THEN "lcd" ELSE IF "crt" \in c.used THEN "crt" ELSE old.crtShows]

-----------------------------------------------------------------------------
(* Instances to check these definitions on. *)
PanelModes ==
  {[x |-> 640, y |-> 480, clock |-> 25312], [x |-> 800, y |-> 600, clock |-> 39822],
   [x |-> 1024, y |-> 768, clock |-> 65028], [x |-> 1152, y |-> 864, clock |-> 81613],
   [x |-> 1280, y |-> 1024, clock |-> 108280], [x |-> 1600, y |-> 1200, clock |-> 161793],
   [x |-> 1280, y |-> 768, clock |-> 81135], [x |-> 1280, y |-> 960, clock |-> 108280],
   [x |-> 848, y |-> 480, clock |-> 33750], [x |-> 1400, y |-> 1050, clock |-> 122726],
   [x |-> 720, y |-> 480, clock |-> 26591], [x |-> 720, y |-> 576, clock |-> 32663],
   [x |-> 1024, y |-> 512, clock |-> 41164], [x |-> 856, y |-> 480, clock |-> 31704],
   [x |-> 1024, y |-> 576, clock |-> 46981]}
Timing(m, name, private) ==
  [x |-> m.x, y |-> m.y, clock |-> m.clock, refresh |-> 60, name |-> name, private |-> private]
Timings ==
  {Timing(m, "panel mode", "panel") : m \in PanelModes}
    \cup {Timing(m, "modeline", "") : m \in {m \in PanelModes : m.y % 384 = 0}
             \cup {[x |-> 800, y |-> 600, clock |-> k] : k \in {20001, 36500, 49500}}}
    \cup {Timing([x |-> 800, y |-> 600, clock |-> 39900], "800x600", s) : s \in {"NTSC", "PAL"}}
Machines ==
  {[chip |-> chip, memClk |-> memClk, bpp |-> 16, used |-> used, encoder |-> e, type |-> "PAL",
    size |-> size, narrow |-> TRUE] :
     chip \in {"CLE266A", "KM400A", "PM800"}, memClk \in {4, 5}, size \in {2, 3, NoPanel},
     used \in {{"crt"}, {"tv"}, {"lcd", "crt"}}, e \in {NoTV, "VT1622"}}

(* The clock generator makes the clock that a table entry is for, within   *)
(* 0.5 %, except for the Pro's value of 31.704 MHz, which makes 39.6 MHz.  *)
ASSUME TableClocks ==
  \A d \in ViaDotClocks :
    /\ 200 * Magnitude(OldClock(d[2]) - d[1]) <= d[1]
    /\ 200 * Magnitude(ProClock(d[3]) - d[1]) <= d[1] <=> d[1] # 31704

(* So it does with a computed value, for every clock the driver allows.    *)
ASSUME ComputedClocks ==
  \A clock \in {20000, 29999, 31704, 44999, 45000, 74999, 75001, 149999, 150000, 169999, 230000} :
    200 * Magnitude(ProClock(ViaComputeProDotClock(clock)) - clock) <= clock

(* A panel of each size has a mode of the driver's that it accepts at every*)
(* depth, its native one; its clock is at most an eighth off, and doubled  *)
(* for a narrow bus.                                                       *)
ASSUME PanelHasMode ==
  \A size \in 0 .. 6, bpp \in {8, 16, 32} :
    \E m \in PanelModes :
      /\ {n \in PanelModes : ViaPanelGetIndex(size, Timing(n, "", "panel"), bpp) # NumPanel} = {m}
      /\ 8 * Magnitude(OldClock(PanelClock(size, FALSE)) - m.clock) <= m.clock
      /\ Magnitude(OldClock(PanelClock(size, TRUE)) - 2 * OldClock(PanelClock(size, FALSE))) <= 1

(* A panel of 1280 by 768 is never taken for one by its monitor data.      *)
ASSUME PanelSizes ==
  \A s \in SUBSET {200, 640, 1024, 1280}, d \in SUBSET {[x |-> 800, clock |-> 40000000],
                                                      [x |-> 1400, clock |-> 10000000]} :
    LET e == ViaGetPanelSizeFromEDID(s, d)
        size == VIAGetPanelSize(e, 3)
    IN  /\ size = 3 <=> e = 0
        /\ e # 0 => e > 256 /\ size \in 0 .. 6 /\ e = Native[size + 1][1]

(* A mode that is accepted is set with a clock, but for one on a TV that   *)
(* has no encoder.                                                         *)
ASSUME AcceptedModeHasClock ==
  \A c \in Machines, m \in Timings :
    ViaValidMode(c, m, TRUE) =>
      \/ ViaModePrimary(c, m, [crtOff |-> FALSE, crtShows |-> "crt"]).clock # 0
      \/ c.used = {"tv"} /\ c.encoder = NoTV

(* Setting an accepted mode powers the panel by an entry of the table, and *)
(* turns it on exactly if it is used; asking about a mode the panel refuses*)
(* leaves an index with which the next power down of a CLE266 reads beyond *)
(* the end of lcdTable.                                                    *)
ASSUME PanelPower ==
  \A c \in Machines, m \in Timings :
    LET index == ViaPanelGetIndex(c.size, m, c.bpp)
    IN  /\ ViaValidMode(c, m, TRUE) /\ "lcd" \in c.used =>
             /\ ViaModePrimary(c, m, [crtOff |-> FALSE, crtShows |-> "crt"]).panelOn
             /\ ViaLCDPower(c.chip, c.size, index) \in 0 .. 2
        /\ ViaLCDPower(c.chip, c.size, index) = NumPanel
              <=> c.chip = "CLE266A" /\ c.size # NoPanel /\ index = NumPanel

(* The FIFO asks for memory before it runs dry, and after setting one mode *)
(* and another only the expire number and the extended FIFO depend on the  *)
(* first: the one on the UniChrome, for modes that are in no table, the    *)
(* other on the CLE266A.  Leaving turns the extended FIFO off.             *)
Sizes == {[x |-> 640, y |-> 480], [x |-> 1024, y |-> 768], [x |-> 1280, y |-> 1024],
          [x |-> 1600, y |-> 1200]}
ASSUME FIFOHistory ==
  \A chip \in OldChips \cup ProChips, second \in BOOLEAN, memClk \in 3 .. 5, bpp \in {16, 32},
     a \in Sizes, b \in Sizes :
    LET off == FIFO(0, 0, 0, 31, FALSE)
        set(m, old) == ViaSetPrimaryFIFO(chip, second, memClk, bpp, m, old)
        one == set(b, off)
        two == set(b, set(a, off))
    IN  /\ one.threshold <= one.depth /\ one.high <= one.depth
        /\ [two EXCEPT !.expire = 0, !.extended = FALSE] = [one EXCEPT !.expire = 0, !.extended = FALSE]
        /\ two.expire # one.expire =>
             chip \in OldChips /\ ~(\E e \in ExpireNumbers(chip) : e[1] = b.x /\ e[3] = bpp /\ e[4] = memClk)
        /\ two.extended # one.extended => chip = "CLE266A" /\ second
        /\ ~ViaDisablePrimaryFIFO(chip, second, b, two).extended

(* The memory clock is always an index of the tables, and the driver finds *)
(* between 4 and 120 megabytes of memory.                                  *)
ASSUME MemoryFound ==
  \A r \in 0 .. 255 : /\ MemoryClock(r) \in 0 .. 6
                      /\ \A configured \in {0, 16384, 65536, 131072} :
                           VideoRam(configured, r) \in 4096 .. 122880
================================================================================
