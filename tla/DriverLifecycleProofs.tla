------------------------ MODULE DriverLifecycleProofs ------------------------
(***************************************************************************)
(* Proofs about the life of a screen, for any configurations, failures,    *)
(* console modes, memory and any number of generations and visits: what    *)
(* each hook starts, suspends and hands back is what the next one counts   *)
(* on.                                                                     *)
(***************************************************************************)
EXTENDS DriverLifecycle, TLAPS

-----------------------------------------------------------------------------
(* The driver's fields, the hardware and the kernel's DRM.                 *)
Modes  == ConsoleModes \cup {"X", None}
Images == {"X", "junk", None}
Names  == {"screen", "vq", "cursor", "marker", "exa", "pixmaps", "linear", "heap"}
Regions == [name : Names, lo : Int, hi : Int]

Drivers ==
  [vtSema : BOOLEAN, FirstInit : BOOLEAN, saved : Modes, stateMode : Modes,
   noAccel : BOOLEAN, dri : BOOLEAN, pDRIInfo : BOOLEAN, agpDMA : BOOLEAN, ringBufActive : BOOLEAN, ringRefused : BOOLEAN, irq : BOOLEAN,
   driSize : Int, VQStart : Int, CursorStart : Int, FBFreeStart : Int, FBFreeEnd : Int,
   regions : SUBSET Regions, cursorImage : Images, cursorOn : BOOLEAN, overlay : BOOLEAN,
   bpp : Nat, oldBpp : Nat, dga : BOOLEAN]
Hardware ==
  [mode : Modes, vq : BOOLEAN, overlay : BOOLEAN, cursor : BOOLEAN, image : Images,
   vblank : BOOLEAN, bpp : Nat, locked : BOOLEAN, missed : BOOLEAN]
Kernels == [open : BOOLEAN, held : SUBSET {"agp", "irq", "ring"}]
Screens == [v : Drivers, h : Hardware, k : Kernels]

(* The fields the hooks hand on, in groups that operations leave alone.    *)
ModeOf(d)  == <<d.vtSema, d.saved, d.stateMode>>
SetUpOf(d) == <<d.noAccel, d.dri, d.pDRIInfo, d.agpDMA, d.irq, d.VQStart>>
RingOf(d)  == <<d.ringBufActive, d.ringRefused>>
DepthOf(d) == <<d.bpp, d.oldBpp, d.dga>>
PlanOf(d)  == <<d.bpp, d.oldBpp, d.dga,
                d.FBFreeStart, d.FBFreeEnd, d.CursorStart, d.driSize, d.regions>>

-----------------------------------------------------------------------------
(* The invariant, one definition per concern.                              *)
States == {"down", "vt", "leaving", "away", "switching", "closing", "failed", "dead"}
Displaying == pc \in {"vt", "leaving", "switching", "closing"}
Locking    == pc \in {"leaving", "away", "switching", "closing", "dead"}

LifeTypeOK ==
  /\ X \in Screens /\ opt \in Options /\ pc \in States
  /\ count \in Nat /\ client \in BOOLEAN /\ awake \in BOOLEAN
  /\ gen \in Nat /\ visits \in Nat /\ console \in ConsoleModes /\ first \in ConsoleModes

(* The server's holds on the DRI lock are accounted for (one that crashes   *)
(* takes it no more), with one of them no client has it, and without an    *)
(* open DRM no client gets it.                                             *)
LockCounted ==
  /\ count = (IF awake THEN 1 ELSE 0)
               + (IF v.dri /\ Locking /\ (pc = "dead" => v.pDRIInfo) THEN 1 ELSE 0)
  /\ awake => v.dri /\ pc # "down"
  /\ client => v.dri /\ count = 0 /\ pc \in {"vt", "failed"}
  /\ k.open => v.dri /\ v.pDRIInfo /\ pc # "down"

(* On the terminal the driver has saved the console's mode, off it the     *)
(* hardware has it; a VBE from version 2 on has the first mode it saved    *)
(* instead, for good.                                                      *)
ModeKept ==
  IF opt.vbe = 2
  THEN /\ v.stateMode = None => /\ ~ v.vtSema /\ pc \in {"down", "failed", "dead"}
                                /\ h.mode = first
       /\ v.stateMode # None => v.stateMode = first
       /\ ~ v.vtSema => h.mode \in {console, first}
  ELSE /\ ~ v.vtSema => h.mode = console
       /\ v.vtSema => v.saved = console /\ (opt.vbe > 0 => v.stateMode = console)

(* Off it neither queue nor overlay runs, and the registers are locked but *)
(* where the first mode of a generation failed.                            *)
ConsoleKept ==
  /\ ModeKept
  /\ ~ v.vtSema => /\ ~ h.vq /\ ~ h.overlay
                   /\ h.locked \/ (v.FirstInit /\ pc \in {"failed", "dead"})
  /\ ~ opt.vq => v.VQStart = 0 /\ ~ h.vq
  /\ pc \in {"away", "down", "dead"} => ~ v.vtSema \/ Crashed
  /\ Displaying => v.vtSema

(* The driver knows whether its ring runs, and on the terminal it runs     *)
(* unless the kernel refused it.                                           *)
RingKept ==
  v.dri /\ (Displaying \/ pc = "away") =>
    /\ v.ringBufActive <=> "ring" \in k.held
    /\ v.agpDMA => opt.agp
    /\ Displaying /\ v.agpDMA /\ ~ v.ringRefused => v.ringBufActive
    /\ Displaying /\ v.irq => h.vblank

(* The depth a mode is set in.                                             *)
DepthSet(d) == IF opt.vbe > 0 THEN opt.bpp ELSE d.bpp

(* The depth is the server's own but for DGA's, and the cursor's image is  *)
(* in its memory or stored.                                                *)
ScreenKept ==
  /\ v.dga => pc = "vt" /\ v.oldBpp = opt.bpp
  /\ ~ v.dga => v.bpp = opt.bpp
  /\ Displaying => /\ h.bpp = DepthSet(v) \/ (h.missed /\ opt.vbe = 0)
                   /\ opt.hwcursor => h.image # "junk"
  /\ pc = "away" => (opt.hwcursor => v.cursorImage # "junk")

(* Memory is divided without overlaps; the cursor of a server without      *)
(* acceleration has its own in the first generation, and there only.       *)
Apart(r, s) == r = s \/ r.hi <= s.lo \/ s.hi <= r.lo
Tidy(R) == \A r, s \in R : r.hi <= Ram /\ Apart(r, s)
MemoryKept ==
  /\ v.CursorStart # 0 => gen > 0
  /\ Roomy => Tidy(Claimed) \/ (v.noAccel /\ opt.hwcursor /\ gen > 1)

LifeInv == LifeTypeOK /\ LockCounted /\ ConsoleKept /\ RingKept /\ ScreenKept /\ MemoryKept

-----------------------------------------------------------------------------
(* The types of a configuration's fields.                                  *)
LEMMA OptionFields ==
  ASSUME opt \in Options
  PROVE  opt.bpp \in Nat /\ opt.vbe \in 0..2 /\ opt.noAccel \in BOOLEAN /\ Ram \in Nat
  BY LifecycleAssumption DEF Ram

(* What each operation makes of a screen.                                  *)
LEMMA RingCleanupDoes ==
  ASSUME NEW x \in Screens
  PROVE  LET y == RingCleanup(x)
         IN  /\ y \in Screens /\ y.h = x.h /\ y.k.open = x.k.open
             /\ ~ y.v.ringBufActive /\ y.v.ringRefused = x.v.ringRefused
             /\ ModeOf(y.v) = ModeOf(x.v) /\ SetUpOf(y.v) = SetUpOf(x.v)
             /\ PlanOf(y.v) = PlanOf(x.v) /\ y.v.cursorImage = x.v.cursorImage
             /\ (x.v.ringBufActive <=> "ring" \in x.k.held) => "ring" \notin y.k.held
<1>1. CASE x.v.ringBufActive
  <2> DEFINE d == [x.v EXCEPT !.ringBufActive = FALSE]
             g == [x.k EXCEPT !.held = @ \ {"ring"}]
  <2>1. RingCleanup(x) = [v |-> d, h |-> x.h, k |-> g]
    BY <1>1 DEF RingCleanup, Screens
  <2>2. d \in Drivers /\ g \in Kernels
    BY DEF Screens, Drivers, Kernels
  <2>3. /\ ~ d.ringBufActive /\ d.ringRefused = x.v.ringRefused
        /\ ModeOf(d) = ModeOf(x.v) /\ SetUpOf(d) = SetUpOf(x.v)
        /\ PlanOf(d) = PlanOf(x.v) /\ d.cursorImage = x.v.cursorImage
    BY DEF Screens, Drivers, ModeOf, SetUpOf, PlanOf
  <2>4. "ring" \notin g.held /\ g.open = x.k.open
    BY DEF Screens, Kernels
  <2>. HIDE DEF d, g
  <2>. QED
    BY <2>1, <2>2, <2>3, <2>4 DEF Screens
<1>2. CASE ~ x.v.ringBufActive
  BY <1>2 DEF RingCleanup
<1>. QED
  BY <1>1, <1>2

(* The ring starts when the AGP memory is there and the kernel does not    *)
(* refuse it.                                                              *)
LEMMA RingInitDoes ==
  ASSUME NEW x \in Screens, NEW f
  PROVE  LET y == RingInit(x, f)
         IN  /\ y \in Screens /\ y.h = x.h /\ y.k.open = x.k.open
             /\ (x.v.ringBufActive <=> "ring" \in x.k.held) =>
                  (y.v.ringBufActive <=> "ring" \in y.k.held)
             /\ opt.agp /\ ~ y.v.ringRefused => y.v.ringBufActive
             /\ y.v.ringBufActive => x.v.ringBufActive \/ opt.agp
             /\ ModeOf(y.v) = ModeOf(x.v) /\ SetUpOf(y.v) = SetUpOf(x.v)
             /\ PlanOf(y.v) = PlanOf(x.v) /\ y.v.cursorImage = x.v.cursorImage
<1>1. CASE x.v.ringBufActive \/ ~ opt.agp
  BY <1>1 DEF RingInit
<1>2. CASE /\ ~ (x.v.ringBufActive \/ ~ opt.agp)
           /\ "ring" \in f \/ "agp" \notin x.k.held
  <2> DEFINE d == [x.v EXCEPT !.ringRefused = TRUE]
  <2>1. RingInit(x, f) = [v |-> d, h |-> x.h, k |-> x.k]
    BY <1>2 DEF RingInit, Screens
  <2>2. d \in Drivers
    BY DEF Screens, Drivers
  <2>3. /\ d.ringRefused /\ d.ringBufActive = x.v.ringBufActive
        /\ ModeOf(d) = ModeOf(x.v) /\ SetUpOf(d) = SetUpOf(x.v)
        /\ PlanOf(d) = PlanOf(x.v) /\ d.cursorImage = x.v.cursorImage
    BY DEF Screens, Drivers, ModeOf, SetUpOf, PlanOf
  <2>. HIDE DEF d
  <2>. QED
    BY <2>1, <2>2, <2>3 DEF Screens
<1>3. CASE /\ ~ (x.v.ringBufActive \/ ~ opt.agp)
           /\ ~ ("ring" \in f \/ "agp" \notin x.k.held)
  <2> DEFINE d == [x.v EXCEPT !.ringBufActive = TRUE]
             g == [x.k EXCEPT !.held = @ \cup {"ring"}]
  <2>1. RingInit(x, f) = [v |-> d, h |-> x.h, k |-> g]
    BY <1>3 DEF RingInit, Screens
  <2>2. d \in Drivers /\ g \in Kernels
    BY DEF Screens, Drivers, Kernels
  <2>3. /\ d.ringBufActive /\ d.ringRefused = x.v.ringRefused
        /\ ModeOf(d) = ModeOf(x.v) /\ SetUpOf(d) = SetUpOf(x.v)
        /\ PlanOf(d) = PlanOf(x.v) /\ d.cursorImage = x.v.cursorImage
    BY DEF Screens, Drivers, ModeOf, SetUpOf, PlanOf
  <2>4. "ring" \in g.held /\ g.open = x.k.open
    BY DEF Screens, Kernels
  <2>. HIDE DEF d, g
  <2>. QED
    BY <1>3, <2>1, <2>2, <2>3, <2>4 DEF Screens
<1>. QED
  BY <1>1, <1>2, <1>3

(* A mode that is set brings the queue up, and one that fails changes      *)
(* nothing.                                                                *)
LEMMA SetModeDoes ==
  ASSUME opt \in Options, NEW x \in Screens, NEW f
  PROVE  LET y == SetMode(x, f)
         IN  /\ y \in Screens
             /\ "mode" \in f => y = x
             /\ x.v.vtSema \/ "mode" \notin f => y.v.vtSema
             /\ "mode" \notin f => y.h.bpp = DepthSet(x.v)
             /\ y.h.vq => x.h.vq \/ x.v.VQStart # 0
             /\ SetUpOf(y.v) = SetUpOf(x.v) /\ RingOf(y.v) = RingOf(x.v)
             /\ PlanOf(y.v) = PlanOf(x.v) /\ y.v.cursorImage = x.v.cursorImage
             /\ y.v.saved = x.v.saved /\ y.v.stateMode = x.v.stateMode
             /\ y.h.image = x.h.image /\ y.h.overlay = x.h.overlay /\ y.k = x.k
<1>1. CASE "mode" \in f
  BY <1>1 DEF SetMode
<1>2. CASE "mode" \notin f
  <2> DEFINE d == [x.v EXCEPT !.vtSema = TRUE]
             g == [x.h EXCEPT !.mode = "X", !.vblank = FALSE, !.missed = FALSE,
                              !.bpp = DepthSet(x.v)]
             e == IF x.v.noAccel THEN g ELSE [g EXCEPT !.vq = x.v.VQStart # 0]
             y == [v |-> d, h |-> g, k |-> x.k]
  <2>1. SetMode(x, f) = [v |-> d, h |-> e, k |-> x.k]
    <3>1. SetMode(x, f) = IF x.v.noAccel THEN y ELSE Initialize2DEngine(y)
      BY <1>2 DEF SetMode, DepthSet
    <3>2. d.VQStart = x.v.VQStart
      BY DEF Screens, Drivers
    <3>3. Initialize2DEngine(y) = [v |-> d, h |-> [g EXCEPT !.vq = x.v.VQStart # 0], k |-> x.k]
      <4>. HIDE DEF d, g
      <4>. QED
        BY <3>2 DEF Initialize2DEngine
    <3>. HIDE DEF d, g
    <3>. QED
      BY <3>1, <3>3
  <2>2. d \in Drivers /\ e \in Hardware
    <3>1. DepthSet(x.v) \in Nat
      BY OptionFields DEF DepthSet, Screens, Drivers
    <3>2. d \in Drivers /\ (x.v.VQStart # 0) \in BOOLEAN
      BY DEF Screens, Drivers
    <3>3. g \in Hardware
      BY <3>1 DEF Screens, Hardware, Modes
    <3>. HIDE DEF d, g
    <3>4. ASSUME NEW b \in BOOLEAN  PROVE [g EXCEPT !.vq = b] \in Hardware
      BY <3>3 DEF Hardware
    <3>. QED
      BY <3>2, <3>3, <3>4
  <2>3. /\ SetUpOf(d) = SetUpOf(x.v) /\ RingOf(d) = RingOf(x.v) /\ PlanOf(d) = PlanOf(x.v)
        /\ d.cursorImage = x.v.cursorImage
        /\ d.saved = x.v.saved /\ d.stateMode = x.v.stateMode /\ d.vtSema
    BY DEF Screens, Drivers, RingOf, SetUpOf, PlanOf
  <2>4. /\ e.image = x.h.image /\ e.overlay = x.h.overlay /\ e.bpp = DepthSet(x.v)
        /\ e.vq => x.h.vq \/ x.v.VQStart # 0
    BY DEF Screens, Hardware
  <2>. HIDE DEF d, e
  <2>. QED
    BY <1>2, <2>1, <2>2, <2>3, <2>4 DEF Screens
<1>. QED
  BY <1>1, <1>2

(* What the console had is saved; the state kept for VBE is the first one  *)
(* saved.                                                                  *)
LEMMA SaveDoes ==
  ASSUME NEW x \in Screens
  PROVE  LET y == Save(x)
         IN  /\ y \in Screens /\ y.h = x.h /\ y.k = x.k
             /\ y.v.vtSema = x.v.vtSema /\ y.v.saved = x.h.mode
             /\ y.v.stateMode =
                  (IF opt.vbe = 2 /\ x.v.stateMode # None THEN x.v.stateMode ELSE x.h.mode)
             /\ SetUpOf(y.v) = SetUpOf(x.v) /\ RingOf(y.v) = RingOf(x.v)
             /\ PlanOf(y.v) = PlanOf(x.v) /\ y.v.cursorImage = x.v.cursorImage
<1> DEFINE m == IF opt.vbe = 2 /\ x.v.stateMode # None THEN x.v.stateMode ELSE x.h.mode
           c == [x.v EXCEPT !.stateMode = m]
           d == [c EXCEPT !.saved = x.h.mode]
<1>1. m \in Modes /\ x.h.mode \in Modes
  BY DEF Screens, Drivers, Hardware
<1>2. VbeSave(x) = [v |-> c, h |-> x.h, k |-> x.k]
  BY DEF VbeSave, Screens, Drivers
<1>. HIDE DEF m
<1>3. c \in Drivers
  BY <1>1 DEF Screens, Drivers
<1>4. Save(x) = [v |-> d, h |-> x.h, k |-> x.k]
  <2>. HIDE DEF c
  <2>. QED
    BY <1>2 DEF Save
<1>5. d \in Drivers
  <2>. HIDE DEF c
  <2>. QED
    BY <1>1, <1>3 DEF Drivers
<1>6. /\ c.vtSema = x.v.vtSema /\ c.stateMode = m
      /\ SetUpOf(c) = SetUpOf(x.v) /\ RingOf(c) = RingOf(x.v)
      /\ PlanOf(c) = PlanOf(x.v) /\ c.cursorImage = x.v.cursorImage
  BY DEF Screens, Drivers, SetUpOf, RingOf, PlanOf
<1>. HIDE DEF c
<1>7. /\ d.vtSema = c.vtSema /\ d.stateMode = c.stateMode /\ d.saved = x.h.mode
      /\ SetUpOf(d) = SetUpOf(c) /\ RingOf(d) = RingOf(c)
      /\ PlanOf(d) = PlanOf(c) /\ d.cursorImage = c.cursorImage
  BY <1>3 DEF Drivers, SetUpOf, RingOf, PlanOf
<1>. HIDE DEF d
<1>8. m = IF opt.vbe = 2 /\ x.v.stateMode # None THEN x.v.stateMode ELSE x.h.mode
  BY DEF m
<1>. QED
  BY <1>4, <1>5, <1>6, <1>7, <1>8 DEF Screens

(* The queue stops, and nothing else changes.                              *)
LEMMA DisableVQDoes ==
  ASSUME NEW x \in Screens
  PROVE  LET y == DisableVQ(x)
         IN  /\ y \in Screens /\ y.v = x.v /\ y.k = x.k
             /\ y.h.mode = x.h.mode /\ y.h.overlay = x.h.overlay
             /\ y.h.image = x.h.image /\ y.h.bpp = x.h.bpp /\ y.h.vblank = x.h.vblank
             /\ y.h.missed = x.h.missed
             /\ y.h.vq => ~ opt.vq /\ x.h.vq
<1>1. CASE opt.vq
  <2> DEFINE e == [x.h EXCEPT !.vq = FALSE]
  <2>1. DisableVQ(x) = [v |-> x.v, h |-> e, k |-> x.k]
    BY <1>1 DEF DisableVQ, Screens
  <2>2. /\ e \in Hardware /\ e.mode = x.h.mode /\ e.overlay = x.h.overlay
        /\ e.image = x.h.image /\ e.bpp = x.h.bpp /\ e.vblank = x.h.vblank
        /\ e.missed = x.h.missed /\ ~ e.vq
    BY DEF Screens, Hardware
  <2>. HIDE DEF e
  <2>. QED
    BY <1>1, <2>1, <2>2 DEF Screens
<1>2. CASE ~ opt.vq
  BY <1>2 DEF DisableVQ
<1>. QED
  BY <1>1, <1>2

(* The overlay stops, and is remembered.                                   *)
LEMMA SaveVideoDoes ==
  ASSUME NEW x \in Screens
  PROVE  LET y == SaveVideo(x)
         IN  /\ y \in Screens /\ y.k = x.k
             /\ ModeOf(y.v) = ModeOf(x.v) /\ SetUpOf(y.v) = SetUpOf(x.v)
             /\ RingOf(y.v) = RingOf(x.v)
             /\ PlanOf(y.v) = PlanOf(x.v) /\ y.v.cursorImage = x.v.cursorImage
             /\ y.h.mode = x.h.mode /\ ~ y.h.overlay
             /\ y.h.image = x.h.image /\ y.h.bpp = x.h.bpp /\ y.h.vq = x.h.vq
<1> DEFINE d == [x.v EXCEPT !.overlay = x.h.overlay]
           e == [x.h EXCEPT !.overlay = FALSE]
<1>1. SaveVideo(x) = [v |-> d, h |-> e, k |-> x.k]
  <2>1. SaveVideo(x) = [[x EXCEPT !.v = d] EXCEPT !.h = e]
    BY DEF SaveVideo, Screens
  <2>. HIDE DEF d, e
  <2>. QED
    BY <2>1 DEF Screens
<1>2. d \in Drivers /\ e \in Hardware
  BY DEF Screens, Drivers, Hardware
<1>3. /\ ModeOf(d) = ModeOf(x.v) /\ SetUpOf(d) = SetUpOf(x.v)
      /\ RingOf(d) = RingOf(x.v)
      /\ PlanOf(d) = PlanOf(x.v) /\ d.cursorImage = x.v.cursorImage
  BY DEF Screens, Drivers, ModeOf, SetUpOf, RingOf, PlanOf
<1>4. /\ e.mode = x.h.mode /\ ~ e.overlay /\ e.image = x.h.image /\ e.bpp = x.h.bpp
      /\ e.vq = x.h.vq
  BY DEF Screens, Hardware
<1>. HIDE DEF d, e
<1>. QED
  BY <1>1, <1>2, <1>3, <1>4 DEF Screens

(* The image of the cursor is read back from the memory of the screen.     *)
LEMMA CursorStoreDoes ==
  ASSUME NEW x \in Screens
  PROVE  LET y == CursorStore(x)
         IN  /\ y \in Screens /\ y.h = x.h /\ y.k = x.k
             /\ ModeOf(y.v) = ModeOf(x.v) /\ SetUpOf(y.v) = SetUpOf(x.v)
             /\ RingOf(y.v) = RingOf(x.v) /\ PlanOf(y.v) = PlanOf(x.v)
             /\ opt.hwcursor => y.v.cursorImage = x.h.image
<1>1. CASE opt.hwcursor
  <2> DEFINE d == [x.v EXCEPT !.cursorImage = x.h.image, !.cursorOn = x.h.cursor]
  <2>1. CursorStore(x) = [v |-> d, h |-> x.h, k |-> x.k]
    BY <1>1 DEF CursorStore, Screens, Drivers
  <2>2. d \in Drivers
    BY DEF Screens, Drivers, Hardware
  <2>3. /\ ModeOf(d) = ModeOf(x.v) /\ SetUpOf(d) = SetUpOf(x.v)
        /\ RingOf(d) = RingOf(x.v)
        /\ PlanOf(d) = PlanOf(x.v) /\ d.cursorImage = x.h.image
    BY DEF Screens, Drivers, ModeOf, SetUpOf, RingOf, PlanOf
  <2>. HIDE DEF d
  <2>. QED
    BY <2>1, <2>2, <2>3 DEF Screens
<1>2. CASE ~ opt.hwcursor
  BY <1>2 DEF CursorStore
<1>. QED
  BY <1>1, <1>2

(* The image that was stored is written again.                             *)
LEMMA CursorRestoreDoes ==
  ASSUME X \in Screens, NEW x \in Screens
  PROVE  LET y == CursorRestore(x)
         IN  /\ y \in Screens /\ y.k = x.k
             /\ ModeOf(y.v) = ModeOf(x.v) /\ SetUpOf(y.v) = SetUpOf(x.v)
             /\ RingOf(y.v) = RingOf(x.v) /\ PlanOf(y.v) = PlanOf(x.v)
             /\ y.h.mode = x.h.mode /\ y.h.overlay = x.h.overlay /\ y.h.vq = x.h.vq
             /\ y.h.bpp = x.h.bpp
             /\ opt.hwcursor => y.h.image = v.cursorImage
<1>0. v \in Drivers
  BY DEF X, Screens
<1>1. CASE opt.hwcursor
  <2> DEFINE d == [x.v EXCEPT !.cursorImage = None]
             e == [x.h EXCEPT !.image = v.cursorImage, !.cursor = v.cursorOn]
  <2>1. CursorRestore(x) = [v |-> d, h |-> e, k |-> x.k]
    BY <1>1 DEF CursorRestore, Screens, Hardware
  <2>2. d \in Drivers /\ e \in Hardware
    BY <1>0 DEF Screens, Drivers, Hardware, Images
  <2>3. /\ ModeOf(d) = ModeOf(x.v) /\ SetUpOf(d) = SetUpOf(x.v)
        /\ RingOf(d) = RingOf(x.v) /\ PlanOf(d) = PlanOf(x.v)
    BY DEF Screens, Drivers, ModeOf, SetUpOf, RingOf, PlanOf
  <2>4. /\ e.mode = x.h.mode /\ e.overlay = x.h.overlay /\ e.vq = x.h.vq /\ e.bpp = x.h.bpp
        /\ e.image = v.cursorImage
    BY DEF Screens, Hardware
  <2>. HIDE DEF d, e
  <2>. QED
    BY <2>1, <2>2, <2>3, <2>4 DEF Screens
<1>2. CASE ~ opt.hwcursor
  BY <1>2 DEF CursorRestore
<1>. QED
  BY <1>1, <1>2

(* The console gets its mode back, from the VBE state or from the          *)
(* registers.                                                              *)
LEMMA RestoreDoes ==
  ASSUME NEW x \in Screens
  PROVE  LET y == Restore(x)
         IN  /\ y \in Screens /\ y.v = x.v /\ y.k = x.k
             /\ y.h.mode = (IF opt.vbe > 0 THEN x.v.stateMode ELSE x.v.saved)
             /\ y.h.overlay = x.h.overlay /\ y.h.image = x.h.image
             /\ y.h.bpp = x.h.bpp /\ y.h.vq = x.h.vq /\ y.h.locked
<1> DEFINE m == IF opt.vbe > 0 THEN x.v.stateMode ELSE x.v.saved
           e == [x.h EXCEPT !.mode = m, !.locked = TRUE]
<1>1. Restore(x) = [v |-> x.v, h |-> e, k |-> x.k]
  BY DEF Restore, Screens
<1>2. m \in Modes /\ m = IF opt.vbe > 0 THEN x.v.stateMode ELSE x.v.saved
  BY DEF Screens, Drivers
<1>. HIDE DEF m
<1>3. /\ e \in Hardware /\ e.mode = m /\ e.overlay = x.h.overlay /\ e.image = x.h.image
      /\ e.bpp = x.h.bpp /\ e.vq = x.h.vq /\ e.locked
  BY <1>2 DEF Screens, Hardware
<1>. HIDE DEF e
<1>. QED
  BY <1>1, <1>2, <1>3 DEF Screens

(* The interrupt of the vertical blank is enabled again.                   *)
LEMMA KickVblankDoes ==
  ASSUME NEW x \in Screens
  PROVE  LET y == KickVblank(x)
         IN  /\ y \in Screens /\ y.v = x.v /\ y.k = x.k
             /\ y.v.irq => y.h.vblank
             /\ y.h.mode = x.h.mode /\ y.h.overlay = x.h.overlay /\ y.h.image = x.h.image
             /\ y.h.bpp = x.h.bpp /\ y.h.vq = x.h.vq /\ y.h.missed = x.h.missed
<1>1. CASE x.v.irq
  <2> DEFINE e == [x.h EXCEPT !.vblank = TRUE]
  <2>1. KickVblank(x) = [v |-> x.v, h |-> e, k |-> x.k]
    BY <1>1 DEF KickVblank, Screens
  <2>2. /\ e \in Hardware /\ e.mode = x.h.mode /\ e.overlay = x.h.overlay
        /\ e.image = x.h.image /\ e.bpp = x.h.bpp /\ e.vq = x.h.vq /\ e.vblank
        /\ e.missed = x.h.missed
    BY DEF Screens, Hardware
  <2>. HIDE DEF e
  <2>. QED
    BY <2>1, <2>2 DEF Screens
<1>2. CASE ~ x.v.irq
  BY <1>2 DEF KickVblank
<1>. QED
  BY <1>1, <1>2

(* Closing DRI gives back all that the kernel holds for the driver.        *)
LEMMA DriCloseDoes ==
  ASSUME NEW x \in Screens
  PROVE  LET y == DriClose(x)
         IN  /\ y \in Screens /\ y.h = x.h /\ y.k = Closed
             /\ ModeOf(y.v) = ModeOf(x.v) /\ PlanOf(y.v) = PlanOf(x.v)
             /\ y.v.dri = x.v.dri /\ y.v.noAccel = x.v.noAccel /\ y.v.VQStart = x.v.VQStart
             /\ y.v.agpDMA = x.v.agpDMA
             /\ y.v.cursorImage = x.v.cursorImage
<1> DEFINE z == RingCleanup(x)
           d == [z.v EXCEPT !.irq = FALSE, !.pDRIInfo = FALSE]
<1>1. /\ z \in Screens /\ z.h = x.h
      /\ ModeOf(z.v) = ModeOf(x.v) /\ SetUpOf(z.v) = SetUpOf(x.v)
      /\ PlanOf(z.v) = PlanOf(x.v) /\ z.v.cursorImage = x.v.cursorImage
  BY RingCleanupDoes
<1>2. DriClose(x) = [z EXCEPT !.k = Closed, !.v.irq = FALSE, !.v.pDRIInfo = FALSE]
  BY DEF DriClose
<1>. HIDE DEF z
<1>3. DriClose(x) = [v |-> d, h |-> z.h, k |-> Closed]
  BY <1>1, <1>2 DEF Screens, Drivers
<1>4. d \in Drivers /\ Closed \in Kernels
  BY <1>1 DEF Screens, Drivers, Closed, Kernels
<1>5. /\ ModeOf(d) = ModeOf(z.v) /\ PlanOf(d) = PlanOf(z.v)
      /\ d.dri = z.v.dri /\ d.noAccel = z.v.noAccel /\ d.VQStart = z.v.VQStart
      /\ d.agpDMA = z.v.agpDMA
      /\ d.cursorImage = z.v.cursorImage
  BY <1>1 DEF Screens, Drivers, ModeOf, PlanOf
<1>. HIDE DEF d
<1>. QED
  BY <1>1, <1>3, <1>4, <1>5 DEF Screens, SetUpOf

-----------------------------------------------------------------------------
(* The hooks, as one step each.                                            *)

(* A field of one part set, the other parts are as before.                 *)
LEMMA SetField ==
  ASSUME NEW x \in Screens, NEW b
  PROVE  /\ [x EXCEPT !.v.vtSema = b] = [v |-> [x.v EXCEPT !.vtSema = b], h |-> x.h, k |-> x.k]
         /\ [x EXCEPT !.v.agpDMA = b] = [v |-> [x.v EXCEPT !.agpDMA = b], h |-> x.h, k |-> x.k]
         /\ [x EXCEPT !.v.noAccel = b] = [v |-> [x.v EXCEPT !.noAccel = b], h |-> x.h, k |-> x.k]
         /\ [x EXCEPT !.v.dri = b] = [v |-> [x.v EXCEPT !.dri = b], h |-> x.h, k |-> x.k]
         /\ [x EXCEPT !.v.irq = b] = [v |-> [x.v EXCEPT !.irq = b], h |-> x.h, k |-> x.k]
         /\ [x EXCEPT !.v.ringBufActive = b] = [v |-> [x.v EXCEPT !.ringBufActive = b], h |-> x.h, k |-> x.k]
         /\ [x EXCEPT !.v.ringRefused = b] = [v |-> [x.v EXCEPT !.ringRefused = b], h |-> x.h, k |-> x.k]
         /\ [x EXCEPT !.v.oldBpp = b] = [v |-> [x.v EXCEPT !.oldBpp = b], h |-> x.h, k |-> x.k]
         /\ [x EXCEPT !.v.dga = b] = [v |-> [x.v EXCEPT !.dga = b], h |-> x.h, k |-> x.k]
         /\ [x EXCEPT !.v.bpp = b] = [v |-> [x.v EXCEPT !.bpp = b], h |-> x.h, k |-> x.k]
         /\ [x EXCEPT !.h.overlay = b] = [v |-> x.v, h |-> [x.h EXCEPT !.overlay = b], k |-> x.k]
         /\ [x EXCEPT !.h.locked = b] = [v |-> x.v, h |-> [x.h EXCEPT !.locked = b], k |-> x.k]
         /\ [x EXCEPT !.h.cursor = b] = [v |-> x.v, h |-> [x.h EXCEPT !.cursor = b], k |-> x.k]
<1>1. [x EXCEPT !.v.vtSema = b] = [v |-> [x.v EXCEPT !.vtSema = b], h |-> x.h, k |-> x.k]
  BY DEF Screens
<1>2. [x EXCEPT !.v.agpDMA = b] = [v |-> [x.v EXCEPT !.agpDMA = b], h |-> x.h, k |-> x.k]
  BY DEF Screens
<1>3. [x EXCEPT !.v.noAccel = b] = [v |-> [x.v EXCEPT !.noAccel = b], h |-> x.h, k |-> x.k]
  BY DEF Screens
<1>4. [x EXCEPT !.v.dri = b] = [v |-> [x.v EXCEPT !.dri = b], h |-> x.h, k |-> x.k]
  BY DEF Screens
<1>5. [x EXCEPT !.v.irq = b] = [v |-> [x.v EXCEPT !.irq = b], h |-> x.h, k |-> x.k]
  BY DEF Screens
<1>6. [x EXCEPT !.v.ringBufActive = b] = [v |-> [x.v EXCEPT !.ringBufActive = b], h |-> x.h, k |-> x.k]
  BY DEF Screens
<1>7. [x EXCEPT !.v.ringRefused = b] = [v |-> [x.v EXCEPT !.ringRefused = b], h |-> x.h, k |-> x.k]
  BY DEF Screens
<1>8. [x EXCEPT !.v.oldBpp = b] = [v |-> [x.v EXCEPT !.oldBpp = b], h |-> x.h, k |-> x.k]
  BY DEF Screens
<1>9. [x EXCEPT !.v.dga = b] = [v |-> [x.v EXCEPT !.dga = b], h |-> x.h, k |-> x.k]
  BY DEF Screens
<1>10. [x EXCEPT !.v.bpp = b] = [v |-> [x.v EXCEPT !.bpp = b], h |-> x.h, k |-> x.k]
  BY DEF Screens
<1>11. [x EXCEPT !.h.overlay = b] = [v |-> x.v, h |-> [x.h EXCEPT !.overlay = b], k |-> x.k]
  BY DEF Screens
<1>12. [x EXCEPT !.h.cursor = b] = [v |-> x.v, h |-> [x.h EXCEPT !.cursor = b], k |-> x.k]
  BY DEF Screens
<1>13. [x EXCEPT !.h.locked = b] = [v |-> x.v, h |-> [x.h EXCEPT !.locked = b], k |-> x.k]
  BY DEF Screens
<1>. QED
  BY <1>1, <1>2, <1>3, <1>4, <1>5, <1>6, <1>7, <1>8, <1>9, <1>10, <1>11, <1>12, <1>13

(* The overlay of a screen, stopped, and its cursor, hidden.               *)
LEMMA Stopped ==
  ASSUME NEW x \in Screens
  PROVE  /\ [x EXCEPT !.h.overlay = FALSE, !.h.cursor = FALSE] =
              [v |-> x.v, h |-> [x.h EXCEPT !.overlay = FALSE, !.cursor = FALSE],
               k |-> x.k]
<1> DEFINE y == [x EXCEPT !.h.overlay = FALSE]
           e == [x.h EXCEPT !.overlay = FALSE]
<1>1. y = [v |-> x.v, h |-> e, k |-> x.k]
  BY SetField
<1>2. e \in Hardware
  BY DEF Screens, Hardware
<1>3. [y EXCEPT !.h.cursor = FALSE] = [v |-> y.v, h |-> [y.h EXCEPT !.cursor = FALSE], k |-> y.k]
  <2>1. y \in Screens
    <3>. HIDE DEF y, e
    <3>. QED
      BY <1>1, <1>2 DEF Screens
  <2>. QED
    BY <2>1, SetField
<1>4. y.v = x.v /\ y.h = e /\ y.k = x.k
  BY <1>1
<1>. QED
  BY <1>3, <1>4

(* A cursor's image loaded, or its memory cleared.                         *)
LEMMA LoadedCursor ==
  ASSUME NEW x \in Screens, NEW i \in Images
  PROVE  [x EXCEPT !.h.image = i, !.h.cursor = FALSE] =
              [v |-> x.v, h |-> [x.h EXCEPT !.image = i, !.cursor = FALSE],
               k |-> x.k]
<1> DEFINE y == [x EXCEPT !.h.image = i]
           e == [x.h EXCEPT !.image = i]
<1>1. y = [v |-> x.v, h |-> e, k |-> x.k]
  BY DEF Screens
<1>2. e \in Hardware
  BY DEF Screens, Hardware
<1>3. [y EXCEPT !.h.cursor = FALSE] = [v |-> y.v, h |-> [y.h EXCEPT !.cursor = FALSE], k |-> y.k]
  <2>1. y \in Screens
    <3>. HIDE DEF y, e
    <3>. QED
      BY <1>1, <1>2 DEF Screens
  <2>. QED
    BY <2>1, SetField
<1>4. y.v = x.v /\ y.h = e /\ y.k = x.k
  BY <1>1
<1>. QED
  BY <1>3, <1>4

(* Leaving the terminal: mode and queue are given back, the cursor's image *)
(* is stored, the ring is cleaned up.                                      *)
LEMMA LeftDoes ==
  ASSUME X \in Screens
  PROVE  LET y == [Left EXCEPT !.v.vtSema = FALSE]
         IN  /\ y \in Screens /\ y.v.vtSema = FALSE
             /\ y.v.saved = v.saved /\ y.v.stateMode = v.stateMode
             /\ SetUpOf(y.v) = SetUpOf(v) /\ PlanOf(y.v) = PlanOf(v)
             /\ y.h.mode = (IF opt.vbe > 0 THEN v.stateMode ELSE v.saved)
             /\ y.h.locked /\ y.k.open = k.open
             /\ ~ y.h.overlay /\ (y.h.vq => ~ opt.vq /\ h.vq)
             /\ opt.hwcursor => y.v.cursorImage = h.image
             /\ v.dri /\ (v.ringBufActive <=> "ring" \in k.held) =>
                  ~ y.v.ringBufActive /\ "ring" \notin y.k.held
<1> DEFINE e == [h EXCEPT !.overlay = FALSE, !.cursor = FALSE]
           a == [v |-> v, h |-> e, k |-> k]
           b == IF v.dri THEN RingCleanup(a) ELSE a
           c == DisableVQ(b)
           d == SaveVideo(c)
           g == CursorStore(d)
           r == Restore(g)
           w == [r.v EXCEPT !.vtSema = FALSE]
<1>0. v \in Drivers /\ h \in Hardware /\ k \in Kernels
  BY DEF X, Screens
<1>1. [X EXCEPT !.h.overlay = FALSE, !.h.cursor = FALSE] = a
  <2>1. X.v = v /\ X.h = h /\ X.k = k
    BY DEF X
  <2>2. [X EXCEPT !.h.overlay = FALSE, !.h.cursor = FALSE]
          = [v |-> X.v, h |-> [X.h EXCEPT !.overlay = FALSE, !.cursor = FALSE], k |-> X.k]
    BY Stopped
  <2>. QED
    BY <2>1, <2>2
<1>2. Left = r
  BY <1>1 DEF Left
<1>3. /\ e \in Hardware /\ e.mode = h.mode /\ e.image = h.image /\ e.bpp = h.bpp
      /\ e.vq = h.vq
  BY <1>0 DEF Hardware
<1>. HIDE DEF e
<1>4. a \in Screens /\ a.v = v /\ a.h = e /\ a.k = k
  BY <1>0, <1>3 DEF Screens
<1>. HIDE DEF a
<1>5. /\ b \in Screens /\ b.h = e /\ b.k.open = k.open
      /\ ModeOf(b.v) = ModeOf(v) /\ SetUpOf(b.v) = SetUpOf(v)
      /\ PlanOf(b.v) = PlanOf(v)
      /\ v.dri /\ (v.ringBufActive <=> "ring" \in k.held) =>
           ~ b.v.ringBufActive /\ "ring" \notin b.k.held
  BY <1>4, RingCleanupDoes
<1>. HIDE DEF b
<1>6. /\ c \in Screens /\ c.v = b.v /\ c.k = b.k
      /\ c.h.image = h.image /\ (c.h.vq => ~ opt.vq /\ h.vq)
  BY <1>3, <1>5, DisableVQDoes
<1>. HIDE DEF c
<1>7. /\ d \in Screens /\ d.k = b.k
      /\ ModeOf(d.v) = ModeOf(v) /\ SetUpOf(d.v) = SetUpOf(v)
      /\ PlanOf(d.v) = PlanOf(v) /\ RingOf(d.v) = RingOf(b.v)
      /\ d.h.image = h.image /\ ~ d.h.overlay /\ (d.h.vq => ~ opt.vq /\ h.vq)
  BY <1>5, <1>6, SaveVideoDoes
<1>. HIDE DEF d
<1>8. /\ g \in Screens /\ g.k = b.k /\ g.h = d.h
      /\ ModeOf(g.v) = ModeOf(v) /\ SetUpOf(g.v) = SetUpOf(v)
      /\ PlanOf(g.v) = PlanOf(v) /\ RingOf(g.v) = RingOf(b.v)
      /\ opt.hwcursor => g.v.cursorImage = h.image
  BY <1>7, CursorStoreDoes
<1>. HIDE DEF g
<1>9. /\ r \in Screens /\ r.k = b.k /\ r.v = g.v /\ r.h.locked
      /\ r.h.mode = (IF opt.vbe > 0 THEN v.stateMode ELSE v.saved)
      /\ ~ r.h.overlay /\ (r.h.vq => ~ opt.vq /\ h.vq)
  BY <1>7, <1>8, RestoreDoes DEF ModeOf
<1>. HIDE DEF r
<1>10. [Left EXCEPT !.v.vtSema = FALSE] = [v |-> w, h |-> r.h, k |-> r.k]
  <2>1. [r EXCEPT !.v.vtSema = FALSE] = [v |-> w, h |-> r.h, k |-> r.k]
    BY <1>9, SetField
  <2>. QED
    BY <1>2, <2>1
<1>11. /\ w \in Drivers /\ w.vtSema = FALSE
       /\ w.saved = r.v.saved /\ w.stateMode = r.v.stateMode
       /\ SetUpOf(w) = SetUpOf(r.v) /\ PlanOf(w) = PlanOf(r.v) /\ RingOf(w) = RingOf(r.v)
       /\ w.cursorImage = r.v.cursorImage
  BY <1>9 DEF Screens, Drivers, SetUpOf, PlanOf, RingOf
<1>. HIDE DEF w
<1>12. [v |-> w, h |-> r.h, k |-> r.k] \in Screens
  BY <1>9, <1>11 DEF Screens
<1>13. /\ w.saved = v.saved /\ w.stateMode = v.stateMode
       /\ SetUpOf(w) = SetUpOf(v) /\ PlanOf(w) = PlanOf(v)
       /\ w.ringBufActive = b.v.ringBufActive
       /\ opt.hwcursor => w.cursorImage = h.image
  BY <1>8, <1>9, <1>11 DEF ModeOf, RingOf
<1>. QED
  BY <1>5, <1>9, <1>10, <1>11, <1>12, <1>13

(* Entering it again: the console's mode is saved, the server's one set    *)
(* unless that fails, the cursor's image loaded, ring and interrupt are    *)
(* started.                                                                *)
Entered(f) ==
  LET a == CursorRestore(SetMode(Save([X EXCEPT !.v.vtSema = TRUE]), f))
      b == [a EXCEPT !.h = [@ EXCEPT !.overlay = v.overlay, !.locked = FALSE]]
  IN  IF v.dri THEN RingInit(KickVblank(b), f) ELSE b

(* What the hook of the return to the terminal makes of the screen.        *)
LEMMA EnteredDoes ==
  ASSUME opt \in Options, X \in Screens, NEW f
  PROVE  LET y == Entered(f)
         IN  /\ y \in Screens /\ y.k.open = k.open /\ y.v.vtSema /\ y.v.saved = h.mode
             /\ y.v.stateMode =
                  (IF opt.vbe = 2 /\ v.stateMode # None THEN v.stateMode ELSE h.mode)
             /\ SetUpOf(y.v) = SetUpOf(v) /\ PlanOf(y.v) = PlanOf(v)
             /\ "mode" \notin f => y.h.bpp = DepthSet(v)
             /\ y.h.vq => h.vq \/ v.VQStart # 0
             /\ opt.hwcursor => y.h.image = v.cursorImage
             /\ v.dri =>
                  /\ (v.ringBufActive <=> "ring" \in k.held) =>
                       (y.v.ringBufActive <=> "ring" \in y.k.held)
                  /\ opt.agp /\ ~ y.v.ringRefused => y.v.ringBufActive
                  /\ v.irq => y.h.vblank
<1> DEFINE w == [v EXCEPT !.vtSema = TRUE]
           z == [v |-> w, h |-> h, k |-> k]
           c == Save(z)
           d == SetMode(c, f)
           a == CursorRestore(d)
           e == [a.h EXCEPT !.overlay = v.overlay, !.locked = FALSE]
           b == [v |-> a.v, h |-> e, k |-> a.k]
           g == KickVblank(b)
           r == RingInit(g, f)
<1>0. v \in Drivers /\ h \in Hardware /\ k \in Kernels
  BY DEF X, Screens
<1>1. [X EXCEPT !.v.vtSema = TRUE] = z
  <2>1. X.v = v /\ X.h = h /\ X.k = k
    BY DEF X
  <2>2. [X EXCEPT !.v.vtSema = TRUE]
          = [v |-> [X.v EXCEPT !.vtSema = TRUE], h |-> X.h, k |-> X.k]
    BY SetField
  <2>. QED
    BY <2>1, <2>2
<1>2. /\ w \in Drivers /\ w.vtSema /\ w.stateMode = v.stateMode
      /\ SetUpOf(w) = SetUpOf(v) /\ PlanOf(w) = PlanOf(v) /\ RingOf(w) = RingOf(v)
  BY <1>0 DEF Drivers, SetUpOf, PlanOf, RingOf
<1>. HIDE DEF w
<1>3. z \in Screens /\ z.v = w /\ z.h = h /\ z.k = k
  BY <1>0, <1>2 DEF Screens
<1>. HIDE DEF z
<1>4. /\ c \in Screens /\ c.h = h /\ c.k = k
      /\ c.v.vtSema /\ c.v.saved = h.mode
      /\ c.v.stateMode = (IF opt.vbe = 2 /\ v.stateMode # None THEN v.stateMode ELSE h.mode)
      /\ SetUpOf(c.v) = SetUpOf(v) /\ RingOf(c.v) = RingOf(v) /\ PlanOf(c.v) = PlanOf(v)
  BY <1>2, <1>3, SaveDoes
<1>. HIDE DEF c
<1>5. /\ d \in Screens /\ d.k = k
      /\ d.v.vtSema /\ d.v.saved = c.v.saved /\ d.v.stateMode = c.v.stateMode
      /\ SetUpOf(d.v) = SetUpOf(v) /\ RingOf(d.v) = RingOf(v) /\ PlanOf(d.v) = PlanOf(v)
      /\ "mode" \notin f => d.h.bpp = DepthSet(v)
      /\ d.h.vq => h.vq \/ v.VQStart # 0
  <2>1. DepthSet(c.v) = DepthSet(v) /\ c.v.VQStart = v.VQStart
    BY <1>4 DEF PlanOf, SetUpOf, DepthSet
  <2>. QED
    BY <1>4, <2>1, SetModeDoes
<1>. HIDE DEF d
<1>6. /\ a \in Screens /\ a.k = k
      /\ a.v.vtSema /\ a.v.saved = c.v.saved /\ a.v.stateMode = c.v.stateMode
      /\ SetUpOf(a.v) = SetUpOf(v) /\ RingOf(a.v) = RingOf(v) /\ PlanOf(a.v) = PlanOf(v)
      /\ "mode" \notin f => a.h.bpp = DepthSet(v)
      /\ a.h.vq => h.vq \/ v.VQStart # 0
      /\ opt.hwcursor => a.h.image = v.cursorImage
  BY <1>5, CursorRestoreDoes DEF ModeOf
<1>. HIDE DEF a
<1>7. /\ e \in Hardware /\ e.bpp = a.h.bpp /\ e.vq = a.h.vq /\ e.image = a.h.image
  BY <1>0, <1>6 DEF Screens, Hardware, Drivers
<1>8. [a EXCEPT !.h = [@ EXCEPT !.overlay = v.overlay, !.locked = FALSE]] = b
  BY <1>6 DEF Screens
<1>9. Entered(f) = IF v.dri THEN r ELSE b
  BY <1>1, <1>8 DEF Entered, c, d, a
<1>. HIDE DEF e
<1>10. b \in Screens /\ b.v = a.v /\ b.h = e /\ b.k = k
  BY <1>6, <1>7 DEF Screens
<1>. HIDE DEF b
<1>11. /\ g \in Screens /\ g.v = a.v /\ g.k = k /\ (a.v.irq => g.h.vblank)
       /\ g.h.image = e.image /\ g.h.bpp = e.bpp /\ g.h.vq = e.vq
  BY <1>10, KickVblankDoes
<1>. HIDE DEF g
<1>12. /\ r \in Screens /\ r.h = g.h /\ r.k.open = k.open
       /\ (a.v.ringBufActive <=> "ring" \in k.held) =>
            (r.v.ringBufActive <=> "ring" \in r.k.held)
       /\ opt.agp /\ ~ r.v.ringRefused => r.v.ringBufActive
       /\ ModeOf(r.v) = ModeOf(a.v) /\ SetUpOf(r.v) = SetUpOf(v) /\ PlanOf(r.v) = PlanOf(v)
  BY <1>6, <1>11, RingInitDoes
<1>. HIDE DEF r
<1>13. CASE v.dri
  <2>1. r.v.vtSema = a.v.vtSema /\ r.v.saved = a.v.saved /\ r.v.stateMode = a.v.stateMode
    BY <1>12 DEF ModeOf
  <2>2. a.v.irq = v.irq
    BY <1>6 DEF SetUpOf
  <2>3. a.v.ringBufActive = v.ringBufActive
    BY <1>6 DEF RingOf
  <2>. QED
    BY <1>4, <1>6, <1>7, <1>9, <1>11, <1>12, <1>13, <2>1, <2>2, <2>3
<1>14. CASE ~ v.dri
  BY <1>4, <1>6, <1>7, <1>9, <1>10, <1>14
<1>. QED
  BY <1>13, <1>14

(* Setting another mode, for the server or for a DGA client.               *)
LEMMA SwitchedDoes ==
  ASSUME opt \in Options, NEW x \in Screens, NEW f
  PROVE  LET y == Switched(x, f)
         IN  /\ y \in Screens /\ (x.v.vtSema => y.v.vtSema)
             /\ y.v.saved = x.v.saved /\ y.v.stateMode = x.v.stateMode
             /\ SetUpOf(y.v) = SetUpOf(x.v) /\ PlanOf(y.v) = PlanOf(x.v)
             /\ "mode" \notin f => y.h.bpp = DepthSet(x.v)
             /\ "mode" \in f => y.h.bpp = x.h.bpp /\ y.h.missed = x.h.missed
             /\ y.h.vq => (x.h.vq /\ ~ opt.vq) \/ x.v.VQStart # 0
             /\ y.h.image = x.h.image /\ y.k.open = x.k.open
             /\ x.v.dri =>
                  /\ (x.v.ringBufActive <=> "ring" \in x.k.held) =>
                       (y.v.ringBufActive <=> "ring" \in y.k.held)
                  /\ opt.agp /\ ~ y.v.ringRefused => y.v.ringBufActive
                  /\ x.v.irq => y.h.vblank
<1> DEFINE c == IF x.v.dri THEN RingCleanup(x) ELSE x
           a == DisableVQ(c)
           b == SetMode(a, f)
           g == KickVblank(b)
           r == RingInit(g, f)
<1>1. Switched(x, f) = IF x.v.dri THEN r ELSE b
  BY DEF Switched
<1>2. /\ c \in Screens /\ c.h = x.h /\ c.k.open = x.k.open
      /\ ModeOf(c.v) = ModeOf(x.v) /\ SetUpOf(c.v) = SetUpOf(x.v)
      /\ PlanOf(c.v) = PlanOf(x.v)
      /\ x.v.dri /\ (x.v.ringBufActive <=> "ring" \in x.k.held) =>
           ~ c.v.ringBufActive /\ "ring" \notin c.k.held
  BY RingCleanupDoes
<1>. HIDE DEF c
<1>3. /\ a \in Screens /\ a.v = c.v /\ a.k = c.k
      /\ a.h.image = x.h.image /\ a.h.bpp = x.h.bpp /\ a.h.missed = x.h.missed
      /\ a.h.vq => x.h.vq /\ ~ opt.vq
  BY <1>2, DisableVQDoes
<1>. HIDE DEF a
<1>4. /\ b \in Screens /\ b.k = c.k /\ (a.v.vtSema => b.v.vtSema)
      /\ b.v.saved = c.v.saved /\ b.v.stateMode = c.v.stateMode
      /\ SetUpOf(b.v) = SetUpOf(x.v) /\ RingOf(b.v) = RingOf(c.v)
      /\ PlanOf(b.v) = PlanOf(x.v)
      /\ "mode" \notin f => b.h.bpp = DepthSet(a.v)
      /\ "mode" \in f => b.h.bpp = x.h.bpp /\ b.h.missed = x.h.missed
      /\ b.h.vq => (x.h.vq /\ ~ opt.vq) \/ a.v.VQStart # 0
      /\ b.h.image = x.h.image
  <2>1. SetUpOf(a.v) = SetUpOf(x.v) /\ RingOf(a.v) = RingOf(c.v) /\ PlanOf(a.v) = PlanOf(x.v)
    BY <1>2, <1>3
  <2>. QED
    BY <1>3, <2>1, SetModeDoes
<1>. HIDE DEF b
<1>5. /\ g \in Screens /\ g.v = b.v /\ g.k = c.k /\ (b.v.irq => g.h.vblank)
      /\ g.h.image = b.h.image /\ g.h.bpp = b.h.bpp /\ g.h.vq = b.h.vq
      /\ g.h.missed = b.h.missed
  BY <1>4, KickVblankDoes
<1>. HIDE DEF g
<1>6. /\ r \in Screens /\ r.h = g.h /\ r.k.open = c.k.open
      /\ (b.v.ringBufActive <=> "ring" \in c.k.held) =>
           (r.v.ringBufActive <=> "ring" \in r.k.held)
      /\ opt.agp /\ ~ r.v.ringRefused => r.v.ringBufActive
      /\ ModeOf(r.v) = ModeOf(b.v) /\ SetUpOf(r.v) = SetUpOf(x.v)
      /\ PlanOf(r.v) = PlanOf(x.v)
  BY <1>4, <1>5, RingInitDoes
<1>. HIDE DEF r
<1>7. CASE x.v.dri
  <2>1. /\ r.v.vtSema = b.v.vtSema /\ r.v.saved = b.v.saved /\ r.v.stateMode = b.v.stateMode
        /\ c.v.vtSema = x.v.vtSema /\ c.v.saved = x.v.saved
        /\ c.v.stateMode = x.v.stateMode
        /\ b.v.ringBufActive = c.v.ringBufActive
        /\ c.v.VQStart = x.v.VQStart /\ DepthSet(c.v) = DepthSet(x.v) /\ b.v.irq = x.v.irq
    BY <1>2, <1>4, <1>6 DEF ModeOf, RingOf, SetUpOf, PlanOf, DepthSet
  <2>2. (x.v.ringBufActive <=> "ring" \in x.k.held) =>
          (r.v.ringBufActive <=> "ring" \in r.k.held)
    BY <1>2, <1>6, <1>7, <2>1
  <2>3. r.h.vq => (x.h.vq /\ ~ opt.vq) \/ x.v.VQStart # 0
    BY <1>3, <1>4, <1>5, <1>6, <2>1
  <2>. QED
    BY <1>1, <1>2, <1>3, <1>4, <1>5, <1>6, <1>7, <2>1, <2>2, <2>3
<1>8. CASE ~ x.v.dri
  BY <1>1, <1>2, <1>3, <1>4, <1>8 DEF ModeOf, SetUpOf, PlanOf, DepthSet
<1>. QED
  BY <1>7, <1>8

(* Closing the screen: on the terminal the mode is given back, away from   *)
(* it the hardware is left alone.                                          *)
LEMMA ClosingDoes ==
  ASSUME X \in Screens
  PROVE  LET y == Closing
         IN  /\ y \in Screens /\ ~ y.v.vtSema
             /\ y.v.saved = v.saved /\ y.v.stateMode = v.stateMode
             /\ PlanOf(y.v) = PlanOf(v) /\ y.v.VQStart = v.VQStart /\ y.v.noAccel = v.noAccel
             /\ y.h.mode = (IF v.vtSema THEN IF opt.vbe > 0 THEN v.stateMode ELSE v.saved
                            ELSE h.mode)
             /\ ~ y.h.overlay /\ (v.vtSema \/ h.locked => y.h.locked)
             /\ y.k.open => k.open /\ ~ v.dri
             /\ y.h.vq => h.vq /\ (v.vtSema => ~ opt.vq)
<1> DEFINE e == [h EXCEPT !.overlay = FALSE]
           n == [e EXCEPT !.cursor = FALSE]
           z == [v |-> v, h |-> e, k |-> k]
           u == [v |-> v, h |-> n, k |-> k]
           a == IF v.vtSema THEN DisableVQ(u) ELSE z
           b == IF v.dri THEN DriClose(a) ELSE a
           r == IF v.vtSema THEN Restore(b) ELSE b
           w == [r.v EXCEPT !.vtSema = FALSE]
<1>0. v \in Drivers /\ h \in Hardware /\ k \in Kernels
  BY DEF X, Screens
<1>1. [X EXCEPT !.h.overlay = FALSE] = z
  <2>1. X.v = v /\ X.h = h /\ X.k = k
    BY DEF X
  <2>2. [X EXCEPT !.h.overlay = FALSE]
          = [v |-> X.v, h |-> [X.h EXCEPT !.overlay = FALSE], k |-> X.k]
    BY SetField
  <2>. QED
    BY <2>1, <2>2
<1>2. [z EXCEPT !.h.cursor = FALSE] = u
  OBVIOUS
<1>3. Closing = [r EXCEPT !.v.vtSema = FALSE]
  BY <1>1, <1>2 DEF Closing
<1>4. /\ e \in Hardware /\ e.mode = h.mode /\ ~ e.overlay /\ e.vq = h.vq /\ e.locked = h.locked
      /\ n \in Hardware /\ n.mode = h.mode /\ ~ n.overlay /\ n.vq = h.vq
  BY <1>0 DEF Hardware
<1>. HIDE DEF e, n
<1>5. /\ z \in Screens /\ z.v = v /\ z.h = e /\ z.k = k
      /\ u \in Screens /\ u.v = v /\ u.h = n /\ u.k = k
  BY <1>0, <1>4 DEF Screens
<1>. HIDE DEF z, u
<1>6. /\ a \in Screens /\ a.v = v /\ a.h.mode = h.mode /\ ~ a.h.overlay
      /\ a.k = k /\ (~ v.vtSema => a.h.locked = h.locked)
      /\ a.h.vq => h.vq /\ (v.vtSema => ~ opt.vq)
  BY <1>4, <1>5, DisableVQDoes
<1>. HIDE DEF a
<1>7. /\ b \in Screens /\ b.h = a.h
      /\ ModeOf(b.v) = ModeOf(v) /\ PlanOf(b.v) = PlanOf(v) /\ b.v.VQStart = v.VQStart
      /\ b.v.noAccel = v.noAccel /\ (b.k.open => k.open /\ ~ v.dri)
  BY <1>6, DriCloseDoes DEF Closed
<1>. HIDE DEF b
<1>8. /\ r \in Screens /\ r.v = b.v
      /\ r.h.mode = (IF v.vtSema THEN IF opt.vbe > 0 THEN v.stateMode ELSE v.saved
                     ELSE h.mode)
      /\ ~ r.h.overlay /\ r.k = b.k /\ (v.vtSema \/ h.locked => r.h.locked)
      /\ r.h.vq => h.vq /\ (v.vtSema => ~ opt.vq)
  BY <1>6, <1>7, RestoreDoes DEF ModeOf
<1>. HIDE DEF r
<1>9. Closing = [v |-> w, h |-> r.h, k |-> r.k]
  BY <1>3, <1>8 DEF Screens
<1>10. /\ w \in Drivers /\ ~ w.vtSema
       /\ w.saved = r.v.saved /\ w.stateMode = r.v.stateMode
       /\ PlanOf(w) = PlanOf(r.v) /\ w.VQStart = r.v.VQStart /\ w.noAccel = r.v.noAccel
  BY <1>8 DEF Screens, Drivers, PlanOf
<1>. HIDE DEF w
<1>. QED
  BY <1>7, <1>8, <1>9, <1>10 DEF Screens, ModeOf

-----------------------------------------------------------------------------
(* Starting a screen: the operations on video memory.                      *)
LEMMA Sizes ==
  /\ Bpl \in Nat /\ VirtualY \in Nat /\ VQSize \in Nat /\ CursorSize \in Nat
  /\ Bpl > 0 /\ VirtualY > 0 /\ VQSize > 0 /\ CursorSize > 0
  /\ ScreenEnd \in Nat /\ ScreenEnd > 0
<1>1. /\ Bpl \in Nat /\ VirtualY \in Nat /\ VQSize \in Nat /\ CursorSize \in Nat
      /\ Bpl > 0 /\ VirtualY > 0 /\ VQSize > 0 /\ CursorSize > 0
  BY LifecycleAssumption
<1>2. \A a, b \in Nat : a > 0 /\ b > 0 => a * b \in Nat /\ a * b > 0
  OBVIOUS
<1>. QED
  BY <1>1, <1>2 DEF ScreenEnd

MemoryOf(d) == <<d.FBFreeStart, d.FBFreeEnd, d.CursorStart, d.driSize, d.regions>>

(* Nothing but video memory differs.                                       *)
Kept(y, x) ==
  /\ y \in Screens /\ y.h = x.h /\ y.k = x.k
  /\ ModeOf(y.v) = ModeOf(x.v) /\ SetUpOf(y.v) = SetUpOf(x.v)
  /\ RingOf(y.v) = RingOf(x.v) /\ DepthOf(y.v) = DepthOf(x.v)

(* What two stages keep one after the other is kept.                       *)
LEMMA KeptAgain ==
  ASSUME NEW x, NEW y, NEW z, Kept(y, x), Kept(z, y)
  PROVE  Kept(z, x)
  BY DEF Kept

(* A stage that changes only the division of memory keeps the rest.        *)
LEMMA OtherFields ==
  ASSUME NEW x \in Screens, NEW d \in Drivers,
         ModeOf(d) = ModeOf(x.v), SetUpOf(d) = SetUpOf(x.v),
         RingOf(d) = RingOf(x.v), DepthOf(d) = DepthOf(x.v)
  PROVE  Kept([v |-> d, h |-> x.h, k |-> x.k], x)
  BY DEF Kept, Screens

(* The setters of the fields that divide memory change their own field.    *)
LEMMA SetFreeStart ==
  ASSUME NEW x \in Screens, NEW n \in Int
  PROVE  LET y == [x EXCEPT !.v.FBFreeStart = n]
         IN  /\ Kept(y, x)
             /\ MemoryOf(y.v) = <<n, x.v.FBFreeEnd, x.v.CursorStart, x.v.driSize, x.v.regions>>
<1> DEFINE d == [x.v EXCEPT !.FBFreeStart = n]
<1>1. [x EXCEPT !.v.FBFreeStart = n] = [v |-> d, h |-> x.h, k |-> x.k]
  BY DEF Screens
<1>2. /\ d \in Drivers /\ ModeOf(d) = ModeOf(x.v) /\ SetUpOf(d) = SetUpOf(x.v)
      /\ RingOf(d) = RingOf(x.v) /\ DepthOf(d) = DepthOf(x.v)
      /\ MemoryOf(d) = <<n, x.v.FBFreeEnd, x.v.CursorStart, x.v.driSize, x.v.regions>>
  BY DEF Screens, Drivers, ModeOf, SetUpOf, RingOf, DepthOf, MemoryOf
<1>. HIDE DEF d
<1>. QED
  BY <1>1, <1>2, OtherFields

(* The same for the end of what is free.                                   *)
LEMMA SetFreeEnd ==
  ASSUME NEW x \in Screens, NEW n \in Int
  PROVE  LET y == [x EXCEPT !.v.FBFreeEnd = n]
         IN  /\ Kept(y, x)
             /\ MemoryOf(y.v) = <<x.v.FBFreeStart, n, x.v.CursorStart, x.v.driSize, x.v.regions>>
<1> DEFINE d == [x.v EXCEPT !.FBFreeEnd = n]
<1>1. [x EXCEPT !.v.FBFreeEnd = n] = [v |-> d, h |-> x.h, k |-> x.k]
  BY DEF Screens
<1>2. /\ d \in Drivers /\ ModeOf(d) = ModeOf(x.v) /\ SetUpOf(d) = SetUpOf(x.v)
      /\ RingOf(d) = RingOf(x.v) /\ DepthOf(d) = DepthOf(x.v)
      /\ MemoryOf(d) = <<x.v.FBFreeStart, n, x.v.CursorStart, x.v.driSize, x.v.regions>>
  BY DEF Screens, Drivers, ModeOf, SetUpOf, RingOf, DepthOf, MemoryOf
<1>. HIDE DEF d
<1>. QED
  BY <1>1, <1>2, OtherFields

(* The same for the cursor's place.                                        *)
LEMMA SetCursorStart ==
  ASSUME NEW x \in Screens, NEW n \in Int
  PROVE  LET y == [x EXCEPT !.v.CursorStart = n]
         IN  /\ Kept(y, x)
             /\ MemoryOf(y.v) = <<x.v.FBFreeStart, x.v.FBFreeEnd, n, x.v.driSize, x.v.regions>>
<1> DEFINE d == [x.v EXCEPT !.CursorStart = n]
<1>1. [x EXCEPT !.v.CursorStart = n] = [v |-> d, h |-> x.h, k |-> x.k]
  BY DEF Screens
<1>2. /\ d \in Drivers /\ ModeOf(d) = ModeOf(x.v) /\ SetUpOf(d) = SetUpOf(x.v)
      /\ RingOf(d) = RingOf(x.v) /\ DepthOf(d) = DepthOf(x.v)
      /\ MemoryOf(d) = <<x.v.FBFreeStart, x.v.FBFreeEnd, n, x.v.driSize, x.v.regions>>
  BY DEF Screens, Drivers, ModeOf, SetUpOf, RingOf, DepthOf, MemoryOf
<1>. HIDE DEF d
<1>. QED
  BY <1>1, <1>2, OtherFields

(* The same for the size DRI has.                                          *)
LEMMA SetDriSize ==
  ASSUME NEW x \in Screens, NEW n \in Int
  PROVE  LET y == [x EXCEPT !.v.driSize = n]
         IN  /\ Kept(y, x)
             /\ MemoryOf(y.v) = <<x.v.FBFreeStart, x.v.FBFreeEnd, x.v.CursorStart, n, x.v.regions>>
<1> DEFINE d == [x.v EXCEPT !.driSize = n]
<1>1. [x EXCEPT !.v.driSize = n] = [v |-> d, h |-> x.h, k |-> x.k]
  BY DEF Screens
<1>2. /\ d \in Drivers /\ ModeOf(d) = ModeOf(x.v) /\ SetUpOf(d) = SetUpOf(x.v)
      /\ RingOf(d) = RingOf(x.v) /\ DepthOf(d) = DepthOf(x.v)
      /\ MemoryOf(d) = <<x.v.FBFreeStart, x.v.FBFreeEnd, x.v.CursorStart, n, x.v.regions>>
  BY DEF Screens, Drivers, ModeOf, SetUpOf, RingOf, DepthOf, MemoryOf
<1>. HIDE DEF d
<1>. QED
  BY <1>1, <1>2, OtherFields

(* The same for the regions.                                               *)
LEMMA SetRegions ==
  ASSUME NEW x \in Screens, NEW n \in SUBSET Regions
  PROVE  LET y == [x EXCEPT !.v.regions = n]
         IN  /\ Kept(y, x)
             /\ MemoryOf(y.v) = <<x.v.FBFreeStart, x.v.FBFreeEnd, x.v.CursorStart, x.v.driSize, n>>
<1> DEFINE d == [x.v EXCEPT !.regions = n]
<1>1. [x EXCEPT !.v.regions = n] = [v |-> d, h |-> x.h, k |-> x.k]
  BY DEF Screens
<1>2. /\ d \in Drivers /\ ModeOf(d) = ModeOf(x.v) /\ SetUpOf(d) = SetUpOf(x.v)
      /\ RingOf(d) = RingOf(x.v) /\ DepthOf(d) = DepthOf(x.v)
      /\ MemoryOf(d) = <<x.v.FBFreeStart, x.v.FBFreeEnd, x.v.CursorStart, x.v.driSize, n>>
  BY DEF Screens, Drivers, ModeOf, SetUpOf, RingOf, DepthOf, MemoryOf
<1>. HIDE DEF d
<1>. QED
  BY <1>1, <1>2, OtherFields

(* An allocation is recorded unless it is empty.                           *)
LEMMA AddRegionDoes ==
  ASSUME NEW x \in Screens, NEW r \in Regions
  PROVE  LET y == AddRegion(x, r)
         IN  /\ Kept(y, x)
             /\ MemoryOf(y.v) = <<x.v.FBFreeStart, x.v.FBFreeEnd, x.v.CursorStart, x.v.driSize,
                                  IF r.lo < r.hi THEN x.v.regions \cup {r} ELSE x.v.regions>>
<1>1. CASE r.lo < r.hi
  <2>1. x.v.regions \cup {r} \in SUBSET Regions
    BY DEF Screens, Drivers
  <2>2. AddRegion(x, r) = [x EXCEPT !.v.regions = x.v.regions \cup {r}]
    BY <1>1 DEF AddRegion
  <2>. QED
    BY <1>1, <2>1, <2>2, SetRegions
<1>2. CASE ~ (r.lo < r.hi)
  BY <1>2 DEF AddRegion, Kept, MemoryOf
<1>. QED
  BY <1>1, <1>2

(* An allocation from the end of memory moves the end of what is free.     *)
LEMMA TopDoes ==
  ASSUME NEW x \in Screens, NEW name \in Names, NEW n \in Nat, n > 0
  PROVE  LET y == Top(x, name, n)
         IN  /\ Kept(y, x)
             /\ MemoryOf(y.v) =
                  <<x.v.FBFreeStart, x.v.FBFreeEnd - n, x.v.CursorStart, x.v.driSize,
                    x.v.regions \cup {Region(name, x.v.FBFreeEnd - n, x.v.FBFreeEnd)}>>
<1> DEFINE r == Region(name, x.v.FBFreeEnd - n, x.v.FBFreeEnd)
           z == [x EXCEPT !.v.FBFreeEnd = x.v.FBFreeEnd - n]
<1>1. x.v.FBFreeEnd \in Int
  BY DEF Screens, Drivers
<1>2. /\ Kept(z, x)
      /\ MemoryOf(z.v) = <<x.v.FBFreeStart, x.v.FBFreeEnd - n, x.v.CursorStart, x.v.driSize,
                           x.v.regions>>
  <2>1. x.v.FBFreeEnd - n \in Int
    BY <1>1
  <2>. QED
    BY <2>1, SetFreeEnd
<1>3. Top(x, name, n) = AddRegion(z, r)
  BY DEF Top
<1>4. r \in Regions /\ r.lo < r.hi
  BY <1>1 DEF Region, Regions
<1>. HIDE DEF r, z
<1>5. z \in Screens
  BY <1>2 DEF Kept
<1>6. /\ Kept(AddRegion(z, r), z)
      /\ MemoryOf(AddRegion(z, r).v) =
           <<z.v.FBFreeStart, z.v.FBFreeEnd, z.v.CursorStart, z.v.driSize, z.v.regions \cup {r}>>
  BY <1>4, <1>5, AddRegionDoes
<1>7. MemoryOf(AddRegion(z, r).v) = <<x.v.FBFreeStart, x.v.FBFreeEnd - n, x.v.CursorStart,
                                      x.v.driSize, x.v.regions \cup {r}>>
  BY <1>2, <1>6 DEF MemoryOf
<1>8. Kept(AddRegion(z, r), x)
  BY <1>2, <1>6, KeptAgain
<1>. QED
  BY <1>3, <1>7, <1>8 DEF r

(* Mapping the frame buffer leaves the screen allocated and all behind it  *)
(* free.                                                                   *)
LEMMA MapFBDoes ==
  ASSUME opt \in Options, NEW x \in Screens
  PROVE  LET y == MapFB(x)
         IN  /\ Kept(y, x)
             /\ MemoryOf(y.v) = <<ScreenEnd, Ram, x.v.CursorStart, x.v.driSize,
                                  {Region("screen", 0, ScreenEnd)}>>
<1> DEFINE a == [x EXCEPT !.v.FBFreeStart = ScreenEnd]
           b == [a EXCEPT !.v.FBFreeEnd = Ram]
           rs == {Region("screen", 0, ScreenEnd)}
           c == [b EXCEPT !.v.regions = rs]
<1>1. MapFB(x) = c
  BY DEF MapFB
<1>2. rs \in SUBSET Regions
  <2>1. Region("screen", 0, ScreenEnd) \in Regions
    BY Sizes DEF Region, Regions, Names
  <2>. QED
    BY <2>1
<1>3. Kept(a, x) /\ MemoryOf(a.v) = <<ScreenEnd, x.v.FBFreeEnd, x.v.CursorStart, x.v.driSize,
                                      x.v.regions>>
  BY Sizes, SetFreeStart
<1>. HIDE DEF a, rs
<1>4. Kept(b, a) /\ MemoryOf(b.v) = <<a.v.FBFreeStart, Ram, a.v.CursorStart, a.v.driSize,
                                      a.v.regions>>
  <2>1. a \in Screens
    BY <1>3 DEF Kept
  <2>. QED
    BY <2>1, OptionFields, SetFreeEnd
<1>. HIDE DEF b
<1>5. Kept(c, b) /\ MemoryOf(c.v) = <<b.v.FBFreeStart, b.v.FBFreeEnd, b.v.CursorStart,
                                      b.v.driSize, rs>>
  <2>1. b \in Screens
    BY <1>4 DEF Kept
  <2>. QED
    BY <1>2, <2>1, SetRegions
<1>. HIDE DEF c
<1>6. Kept(c, x)
  BY <1>3, <1>4, <1>5, KeptAgain
<1>7. MemoryOf(c.v) = <<ScreenEnd, Ram, x.v.CursorStart, x.v.driSize, rs>>
  BY <1>3, <1>4, <1>5 DEF MemoryOf
<1>. QED
  BY <1>1, <1>6, <1>7 DEF rs

(* How memory is divided: the screen at the start, what was taken from the *)
(* end (queue, cursor, marker), and in between what the allocators have.   *)
Allocators == {"exa", "pixmaps", "linear", "heap"}
AtEnd(end, r) == /\ end <= r.lo /\ r.lo <= r.hi /\ r.hi <= Ram
                 /\ r.name \notin Allocators
Between(end, r) == r.name \in Allocators /\ ScreenEnd <= r.lo /\ r.hi <= end
TheScreen == Region("screen", 0, ScreenEnd)
Allocated(end, R) ==
  /\ ScreenEnd <= end /\ end <= Ram
  /\ \A r \in R : r = TheScreen \/ AtEnd(end, r) \/ Between(end, r)
  /\ \A r, s \in R : Apart(r, s)
Carved(end, R) ==
  /\ Allocated(end, R)
  /\ \A r \in R : r.name \notin Allocators

(* The screen itself is a region, at the start of memory.                  *)
LEMMA ScreenFields ==
  /\ TheScreen \in Regions /\ TheScreen.name = "screen"
  /\ TheScreen.lo = 0 /\ TheScreen.hi = ScreenEnd
  BY Sizes DEF TheScreen, Region, Regions, Names

(* Allocations inside memory that do not meet are tidy.                    *)
LEMMA AllocatedTidy ==
  ASSUME opt \in Options, NEW R \in SUBSET Regions, NEW end \in Int, Allocated(end, R)
  PROVE  Tidy(R)
<1>1. end <= Ram /\ ScreenEnd <= end /\ Ram \in Int /\ ScreenEnd \in Int
  BY Sizes, OptionFields DEF Allocated
<1>. QED
  <2>1. \A r, s \in R : Apart(r, s)
    BY DEF Allocated
  <2>2. ASSUME NEW r \in R PROVE r.hi <= Ram
    <3>1. r.lo \in Int /\ r.hi \in Int
      BY DEF Regions
    <3>2. r = TheScreen \/ AtEnd(end, r) \/ Between(end, r)
      BY DEF Allocated
    <3>. QED
      BY <1>1, <3>1, <3>2, ScreenFields DEF AtEnd, Between
  <2>. QED
    BY <2>1, <2>2 DEF Tidy

(* With the screen alone, all the rest is free.                            *)
LEMMA ScreenCarved == ASSUME opt \in Options, ScreenEnd <= Ram PROVE Carved(Ram, {TheScreen})
  BY Sizes, OptionFields, ScreenFields DEF Carved, Allocated, Apart, Allocators

(* Memory is taken from the end of what is free.                           *)
LEMMA TopCarves ==
  ASSUME opt \in Options, NEW R \in SUBSET Regions, NEW end \in Int, NEW n \in Nat,
         Carved(end, R), NEW name \in {"vq", "cursor", "marker"}, ScreenEnd <= end - n
  PROVE  Carved(end - n, R \cup {Region(name, end - n, end)})
<1> DEFINE q == Region(name, end - n, end)
<1>1. q \in Regions /\ q.name = name /\ q.lo = end - n /\ q.hi = end
  BY DEF Region, Regions, Names
<1>. HIDE DEF q
<1>2. name \notin Allocators
  BY DEF Allocators
<1>3. end <= Ram /\ Ram \in Int /\ ScreenEnd \in Int
  BY Sizes, OptionFields DEF Carved, Allocated
<1>4. AtEnd(end - n, q)
  BY <1>1, <1>2, <1>3 DEF AtEnd
<1>5. ASSUME NEW r \in R
      PROVE  (r = TheScreen \/ AtEnd(end - n, r)) /\ Apart(r, q) /\ Apart(q, r)
  <2>1. r.lo \in Int /\ r.hi \in Int
    BY DEF Regions
  <2>2. r = TheScreen \/ AtEnd(end, r)
    BY DEF Carved, Allocated, Between
  <2>3. CASE r = TheScreen
    BY <1>1, <2>1, <2>3, ScreenFields DEF Apart
  <2>4. CASE AtEnd(end, r)
    BY <1>1, <1>3, <2>1, <2>4 DEF Apart, AtEnd
  <2>. QED
    BY <2>2, <2>3, <2>4
<1>6. \A r, s \in R \cup {q} : Apart(r, s)
  <2>1. \A r, s \in R : Apart(r, s)
    BY DEF Carved, Allocated
  <2>. QED
    BY <1>5, <2>1 DEF Apart
<1>7. Allocated(end - n, R \cup {q})
  BY <1>3, <1>4, <1>5, <1>6 DEF Allocated
<1>8. \A r \in R \cup {q} : r.name \notin Allocators
  BY <1>1, <1>2 DEF Carved
<1>. QED
  BY <1>7, <1>8 DEF Carved, q

(* An allocator gets memory nobody has.                                    *)
LEMMA AllocatorGets ==
  ASSUME opt \in Options, NEW R \in SUBSET Regions, NEW end \in Int, Allocated(end, R),
         NEW q \in Regions, q.name \in Allocators, ScreenEnd <= q.lo, q.hi <= end,
         \A r \in R : r.name \in Allocators => Apart(q, r)
  PROVE  Allocated(end, R \cup {q})
<1>1. end <= Ram /\ ScreenEnd <= end /\ Ram \in Int /\ ScreenEnd \in Int
      /\ q.lo \in Int /\ q.hi \in Int
  BY Sizes, OptionFields DEF Allocated, Regions
<1>2. Between(end, q)
  BY DEF Between
<1>3. ASSUME NEW r \in R PROVE Apart(r, q) /\ Apart(q, r)
  <2>1. r.lo \in Int /\ r.hi \in Int
    BY DEF Regions
  <2>2. r = TheScreen \/ AtEnd(end, r) \/ Between(end, r)
    BY DEF Allocated
  <2>3. CASE r = TheScreen
    BY <1>1, <2>1, <2>3, ScreenFields DEF Apart
  <2>4. CASE AtEnd(end, r)
    BY <1>1, <2>1, <2>4 DEF Apart, AtEnd
  <2>5. CASE Between(end, r)
    BY <2>5 DEF Apart, Between
  <2>. QED
    BY <2>2, <2>3, <2>4, <2>5
<1>4. \A r, s \in R \cup {q} : Apart(r, s)
  <2>1. \A r, s \in R : Apart(r, s)
    BY DEF Allocated
  <2>. QED
    BY <1>3, <2>1 DEF Apart
<1>. QED
  BY <1>1, <1>2, <1>4 DEF Allocated

(* A number of bytes rounded down to whole lines is no more than it was.   *)
LEMMA WholeLines ==
  ASSUME NEW a \in Nat, NEW b \in Nat, b > 0
  PROVE  /\ a \div b \in Nat /\ (a \div b) * b <= a
         /\ (a \div 2) \div b \in Nat /\ ((a \div 2) \div b) * b <= a
<1>1. \A n \in Nat : n \div b \in Nat /\ (n \div b) * b <= n
  OBVIOUS
<1>2. a \div 2 \in Nat /\ a \div 2 <= a
  OBVIOUS
<1>. QED
  BY <1>1, <1>2

(* Whole lines after those of the screen.                                  *)
LEMMA Lines == (VirtualY + 2) * Bpl = ScreenEnd + 2 * Bpl
<1>1. \A a, b \in Nat : (a + 2) * b = a * b + 2 * b
  OBVIOUS
<1>. QED
  BY <1>1, Sizes DEF ScreenEnd

(* Where the DRM's part of memory starts, and that there is room for it:   *)
(* it ends before the end of what is free, and behind XAA's pixmaps.       *)
HeapStart(d) == IF opt.exa THEN ScreenEnd ELSE d.FBFreeStart
HeapRoom(d) ==
  /\ ScreenEnd <= HeapStart(d) /\ HeapStart(d) + d.driSize <= d.FBFreeEnd
  /\ \A r \in d.regions : r.name \in {"pixmaps", "heap"} => r.hi <= HeapStart(d)

(* The queue, the cursor and the marker, each below the one before.        *)
AccelTop(x) ==
  LET vq == opt.vq /\ x.v.FBFreeEnd - x.v.FBFreeStart >= VQSize
      a  == IF vq THEN Top(x, "vq", VQSize) ELSE x
      b  == Initialize2DEngine(
              [a EXCEPT !.v.VQStart = IF vq THEN a.v.FBFreeEnd ELSE 0])
      c  == IF opt.hwcursor THEN Top(b, "cursor", CursorSize) ELSE b
  IN  Top([c EXCEPT !.v.CursorStart = IF opt.hwcursor THEN c.v.FBFreeEnd ELSE @],
          "marker", 32)

(* The mode is left as it was, of the hardware only the queue is set.      *)
Accelerating(y, x) ==
  /\ y \in Screens /\ y.k = x.k
  /\ ModeOf(y.v) = ModeOf(x.v) /\ RingOf(y.v) = RingOf(x.v) /\ DepthOf(y.v) = DepthOf(x.v)
  /\ y.v.dri = x.v.dri /\ y.v.pDRIInfo = x.v.pDRIInfo
  /\ y.v.agpDMA = x.v.agpDMA /\ y.v.irq = x.v.irq
  /\ y.h.mode = x.h.mode /\ y.h.overlay = x.h.overlay /\ y.h.image = x.h.image
  /\ y.h.bpp = x.h.bpp /\ y.h.vblank = x.h.vblank
  /\ ~ opt.vq => y.v.VQStart = 0 /\ ~ y.h.vq

(* With an acceleration architecture's memory still to be given out.       *)
LEMMA AccelTopDoes ==
  ASSUME opt \in Options, NEW x \in Screens,
         x.v.FBFreeStart = ScreenEnd, x.v.FBFreeEnd = Ram, x.v.regions = {TheScreen}
  PROVE  LET y == AccelTop(x)
         IN  /\ Accelerating(y, x)
             /\ ScreenEnd <= y.v.FBFreeEnd => Carved(y.v.FBFreeEnd, y.v.regions)
             /\ opt.hwcursor /\ ScreenEnd <= y.v.FBFreeEnd =>
                  /\ y.v.CursorStart # 0
                  /\ Region("cursor", y.v.CursorStart, y.v.CursorStart + CursorSize)
                       \in y.v.regions
             /\ y.v.FBFreeStart = ScreenEnd
<1> DEFINE vq == opt.vq /\ x.v.FBFreeEnd - x.v.FBFreeStart >= VQSize
           a == IF vq THEN Top(x, "vq", VQSize) ELSE x
           n == IF vq THEN a.v.FBFreeEnd ELSE 0
           q == [a.v EXCEPT !.VQStart = n]
           e == [a.h EXCEPT !.vq = n # 0]
           b == [v |-> q, h |-> e, k |-> a.k]
           c == IF opt.hwcursor THEN Top(b, "cursor", CursorSize) ELSE b
           m == IF opt.hwcursor THEN c.v.FBFreeEnd ELSE c.v.CursorStart
           g == [c EXCEPT !.v.CursorStart = m]
           d == Top(g, "marker", 32)
<1>0. /\ Ram \in Int /\ ScreenEnd \in Int /\ VQSize \in Int /\ CursorSize \in Int
      /\ ScreenEnd > 0 /\ VQSize > 0 /\ CursorSize > 0
  BY Sizes, OptionFields
<1>1. /\ Kept(a, x) /\ a.v.FBFreeStart = ScreenEnd
      /\ ScreenEnd <= a.v.FBFreeEnd => Carved(a.v.FBFreeEnd, a.v.regions)
  <2>1. ScreenEnd <= Ram => Carved(Ram, {TheScreen})
    BY ScreenCarved
  <2>2. CASE vq
    <3>1. /\ Kept(a, x) /\ a.v.FBFreeStart = ScreenEnd /\ a.v.FBFreeEnd = Ram - VQSize
          /\ a.v.regions = {TheScreen} \cup {Region("vq", Ram - VQSize, Ram)}
      BY <2>2, Sizes, TopDoes DEF MemoryOf, Names
    <3>2. ASSUME ScreenEnd <= Ram - VQSize
          PROVE  Carved(Ram - VQSize, {TheScreen} \cup {Region("vq", Ram - VQSize, Ram)})
      <4>1. ScreenEnd <= Ram
        BY <1>0, <3>2
      <4>. QED
        BY <1>0, <2>1, <3>2, <4>1, TopCarves, ScreenFields, Sizes
    <3>. HIDE DEF a, vq
    <3>. QED
      BY <3>1, <3>2
  <2>3. CASE ~ vq
    <3>1. a = x
      BY <2>3
    <3>2. Kept(x, x)
      BY DEF Kept
    <3>3. /\ a.v.FBFreeStart = ScreenEnd
          /\ ScreenEnd <= a.v.FBFreeEnd => Carved(a.v.FBFreeEnd, a.v.regions)
      <4>. HIDE DEF a, vq
      <4>1. a.v.FBFreeStart = ScreenEnd /\ a.v.FBFreeEnd = Ram /\ a.v.regions = {TheScreen}
        BY <3>1
      <4>. QED
        BY <2>1, <4>1
    <3>. QED
      BY <3>1, <3>2, <3>3
  <2>. QED
    BY <2>2, <2>3
<1>2. opt.vq \/ ~ vq
  OBVIOUS
<1>. HIDE DEF a
<1>3. a \in Screens /\ a.v \in Drivers /\ a.h \in Hardware /\ a.k \in Kernels
  BY <1>1 DEF Kept, Screens
<1>4. n \in Int /\ (~ opt.vq => n = 0)
  BY <1>2, <1>3 DEF Drivers
<1>. HIDE DEF vq
<1>. HIDE DEF n
<1>5. /\ q \in Drivers /\ ModeOf(q) = ModeOf(a.v) /\ RingOf(q) = RingOf(a.v)
      /\ DepthOf(q) = DepthOf(a.v) /\ q.dri = a.v.dri /\ q.pDRIInfo = a.v.pDRIInfo
      /\ q.agpDMA = a.v.agpDMA
      /\ q.irq = a.v.irq /\ q.VQStart = n /\ q.FBFreeEnd = a.v.FBFreeEnd
      /\ q.regions = a.v.regions /\ q.FBFreeStart = a.v.FBFreeStart
      /\ q.CursorStart = a.v.CursorStart
  BY <1>3, <1>4 DEF Drivers, ModeOf, RingOf, DepthOf
<1>6. /\ e \in Hardware /\ e.mode = a.h.mode /\ e.overlay = a.h.overlay /\ e.image = a.h.image
      /\ e.bpp = a.h.bpp /\ e.vblank = a.h.vblank /\ (n = 0 => ~ e.vq)
  BY <1>3, <1>4 DEF Hardware
<1>7. Initialize2DEngine([a EXCEPT !.v.VQStart = n]) = b
  <2> DEFINE y == [a EXCEPT !.v.VQStart = n]
  <2>1. y = [v |-> q, h |-> a.h, k |-> a.k]
    BY <1>3 DEF Screens
  <2>. HIDE DEF q
  <2>2. y.v = q /\ y.h = a.h /\ y.k = a.k
    BY <2>1
  <2>3. y \in Screens
    BY <1>3, <1>5, <2>1 DEF Screens
  <2>. HIDE DEF y
  <2>4. Initialize2DEngine(y) = [v |-> y.v, h |-> [y.h EXCEPT !.vq = y.v.VQStart # 0], k |-> y.k]
    BY <2>3 DEF Initialize2DEngine, Screens
  <2>. QED
    BY <1>5, <2>2, <2>4 DEF y
<1>. HIDE DEF q, e
<1>8. /\ b \in Screens /\ b.v = q /\ b.h = e /\ b.k = a.k
  BY <1>3, <1>5, <1>6 DEF Screens
<1>. HIDE DEF b
<1>9. /\ Kept(c, b) /\ c.v.FBFreeStart = ScreenEnd
      /\ ScreenEnd <= c.v.FBFreeEnd => Carved(c.v.FBFreeEnd, c.v.regions)
      /\ opt.hwcursor => Region("cursor", c.v.FBFreeEnd, c.v.FBFreeEnd + CursorSize)
                           \in c.v.regions
  <2>0. /\ b.v.FBFreeEnd \in Int /\ b.v.regions \in SUBSET Regions
        /\ b.v.FBFreeEnd = a.v.FBFreeEnd /\ b.v.regions = a.v.regions
        /\ b.v.FBFreeStart = ScreenEnd
    BY <1>1, <1>5, <1>8 DEF Drivers
  <2>1. CASE opt.hwcursor
    <3>1. /\ Kept(c, b) /\ c.v.FBFreeStart = ScreenEnd
          /\ c.v.FBFreeEnd = b.v.FBFreeEnd - CursorSize
          /\ c.v.regions = b.v.regions
               \cup {Region("cursor", b.v.FBFreeEnd - CursorSize, b.v.FBFreeEnd)}
      BY <1>8, <2>0, <2>1, Sizes, TopDoes DEF MemoryOf, Names
    <3>2. ASSUME ScreenEnd <= c.v.FBFreeEnd PROVE ScreenEnd <= b.v.FBFreeEnd - CursorSize
      BY <3>1, <3>2
    <3>3. ASSUME ScreenEnd <= c.v.FBFreeEnd PROVE Carved(c.v.FBFreeEnd, c.v.regions)
      <4>1. Carved(b.v.FBFreeEnd, b.v.regions)
        <5>1. ScreenEnd <= a.v.FBFreeEnd
          BY <1>0, <2>0, <3>2, <3>3
        <5>. QED
          BY <1>1, <2>0, <5>1
      <4>2. Carved(b.v.FBFreeEnd - CursorSize,
                   b.v.regions
                     \cup {Region("cursor", b.v.FBFreeEnd - CursorSize, b.v.FBFreeEnd)})
        BY <2>0, <3>2, <3>3, <4>1, TopCarves, Sizes
      <4>. QED
        BY <3>1, <4>2
    <3>4. Region("cursor", c.v.FBFreeEnd, c.v.FBFreeEnd + CursorSize) \in c.v.regions
      <4>1. c.v.FBFreeEnd + CursorSize = b.v.FBFreeEnd
        BY <1>0, <2>0, <3>1
      <4>. QED
        BY <3>1, <4>1
    <3>. QED
      BY <3>1, <3>3, <3>4
  <2>2. CASE ~ opt.hwcursor
    <3>1. c = b
      BY <2>2
    <3>2. Kept(b, b)
      BY <1>8 DEF Kept
    <3>. QED
      BY <1>0, <1>1, <2>0, <2>2, <3>1, <3>2
  <2>. QED
    BY <2>1, <2>2
<1>. HIDE DEF c
<1>10. c \in Screens /\ m \in Int /\ c.v.FBFreeEnd \in Int /\ c.v.regions \in SUBSET Regions
  BY <1>9 DEF Kept, Screens, Drivers
<1>11. /\ Kept(g, c) /\ g.v.CursorStart = m /\ g.v.FBFreeEnd = c.v.FBFreeEnd
       /\ g.v.regions = c.v.regions /\ g.v.FBFreeStart = ScreenEnd
  <2>. HIDE DEF m
  <2>. QED
    BY <1>9, <1>10, SetCursorStart DEF MemoryOf
<1>. HIDE DEF g
<1>12. g \in Screens
  BY <1>11 DEF Kept
<1>13. /\ Kept(d, g) /\ d.v.FBFreeEnd = g.v.FBFreeEnd - 32 /\ d.v.FBFreeStart = ScreenEnd
       /\ d.v.CursorStart = m
       /\ d.v.regions = g.v.regions
            \cup {Region("marker", g.v.FBFreeEnd - 32, g.v.FBFreeEnd)}
  <2>. HIDE DEF m
  <2>. QED
    BY <1>11, <1>12, TopDoes DEF MemoryOf, Names
<1>14. AccelTop(x) = d
  BY <1>7 DEF AccelTop, d, g, m, c, n, a, vq
<1>. HIDE DEF d
<1>15. ASSUME ScreenEnd <= d.v.FBFreeEnd
       PROVE  /\ Carved(d.v.FBFreeEnd, d.v.regions)
              /\ opt.hwcursor =>
                   /\ d.v.CursorStart # 0
                   /\ Region("cursor", d.v.CursorStart, d.v.CursorStart + CursorSize)
                        \in d.v.regions
  <2>1. ScreenEnd <= g.v.FBFreeEnd - 32 /\ ScreenEnd <= c.v.FBFreeEnd
    BY <1>0, <1>10, <1>11, <1>13, <1>15
  <2>2. Carved(d.v.FBFreeEnd, d.v.regions)
    <3>1. /\ Carved(g.v.FBFreeEnd, g.v.regions)
          /\ g.v.FBFreeEnd \in Int /\ g.v.regions \in SUBSET Regions
      BY <1>9, <1>10, <1>11, <2>1
    <3>2. Carved(g.v.FBFreeEnd - 32,
                 g.v.regions \cup {Region("marker", g.v.FBFreeEnd - 32, g.v.FBFreeEnd)})
      BY <2>1, <3>1, TopCarves
    <3>. QED
      BY <1>13, <3>2
  <2>3. ASSUME opt.hwcursor
        PROVE  /\ d.v.CursorStart # 0
               /\ Region("cursor", d.v.CursorStart, d.v.CursorStart + CursorSize)
                    \in d.v.regions
    <3>1. d.v.CursorStart = c.v.FBFreeEnd
      BY <1>13, <2>3
    <3>2. d.v.CursorStart # 0
      BY <1>0, <1>10, <2>1, <3>1
    <3>. QED
      BY <1>9, <1>11, <1>13, <2>3, <3>1, <3>2
  <2>. QED
    BY <2>1, <2>2, <2>3
<1>16. /\ Kept(d, b) /\ Accelerating(b, x)
  <2>1. Kept(d, b)
    BY <1>9, <1>11, <1>13, KeptAgain
  <2>2. /\ a.v.dri = x.v.dri /\ a.v.pDRIInfo = x.v.pDRIInfo /\ a.v.agpDMA = x.v.agpDMA /\ a.v.irq = x.v.irq
        /\ ModeOf(a.v) = ModeOf(x.v) /\ RingOf(a.v) = RingOf(x.v)
        /\ DepthOf(a.v) = DepthOf(x.v) /\ a.h = x.h /\ a.k = x.k
    BY <1>1 DEF Kept, SetUpOf
  <2>3. Accelerating(b, x)
    BY <1>4, <1>5, <1>6, <1>8, <2>2 DEF Accelerating
  <2>. QED
    BY <2>1, <2>3
<1>17. Accelerating(d, x)
  BY <1>16 DEF Kept, Accelerating, SetUpOf
<1>. QED
  BY <1>13, <1>14, <1>15, <1>17

(* Acceleration, with the memory its architecture manages.                 *)
LEMMA InitAccelDoes ==
  ASSUME opt \in Options, NEW x \in Screens, NEW f,
         x.v.FBFreeStart = ScreenEnd, x.v.FBFreeEnd = Ram, x.v.regions = {TheScreen}
  PROVE  LET y == InitAccel(x, f)
         IN  /\ Accelerating(y, x)
             /\ ScreenEnd <= y.v.FBFreeEnd =>
                  /\ Allocated(y.v.FBFreeEnd, y.v.regions)
                  /\ ~ y.v.noAccel => HeapRoom(y.v)
                  /\ opt.hwcursor =>
                       /\ y.v.CursorStart # 0
                       /\ Region("cursor", y.v.CursorStart, y.v.CursorStart + CursorSize)
                            \in y.v.regions
<1> DEFINE d == AccelTop(x)
           end == d.v.FBFreeEnd
           free == end - d.v.FBFreeStart
           g == [d EXCEPT !.v.driSize = free \div 2]
           r == Region("exa", ScreenEnd, end)
           maxY == Lesser(4 * VirtualY,
                          IF d.v.dri THEN VirtualY + (free \div 2) \div Bpl ELSE end \div Bpl)
           e == [d EXCEPT !.v.FBFreeStart = (maxY + 1) * Bpl]
           n == e.v.FBFreeEnd - e.v.FBFreeStart - Bpl
           l == [e EXCEPT !.v.driSize = n]
           p == Region("pixmaps", ScreenEnd, maxY * Bpl)
           q == Region("linear", e.v.FBFreeStart, e.v.FBFreeEnd)
<1>1. /\ Accelerating(d, x) /\ d.v.FBFreeStart = ScreenEnd
      /\ ScreenEnd <= end =>
                   /\ Carved(end, d.v.regions)
                   /\ opt.hwcursor =>
                        /\ d.v.CursorStart # 0
                        /\ Region("cursor", d.v.CursorStart, d.v.CursorStart + CursorSize)
                             \in d.v.regions
  BY AccelTopDoes
<1>2. InitAccel(x, f) =
        IF opt.exa THEN IF "exa" \in f THEN [d EXCEPT !.v.noAccel = TRUE] ELSE AddRegion(g, r)
        ELSE AddRegion(AddRegion(l, p), q)
  BY DEF InitAccel, AccelTop
<1>. HIDE DEF d
<1>3. d \in Screens /\ end \in Int /\ d.v.regions \in SUBSET Regions
  BY <1>1 DEF Accelerating, Screens, Drivers
<1>4. ASSUME NEW y, Kept(y, d), y.v.FBFreeEnd = end, y.v.CursorStart = d.v.CursorStart,
             d.v.regions \subseteq y.v.regions,
             ScreenEnd <= end => Allocated(end, y.v.regions) /\ HeapRoom(y.v)
      PROVE  /\ Accelerating(y, x)
             /\ ScreenEnd <= y.v.FBFreeEnd =>
                          /\ Allocated(y.v.FBFreeEnd, y.v.regions)
                          /\ HeapRoom(y.v)
                          /\ opt.hwcursor =>
                               /\ y.v.CursorStart # 0
                               /\ Region("cursor", y.v.CursorStart, y.v.CursorStart + CursorSize)
                                    \in y.v.regions
  <2>1. Accelerating(y, x)
    BY <1>1, <1>4 DEF Kept, Accelerating, SetUpOf
  <2>. QED
    BY <1>1, <1>4, <2>1
<1>5. CASE opt.exa /\ "exa" \in f
  <2> DEFINE c == [d.v EXCEPT !.noAccel = TRUE]
             y == [v |-> c, h |-> d.h, k |-> d.k]
  <2>1. [d EXCEPT !.v.noAccel = TRUE] = y
    BY <1>3, SetField
  <2>2. /\ c \in Drivers /\ ModeOf(c) = ModeOf(d.v) /\ RingOf(c) = RingOf(d.v)
        /\ DepthOf(c) = DepthOf(d.v) /\ MemoryOf(c) = MemoryOf(d.v) /\ c.dri = d.v.dri
        /\ c.noAccel /\ c.pDRIInfo = d.v.pDRIInfo
        /\ c.agpDMA = d.v.agpDMA /\ c.irq = d.v.irq /\ c.VQStart = d.v.VQStart
    BY <1>3 DEF Screens, Drivers, ModeOf, RingOf, DepthOf, MemoryOf
  <2>. HIDE DEF c
  <2>3. y \in Screens /\ y.v = c /\ y.h = d.h /\ y.k = d.k
    BY <1>3, <2>2 DEF Screens
  <2>. HIDE DEF y
  <2>4. Accelerating(y, x)
    BY <1>1, <2>2, <2>3 DEF Accelerating
  <2>5. /\ y.v.FBFreeEnd = end /\ y.v.CursorStart = d.v.CursorStart
        /\ y.v.regions = d.v.regions /\ y.v.noAccel
    BY <2>2, <2>3 DEF MemoryOf
  <2>6. InitAccel(x, f) = y
    BY <1>2, <1>5, <2>1
  <2>. QED
    BY <1>1, <2>4, <2>5, <2>6 DEF Carved
<1>6. CASE opt.exa /\ "exa" \notin f
  <2>1. free \div 2 \in Int
    BY <1>1, <1>3, Sizes
  <2>2. Kept(g, d) /\ MemoryOf(g.v) = <<d.v.FBFreeStart, end, d.v.CursorStart, free \div 2,
                                        d.v.regions>>
    <3>. HIDE DEF free
    <3>. QED
      BY <1>3, <2>1, SetDriSize
  <2>3. r \in Regions /\ r.name = "exa" /\ r.lo = ScreenEnd /\ r.hi = end
    BY <1>3, Sizes DEF Region, Regions, Names
  <2>. HIDE DEF g, r
  <2>4. g \in Screens
    BY <2>2 DEF Kept
  <2> DEFINE y == AddRegion(g, r)
  <2>5. Kept(y, d) /\ MemoryOf(y.v) = <<g.v.FBFreeStart, g.v.FBFreeEnd, g.v.CursorStart, g.v.driSize,
          IF r.lo < r.hi THEN g.v.regions \cup {r} ELSE g.v.regions>>
    BY <2>2, <2>3, <2>4, AddRegionDoes, KeptAgain
  <2>6. InitAccel(x, f) = y
    BY <1>2, <1>6
  <2>. HIDE DEF y
  <2>7. /\ y.v.FBFreeEnd = end /\ y.v.CursorStart = d.v.CursorStart
        /\ y.v.regions = d.v.regions \/ y.v.regions = d.v.regions \cup {r}
    BY <2>2, <2>5 DEF MemoryOf
  <2>8. ASSUME ScreenEnd <= end PROVE Allocated(end, y.v.regions) /\ HeapRoom(y.v)
    <3>1. Allocated(end, d.v.regions) /\ \A s \in d.v.regions : s.name \notin Allocators
      BY <1>1, <2>8 DEF Carved
    <3>2. Allocated(end, d.v.regions \cup {r})
      <4>1. r.name \in Allocators /\ ScreenEnd <= r.lo /\ r.hi <= end
        BY <1>3, <2>3, Sizes DEF Allocators
      <4>. QED
        BY <1>3, <2>3, <3>1, <4>1, AllocatorGets
    <3>3. HeapRoom(y.v)
      <4>1. ScreenEnd + free \div 2 <= end
        <5>1. free \in Nat /\ end = ScreenEnd + free
          BY <1>1, <1>3, <2>8, Sizes
        <5>. HIDE DEF free, end
        <5>. QED
          BY <5>1, Sizes
      <4>2. y.v.driSize = free \div 2
        <5>. HIDE DEF free
        <5>. QED
          BY <2>2, <2>5 DEF MemoryOf
      <4>3. \A s \in y.v.regions : s.name \notin {"pixmaps", "heap"}
        BY <2>3, <2>7, <3>1 DEF Allocators
      <4>. HIDE DEF free
      <4>. QED
        BY <1>6, <2>7, <4>1, <4>2, <4>3, Sizes DEF HeapRoom, HeapStart
    <3>. QED
      BY <2>7, <3>1, <3>2, <3>3
  <2>. QED
    BY <1>4, <2>5, <2>6, <2>7, <2>8
<1>7. CASE ~ opt.exa
  <2>1. /\ maxY \in Int /\ (maxY + 1) * Bpl = maxY * Bpl + Bpl
        /\ maxY * Bpl \in Int
        /\ ScreenEnd <= end => maxY * Bpl <= end /\ ScreenEnd <= maxY * Bpl
    <3> DEFINE u == IF d.v.dri THEN VirtualY + (free \div 2) \div Bpl ELSE end \div Bpl
    <3>1. u \in Int /\ maxY \in Int /\ maxY <= u /\ (maxY = u \/ maxY = 4 * VirtualY)
      <4>1. (free \div 2) \div Bpl \in Int /\ end \div Bpl \in Int /\ VirtualY \in Int
        BY <1>1, <1>3, Sizes
      <4>2. u \in Int
        BY <4>1
      <4>3. maxY = Lesser(4 * VirtualY, u)
        OBVIOUS
      <4>. HIDE DEF u, maxY
      <4>. QED
        BY <4>1, <4>2, <4>3 DEF Lesser
    <3>2. ASSUME ScreenEnd <= end PROVE VirtualY <= u /\ u * Bpl <= end
      <4>1. CASE d.v.dri
        <5>1. free \in Nat /\ end = ScreenEnd + free
          BY <1>1, <1>3, <3>2, Sizes
        <5>. HIDE DEF free, end
        <5>2. (free \div 2) \div Bpl \in Nat /\ ((free \div 2) \div Bpl) * Bpl <= free
          BY <5>1, Sizes, WholeLines
        <5> DEFINE t == (free \div 2) \div Bpl
        <5>3. (VirtualY + t) * Bpl = VirtualY * Bpl + t * Bpl
          <6>. HIDE DEF t
          <6>. QED
            BY <5>2, Sizes DEF t
        <5>4. u = VirtualY + t
          BY <4>1
        <5>. HIDE DEF u, t
        <5>5. t \in Nat /\ t * Bpl <= free
          BY <5>2 DEF t
        <5>6. t * Bpl \in Int
          BY <5>5, Sizes
        <5>7. u * Bpl = ScreenEnd + t * Bpl
          BY <5>3, <5>4 DEF ScreenEnd
        <5>8. VirtualY <= u
          BY <5>4, <5>5, Sizes
        <5>. QED
          BY <5>1, <5>5, <5>6, <5>7, <5>8, Sizes
      <4>2. CASE ~ d.v.dri
        <5>1. end \in Nat /\ u = end \div Bpl
          BY <1>3, <3>2, <4>2, Sizes
        <5>. HIDE DEF u, end
        <5>2. u \in Nat /\ u * Bpl <= end
          BY <5>1, Sizes, WholeLines
        <5>3. VirtualY <= u
          <6>1. VirtualY * Bpl <= end
            BY <3>2 DEF ScreenEnd
          <6>2. \A a \in Nat, b \in Nat, m \in Nat : b > 0 /\ m * b <= a => m <= a \div b
            OBVIOUS
          <6>. QED
            BY <5>1, <6>1, <6>2, Sizes
        <5>. QED
          BY <5>2, <5>3
      <4>. QED
        BY <4>1, <4>2
    <3>. HIDE DEF u, maxY
    <3>3. \A a \in Int, b \in Int, m \in Nat : a <= b => a * m <= b * m
      OBVIOUS
    <3>4. /\ (maxY + 1) * Bpl = maxY * Bpl + Bpl /\ maxY * Bpl \in Int
      BY <3>1, Sizes
    <3>5. ASSUME ScreenEnd <= end PROVE maxY * Bpl <= end /\ ScreenEnd <= maxY * Bpl
      <4>1. VirtualY <= maxY
        BY <3>1, <3>2, <3>5, Sizes
      <4>2. maxY * Bpl <= u * Bpl /\ VirtualY * Bpl <= maxY * Bpl
        BY <3>1, <3>3, <4>1, Sizes
      <4>3. u * Bpl \in Int
        BY <3>1, Sizes
      <4>. QED
        BY <1>3, <3>2, <3>4, <3>5, <4>2, <4>3 DEF ScreenEnd
    <3>. QED
      BY <3>1, <3>4, <3>5
  <2>. HIDE DEF maxY
  <2>2. /\ Kept(e, d) /\ MemoryOf(e.v) = <<(maxY + 1) * Bpl, end, d.v.CursorStart, d.v.driSize,
                                           d.v.regions>>
    <3>1. (maxY + 1) * Bpl \in Int
      BY <2>1, Sizes
    <3>. QED
      BY <1>3, <3>1, SetFreeStart
  <2>. HIDE DEF e
  <2>3. e \in Screens /\ n \in Int
    BY <2>2, Sizes DEF Kept, Screens, Drivers
  <2>4. /\ Kept(l, e) /\ MemoryOf(l.v) = <<e.v.FBFreeStart, e.v.FBFreeEnd, e.v.CursorStart, n,
                                           e.v.regions>>
    <3>. HIDE DEF n
    <3>. QED
      BY <2>3, SetDriSize
  <2>. HIDE DEF l, n
  <2>5. e.v.FBFreeStart = (maxY + 1) * Bpl /\ e.v.FBFreeEnd = end
    BY <2>2 DEF MemoryOf
  <2>6. /\ p \in Regions /\ p.name = "pixmaps" /\ p.lo = ScreenEnd /\ p.hi = maxY * Bpl
        /\ q \in Regions /\ q.name = "linear" /\ q.lo = maxY * Bpl + Bpl /\ q.hi = end
    BY <1>3, <2>1, <2>5, Sizes DEF Region, Regions, Names
  <2>. HIDE DEF p, q
  <2>7. l \in Screens
    BY <2>4 DEF Kept
  <2> DEFINE z == AddRegion(l, p)
             y == AddRegion(z, q)
  <2>8. /\ Kept(z, l)
        /\ MemoryOf(z.v) = <<l.v.FBFreeStart, l.v.FBFreeEnd, l.v.CursorStart, l.v.driSize,
             IF p.lo < p.hi THEN l.v.regions \cup {p} ELSE l.v.regions>>
    BY <2>6, <2>7, AddRegionDoes
  <2>. HIDE DEF z
  <2>9. z \in Screens
    BY <2>8 DEF Kept
  <2>10. /\ Kept(y, z)
         /\ MemoryOf(y.v) = <<z.v.FBFreeStart, z.v.FBFreeEnd, z.v.CursorStart, z.v.driSize,
              IF q.lo < q.hi THEN z.v.regions \cup {q} ELSE z.v.regions>>
    BY <2>6, <2>9, AddRegionDoes
  <2>11. InitAccel(x, f) = y
    BY <1>2, <1>7 DEF z
  <2>. HIDE DEF y
  <2>12. Kept(y, d)
    BY <2>2, <2>4, <2>8, <2>10, KeptAgain
  <2>13. /\ y.v.FBFreeEnd = end /\ y.v.CursorStart = d.v.CursorStart
         /\ z.v.regions = d.v.regions \/ z.v.regions = d.v.regions \cup {p}
         /\ y.v.regions = z.v.regions \/ y.v.regions = z.v.regions \cup {q}
    BY <2>2, <2>4, <2>8, <2>10 DEF MemoryOf
  <2>14. ASSUME ScreenEnd <= end PROVE Allocated(end, y.v.regions) /\ HeapRoom(y.v)
    <3>1. Allocated(end, d.v.regions) /\ \A s \in d.v.regions : s.name \notin Allocators
      BY <1>1, <2>14 DEF Carved
    <3>2. ScreenEnd <= end
      BY <3>1 DEF Allocated
    <3>3. /\ p.name \in Allocators /\ ScreenEnd <= p.lo /\ p.hi <= end
          /\ q.name \in Allocators /\ ScreenEnd <= q.lo /\ q.hi <= end /\ Apart(q, p)
      BY <1>3, <2>1, <2>6, <3>2, Sizes DEF Allocators, Apart
    <3>4. Allocated(end, d.v.regions \cup {p})
      BY <1>3, <2>6, <3>1, <3>3, AllocatorGets
    <3>5. Allocated(end, z.v.regions)
      BY <2>13, <3>1, <3>4
    <3>6. z.v.regions \in SUBSET Regions
      BY <2>9 DEF Screens, Drivers
    <3>7. \A s \in z.v.regions : s.name \in Allocators => Apart(q, s)
      BY <2>13, <3>1, <3>3
    <3>8. Allocated(end, z.v.regions \cup {q})
      BY <1>3, <2>6, <3>3, <3>5, <3>6, <3>7, AllocatorGets
    <3>9. HeapRoom(y.v)
      <4>1. /\ y.v.FBFreeStart = maxY * Bpl + Bpl
            /\ y.v.driSize = end - (maxY * Bpl + Bpl) - Bpl
        BY <2>1, <2>2, <2>4, <2>5, <2>8, <2>10 DEF MemoryOf, n
      <4>2. \A s \in y.v.regions : s.name \in {"pixmaps", "heap"} => s = p
        BY <2>6, <2>13, <3>1 DEF Allocators
      <4>3. maxY * Bpl \in Int /\ ScreenEnd <= maxY * Bpl
        BY <2>1, <2>14
      <4> DEFINE at == maxY * Bpl
      <4>. HIDE DEF at
      <4>4. /\ y.v.FBFreeStart = at + Bpl /\ y.v.driSize = end - (at + Bpl) - Bpl
            /\ at \in Int /\ ScreenEnd <= at /\ p.hi = at
        BY <2>6, <4>1, <4>3 DEF at
      <4>. QED
        BY <1>3, <1>7, <2>13, <4>2, <4>4, Sizes DEF HeapRoom, HeapStart
    <3>. QED
      BY <2>13, <3>5, <3>8, <3>9
  <2>. QED
    BY <1>4, <2>11, <2>12, <2>13, <2>14
<1>. QED
  BY <1>5, <1>6, <1>7

(* The cursor's memory: without acceleration it is taken here.             *)
LEMMA HWCursorInitDoes ==
  ASSUME opt \in Options, NEW x \in Screens
  PROVE  LET y == HWCursorInit(x)
         IN  /\ y \in Screens /\ y.k = x.k
             /\ ModeOf(y.v) = ModeOf(x.v) /\ SetUpOf(y.v) = SetUpOf(x.v)
             /\ RingOf(y.v) = RingOf(x.v) /\ DepthOf(y.v) = DepthOf(x.v)
             /\ y.h.mode = x.h.mode /\ y.h.vq = x.h.vq /\ y.h.overlay = x.h.overlay
             /\ y.h.vblank = x.h.vblank /\ y.h.bpp = x.h.bpp /\ y.h.image = None
             /\ y.v.FBFreeStart = x.v.FBFreeStart /\ y.v.driSize = x.v.driSize
             /\ y.v.FBFreeEnd <= x.v.FBFreeEnd
             /\ x.v.CursorStart # 0
                /\ Region("cursor", x.v.CursorStart, x.v.CursorStart + CursorSize)
                     \in x.v.regions =>
                  y.v.FBFreeEnd = x.v.FBFreeEnd /\ y.v.regions = x.v.regions
             /\ x.v.CursorStart = 0 /\ x.v.FBFreeEnd = Ram /\ x.v.regions = {TheScreen}
                  /\ ScreenEnd <= y.v.FBFreeEnd =>
                  Allocated(y.v.FBFreeEnd, y.v.regions)
<1> DEFINE lo == x.v.FBFreeEnd - CursorSize
           c == [x EXCEPT !.v.CursorStart = lo]
           r == Region("cursor", x.v.CursorStart, x.v.CursorStart + CursorSize)
           z == IF x.v.CursorStart = 0 THEN Top(c, "cursor", CursorSize) ELSE AddRegion(x, r)
           e == [z.h EXCEPT !.image = None, !.cursor = FALSE]
           y == [v |-> z.v, h |-> e, k |-> z.k]
<1>0. /\ x.v.FBFreeEnd \in Int /\ x.v.CursorStart \in Int /\ lo \in Int
      /\ x.v.regions \in SUBSET Regions
  BY Sizes DEF Screens, Drivers
<1>1. /\ Kept(c, x) /\ c.v.FBFreeEnd = x.v.FBFreeEnd /\ c.v.regions = x.v.regions
      /\ c.v.FBFreeStart = x.v.FBFreeStart /\ c.v.driSize = x.v.driSize
  <2>. HIDE DEF lo
  <2>. QED
    BY <1>0, SetCursorStart DEF MemoryOf
<1>2. c \in Screens
  BY <1>1 DEF Kept
<1>3. r \in Regions /\ r.lo < r.hi
  BY <1>0, Sizes DEF Region, Regions, Names
<1>4. HWCursorInit(x) = [z EXCEPT !.h.image = None, !.h.cursor = FALSE]
  BY DEF HWCursorInit
<1>. HIDE DEF c, lo
<1>5. ASSUME x.v.CursorStart = 0
      PROVE  /\ Kept(z, x) /\ z.v.FBFreeEnd <= x.v.FBFreeEnd
             /\ z.v.FBFreeStart = x.v.FBFreeStart /\ z.v.driSize = x.v.driSize
             /\ x.v.FBFreeEnd = Ram /\ x.v.regions = {TheScreen}
                  /\ ScreenEnd <= z.v.FBFreeEnd =>
                  Allocated(z.v.FBFreeEnd, z.v.regions)
  <2>1. /\ Kept(z, c) /\ z.v.FBFreeEnd = x.v.FBFreeEnd - CursorSize
        /\ z.v.FBFreeStart = x.v.FBFreeStart /\ z.v.driSize = x.v.driSize
        /\ z.v.regions = x.v.regions
             \cup {Region("cursor", x.v.FBFreeEnd - CursorSize, x.v.FBFreeEnd)}
    BY <1>1, <1>2, <1>5, Sizes, TopDoes DEF MemoryOf, Names
  <2>2. Kept(z, x) /\ z.v.FBFreeEnd <= x.v.FBFreeEnd
    BY <1>0, <1>1, <2>1, KeptAgain, Sizes
  <2>3. ASSUME x.v.FBFreeEnd = Ram, x.v.regions = {TheScreen}, ScreenEnd <= z.v.FBFreeEnd
        PROVE  Allocated(z.v.FBFreeEnd, z.v.regions)
    <3>1. ScreenEnd <= Ram - CursorSize /\ ScreenEnd <= Ram
      BY <2>1, <2>3, Sizes, OptionFields
    <3>2. Carved(Ram, {TheScreen})
      BY <3>1, ScreenCarved
    <3>3. Carved(Ram - CursorSize,
                 {TheScreen} \cup {Region("cursor", Ram - CursorSize, Ram)})
      <4>1. {TheScreen} \in SUBSET Regions /\ Ram \in Int /\ CursorSize \in Nat /\ CursorSize > 0
        BY Sizes, ScreenFields, OptionFields
      <4>. QED
        BY <3>1, <3>2, <4>1, TopCarves
    <3>. QED
      BY <2>1, <2>3, <3>1, <3>3 DEF Carved
  <2>. HIDE DEF z
  <2>. QED
    BY <2>1, <2>2, <2>3
<1>6. ASSUME x.v.CursorStart # 0
      PROVE  /\ Kept(z, x) /\ z.v.FBFreeEnd <= x.v.FBFreeEnd
             /\ z.v.FBFreeStart = x.v.FBFreeStart /\ z.v.driSize = x.v.driSize
             /\ r \in x.v.regions => z.v.FBFreeEnd = x.v.FBFreeEnd /\ z.v.regions = x.v.regions
  <2>1. /\ Kept(z, x) /\ z.v.FBFreeEnd = x.v.FBFreeEnd
        /\ z.v.FBFreeStart = x.v.FBFreeStart /\ z.v.driSize = x.v.driSize
        /\ z.v.regions = x.v.regions \cup {r}
    BY <1>3, <1>6, AddRegionDoes DEF MemoryOf
  <2>. HIDE DEF z, r
  <2>2. (r \in x.v.regions => z.v.regions = x.v.regions) /\ z.v.FBFreeEnd <= x.v.FBFreeEnd
    BY <1>0, <2>1
  <2>. QED
    BY <2>1, <2>2
<1>. HIDE DEF z
<1>7. /\ Kept(z, x) /\ z.v.FBFreeEnd <= x.v.FBFreeEnd
      /\ z.v.FBFreeStart = x.v.FBFreeStart /\ z.v.driSize = x.v.driSize
      /\ x.v.CursorStart # 0 /\ r \in x.v.regions =>
           z.v.FBFreeEnd = x.v.FBFreeEnd /\ z.v.regions = x.v.regions
      /\ x.v.CursorStart = 0 /\ x.v.FBFreeEnd = Ram /\ x.v.regions = {TheScreen}
           /\ ScreenEnd <= z.v.FBFreeEnd =>
           Allocated(z.v.FBFreeEnd, z.v.regions)
  BY <1>5, <1>6
<1>8. z \in Screens /\ z.h = x.h /\ z.k = x.k
  BY <1>7 DEF Kept
<1>9. [z EXCEPT !.h.image = None, !.h.cursor = FALSE] = y
  BY <1>8, LoadedCursor DEF Images
<1>10. /\ e \in Hardware /\ e.image = None /\ e.mode = x.h.mode /\ e.vq = x.h.vq
       /\ e.overlay = x.h.overlay /\ e.vblank = x.h.vblank /\ e.bpp = x.h.bpp
  BY <1>8 DEF Screens, Hardware, Images
<1>. HIDE DEF e
<1>11. y \in Screens /\ y.v = z.v /\ y.h = e /\ y.k = x.k
  BY <1>8, <1>10 DEF Screens
<1>. HIDE DEF y
<1>. QED
  BY <1>4, <1>7, <1>9, <1>10, <1>11 DEF Kept, r

(* The stage of the hardware cursor, when there is one.                    *)
LEMMA CursorStageDoes ==
  ASSUME opt \in Options, NEW x \in Screens
  PROVE  LET y == CursorStage(x)
         IN  /\ y \in Screens /\ y.k = x.k
             /\ ModeOf(y.v) = ModeOf(x.v) /\ SetUpOf(y.v) = SetUpOf(x.v)
             /\ RingOf(y.v) = RingOf(x.v) /\ DepthOf(y.v) = DepthOf(x.v)
             /\ y.h.mode = x.h.mode /\ y.h.vq = x.h.vq /\ y.h.overlay = x.h.overlay
             /\ y.h.vblank = x.h.vblank /\ y.h.bpp = x.h.bpp
             /\ opt.hwcursor => y.h.image = None
             /\ y.v.FBFreeStart = x.v.FBFreeStart /\ y.v.driSize = x.v.driSize
<1>1. CASE opt.hwcursor
  BY <1>1, HWCursorInitDoes DEF CursorStage
<1>2. CASE ~ opt.hwcursor
  BY <1>2 DEF CursorStage
<1>. QED
  BY <1>1, <1>2

(* Without acceleration: the regions of an architecture that was set up    *)
(* before the command buffer failed are replaced.                          *)
LEMMA InitLinearDoes ==
  ASSUME opt \in Options, NEW x \in Screens
  PROVE  LET y == InitLinear(x)
         IN  /\ Kept(y, x) /\ y.v.FBFreeEnd = x.v.FBFreeEnd
             /\ Allocated(x.v.FBFreeEnd, x.v.regions) /\ ScreenEnd + Bpl <= x.v.FBFreeEnd =>
                  Allocated(x.v.FBFreeEnd, {r \in y.v.regions : r.name # "heap"})
<1> DEFINE end == x.v.FBFreeEnd
           start == (VirtualY + 2) * Bpl
           n == end - start - Bpl
           rs == {r \in x.v.regions : r.name \notin {"exa", "pixmaps", "linear"}}
           ns == {r \in x.v.regions : r.name \notin Allocators}
           a == [x EXCEPT !.v.FBFreeStart = start]
           b == [a EXCEPT !.v.driSize = n]
           c == [b EXCEPT !.v.regions = rs]
           p == Region("pixmaps", ScreenEnd, ScreenEnd + Bpl)
           q == Region("linear", start, end)
           z == AddRegion(c, p)
           y == AddRegion(z, q)
<1>1. /\ start = ScreenEnd + 2 * Bpl /\ start \in Int /\ end \in Int /\ n \in Int
      /\ rs \in SUBSET Regions /\ ns \in SUBSET Regions
      /\ ns = {r \in rs : r.name # "heap"}
  BY Sizes, Lines DEF Screens, Drivers, Allocators
<1>2. InitLinear(x) = y
  BY DEF InitLinear
<1>. HIDE DEF start, n, rs, ns
<1>3. Kept(a, x) /\ a.v.FBFreeEnd = end /\ a.v.regions = x.v.regions
  BY <1>1, SetFreeStart DEF MemoryOf
<1>. HIDE DEF a
<1>4. Kept(b, a) /\ b.v.FBFreeEnd = end /\ b.v.regions = x.v.regions
  <2>1. a \in Screens
    BY <1>3 DEF Kept
  <2>. QED
    BY <1>1, <1>3, <2>1, SetDriSize DEF MemoryOf
<1>. HIDE DEF b
<1>5. Kept(c, b) /\ c.v.FBFreeEnd = end /\ c.v.regions = rs
  <2>1. b \in Screens
    BY <1>4 DEF Kept
  <2>. QED
    BY <1>1, <1>4, <2>1, SetRegions DEF MemoryOf
<1>. HIDE DEF c
<1>6. /\ p \in Regions /\ p.name = "pixmaps" /\ p.lo = ScreenEnd /\ p.hi = ScreenEnd + Bpl
      /\ q \in Regions /\ q.name = "linear" /\ q.lo = ScreenEnd + 2 * Bpl /\ q.hi = end
  BY <1>1, Sizes DEF Region, Regions, Names
<1>. HIDE DEF p, q
<1>7. Kept(z, c) /\ z.v.regions = rs \cup {p} /\ z.v.FBFreeEnd = end
  <2>1. c \in Screens /\ p.lo < p.hi
    BY <1>5, <1>6, Sizes DEF Kept
  <2>. QED
    BY <1>5, <1>6, <2>1, AddRegionDoes DEF MemoryOf
<1>. HIDE DEF z
<1>8. /\ Kept(y, z) /\ y.v.FBFreeEnd = end
      /\ y.v.regions = rs \cup {p} \/ y.v.regions = (rs \cup {p}) \cup {q}
  <2>1. z \in Screens
    BY <1>7 DEF Kept
  <2>. QED
    BY <1>6, <1>7, <2>1, AddRegionDoes DEF MemoryOf
<1>. HIDE DEF y
<1>9. Kept(y, x)
  BY <1>3, <1>4, <1>5, <1>7, <1>8, KeptAgain
<1>10. ASSUME Allocated(end, x.v.regions), ScreenEnd + Bpl <= end
       PROVE  Allocated(end, {r \in y.v.regions : r.name # "heap"})
  <2>1. Allocated(end, ns) /\ \A r \in ns : r.name \notin Allocators
    BY <1>10 DEF Allocated, ns
  <2>2. /\ p.name \in Allocators /\ ScreenEnd <= p.lo /\ p.hi <= end
        /\ q.name \in Allocators /\ ScreenEnd <= q.lo /\ q.hi <= end /\ Apart(q, p)
    BY <1>1, <1>6, <1>10, Sizes DEF Allocators, Apart
  <2>3. Allocated(end, ns \cup {p})
    BY <1>1, <1>6, <2>1, <2>2, AllocatorGets
  <2>4. Allocated(end, (ns \cup {p}) \cup {q})
    <3>1. ns \cup {p} \in SUBSET Regions
      BY <1>1, <1>6
    <3>2. \A r \in ns \cup {p} : r.name \in Allocators => Apart(q, r)
      BY <2>1, <2>2
    <3>. QED
      BY <1>1, <1>6, <2>2, <2>3, <3>1, <3>2, AllocatorGets
  <2>5. {r \in y.v.regions : r.name # "heap"} \in {ns \cup {p}, (ns \cup {p}) \cup {q}}
    BY <1>1, <1>6, <1>8
  <2>. QED
    BY <2>3, <2>4, <2>5
<1>. QED
  BY <1>2, <1>8, <1>9, <1>10

(* Nothing but direct rendering differs.                                   *)
DriKept(y, x) ==
  /\ ModeOf(y) = ModeOf(x) /\ PlanOf(y) = PlanOf(x)
  /\ y.noAccel = x.noAccel /\ y.VQStart = x.VQStart

(* Opening the DRM: nothing of it is held yet, and who takes it to be open *)
(* knows its screen.                                                       *)
LEMMA DriScreenInitDoes ==
  ASSUME NEW x \in Screens, NEW f
  PROVE  LET y == DriScreenInit(x, f)
         IN  /\ y \in Screens /\ y.h = x.h /\ DriKept(y.v, x.v)
             /\ y.v.dri => y.v.irq = FALSE /\ "ring" \notin y.k.held
             /\ ~ x.k.open => (y.k.open => y.v.dri /\ y.v.pDRIInfo)
<1>1. CASE f \cap {"symbols", "drm", "version", "maps"} # {}
  <2> DEFINE d == [x.v EXCEPT !.dri = FALSE, !.pDRIInfo = FALSE]
  <2>1. DriScreenInit(x, f) = [v |-> d, h |-> x.h, k |-> x.k]
    BY <1>1 DEF DriScreenInit, Screens, Drivers
  <2>2. d \in Drivers /\ DriKept(d, x.v) /\ ~ d.dri
    BY DEF Screens, Drivers, DriKept, ModeOf, PlanOf
  <2>. HIDE DEF d
  <2>. QED
    BY <2>1, <2>2 DEF Screens
<1>2. CASE ~ (f \cap {"symbols", "drm", "version", "maps"} # {})
  <2> DEFINE d == [x.v EXCEPT !.dri = TRUE, !.pDRIInfo = TRUE, !.ringBufActive = FALSE,
                              !.irq = FALSE]
             g == [open |-> TRUE, held |-> {}]
  <2>1. DriScreenInit(x, f) = [[x EXCEPT !.v = d] EXCEPT !.k = g]
    BY <1>2 DEF DriScreenInit, Screens, Drivers
  <2>2. d \in Drivers /\ DriKept(d, x.v) /\ d.dri /\ d.pDRIInfo /\ d.irq = FALSE
    BY DEF Screens, Drivers, DriKept, ModeOf, PlanOf
  <2>3. g \in Kernels /\ "ring" \notin g.held
    BY DEF Kernels
  <2>. HIDE DEF d, g
  <2>4. DriScreenInit(x, f) = [v |-> d, h |-> x.h, k |-> g]
    BY <2>1 DEF Screens
  <2>. QED
    BY <2>2, <2>3, <2>4 DEF Screens
<1>. QED
  BY <1>1, <1>2

(* The AGP memory is taken or not; the ring is not started by it.          *)
LEMMA AgpInitDoes ==
  ASSUME NEW x \in Screens, NEW f
  PROVE  LET y == AgpInit(x, f)
         IN  /\ y \in Screens /\ y.v = x.v /\ y.h = x.h /\ y.k.open = x.k.open
             /\ "ring" \in y.k.held => "ring" \in x.k.held
<1>1. CASE f \cap {"acquire", "alloc", "addmap", "agpinit"} # {}
  BY <1>1 DEF AgpInit
<1>2. CASE ~ (f \cap {"acquire", "alloc", "addmap", "agpinit"} # {})
  <2> DEFINE g == [x.k EXCEPT !.held = @ \cup {"agp"}]
  <2>1. AgpInit(x, f) = [v |-> x.v, h |-> x.h, k |-> g]
    BY <1>2 DEF AgpInit, Screens
  <2>2. g \in Kernels /\ g.open = x.k.open /\ ("ring" \in g.held => "ring" \in x.k.held)
    BY DEF Screens, Kernels
  <2>. HIDE DEF g
  <2>. QED
    BY <2>1, <2>2 DEF Screens
<1>. QED
  BY <1>1, <1>2

(* What the DRM may give to its clients is taken from what an allocator    *)
(* would have had, which keeps the rest.                                   *)
LEMMA HeapDoes ==
  ASSUME opt \in Options, NEW x \in Screens, HeapFits(x)
  PROVE  LET y == Heap(x)
         IN  /\ Kept(y, x) /\ y.v.FBFreeEnd = x.v.FBFreeEnd
             /\ y.v.CursorStart = x.v.CursorStart
             /\ Allocated(x.v.FBFreeEnd, x.v.regions) /\ HeapRoom(x.v) =>
                  Allocated(x.v.FBFreeEnd, y.v.regions)
<1> DEFINE end == x.v.FBFreeEnd
           lo == HeapStart(x.v)
           hi == lo + x.v.driSize
           name == IF opt.exa THEN "exa" ELSE "linear"
           rs == {r \in x.v.regions : r.name \notin {"exa", "linear"}}
           p == Region("heap", lo, hi)
           q == Region(name, hi, end)
           y == [x EXCEPT !.v.regions = rs \cup {p, q}]
<1>1. /\ x.v.FBFreeStart \in Int /\ end \in Int /\ x.v.driSize \in Int
      /\ x.v.regions \in SUBSET Regions
  BY DEF Screens, Drivers
<1>2. Heap(x) = y
  BY DEF Heap, HeapStart
<1>3. lo \in Int /\ hi \in Int /\ lo < hi
  BY <1>1, Sizes DEF HeapStart, HeapFits
<1>4. /\ p \in Regions /\ p.name = "heap" /\ p.lo = lo /\ p.hi = hi
      /\ q \in Regions /\ q.name \in {"exa", "linear"} /\ q.lo = hi /\ q.hi = end
      /\ rs \in SUBSET Regions
  BY <1>1, <1>3 DEF Region, Regions, Names
<1>5. \A r \in rs : r \in x.v.regions /\ r.name \notin {"exa", "linear"}
  OBVIOUS
<1>. HIDE DEF p, q, rs
<1>6. Kept(y, x) /\ y.v.FBFreeEnd = end /\ y.v.CursorStart = x.v.CursorStart
      /\ y.v.regions = (rs \cup {p}) \cup {q}
  <2>1. rs \cup {p, q} \in SUBSET Regions /\ rs \cup {p, q} = (rs \cup {p}) \cup {q}
    BY <1>4
  <2>. QED
    BY <2>1, SetRegions DEF MemoryOf
<1>. HIDE DEF y
<1>7. ASSUME Allocated(end, x.v.regions), HeapRoom(x.v)
      PROVE  Allocated(end, (rs \cup {p}) \cup {q})
  <2>1. Allocated(end, rs)
    BY <1>5, <1>7 DEF Allocated
  <2>2. /\ ScreenEnd <= lo /\ hi <= end /\ ScreenEnd \in Int
        /\ \A r \in rs : r.name \in Allocators => r.hi <= lo
    BY <1>5, <1>7, Sizes DEF HeapRoom, Allocators
  <2>. HIDE DEF lo, hi, end
  <2>3. Allocated(end, rs \cup {p})
    <3>1. \A r \in rs : r.name \in Allocators => Apart(p, r)
      BY <1>4, <2>2 DEF Apart
    <3>2. p.name \in Allocators /\ ScreenEnd <= p.lo /\ p.hi <= end
      BY <1>4, <2>2 DEF Allocators
    <3>. QED
      BY <1>1, <1>4, <2>1, <3>1, <3>2, AllocatorGets DEF end
  <2>4. \A r \in rs \cup {p} : r.name \in Allocators => Apart(q, r)
    <3>1. ASSUME NEW r \in rs, r.name \in Allocators PROVE r.hi <= q.lo
      <4>1. r.hi \in Int /\ r.hi <= lo
        BY <1>4, <2>2, <3>1 DEF Regions
      <4>. QED
        BY <1>3, <1>4, <4>1
    <3>2. p.hi <= q.lo
      BY <1>3, <1>4
    <3>. QED
      BY <3>1, <3>2 DEF Apart
  <2>5. q.name \in Allocators /\ ScreenEnd <= q.lo /\ q.hi <= end
    BY <1>1, <1>3, <1>4, <2>2 DEF Allocators, end
  <2>6. rs \cup {p} \in SUBSET Regions
    BY <1>4
  <2>. QED
    BY <1>1, <1>4, <2>3, <2>4, <2>5, <2>6, AllocatorGets DEF end
<1>. QED
  BY <1>2, <1>6, <1>7

(* Finishing it: with DRI on, the driver knows what it has of the kernel.  *)
DriReady(y) ==
  y.v.dri => /\ y.v.ringBufActive <=> "ring" \in y.k.held
             /\ y.v.ringBufActive => opt.agp
             /\ y.v.irq => y.h.vblank

(* A DRM that is open is one the driver knows of.                          *)
Opened(x) == x.k.open => x.v.dri /\ x.v.pDRIInfo

(* The end of the set-up of DRI leaves a screen ready for its clients.     *)
LEMMA DriFinishScreenInitDoes ==
  ASSUME opt \in Options, NEW x \in Screens, NEW f, x.v.irq = FALSE, "ring" \notin x.k.held
  PROVE  LET y == DriFinishScreenInit(x, f)
         IN  /\ y \in Screens /\ DriReady(y) /\ (Opened(x) => Opened(y))
             /\ ModeOf(y.v) = ModeOf(x.v) /\ DepthOf(y.v) = DepthOf(x.v)
             /\ y.v.noAccel = x.v.noAccel /\ y.v.VQStart = x.v.VQStart
             /\ y.v.FBFreeEnd = x.v.FBFreeEnd /\ y.v.CursorStart = x.v.CursorStart
             /\ y.v.regions # x.v.regions =>
                  /\ ~ x.v.noAccel
                  /\ Allocated(x.v.FBFreeEnd, x.v.regions) /\ HeapRoom(x.v) =>
                       Allocated(x.v.FBFreeEnd, y.v.regions)
             /\ y.h.mode = x.h.mode /\ y.h.vq = x.h.vq /\ y.h.overlay = x.h.overlay
             /\ y.h.image = x.h.image /\ y.h.bpp = x.h.bpp
<1> DEFINE a == AgpInit(x, f)
           b == IF opt.irq /\ "irq" \notin f
                THEN [a EXCEPT !.v.irq = TRUE, !.k.held = @ \cup {"irq"}, !.h.vblank = TRUE]
                ELSE a
           g == Heap(b)
           r == [g EXCEPT !.v.ringBufActive = FALSE]
           y == RingInit(r, f)
           n == DriClose(a)
           m == [n EXCEPT !.v.dri = FALSE]
<1>1. /\ a \in Screens /\ a.v = x.v /\ a.h = x.h /\ a.k.open = x.k.open
      /\ "ring" \notin a.k.held
  BY AgpInitDoes
<1>2. DriFinishScreenInit(x, f) =
        IF f \cap {"heap", "kernel"} # {} \/ ~ HeapFits(x) THEN m ELSE y
  BY DEF DriFinishScreenInit
<1>. HIDE DEF a
<1>3. CASE f \cap {"heap", "kernel"} # {} \/ ~ HeapFits(x)
  <2>1. /\ n \in Screens /\ n.h = x.h /\ n.k = Closed
        /\ ModeOf(n.v) = ModeOf(x.v) /\ PlanOf(n.v) = PlanOf(x.v)
        /\ n.v.noAccel = x.v.noAccel /\ n.v.VQStart = x.v.VQStart
    BY <1>1, DriCloseDoes
  <2>. HIDE DEF n
  <2> DEFINE d == [n.v EXCEPT !.dri = FALSE]
  <2>2. m = [v |-> d, h |-> n.h, k |-> n.k]
    BY <2>1, SetField
  <2>3. /\ d \in Drivers /\ ModeOf(d) = ModeOf(n.v) /\ PlanOf(d) = PlanOf(n.v)
        /\ d.noAccel = n.v.noAccel /\ d.VQStart = n.v.VQStart /\ ~ d.dri
    BY <2>1 DEF Screens, Drivers, ModeOf, PlanOf
  <2>. HIDE DEF d, m
  <2>4. m \in Screens /\ m.v = d /\ m.h = x.h /\ ~ m.k.open
    <3>1. n.h \in Hardware /\ n.k \in Kernels
      BY <2>1 DEF Screens
    <3>2. ~ n.k.open
      BY <2>1 DEF Closed
    <3>. QED
      BY <2>1, <2>2, <2>3, <3>1, <3>2 DEF Screens
  <2>5. DepthOf(d) = DepthOf(x.v) /\ d.FBFreeEnd = x.v.FBFreeEnd
        /\ d.CursorStart = x.v.CursorStart /\ d.regions = x.v.regions
    BY <2>1, <2>3 DEF PlanOf, DepthOf
  <2>. QED
    BY <1>2, <1>3, <2>1, <2>3, <2>4, <2>5 DEF DriReady, Opened
<1>4. CASE ~ (f \cap {"heap", "kernel"} # {} \/ ~ HeapFits(x))
  <2>1. /\ b \in Screens /\ b.k.open = x.k.open /\ b.v.dri = x.v.dri
        /\ b.v.pDRIInfo = x.v.pDRIInfo
        /\ ModeOf(b.v) = ModeOf(x.v) /\ PlanOf(b.v) = PlanOf(x.v)
        /\ b.v.noAccel = x.v.noAccel /\ b.v.VQStart = x.v.VQStart
        /\ b.h.mode = x.h.mode /\ b.h.vq = x.h.vq /\ b.h.overlay = x.h.overlay
        /\ b.h.image = x.h.image /\ b.h.bpp = x.h.bpp
        /\ b.v.irq => b.h.vblank
        /\ "ring" \notin b.k.held
    <3>1. CASE opt.irq /\ "irq" \notin f
      <4> DEFINE d == [a.v EXCEPT !.irq = TRUE]
                 u == [a.k EXCEPT !.held = @ \cup {"irq"}]
                 e == [a.h EXCEPT !.vblank = TRUE]
      <4>1. b = [[[a EXCEPT !.v = d] EXCEPT !.k = u] EXCEPT !.h = e]
        BY <1>1, <3>1 DEF Screens
      <4>2. /\ d \in Drivers /\ ModeOf(d) = ModeOf(a.v) /\ PlanOf(d) = PlanOf(a.v)
            /\ d.noAccel = a.v.noAccel /\ d.VQStart = a.v.VQStart
            /\ d.dri = a.v.dri /\ d.pDRIInfo = a.v.pDRIInfo
        BY <1>1 DEF Screens, Drivers, ModeOf, PlanOf
      <4>3. /\ e \in Hardware /\ e.mode = a.h.mode /\ e.vq = a.h.vq
            /\ e.overlay = a.h.overlay /\ e.image = a.h.image /\ e.bpp = a.h.bpp /\ e.vblank
        BY <1>1 DEF Screens, Hardware
      <4>4. u \in Kernels /\ "ring" \notin u.held /\ u.open = a.k.open
        BY <1>1 DEF Screens, Kernels
      <4>. HIDE DEF d, u, e, b
      <4>5. b = [v |-> d, h |-> e, k |-> u]
        BY <1>1, <4>1 DEF Screens
      <4>6. b \in Screens /\ b.v = d /\ b.h = e /\ b.k = u
        BY <4>2, <4>3, <4>4, <4>5 DEF Screens
      <4>. QED
        BY <1>1, <4>2, <4>3, <4>4, <4>6
    <3>2. CASE ~ (opt.irq /\ "irq" \notin f)
      BY <1>1, <3>2
    <3>. QED
      BY <3>1, <3>2
  <2>. HIDE DEF b
  <2>2. /\ b.v.FBFreeEnd = x.v.FBFreeEnd /\ b.v.CursorStart = x.v.CursorStart
        /\ b.v.regions = x.v.regions /\ b.v.driSize = x.v.driSize
        /\ b.v.FBFreeStart = x.v.FBFreeStart /\ DepthOf(b.v) = DepthOf(x.v)
    BY <2>1 DEF PlanOf, DepthOf
  <2>3. HeapFits(b) /\ ~ x.v.noAccel /\ (HeapRoom(x.v) => HeapRoom(b.v))
    BY <1>4, <2>1, <2>2 DEF HeapFits, HeapRoom, HeapStart
  <2>4. /\ Kept(g, b) /\ g.v.FBFreeEnd = x.v.FBFreeEnd /\ g.v.CursorStart = x.v.CursorStart
        /\ Allocated(x.v.FBFreeEnd, x.v.regions) /\ HeapRoom(x.v) =>
             Allocated(x.v.FBFreeEnd, g.v.regions)
    BY <2>1, <2>2, <2>3, HeapDoes
  <2>. HIDE DEF g
  <2> DEFINE d == [g.v EXCEPT !.ringBufActive = FALSE]
  <2>5. g \in Screens
    BY <2>4 DEF Kept
  <2>6. r = [v |-> d, h |-> g.h, k |-> g.k]
    BY <2>5, SetField
  <2>7. /\ d \in Drivers /\ ModeOf(d) = ModeOf(g.v) /\ PlanOf(d) = PlanOf(g.v)
        /\ SetUpOf(d) = SetUpOf(g.v) /\ ~ d.ringBufActive
    BY <2>5 DEF Screens, Drivers, ModeOf, PlanOf, SetUpOf
  <2>. HIDE DEF d, r
  <2>8. r \in Screens /\ r.v = d /\ r.h = g.h /\ r.k = g.k
    BY <2>5, <2>6, <2>7 DEF Screens
  <2>9. /\ y \in Screens /\ y.h = b.h /\ y.k.open = x.k.open
        /\ y.v.ringBufActive <=> "ring" \in y.k.held
        /\ y.v.ringBufActive => opt.agp
        /\ ModeOf(y.v) = ModeOf(d) /\ SetUpOf(y.v) = SetUpOf(d) /\ PlanOf(y.v) = PlanOf(d)
    BY <2>1, <2>4, <2>7, <2>8, RingInitDoes DEF Kept
  <2>. HIDE DEF y
  <2>10. /\ y.v.irq = b.v.irq /\ y.v.noAccel = x.v.noAccel /\ y.v.VQStart = x.v.VQStart
         /\ y.v.dri = x.v.dri /\ y.v.pDRIInfo = x.v.pDRIInfo
         /\ ModeOf(y.v) = ModeOf(x.v)
    BY <2>1, <2>4, <2>7, <2>9 DEF SetUpOf, Kept
  <2>11. /\ DepthOf(y.v) = DepthOf(x.v) /\ y.v.FBFreeEnd = x.v.FBFreeEnd
         /\ y.v.CursorStart = x.v.CursorStart /\ y.v.regions = g.v.regions
    BY <2>2, <2>4, <2>7, <2>9 DEF PlanOf, DepthOf, Kept
  <2>12. DriReady(y) /\ (Opened(x) => Opened(y))
    BY <2>1, <2>9, <2>10 DEF DriReady, Opened
  <2>13. DriFinishScreenInit(x, f) = y
    BY <1>2, <1>4
  <2>. QED
    BY <2>1, <2>3, <2>4, <2>9, <2>10, <2>11, <2>12, <2>13
<1>. QED
  BY <1>3, <1>4

(* Starting a screen, stage by stage.                                      *)
Saved       == Save(MapFB(X))
ModeSet(f)  == FirstMode(Saved, f)
Drawing(f)  == CursorStage(AccelStage(DriScreenInit(ModeSet(f), f), f))
Finished(f) == DriStage([Drawing(f) EXCEPT !.v.agpDMA = FALSE, !.v.ringRefused = FALSE], f)
Started(f)  == LinearStage(BufferStage(DmaStage(Finished(f)), f))

(* What holds of a screen that is being started.                           *)
Begun(y) ==
  /\ y \in Screens
  /\ y.v.saved = h.mode
  /\ y.v.stateMode = (IF opt.vbe = 2 /\ v.stateMode # None THEN v.stateMode ELSE h.mode)
  /\ DepthOf(y.v) = DepthOf(v)
  /\ y.h.overlay = h.overlay
  /\ ~ opt.vq /\ v.VQStart = 0 /\ ~ h.vq => y.v.VQStart = 0 /\ ~ y.h.vq

(* The start of ScreenInit: memory is mapped, and the console is saved.    *)
LEMMA SavedDoes ==
  ASSUME opt \in Options, X \in Screens
  PROVE  LET y == Saved
         IN  /\ Begun(y) /\ y.v.vtSema = v.vtSema /\ y.h = h /\ y.k = k
             /\ y.v.noAccel = v.noAccel
             /\ y.v.FBFreeStart = ScreenEnd /\ y.v.FBFreeEnd = Ram
             /\ y.v.regions = {TheScreen} /\ y.v.CursorStart = v.CursorStart
<1> DEFINE m == MapFB(X)
           y == Save(m)
<1>0. X.v = v /\ X.h = h /\ X.k = k
  BY DEF X
<1>1. /\ Kept(m, X)
      /\ MemoryOf(m.v) = <<ScreenEnd, Ram, X.v.CursorStart, X.v.driSize, {TheScreen}>>
  BY MapFBDoes DEF TheScreen
<1>. HIDE DEF m
<1>2. /\ m \in Screens /\ m.h = h /\ m.k = k /\ m.v.vtSema = v.vtSema /\ m.v.stateMode = v.stateMode
      /\ m.v.noAccel = v.noAccel /\ m.v.VQStart = v.VQStart /\ DepthOf(m.v) = DepthOf(v)
      /\ m.v.FBFreeStart = ScreenEnd /\ m.v.FBFreeEnd = Ram
      /\ m.v.regions = {TheScreen} /\ m.v.CursorStart = v.CursorStart
  BY <1>0, <1>1 DEF Kept, ModeOf, SetUpOf, MemoryOf
<1>3. /\ y \in Screens /\ y.h = h /\ y.k = k
      /\ y.v.vtSema = m.v.vtSema /\ y.v.saved = h.mode
      /\ y.v.stateMode = (IF opt.vbe = 2 /\ v.stateMode # None THEN v.stateMode ELSE h.mode)
      /\ SetUpOf(y.v) = SetUpOf(m.v) /\ PlanOf(y.v) = PlanOf(m.v)
  BY <1>2, SaveDoes
<1>4. Saved = y
  BY DEF Saved, m
<1>. HIDE DEF y
<1>5. /\ y.v.noAccel = v.noAccel /\ y.v.VQStart = v.VQStart /\ DepthOf(y.v) = DepthOf(v)
      /\ y.v.FBFreeStart = ScreenEnd /\ y.v.FBFreeEnd = Ram
      /\ y.v.regions = {TheScreen} /\ y.v.CursorStart = v.CursorStart
  BY <1>2, <1>3 DEF SetUpOf, PlanOf, DepthOf
<1>6. Begun(y)
  BY <1>3, <1>5 DEF Begun
<1>. QED
  BY <1>2, <1>3, <1>4, <1>5, <1>6

(* ScreenInit up to the first mode.                                        *)
LEMMA ModeSetDoes ==
  ASSUME opt \in Options, X \in Screens, NEW f
  PROVE  LET y == ModeSet(f)
         IN  /\ Begun(y) /\ y.v.noAccel = v.noAccel /\ y.k = k
             /\ "mode" \notin f => y.v.vtSema /\ y.h.bpp = DepthSet(v)
             /\ "mode" \in f => /\ y.v.vtSema = v.vtSema /\ y.v.FirstInit
                               /\ y.h.mode = h.mode /\ y.h.vq = h.vq
             /\ y.v.FBFreeStart = ScreenEnd /\ y.v.FBFreeEnd = Ram
             /\ y.v.regions = {TheScreen} /\ y.v.CursorStart = v.CursorStart
<1> DEFINE s == Saved
           e == [s.h EXCEPT !.locked = FALSE]
           a == [s EXCEPT !.h.locked = FALSE]
           z == SetMode(a, f)
           n == "mode" \in f
           d == [z.v EXCEPT !.FirstInit = n]
           y == [z EXCEPT !.v.FirstInit = n]
<1>1. /\ Begun(s) /\ s.h = h /\ s.k = k /\ s.v.noAccel = v.noAccel /\ s.v.vtSema = v.vtSema
      /\ s.v.FBFreeStart = ScreenEnd /\ s.v.FBFreeEnd = Ram
      /\ s.v.regions = {TheScreen} /\ s.v.CursorStart = v.CursorStart
  BY SavedDoes
<1>2. ModeSet(f) = y
  BY DEF ModeSet, FirstMode
<1>. HIDE DEF s
<1>3. s \in Screens
  BY <1>1 DEF Begun
<1>4. /\ e \in Hardware /\ e.mode = h.mode /\ e.vq = h.vq /\ e.overlay = h.overlay
  BY <1>1, <1>3 DEF Screens, Hardware
<1>5. a = [v |-> s.v, h |-> e, k |-> s.k]
  BY <1>3, SetField
<1>. HIDE DEF a, e
<1>6. a \in Screens /\ a.v = s.v /\ a.h = e /\ a.k = k
  BY <1>1, <1>3, <1>4, <1>5 DEF Screens
<1>7. /\ z \in Screens /\ z.k = k
      /\ n => z = a
      /\ ~ n => z.v.vtSema /\ z.h.bpp = DepthSet(s.v)
      /\ z.h.vq => h.vq \/ s.v.VQStart # 0
      /\ SetUpOf(z.v) = SetUpOf(s.v) /\ PlanOf(z.v) = PlanOf(s.v)
      /\ z.v.saved = s.v.saved /\ z.v.stateMode = s.v.stateMode
      /\ z.h.overlay = h.overlay
  <2>1. a.h.vq = h.vq /\ a.h.overlay = h.overlay
    BY <1>4, <1>6
  <2>. QED
    BY <1>6, <2>1, SetModeDoes
<1>. HIDE DEF z
<1>8. n \in BOOLEAN /\ (n <=> "mode" \in f)
  OBVIOUS
<1>. HIDE DEF n
<1>9. y = [v |-> d, h |-> z.h, k |-> z.k]
  BY <1>7 DEF Screens
<1>10. /\ d \in Drivers /\ d.FirstInit = n /\ d.vtSema = z.v.vtSema
       /\ d.saved = z.v.saved /\ d.stateMode = z.v.stateMode
       /\ SetUpOf(d) = SetUpOf(z.v) /\ PlanOf(d) = PlanOf(z.v)
  BY <1>7, <1>8 DEF Screens, Drivers, SetUpOf, PlanOf
<1>. HIDE DEF d, y
<1>11. y \in Screens /\ y.v = d /\ y.h = z.h /\ y.k = k
  BY <1>7, <1>9, <1>10 DEF Screens
<1>12. /\ d.noAccel = v.noAccel /\ d.VQStart = s.v.VQStart
       /\ DepthOf(d) = DepthOf(s.v) /\ DepthSet(s.v) = DepthSet(v)
       /\ d.FBFreeStart = ScreenEnd /\ d.FBFreeEnd = Ram
       /\ d.regions = {TheScreen} /\ d.CursorStart = v.CursorStart
  BY <1>1, <1>7, <1>10 DEF SetUpOf, PlanOf, DepthOf, Begun, DepthSet
<1>13. Begun(y)
  BY <1>1, <1>7, <1>10, <1>11, <1>12 DEF Begun
<1>14. n => d.vtSema = v.vtSema /\ y.h.mode = h.mode /\ y.h.vq = h.vq
  BY <1>1, <1>4, <1>6, <1>7, <1>10, <1>11
<1>. QED
  BY <1>2, <1>7, <1>8, <1>10, <1>11, <1>12, <1>13, <1>14

(* Memory after the cursor has its own, unless a server without            *)
(* acceleration had it in an earlier generation.                           *)
Divided(y) ==
  ScreenEnd <= y.v.FBFreeEnd =>
    \/ /\ Allocated(y.v.FBFreeEnd, y.v.regions)
       /\ ~ y.v.noAccel => HeapRoom(y.v)
    \/ y.v.noAccel /\ opt.hwcursor /\ v.CursorStart # 0

(* ScreenInit up to the acceleration and the cursor.                       *)
LEMMA DrawingDoes ==
  ASSUME opt \in Options, X \in Screens, NEW f
  PROVE  LET y == Drawing(f)
         IN  /\ Begun(y) /\ Divided(y) /\ (~ k.open => Opened(y))
             /\ "mode" \notin f => y.v.vtSema /\ y.h.bpp = DepthSet(v)
             /\ opt.hwcursor => y.h.image = None
             /\ y.v.dri => y.v.irq = FALSE /\ "ring" \notin y.k.held
<1> DEFINE a == ModeSet(f)
           b == DriScreenInit(a, f)
           c == AccelStage(b, f)
           y == CursorStage(c)
<1>1. /\ Begun(a) /\ a.v.noAccel = v.noAccel /\ a.k = k
      /\ "mode" \notin f => a.v.vtSema /\ a.h.bpp = DepthSet(v)
      /\ a.v.FBFreeStart = ScreenEnd /\ a.v.FBFreeEnd = Ram
      /\ a.v.regions = {TheScreen} /\ a.v.CursorStart = v.CursorStart
  BY ModeSetDoes
<1>0. Drawing(f) = y
  BY DEF Drawing
<1>. HIDE DEF a
<1>2. a \in Screens
  BY <1>1 DEF Begun
<1>3. /\ b \in Screens /\ b.h = a.h
      /\ ModeOf(b.v) = ModeOf(a.v) /\ PlanOf(b.v) = PlanOf(a.v)
      /\ b.v.noAccel = a.v.noAccel /\ b.v.VQStart = a.v.VQStart
      /\ b.v.dri => b.v.irq = FALSE /\ "ring" \notin b.k.held
      /\ ~ k.open => Opened(b)
  BY <1>1, <1>2, DriScreenInitDoes DEF DriKept, Opened
<1>. HIDE DEF b
<1>4. /\ b.v.vtSema = a.v.vtSema /\ b.v.saved = a.v.saved /\ b.v.stateMode = a.v.stateMode
      /\ DepthOf(b.v) = DepthOf(a.v)
      /\ b.v.FBFreeStart = ScreenEnd /\ b.v.FBFreeEnd = Ram
      /\ b.v.regions = {TheScreen} /\ b.v.CursorStart = v.CursorStart
  BY <1>1, <1>3 DEF ModeOf, PlanOf, DepthOf
<1>5. Begun(b)
  BY <1>1, <1>3, <1>4 DEF Begun
<1>6. ScreenEnd <= Ram => Carved(Ram, {TheScreen})
  BY ScreenCarved
<1>7. /\ Begun(c) /\ c.v.vtSema = b.v.vtSema /\ c.h.bpp = b.h.bpp
      /\ c.v.dri = b.v.dri /\ c.v.irq = b.v.irq /\ c.k = b.k
      /\ c.v.pDRIInfo = b.v.pDRIInfo
      /\ b.v.noAccel => c = b
      /\ ~ b.v.noAccel /\ ScreenEnd <= c.v.FBFreeEnd =>
           /\ Allocated(c.v.FBFreeEnd, c.v.regions)
           /\ ~ c.v.noAccel => HeapRoom(c.v)
           /\ opt.hwcursor =>
                /\ c.v.CursorStart # 0
                /\ Region("cursor", c.v.CursorStart, c.v.CursorStart + CursorSize)
                     \in c.v.regions
  <2>1. CASE b.v.noAccel
    BY <1>5, <2>1 DEF AccelStage
  <2>2. CASE ~ b.v.noAccel
    <3>1. c = InitAccel(b, f)
      BY <2>2 DEF AccelStage
    <3>2. /\ Accelerating(c, b)
          /\ ScreenEnd <= c.v.FBFreeEnd =>
               /\ Allocated(c.v.FBFreeEnd, c.v.regions)
               /\ ~ c.v.noAccel => HeapRoom(c.v)
               /\ opt.hwcursor =>
                    /\ c.v.CursorStart # 0
                    /\ Region("cursor", c.v.CursorStart, c.v.CursorStart + CursorSize)
                         \in c.v.regions
      BY <1>3, <1>4, <3>1, InitAccelDoes
    <3>. HIDE DEF c
    <3>3. Begun(c) /\ c.v.vtSema = b.v.vtSema
      BY <1>5, <3>2 DEF Begun, Accelerating, ModeOf
    <3>. QED
      BY <2>2, <3>2, <3>3 DEF Accelerating
  <2>. QED
    BY <2>1, <2>2
<1>. HIDE DEF c
<1>8. c \in Screens
  BY <1>7 DEF Begun
<1>9. /\ y \in Screens /\ y.k = c.k
      /\ ModeOf(y.v) = ModeOf(c.v) /\ SetUpOf(y.v) = SetUpOf(c.v)
      /\ DepthOf(y.v) = DepthOf(c.v)
      /\ y.h.vq = c.h.vq /\ y.h.overlay = c.h.overlay /\ y.h.bpp = c.h.bpp
      /\ opt.hwcursor => y.h.image = None
      /\ y.v.FBFreeStart = c.v.FBFreeStart /\ y.v.driSize = c.v.driSize
  BY <1>8, CursorStageDoes
<1>10. Divided(y)
  <2>1. CASE ~ opt.hwcursor
    <3>1. y = c
      BY <2>1 DEF CursorStage
    <3>2. CASE b.v.noAccel
      BY <1>4, <1>6, <1>7, <3>1, <3>2 DEF Divided, Carved
    <3>3. CASE ~ b.v.noAccel
      BY <1>7, <3>1, <3>3 DEF Divided
    <3>. QED
      BY <3>2, <3>3
  <2>2. CASE opt.hwcursor
    <3>1. y = HWCursorInit(c)
      BY <2>2 DEF CursorStage
    <3>2. /\ y.v.noAccel = c.v.noAccel
          /\ c.v.CursorStart # 0
             /\ Region("cursor", c.v.CursorStart, c.v.CursorStart + CursorSize)
                  \in c.v.regions =>
               y.v.FBFreeEnd = c.v.FBFreeEnd /\ y.v.regions = c.v.regions
          /\ c.v.CursorStart = 0 /\ c.v.FBFreeEnd = Ram /\ c.v.regions = {TheScreen}
               /\ ScreenEnd <= y.v.FBFreeEnd =>
               Allocated(y.v.FBFreeEnd, y.v.regions)
      BY <1>8, <3>1, HWCursorInitDoes DEF SetUpOf
    <3>. HIDE DEF y
    <3>3. CASE b.v.noAccel
      BY <1>4, <1>7, <2>2, <3>2, <3>3 DEF Divided
    <3>4. CASE ~ b.v.noAccel
      <4>1. CASE ScreenEnd <= c.v.FBFreeEnd
        <5>1. y.v.FBFreeEnd = c.v.FBFreeEnd /\ y.v.regions = c.v.regions
          BY <1>7, <2>2, <3>2, <3>4, <4>1
        <5>2. HeapRoom(c.v) => HeapRoom(y.v)
          BY <1>9, <5>1 DEF HeapRoom, HeapStart
        <5>. QED
          BY <1>7, <3>2, <3>4, <4>1, <5>1, <5>2 DEF Divided
      <4>2. CASE ~ (ScreenEnd <= c.v.FBFreeEnd)
        <5>1. y.v.FBFreeEnd <= c.v.FBFreeEnd
          BY <1>8, <3>1, HWCursorInitDoes
        <5>2. c.v.FBFreeEnd \in Int /\ y.v.FBFreeEnd \in Int /\ ScreenEnd \in Int
          BY <1>8, <1>9, Sizes DEF Screens, Drivers
        <5>. QED
          BY <4>2, <5>1, <5>2 DEF Divided
      <4>. QED
        BY <4>1, <4>2
    <3>. QED
      BY <3>3, <3>4
  <2>. QED
    BY <2>1, <2>2
<1>. HIDE DEF y
<1>11. /\ y.v.vtSema = c.v.vtSema /\ y.v.saved = c.v.saved /\ y.v.stateMode = c.v.stateMode
       /\ y.v.dri = c.v.dri /\ y.v.irq = c.v.irq /\ y.v.VQStart = c.v.VQStart
       /\ y.v.pDRIInfo = c.v.pDRIInfo
  BY <1>9 DEF ModeOf, SetUpOf
<1>12. Begun(y)
  BY <1>7, <1>9, <1>11 DEF Begun
<1>13. ~ k.open => Opened(y)
  BY <1>3, <1>7, <1>9, <1>11 DEF Opened
<1>. QED
  BY <1>0, <1>1, <1>3, <1>4, <1>7, <1>9, <1>10, <1>11, <1>12, <1>13

(* The room there is, and what is given out in it (Roomy and Claimed).     *)
Room(d)  == d.FBFreeEnd >= ScreenEnd + (IF d.noAccel THEN Bpl ELSE 0)
Given(d) == {r \in d.regions : d.noAccel => r.name # "heap"}

(* A part of what is tidy is tidy.                                         *)
LEMMA GivenTidy ==
  ASSUME opt \in Options, NEW d \in Drivers, Allocated(d.FBFreeEnd, d.regions)
  PROVE  Tidy(Given(d))
<1>1. d.FBFreeEnd \in Int /\ d.regions \in SUBSET Regions
  BY DEF Drivers
<1>2. Tidy(d.regions)
  BY <1>1, AllocatedTidy
<1>. QED
  BY <1>2 DEF Tidy, Given

(* ScreenInit to its end, when nothing makes it give up.                   *)
LEMMA StartedDoes ==
  ASSUME opt \in Options, X \in Screens, NEW f
  PROVE  LET y == Started(f)
         IN  /\ Begun(y) /\ DriReady(y) /\ (~ k.open => Opened(y))
             /\ "mode" \notin f => y.v.vtSema /\ y.h.bpp = DepthSet(v)
             /\ opt.hwcursor => y.h.image = None
             /\ y.v.agpDMA => y.v.ringBufActive
             /\ Room(y.v) => \/ Tidy(Given(y.v))
                             \/ y.v.noAccel /\ opt.hwcursor /\ v.CursorStart # 0
<1> DEFINE a == Drawing(f)
           b == [a EXCEPT !.v.agpDMA = FALSE]
           c == [b EXCEPT !.v.ringRefused = FALSE]
           db == [a.v EXCEPT !.agpDMA = FALSE]
           dc == [b.v EXCEPT !.ringRefused = FALSE]
           d == Finished(f)
           e == DmaStage(d)
           g == BufferStage(e, f)
           y == LinearStage(g)
<1>1. /\ Begun(a) /\ Divided(a) /\ (~ k.open => Opened(a))
      /\ "mode" \notin f => a.v.vtSema /\ a.h.bpp = DepthSet(v)
      /\ opt.hwcursor => a.h.image = None
      /\ a.v.dri => a.v.irq = FALSE /\ "ring" \notin a.k.held
  BY DrawingDoes
<1>2. Started(f) = y
  BY DEF Started
<1>3. d = DriStage(c, f)
  BY DEF Finished
<1>. HIDE DEF a, d
<1>4. a \in Screens
  BY <1>1 DEF Begun
<1>5. b = [v |-> db, h |-> a.h, k |-> a.k]
  BY <1>4, SetField
<1>6. /\ db \in Drivers /\ ModeOf(db) = ModeOf(a.v) /\ PlanOf(db) = PlanOf(a.v)
      /\ db.noAccel = a.v.noAccel /\ db.VQStart = a.v.VQStart
      /\ db.dri = a.v.dri /\ db.irq = a.v.irq /\ db.pDRIInfo = a.v.pDRIInfo
  BY <1>4 DEF Screens, Drivers, ModeOf, PlanOf
<1>. HIDE DEF b, db
<1>7. b \in Screens /\ b.v = db /\ b.h = a.h /\ b.k = a.k
  BY <1>4, <1>5, <1>6 DEF Screens
<1>8. c = [v |-> dc, h |-> b.h, k |-> b.k]
  BY <1>7, SetField
<1>9. /\ dc \in Drivers /\ ModeOf(dc) = ModeOf(b.v) /\ PlanOf(dc) = PlanOf(b.v)
      /\ dc.noAccel = b.v.noAccel /\ dc.VQStart = b.v.VQStart
      /\ dc.dri = b.v.dri /\ dc.irq = b.v.irq /\ dc.pDRIInfo = b.v.pDRIInfo
  BY <1>7 DEF Screens, Drivers, ModeOf, PlanOf
<1>. HIDE DEF c, dc
<1>10. c \in Screens /\ c.v = dc /\ c.h = a.h /\ c.k = a.k
  BY <1>7, <1>8, <1>9 DEF Screens
<1>11. /\ MemoryOf(c.v) = MemoryOf(a.v) /\ c.v.noAccel = a.v.noAccel
       /\ DepthOf(c.v) = DepthOf(a.v) /\ (~ k.open => Opened(c))
  BY <1>1, <1>6, <1>7, <1>9, <1>10 DEF PlanOf, MemoryOf, DepthOf, Opened
<1>12. /\ d \in Screens /\ DriReady(d) /\ (~ k.open => Opened(d))
       /\ d.v.vtSema = a.v.vtSema /\ d.v.saved = a.v.saved /\ d.v.stateMode = a.v.stateMode
       /\ d.v.noAccel = a.v.noAccel /\ d.v.VQStart = a.v.VQStart /\ DepthOf(d.v) = DepthOf(a.v)
       /\ d.h.vq = a.h.vq /\ d.h.overlay = a.h.overlay
       /\ d.h.image = a.h.image /\ d.h.bpp = a.h.bpp
       /\ d.v.FBFreeEnd = a.v.FBFreeEnd
       /\ d.v.regions # a.v.regions =>
            /\ ~ a.v.noAccel
            /\ Allocated(a.v.FBFreeEnd, a.v.regions) /\ HeapRoom(a.v) =>
                 Allocated(a.v.FBFreeEnd, d.v.regions)
  <2>1. /\ c.v.vtSema = a.v.vtSema /\ c.v.saved = a.v.saved /\ c.v.stateMode = a.v.stateMode
        /\ c.v.VQStart = a.v.VQStart /\ c.v.FBFreeEnd = a.v.FBFreeEnd
        /\ c.v.regions = a.v.regions
    BY <1>6, <1>7, <1>9, <1>10, <1>11 DEF ModeOf, MemoryOf
  <2>2. CASE c.v.dri
    <3>1. c.v.irq = FALSE /\ "ring" \notin c.k.held
      BY <1>1, <1>6, <1>7, <1>9, <1>10, <2>2
    <3>2. HeapRoom(a.v) => HeapRoom(c.v)
      BY <1>11 DEF HeapRoom, HeapStart, MemoryOf
    <3>3. d = DriFinishScreenInit(c, f)
      BY <1>3, <2>2 DEF DriStage
    <3>4. /\ d \in Screens /\ DriReady(d) /\ (Opened(c) => Opened(d))
          /\ ModeOf(d.v) = ModeOf(c.v) /\ DepthOf(d.v) = DepthOf(c.v)
          /\ d.v.noAccel = c.v.noAccel /\ d.v.VQStart = c.v.VQStart
          /\ d.v.FBFreeEnd = c.v.FBFreeEnd
          /\ d.v.regions # c.v.regions =>
               /\ ~ c.v.noAccel
               /\ Allocated(c.v.FBFreeEnd, c.v.regions) /\ HeapRoom(c.v) =>
                    Allocated(c.v.FBFreeEnd, d.v.regions)
          /\ d.h.vq = c.h.vq /\ d.h.overlay = c.h.overlay
          /\ d.h.image = c.h.image /\ d.h.bpp = c.h.bpp
      <4>. HIDE DEF DriReady, Opened
      <4>1. c \in Screens /\ d = DriFinishScreenInit(c, f)
        BY <1>10, <3>3
      <4>2. LET w == DriFinishScreenInit(c, f)
            IN  /\ w \in Screens /\ DriReady(w) /\ (Opened(c) => Opened(w))
                /\ ModeOf(w.v) = ModeOf(c.v) /\ DepthOf(w.v) = DepthOf(c.v)
                /\ w.v.noAccel = c.v.noAccel /\ w.v.VQStart = c.v.VQStart
                /\ w.v.FBFreeEnd = c.v.FBFreeEnd /\ w.v.CursorStart = c.v.CursorStart
                /\ w.v.regions # c.v.regions =>
                     /\ ~ c.v.noAccel
                     /\ Allocated(c.v.FBFreeEnd, c.v.regions) /\ HeapRoom(c.v) =>
                          Allocated(c.v.FBFreeEnd, w.v.regions)
                /\ w.h.mode = c.h.mode /\ w.h.vq = c.h.vq /\ w.h.overlay = c.h.overlay
                /\ w.h.image = c.h.image /\ w.h.bpp = c.h.bpp
        BY <3>1, <4>1, DriFinishScreenInitDoes, Zenon
      <4>. QED
        BY <4>1, <4>2
    <3>. QED
      BY <1>10, <1>11, <2>1, <3>2, <3>4 DEF ModeOf
  <2>3. CASE ~ c.v.dri
    BY <1>3, <1>10, <1>11, <2>1, <2>3 DEF DriStage, DriReady
  <2>. QED
    BY <2>2, <2>3
<1> DEFINE on == d.v.dri /\ opt.dma2d /\ d.v.ringBufActive
           de == [d.v EXCEPT !.agpDMA = on]
<1>13. e = [v |-> de, h |-> d.h, k |-> d.k]
  <2>1. e = [d EXCEPT !.v.agpDMA = on]
    BY DEF DmaStage
  <2>. QED
    BY <1>12, <2>1, SetField
<1>14. on \in BOOLEAN /\ (on => d.v.ringBufActive)
  OBVIOUS
<1>. HIDE DEF on
<1>15. /\ de \in Drivers /\ ModeOf(de) = ModeOf(d.v) /\ PlanOf(de) = PlanOf(d.v)
       /\ RingOf(de) = RingOf(d.v) /\ de.noAccel = d.v.noAccel /\ de.VQStart = d.v.VQStart
       /\ de.dri = d.v.dri /\ de.irq = d.v.irq /\ de.agpDMA = on
       /\ de.pDRIInfo = d.v.pDRIInfo
  BY <1>12, <1>14 DEF Screens, Drivers, ModeOf, PlanOf, RingOf
<1>. HIDE DEF e, de
<1>16. e \in Screens /\ e.v = de /\ e.h = d.h /\ e.k = d.k
  BY <1>12, <1>13, <1>15 DEF Screens
<1>17. /\ g \in Screens /\ g.h = e.h /\ g.k = e.k
       /\ ModeOf(g.v) = ModeOf(e.v) /\ PlanOf(g.v) = PlanOf(e.v)
       /\ RingOf(g.v) = RingOf(e.v) /\ g.v.VQStart = e.v.VQStart
       /\ g.v.dri = e.v.dri /\ g.v.irq = e.v.irq /\ g.v.agpDMA = e.v.agpDMA
       /\ g.v.pDRIInfo = e.v.pDRIInfo
       /\ e.v.noAccel => g.v.noAccel
  <2>1. CASE ~ e.v.noAccel /\ "cbuffer" \in f
    <3> DEFINE n == [e.v EXCEPT !.noAccel = TRUE]
    <3>1. g = [v |-> n, h |-> e.h, k |-> e.k]
      BY <1>16, <2>1, SetField DEF BufferStage, FinishInitAccel
    <3>2. /\ n \in Drivers /\ ModeOf(n) = ModeOf(e.v) /\ PlanOf(n) = PlanOf(e.v)
          /\ RingOf(n) = RingOf(e.v) /\ n.VQStart = e.v.VQStart
          /\ n.dri = e.v.dri /\ n.irq = e.v.irq /\ n.agpDMA = e.v.agpDMA /\ n.noAccel
          /\ n.pDRIInfo = e.v.pDRIInfo
      BY <1>16 DEF Screens, Drivers, ModeOf, PlanOf, RingOf
    <3>. HIDE DEF g, n
    <3>. QED
      BY <1>16, <3>1, <3>2 DEF Screens
  <2>2. CASE e.v.noAccel \/ "cbuffer" \notin f
    <3>1. g = e
      BY <2>2 DEF BufferStage, FinishInitAccel
    <3>. QED
      BY <1>16, <3>1
  <2>. QED
    BY <2>1, <2>2
<1>. HIDE DEF g
<1>18. /\ Kept(y, g) /\ y.v.FBFreeEnd = g.v.FBFreeEnd
       /\ Allocated(g.v.FBFreeEnd, g.v.regions) /\ Room(g.v) => Tidy(Given(y.v))
  <2>0. g.v \in Drivers /\ g.v.FBFreeEnd \in Int /\ ScreenEnd + Bpl \in Int
    BY <1>17, Sizes DEF Screens, Drivers
  <2>1. CASE g.v.noAccel
    <3>1. y = InitLinear(g)
      BY <2>1 DEF LinearStage
    <3>2. /\ Kept(y, g) /\ y.v.FBFreeEnd = g.v.FBFreeEnd
          /\ Allocated(g.v.FBFreeEnd, g.v.regions) /\ ScreenEnd + Bpl <= g.v.FBFreeEnd =>
               Allocated(g.v.FBFreeEnd, {r \in y.v.regions : r.name # "heap"})
      BY <1>17, <3>1, InitLinearDoes
    <3>. HIDE DEF y
    <3>3. y.v.noAccel /\ y.v.regions \in SUBSET Regions
      BY <2>1, <3>2 DEF Kept, SetUpOf, Screens, Drivers
    <3>4. Room(g.v) => ScreenEnd + Bpl <= g.v.FBFreeEnd
      BY <2>0, <2>1 DEF Room
    <3>5. Given(y.v) = {r \in y.v.regions : r.name # "heap"} /\ Given(y.v) \in SUBSET Regions
      BY <3>3 DEF Given
    <3>. QED
      BY <2>0, <3>2, <3>4, <3>5, AllocatedTidy
  <2>2. CASE ~ g.v.noAccel
    <3>1. y = g
      BY <2>2 DEF LinearStage
    <3>. QED
      BY <1>17, <2>0, <3>1, GivenTidy DEF Kept
  <2>. QED
    BY <2>1, <2>2
<1>. HIDE DEF y
<1>19. /\ y \in Screens /\ y.h = d.h /\ y.k = d.k
       /\ y.v.noAccel = g.v.noAccel /\ y.v.dri = d.v.dri /\ y.v.irq = d.v.irq
       /\ y.v.pDRIInfo = d.v.pDRIInfo
       /\ y.v.VQStart = d.v.VQStart /\ y.v.agpDMA = on
       /\ y.v.ringBufActive = d.v.ringBufActive
       /\ y.v.vtSema = d.v.vtSema /\ y.v.saved = d.v.saved /\ y.v.stateMode = d.v.stateMode
       /\ DepthOf(y.v) = DepthOf(d.v)
  BY <1>15, <1>16, <1>17, <1>18 DEF Kept, ModeOf, SetUpOf, RingOf, PlanOf, DepthOf
<1>20. g.v.FBFreeEnd = a.v.FBFreeEnd /\ g.v.regions = d.v.regions
       /\ (a.v.noAccel => y.v.noAccel)
  BY <1>12, <1>15, <1>16, <1>17, <1>19 DEF PlanOf
<1>21. Begun(y)
  BY <1>1, <1>12, <1>19 DEF Begun
<1>22. DriReady(y) /\ (~ k.open => Opened(y))
  BY <1>12, <1>19 DEF DriReady, Opened
<1>23. ASSUME Room(y.v)
       PROVE  Tidy(Given(y.v)) \/ (y.v.noAccel /\ opt.hwcursor /\ v.CursorStart # 0)
  <2>1. CASE a.v.noAccel /\ opt.hwcursor /\ v.CursorStart # 0
    BY <1>20, <2>1
  <2>2. CASE ~ (a.v.noAccel /\ opt.hwcursor /\ v.CursorStart # 0)
    <3>1. Room(g.v) /\ ScreenEnd <= a.v.FBFreeEnd
      <4>1. g.v.FBFreeEnd \in Int
        BY <1>17 DEF Screens, Drivers
      <4>2. Room(g.v)
        BY <1>18, <1>19, <1>23 DEF Room
      <4>. QED
        BY <1>20, <4>1, <4>2, Sizes DEF Room
    <3>2. Allocated(a.v.FBFreeEnd, a.v.regions) /\ (~ a.v.noAccel => HeapRoom(a.v))
      BY <1>1, <2>2, <3>1 DEF Divided
    <3>3. Allocated(g.v.FBFreeEnd, g.v.regions)
      BY <1>12, <1>20, <3>2
    <3>. QED
      BY <1>18, <3>1, <3>3
  <2>. QED
    BY <2>1, <2>2
<1>24. "mode" \notin f => y.v.vtSema /\ y.h.bpp = DepthSet(v)
  BY <1>1, <1>12, <1>19
<1>25. (opt.hwcursor => y.h.image = None) /\ (y.v.agpDMA => y.v.ringBufActive)
  BY <1>1, <1>12, <1>14, <1>19
<1>26. Room(y.v) => Tidy(Given(y.v)) \/ (y.v.noAccel /\ opt.hwcursor /\ v.CursorStart # 0)
  BY <1>23
<1>. QED
  BY <1>2, <1>21, <1>22, <1>24, <1>25, <1>26

-----------------------------------------------------------------------------
(* The invariant holds at first and in every step.                         *)
(* A server that has not started satisfies the invariant.                  *)
LEMMA InitLifeInv == Init => LifeInv
<1>. SUFFICES ASSUME Init PROVE LifeInv
  OBVIOUS
<1>1. opt \in Options /\ opt.bpp \in Nat /\ opt.noAccel \in BOOLEAN
  BY OptionFields DEF Init
<1>2. v \in Drivers
  BY <1>1 DEF Init, Drivers, Modes, Images, None
<1>3. h \in Hardware /\ k \in Kernels
  BY <1>1 DEF Init, Hardware, Kernels, Closed, Modes, Images, None
<1>4. LifeTypeOK
  BY <1>1, <1>2, <1>3 DEF Init, LifeTypeOK, X, Screens, States
<1>5. LockCounted /\ ScreenKept
  BY DEF Init, LockCounted, Locking, ScreenKept, Displaying, Closed
<1>6. ConsoleKept /\ RingKept
  BY DEF Init, ConsoleKept, ModeKept, RingKept, Displaying, None
<1>7. MemoryKept
  BY DEF Init, MemoryKept, Tidy, Claimed
<1>. QED
  BY <1>4, <1>5, <1>6, <1>7 DEF LifeInv

(* The parts of the screen have their types.                               *)
LEMMA Parts == ASSUME LifeTypeOK PROVE v \in Drivers /\ h \in Hardware /\ k \in Kernels
  BY DEF LifeTypeOK, X, Screens

(* The three parts a hook assigns are those of the screen it computed.     *)
LEMMA BecomeScreen == ASSUME NEW y \in Screens, Become(y) PROVE X' \in Screens
  BY DEF Become, X, Screens

(* A console's mode is one.                                                *)
LEMMA SomeMode == ASSUME LifeTypeOK PROVE first # None /\ console # None
  BY LifecycleAssumption DEF LifeTypeOK

(* A hook that leaves the division of memory alone keeps it.               *)
LEMMA MemorySame ==
  ASSUME MemoryKept, UNCHANGED <<opt, gen>>, v'.noAccel = v.noAccel,
         v'.CursorStart = v.CursorStart, v'.FBFreeEnd = v.FBFreeEnd, v'.regions = v.regions
  PROVE  MemoryKept'
<1>1. Roomy' = Roomy /\ Claimed' = Claimed /\ Ram' = Ram
  BY DEF Roomy, Claimed, Ram
<1>. QED
  BY <1>1 DEF MemoryKept, Tidy, Apart

(* ScreenInit, with each of its early returns.                             *)
LEMMA ScreenInitKeeps == ASSUME LifeInv, ScreenInit PROVE LifeInv'
<1>1. PICK f \in FailSets :
        \/ Become(X) /\ pc' = "failed"
        \/ Become(ModeSet(f)) /\ pc' = "failed"
        \/ Become(Drawing(f)) /\ pc' = "failed" /\ "mode" \notin f
        \/ Become(Started(f)) /\ pc' = "vt" /\ "mode" \notin f
  <2>1. PICK f \in FailSets :
          IF f \cap {"fb", "mmio"} # {} THEN Become(X) /\ pc' = "failed"
          ELSE IF f \cap {"mode", "visuals"} # {} THEN Become(ModeSet(f)) /\ pc' = "failed"
          ELSE IF "colormap" \in f THEN Become(Drawing(f)) /\ pc' = "failed"
          ELSE Become(Started(f)) /\ pc' = "vt"
    BY DEF ScreenInit, Saved, ModeSet, Drawing, Finished, Started
  <2>. QED
    BY <2>1
<1>2. /\ pc = "down" /\ gen' = gen + 1
      /\ UNCHANGED <<opt, count, client, awake, visits, console, first>>
  BY DEF ScreenInit
<1>. HIDE DEF ScreenInit
<1>3. /\ X \in Screens /\ v \in Drivers /\ h \in Hardware /\ k \in Kernels /\ gen \in Nat
      /\ opt \in Options /\ opt.vbe \in 0..2 /\ first # None /\ console # None
  BY Parts, SomeMode, OptionFields DEF LifeInv, LifeTypeOK
<1>4. /\ ~ v.vtSema /\ ~ v.dga /\ ~ client /\ ~ awake /\ count = 0 /\ ~ k.open
      /\ ~ h.vq /\ ~ h.overlay /\ h.locked /\ (~ opt.vq => v.VQStart = 0)
      /\ v.bpp = opt.bpp
  BY <1>2 DEF LifeInv, LockCounted, Locking, ConsoleKept, ScreenKept, Crashed
<1>5. IF opt.vbe = 2
      THEN /\ v.stateMode = None => h.mode = first
           /\ v.stateMode # None => v.stateMode = first
           /\ h.mode \in {console, first}
      ELSE h.mode = console
  BY <1>4 DEF LifeInv, ConsoleKept, ModeKept
<1> DEFINE
      StartKept ==
        /\ X' \in Screens
        /\ DepthOf(v') = DepthOf(v)
        /\ k'.open => v'.dri /\ v'.pDRIInfo
        /\ ~ v'.vtSema => /\ pc' = "failed" /\ h'.mode = h.mode /\ ~ h'.vq /\ ~ h'.overlay
                          /\ h'.locked \/ v'.FirstInit
        /\ opt.vbe = 2 => v'.stateMode = first \/ (v'.stateMode = None /\ v' = v)
        /\ opt.vbe # 2 /\ v'.vtSema =>
             v'.saved = console /\ (opt.vbe > 0 => v'.stateMode = console)
        /\ ~ opt.vq => v'.VQStart = 0 /\ ~ h'.vq
        /\ Room(v') => \/ Tidy(Given(v'))
                       \/ v'.noAccel /\ opt.hwcursor /\ gen + 1 > 1
<1>6. ASSUME NEW y, Begun(y), Become(y), ~ k.open => Opened(y),
             y.v.vtSema \/ (/\ y.v.FirstInit /\ pc' = "failed"
                            /\ y.h.mode = h.mode /\ y.h.vq = h.vq),
             Room(y.v) => \/ Tidy(Given(y.v))
                          \/ y.v.noAccel /\ opt.hwcursor /\ v.CursorStart # 0
      PROVE  StartKept
  <2>1. X' \in Screens
    BY <1>6, BecomeScreen DEF Begun
  <2>2. v' = y.v /\ h' = y.h /\ k' = y.k
    BY <1>6 DEF Become
  <2>3. /\ opt.vbe = 2 => y.v.stateMode = first
        /\ opt.vbe # 2 => y.v.saved = console /\ y.v.stateMode = console
    BY <1>5, <1>6 DEF Begun
  <2>4. v.CursorStart # 0 => gen + 1 > 1
    BY <1>3 DEF LifeInv, MemoryKept
  <2>5. ~ opt.vq => v'.VQStart = 0 /\ ~ h'.vq
    BY <1>4, <1>6, <2>2 DEF Begun
  <2>6. ~ v'.vtSema => /\ pc' = "failed" /\ h'.mode = h.mode /\ ~ h'.vq /\ ~ h'.overlay
                       /\ h'.locked \/ v'.FirstInit
    BY <1>4, <1>6, <2>2 DEF Begun
  <2>7. Room(v') => Tidy(Given(v')) \/ (v'.noAccel /\ opt.hwcursor /\ gen + 1 > 1)
    BY <1>6, <2>2, <2>4
  <2>8. DepthOf(v') = DepthOf(v) /\ (k'.open => v'.dri /\ v'.pDRIInfo)
    BY <1>4, <1>6, <2>2 DEF Begun, Opened
  <2>. QED
    BY <2>1, <2>2, <2>3, <2>5, <2>6, <2>7, <2>8
<1>7. ASSUME NEW y, Begun(y), Allocated(y.v.FBFreeEnd, y.v.regions) PROVE Tidy(Given(y.v))
  BY <1>3, <1>7, GivenTidy DEF Begun, Screens
<1>8. ASSUME Become(X), pc' = "failed" PROVE StartKept
  <2>1. v' = v /\ h' = h /\ k' = k
    BY <1>8 DEF Become, X
  <2>2. X' \in Screens
    BY <1>3, <1>8, BecomeScreen
  <2>3. Room(v') => Tidy(Given(v')) \/ (v'.noAccel /\ opt.hwcursor /\ gen + 1 > 1)
    <3>1. Room(v) = Roomy /\ Given(v) = Claimed
      BY DEF Room, Given, Roomy, Claimed
    <3>2. Roomy => Tidy(Claimed) \/ (v.noAccel /\ opt.hwcursor /\ gen > 1)
      BY DEF LifeInv, MemoryKept
    <3>. QED
      BY <1>3, <2>1, <3>1, <3>2
  <2>. QED
    BY <1>4, <1>5, <1>8, <2>1, <2>2, <2>3
<1>9. ASSUME Become(ModeSet(f)), pc' = "failed" PROVE StartKept
  <2> DEFINE y == ModeSet(f)
  <2>1. /\ Begun(y) /\ y.k = k /\ y.v.FBFreeEnd = Ram /\ y.v.regions = {TheScreen}
        /\ "mode" \notin f => y.v.vtSema
        /\ "mode" \in f => /\ y.v.FirstInit /\ y.h.mode = h.mode /\ y.h.vq = h.vq
    BY <1>3, ModeSetDoes
  <2>2. ScreenEnd <= Ram => Tidy(Given(y.v))
    BY <1>3, <1>7, <2>1, ScreenCarved DEF Carved
  <2>3. Room(y.v) => ScreenEnd <= Ram
    BY <1>3, <2>1, Sizes, OptionFields DEF Room
  <2>4. ~ k.open => Opened(y)
    BY <2>1 DEF Opened
  <2>5. Become(y)
    BY <1>9
  <2>. HIDE DEF y, StartKept
  <2>. QED
    BY <1>6, <1>9, <2>1, <2>2, <2>3, <2>4, <2>5
<1>10. ASSUME Become(Drawing(f)), "mode" \notin f PROVE StartKept
  <2> DEFINE y == Drawing(f)
  <2>1. Begun(y) /\ y.v.vtSema /\ Divided(y) /\ (~ k.open => Opened(y))
    BY <1>3, <1>10, DrawingDoes
  <2>2. Room(y.v) => ScreenEnd <= y.v.FBFreeEnd
    <3>1. y.v.FBFreeEnd \in Int
      BY <2>1 DEF Begun, Screens, Drivers
    <3>. HIDE DEF y
    <3>. QED
      BY <3>1, Sizes DEF Room
  <2>3. Become(y)
    BY <1>10
  <2>. HIDE DEF y, StartKept
  <2>. QED
    BY <1>6, <1>7, <2>1, <2>2, <2>3 DEF Divided
<1>11. ASSUME Become(Started(f)), "mode" \notin f PROVE StartKept
  <2>1. /\ Begun(Started(f)) /\ Started(f).v.vtSema /\ (~ k.open => Opened(Started(f)))
        /\ Room(Started(f).v) =>
             \/ Tidy(Given(Started(f).v))
             \/ Started(f).v.noAccel /\ opt.hwcursor /\ v.CursorStart # 0
    BY <1>3, <1>11, StartedDoes
  <2>. HIDE DEF StartKept
  <2>. QED
    BY <1>6, <1>11, <2>1
<1>12. StartKept
  <2>. HIDE DEF StartKept
  <2>. QED
    BY <1>1, <1>8, <1>9, <1>10, <1>11
<1>13. LockCounted'
  BY <1>1, <1>2, <1>4, <1>12 DEF LockCounted, Locking
<1>14. ConsoleKept'
  <2>1. pc' = "vt" => v'.vtSema
    BY <1>12
  <2>2. pc' \in {"failed", "vt"}
    BY <1>1
  <2>3. ModeKept'
    BY <1>2, <1>3, <1>4, <1>5, <1>12, <2>2 DEF ModeKept
  <2>. QED
    BY <1>2, <1>12, <2>1, <2>2, <2>3 DEF ConsoleKept, Displaying
<1>15. v'.bpp = v.bpp /\ v'.dga = v.dga
  BY <1>12 DEF DepthOf
<1>16. ASSUME pc' = "vt"
       PROVE  /\ h'.bpp = DepthSet(v') /\ (opt.hwcursor => h'.image = None)
              /\ v'.dri => /\ v'.ringBufActive <=> "ring" \in k'.held
                           /\ v'.ringBufActive => opt.agp
                           /\ v'.irq => h'.vblank
              /\ v'.agpDMA => v'.ringBufActive
  <2>1. Become(Started(f)) /\ "mode" \notin f
    BY <1>1, <1>16
  <2>2. DepthSet(v') = DepthSet(v)
    BY <1>15 DEF DepthSet
  <2>. QED
    BY <1>3, <2>1, <2>2, StartedDoes DEF Become, DriReady
<1>17. RingKept'
  BY <1>1, <1>2, <1>16 DEF RingKept, Displaying
<1>18. ScreenKept'
  BY <1>1, <1>2, <1>4, <1>15, <1>16 DEF ScreenKept, Displaying, None, DepthSet
<1>19. MemoryKept'
  <2>1. Roomy' = Room(v') /\ Claimed' = Given(v') /\ Ram' = Ram
    BY <1>2 DEF Roomy, Claimed, Room, Given, Ram
  <2>. QED
    BY <1>2, <1>3, <1>12, <2>1 DEF MemoryKept, Tidy, Apart
<1>20. LifeTypeOK'
  BY <1>1, <1>2, <1>12 DEF LifeInv, LifeTypeOK, States
<1>. QED
  BY <1>13, <1>14, <1>17, <1>18, <1>19, <1>20 DEF LifeInv

(* The hooks up to the point where they have the lock.                     *)
LEMMA LockKeeps ==
  ASSUME LifeInv, LeaveVT \/ SwitchMode \/ CloseScreen
  PROVE  LifeInv'
<1>1. /\ pc = "vt" /\ ~ v.dga /\ (v.dri => ~ client)
      /\ count' = (IF v.dri THEN count + 1 ELSE count)
      /\ pc' \in {"leaving", "switching", "closing"}
      /\ UNCHANGED <<opt, v, h, k, client, awake, gen, visits, console, first>>
  BY DEF LeaveVT, SwitchMode, CloseScreen, Lock
<1>2. LifeTypeOK'
  <2>1. X' = X
    BY <1>1 DEF X
  <2>. QED
    BY <1>1, <2>1 DEF LifeInv, LifeTypeOK, States
<1>3. LockCounted'
  BY <1>1 DEF LifeInv, LifeTypeOK, LockCounted, Locking
<1>4. ConsoleKept'
  BY <1>1 DEF LifeInv, ConsoleKept, ModeKept, Displaying, Crashed
<1>5. RingKept' /\ ScreenKept'
  BY <1>1 DEF LifeInv, RingKept, ScreenKept, Displaying, DepthSet
<1>6. MemoryKept'
  BY <1>1, MemorySame DEF LifeInv
<1>. QED
  BY <1>2, <1>3, <1>4, <1>5, <1>6 DEF LifeInv

(* The console has the screen that the driver left, whatever hook it was.  *)
LEMMA LeftGivesBack ==
  ASSUME LifeInv, v.vtSema, Become([Left EXCEPT !.v.vtSema = FALSE]),
         UNCHANGED <<opt, console, first, gen>>, pc' \in {"away", "dead"}
  PROVE  /\ X' \in Screens
         /\ v'.vtSema = FALSE /\ SetUpOf(v') = SetUpOf(v) /\ PlanOf(v') = PlanOf(v)
         /\ ConsoleKept' /\ MemoryKept' /\ k'.open = k.open
         /\ opt.hwcursor => v'.cursorImage = h.image
         /\ v.dri /\ (v.ringBufActive <=> "ring" \in k.held) =>
              ~ v'.ringBufActive /\ "ring" \notin k'.held
<1> DEFINE y == [Left EXCEPT !.v.vtSema = FALSE]
<1>0. X \in Screens /\ opt.vbe \in 0..2 /\ first # None
  BY OptionFields, SomeMode DEF LifeInv, LifeTypeOK
<1>1. /\ y \in Screens /\ y.v.vtSema = FALSE
      /\ y.v.saved = v.saved /\ y.v.stateMode = v.stateMode
      /\ SetUpOf(y.v) = SetUpOf(v) /\ PlanOf(y.v) = PlanOf(v)
      /\ y.h.mode = (IF opt.vbe > 0 THEN v.stateMode ELSE v.saved)
      /\ y.h.locked /\ y.k.open = k.open
      /\ ~ y.h.overlay /\ (y.h.vq => ~ opt.vq /\ h.vq)
      /\ opt.hwcursor => y.v.cursorImage = h.image
      /\ v.dri /\ (v.ringBufActive <=> "ring" \in k.held) =>
           ~ y.v.ringBufActive /\ "ring" \notin y.k.held
  BY <1>0, LeftDoes
<1>. HIDE DEF y
<1>2. v' = y.v /\ h' = y.h /\ k' = y.k
  BY DEF Become, y
<1>3. X' \in Screens
  BY <1>1, BecomeScreen DEF y
<1>4. /\ v'.VQStart = v.VQStart /\ v'.noAccel = v.noAccel /\ v'.regions = v.regions
      /\ v'.CursorStart = v.CursorStart /\ v'.FBFreeEnd = v.FBFreeEnd
  BY <1>1, <1>2 DEF SetUpOf, PlanOf
<1>5. ConsoleKept'
  <2>1. ~ h'.vq
    BY <1>1, <1>2 DEF LifeInv, ConsoleKept
  <2>2. ModeKept'
    BY <1>0, <1>1, <1>2 DEF LifeInv, ConsoleKept, ModeKept
  <2>3. ~ opt.vq => v'.VQStart = 0
    BY <1>4 DEF LifeInv, ConsoleKept
  <2>. QED
    BY <1>1, <1>2, <2>1, <2>2, <2>3 DEF ConsoleKept, Displaying
<1>6. MemoryKept'
  BY <1>4, MemorySame DEF LifeInv
<1>. QED
  BY <1>1, <1>2, <1>3, <1>5, <1>6

(* Leaving the terminal.                                                   *)
LEMMA LeaveVTLockedKeeps == ASSUME LifeInv, LeaveVTLocked PROVE LifeInv'
<1>1. /\ pc = "leaving" /\ pc' = "away"
      /\ Become([Left EXCEPT !.v.vtSema = FALSE])
      /\ UNCHANGED <<opt, count, client, awake, gen, visits, console, first>>
  BY DEF LeaveVTLocked
<1>2. v.vtSema
  BY <1>1 DEF LifeInv, ConsoleKept, Displaying
<1>3. /\ X' \in Screens
      /\ v'.vtSema = FALSE /\ SetUpOf(v') = SetUpOf(v) /\ PlanOf(v') = PlanOf(v)
      /\ ConsoleKept' /\ MemoryKept' /\ k'.open = k.open
      /\ opt.hwcursor => v'.cursorImage = h.image
      /\ v.dri /\ (v.ringBufActive <=> "ring" \in k.held) =>
           ~ v'.ringBufActive /\ "ring" \notin k'.held
  BY <1>1, <1>2, LeftGivesBack
<1>4. /\ v'.dri = v.dri /\ v'.pDRIInfo = v.pDRIInfo /\ v'.agpDMA = v.agpDMA
      /\ v'.dga = v.dga /\ v'.bpp = v.bpp
  BY <1>3 DEF SetUpOf, PlanOf
<1>5. LifeTypeOK'
  BY <1>1, <1>3 DEF LifeInv, LifeTypeOK, States
<1>6. LockCounted'
  BY <1>1, <1>3, <1>4 DEF LifeInv, LockCounted, Locking
<1>7. RingKept'
  BY <1>1, <1>3, <1>4 DEF LifeInv, RingKept, Displaying
<1>8. ScreenKept'
  BY <1>1, <1>3, <1>4 DEF LifeInv, ScreenKept, Displaying
<1>. QED
  BY <1>3, <1>5, <1>6, <1>7, <1>8 DEF LifeInv

(* The server gives up: it leaves the terminal if it has it, and crashes   *)
(* in that if it takes direct rendering to be on that is closed.           *)
LEMMA AbortKeeps == ASSUME LifeInv, Abort PROVE LifeInv'
<1>1. /\ pc = "failed" \/ (pc = "vt" /\ ~ v.dga)
      /\ pc' = "dead" /\ (v.dri => ~ client)
      /\ count' = (IF v.dri /\ v.pDRIInfo THEN count + 1 ELSE count)
      /\ UNCHANGED <<opt, client, awake, gen, visits, console, first>>
  BY DEF Abort
<1>2. /\ X' \in Screens /\ v'.dri = v.dri /\ v'.pDRIInfo = v.pDRIInfo
      /\ v'.dga = v.dga /\ v'.bpp = v.bpp /\ k'.open = k.open
      /\ ConsoleKept' /\ MemoryKept'
  <2>1. CASE v.vtSema /\ (v.dri => v.pDRIInfo)
    <3>1. Become([Left EXCEPT !.v.vtSema = FALSE])
      BY <2>1 DEF Abort
    <3>2. /\ X' \in Screens /\ SetUpOf(v') = SetUpOf(v) /\ PlanOf(v') = PlanOf(v)
          /\ ConsoleKept' /\ MemoryKept' /\ k'.open = k.open
      BY <1>1, <2>1, <3>1, LeftGivesBack
    <3>. QED
      BY <3>2 DEF SetUpOf, PlanOf
  <2>2. CASE ~ (v.vtSema /\ (v.dri => v.pDRIInfo))
    <3>1. v' = v /\ h' = h /\ k' = k
      BY <2>2 DEF Abort, Become, X
    <3>2. X' = X
      BY <3>1 DEF X
    <3>3. ModeKept'
      BY <1>1, <3>1 DEF LifeInv, ConsoleKept, ModeKept
    <3>4. ConsoleKept'
      BY <1>1, <2>2, <3>1, <3>3 DEF LifeInv, ConsoleKept, Displaying, Crashed
    <3>5. MemoryKept'
      BY <1>1, <3>1, MemorySame DEF LifeInv
    <3>. QED
      BY <3>1, <3>2, <3>4, <3>5 DEF LifeInv, LifeTypeOK
  <2>. QED
    BY <2>1, <2>2
<1>3. LifeTypeOK'
  BY <1>1, <1>2 DEF LifeInv, LifeTypeOK, States
<1>4. LockCounted'
  <2>1. /\ count = (IF awake THEN 1 ELSE 0) /\ count \in Nat /\ (awake => v.dri)
        /\ client => v.dri
        /\ k.open => v.dri /\ v.pDRIInfo
    BY <1>1 DEF LifeInv, LifeTypeOK, LockCounted, Locking
  <2>2. Locking' /\ pc' = "dead"
    BY <1>1 DEF Locking
  <2>. QED
    BY <1>1, <1>2, <2>1, <2>2 DEF LockCounted
<1>5. RingKept' /\ ScreenKept'
  BY <1>1, <1>2 DEF LifeInv, RingKept, ScreenKept, Displaying
<1>. QED
  BY <1>2, <1>3, <1>4, <1>5 DEF LifeInv

(* The console draws over the memory while the server is away.             *)
LEMMA ConsoleDrawsKeeps == ASSUME LifeInv, ConsoleDraws PROVE LifeInv'
<1>1. PICK m \in ConsoleModes : console' = m /\ h' = [h EXCEPT !.mode = m, !.image = "junk"]
  BY DEF ConsoleDraws
<1>2. /\ pc = "away" /\ visits' = visits + 1
      /\ UNCHANGED <<opt, pc, v, k, count, client, awake, gen, first>>
  BY DEF ConsoleDraws
<1>3. v \in Drivers /\ h \in Hardware /\ k \in Kernels
  BY Parts DEF LifeInv
<1>4. /\ h' \in Hardware /\ h'.mode = m /\ h'.vq = h.vq /\ h'.overlay = h.overlay
      /\ h'.locked = h.locked
  BY <1>1, <1>3 DEF Hardware, Modes, Images
<1>5. LifeTypeOK'
  <2>1. X' \in Screens
    BY <1>2, <1>3, <1>4 DEF X, Screens
  <2>. QED
    BY <1>1, <1>2, <2>1 DEF LifeInv, LifeTypeOK, States
<1>6. LockCounted'
  BY <1>2 DEF LifeInv, LockCounted, Locking
<1>7. ConsoleKept'
  <2>1. ~ v.vtSema
    BY <1>2 DEF LifeInv, ConsoleKept, Crashed
  <2>2. ModeKept'
    BY <1>1, <1>2, <1>4, <2>1 DEF LifeInv, ConsoleKept, ModeKept
  <2>. QED
    BY <1>2, <1>4, <2>1, <2>2 DEF LifeInv, ConsoleKept, Displaying
<1>8. RingKept'
  BY <1>2 DEF LifeInv, RingKept, Displaying
<1>9. ScreenKept' /\ MemoryKept'
  BY <1>2, MemorySame DEF LifeInv, ScreenKept, Displaying
<1>. QED
  BY <1>5, <1>6, <1>7, <1>8, <1>9 DEF LifeInv

(* Returning to the terminal.                                              *)
LEMMA EnterVTKeeps == ASSUME LifeInv, EnterVT PROVE LifeInv'
<1>1. PICK f \in FailSets :
        Become(Entered(f)) /\ pc' = IF "mode" \in f THEN "failed" ELSE "vt"
  BY DEF EnterVT, Entered
<1>2. /\ pc = "away" /\ count' = (IF v.dri THEN count - 1 ELSE count)
      /\ UNCHANGED <<opt, client, awake, gen, visits, console, first>>
  BY DEF EnterVT, Unlock
<1> DEFINE y == Entered(f)
<1>3. X \in Screens /\ opt \in Options /\ opt.vbe \in 0..2 /\ first # None
  BY OptionFields, SomeMode DEF LifeInv, LifeTypeOK
<1>4. /\ y \in Screens /\ y.k.open = k.open /\ y.v.vtSema /\ y.v.saved = h.mode
      /\ y.v.stateMode = (IF opt.vbe = 2 /\ v.stateMode # None THEN v.stateMode ELSE h.mode)
      /\ SetUpOf(y.v) = SetUpOf(v) /\ PlanOf(y.v) = PlanOf(v)
      /\ "mode" \notin f => y.h.bpp = DepthSet(v)
      /\ y.h.vq => h.vq \/ v.VQStart # 0
      /\ opt.hwcursor => y.h.image = v.cursorImage
      /\ v.dri =>
           /\ (v.ringBufActive <=> "ring" \in k.held) =>
                (y.v.ringBufActive <=> "ring" \in y.k.held)
           /\ opt.agp /\ ~ y.v.ringRefused => y.v.ringBufActive
           /\ v.irq => y.h.vblank
  BY <1>3, EnteredDoes
<1>. HIDE DEF y
<1>5. v' = y.v /\ h' = y.h /\ k' = y.k
  BY <1>1 DEF Become, y
<1>6. /\ v'.VQStart = v.VQStart /\ v'.noAccel = v.noAccel /\ v'.regions = v.regions
      /\ v'.CursorStart = v.CursorStart /\ v'.FBFreeEnd = v.FBFreeEnd
      /\ v'.dri = v.dri /\ v'.pDRIInfo = v.pDRIInfo /\ v'.agpDMA = v.agpDMA
      /\ v'.irq = v.irq /\ v'.dga = v.dga /\ v'.bpp = v.bpp
  BY <1>4, <1>5 DEF SetUpOf, PlanOf
<1>7. ~ v.dga /\ ~ v.vtSema
  BY <1>2 DEF LifeInv, ScreenKept, ConsoleKept, Crashed
<1>8. LockCounted'
  BY <1>1, <1>2, <1>4, <1>5, <1>6 DEF LifeInv, LifeTypeOK, LockCounted, Locking
<1>9. LifeTypeOK'
  <2>1. X' \in Screens
    BY <1>1, <1>4, BecomeScreen DEF y
  <2>2. count' \in Nat
    BY <1>2, <1>8 DEF LockCounted
  <2>. QED
    BY <1>1, <1>2, <2>1, <2>2 DEF LifeInv, LifeTypeOK, States
<1>10. ConsoleKept'
  <2>1. ModeKept'
    BY <1>2, <1>3, <1>4, <1>5, <1>7 DEF LifeInv, ConsoleKept, ModeKept
  <2>2. ~ opt.vq => v'.VQStart = 0 /\ ~ h'.vq
    BY <1>4, <1>5, <1>6 DEF LifeInv, ConsoleKept
  <2>. QED
    BY <1>1, <1>2, <1>4, <1>5, <2>1, <2>2 DEF ConsoleKept, Displaying
<1>11. RingKept'
  BY <1>1, <1>2, <1>4, <1>5, <1>6 DEF LifeInv, RingKept, Displaying
<1>12. ScreenKept'
  BY <1>1, <1>2, <1>4, <1>5, <1>6, <1>7 DEF LifeInv, ScreenKept, Displaying, DepthSet
<1>13. MemoryKept'
  BY <1>2, <1>6, MemorySame DEF LifeInv
<1>. QED
  BY <1>8, <1>9, <1>10, <1>11, <1>12, <1>13 DEF LifeInv

(* Another mode, asked for by the server or by DGA: x is the screen with   *)
(* what DGA changes before, and the screen becomes one that differs from   *)
(* Switched(x, f) in what DGA changes after.                               *)
LEMMA SwitchedKeeps ==
  ASSUME LifeInv, Displaying, pc' = "vt",
         UNCHANGED <<opt, awake, client, gen, console, first>>,
         NEW x \in Screens, NEW f,
         SetUpOf(x.v) = SetUpOf(v), RingOf(x.v) = RingOf(v), x.k = k,
         x.v.vtSema = v.vtSema, x.v.saved = v.saved, x.v.stateMode = v.stateMode,
         x.v.regions = v.regions, x.v.CursorStart = v.CursorStart,
         x.v.FBFreeEnd = v.FBFreeEnd,
         x.h.vq = h.vq, x.h.image = h.image, x.h.bpp = h.bpp,
         X' \in Screens, k' = Switched(x, f).k,
         LET y == Switched(x, f)
         IN  /\ v'.vtSema = y.v.vtSema /\ v'.saved = y.v.saved /\ v'.stateMode = y.v.stateMode
             /\ SetUpOf(v') = SetUpOf(y.v) /\ RingOf(v') = RingOf(y.v)
             /\ v'.regions = y.v.regions /\ v'.CursorStart = y.v.CursorStart
             /\ v'.FBFreeEnd = y.v.FBFreeEnd /\ v'.bpp = y.v.bpp
             /\ h'.bpp = y.h.bpp /\ h'.vq = y.h.vq /\ h'.image = y.h.image
             /\ h'.vblank = y.h.vblank
  PROVE  /\ ConsoleKept' /\ RingKept' /\ MemoryKept'
         /\ "mode" \notin f => h'.bpp = DepthSet(v')
         /\ "mode" \in f => h'.bpp = h.bpp
         /\ opt.hwcursor => h'.image # "junk"
         /\ v'.bpp = x.v.bpp /\ v'.dri = v.dri /\ v'.pDRIInfo = v.pDRIInfo
         /\ k'.open = k.open
<1> DEFINE y == Switched(x, f)
<1>0. opt \in Options
  BY DEF LifeInv, LifeTypeOK
<1>1. /\ y \in Screens /\ (x.v.vtSema => y.v.vtSema)
      /\ y.v.saved = x.v.saved /\ y.v.stateMode = x.v.stateMode
      /\ SetUpOf(y.v) = SetUpOf(x.v) /\ PlanOf(y.v) = PlanOf(x.v)
      /\ "mode" \notin f => y.h.bpp = DepthSet(x.v)
      /\ "mode" \in f => y.h.bpp = x.h.bpp /\ y.h.missed = x.h.missed
      /\ y.h.vq => (x.h.vq /\ ~ opt.vq) \/ x.v.VQStart # 0
      /\ y.h.image = x.h.image /\ y.k.open = x.k.open
      /\ x.v.dri =>
           /\ (x.v.ringBufActive <=> "ring" \in x.k.held) =>
                (y.v.ringBufActive <=> "ring" \in y.k.held)
           /\ opt.agp /\ ~ y.v.ringRefused => y.v.ringBufActive
           /\ x.v.irq => y.h.vblank
  BY <1>0, SwitchedDoes
<1>2. /\ v'.vtSema = y.v.vtSema /\ v'.saved = y.v.saved /\ v'.stateMode = y.v.stateMode
      /\ SetUpOf(v') = SetUpOf(y.v) /\ RingOf(v') = RingOf(y.v)
      /\ v'.regions = y.v.regions /\ v'.CursorStart = y.v.CursorStart
      /\ v'.FBFreeEnd = y.v.FBFreeEnd /\ v'.bpp = y.v.bpp
      /\ h'.bpp = y.h.bpp /\ h'.vq = y.h.vq /\ h'.image = y.h.image
      /\ h'.vblank = y.h.vblank /\ k' = y.k
  OBVIOUS
<1>. HIDE DEF y
<1>3. v.vtSema
  BY DEF LifeInv, ConsoleKept
<1>4. /\ x.v.dri = v.dri /\ x.v.irq = v.irq /\ x.v.VQStart = v.VQStart
      /\ x.v.ringBufActive = v.ringBufActive
      /\ v'.dri = v.dri /\ v'.pDRIInfo = v.pDRIInfo /\ v'.irq = v.irq
      /\ v'.VQStart = v.VQStart /\ v'.agpDMA = v.agpDMA /\ v'.noAccel = v.noAccel
      /\ v'.ringBufActive = y.v.ringBufActive /\ v'.ringRefused = y.v.ringRefused
  BY <1>1, <1>2 DEF SetUpOf, RingOf
<1>5. /\ v'.bpp = x.v.bpp /\ v'.regions = v.regions /\ v'.CursorStart = v.CursorStart
      /\ v'.FBFreeEnd = v.FBFreeEnd
  BY <1>1, <1>2 DEF PlanOf
<1>6. ConsoleKept'
  <2>1. v'.vtSema /\ v'.saved = v.saved /\ v'.stateMode = v.stateMode
    BY <1>1, <1>2, <1>3
  <2>2. ~ opt.vq => v'.VQStart = 0 /\ ~ h'.vq
    BY <1>1, <1>2, <1>4 DEF LifeInv, ConsoleKept
  <2>3. ModeKept'
    BY <1>3, <2>1 DEF LifeInv, ConsoleKept, ModeKept
  <2>. QED
    BY <2>1, <2>2, <2>3 DEF ConsoleKept, Displaying
<1>7. RingKept'
  <2>1. ASSUME v.dri
        PROVE  /\ v'.ringBufActive <=> "ring" \in k'.held
               /\ v'.agpDMA => opt.agp
               /\ v'.agpDMA /\ ~ v'.ringRefused => v'.ringBufActive
               /\ v'.irq => h'.vblank
    <3>1. /\ v.ringBufActive <=> "ring" \in k.held
          /\ v.agpDMA => opt.agp
      BY <2>1 DEF LifeInv, RingKept
    <3>. QED
      BY <1>1, <1>2, <1>4, <2>1, <3>1
  <2>. QED
    BY <1>4, <2>1 DEF RingKept
<1>8. MemoryKept'
  BY <1>4, <1>5, MemorySame DEF LifeInv
<1>9. /\ "mode" \notin f => h'.bpp = DepthSet(v')
      /\ "mode" \in f => h'.bpp = h.bpp
      /\ opt.hwcursor => h'.image # "junk"
  BY <1>1, <1>2, <1>5 DEF LifeInv, ScreenKept, DepthSet
<1>. QED
  BY <1>1, <1>2, <1>4, <1>5, <1>6, <1>7, <1>8, <1>9

(* A mode switch.                                                          *)
LEMMA SwitchModeLockedKeeps == ASSUME LifeInv, SwitchModeLocked PROVE LifeInv'
<1>1. PICK f \in FailSets : Become(Switched(X, f))
  BY DEF SwitchModeLocked
<1>2. /\ pc = "switching" /\ pc' = "vt" /\ count' = (IF v.dri THEN count - 1 ELSE count)
      /\ UNCHANGED <<opt, client, awake, gen, visits, console, first>>
  BY DEF SwitchModeLocked, Unlock
<1> DEFINE y == Switched(X, f)
<1>3. X \in Screens /\ X.v = v /\ X.h = h /\ X.k = k /\ opt \in Options
  BY DEF LifeInv, LifeTypeOK, X
<1>4. /\ y \in Screens /\ PlanOf(y.v) = PlanOf(v)
      /\ "mode" \in f => y.h.missed = h.missed
  BY <1>3, SwitchedDoes
<1>5. v' = y.v /\ h' = y.h /\ k' = y.k /\ X' \in Screens
  <2>. HIDE DEF y
  <2>1. Become(y)
    BY <1>1 DEF y
  <2>. QED
    BY <1>4, <2>1, BecomeScreen DEF Become
<1>6. /\ ~ v.dga /\ v.bpp = opt.bpp
      /\ h.bpp = DepthSet(v) \/ (h.missed /\ opt.vbe = 0)
  BY <1>2 DEF LifeInv, ScreenKept, Displaying
<1>7. /\ ConsoleKept' /\ RingKept' /\ MemoryKept'
      /\ "mode" \notin f => h'.bpp = DepthSet(v')
      /\ "mode" \in f => h'.bpp = h.bpp
      /\ opt.hwcursor => h'.image # "junk"
      /\ v'.bpp = v.bpp /\ v'.dri = v.dri /\ v'.pDRIInfo = v.pDRIInfo
      /\ k'.open = k.open
  BY <1>2, <1>3, <1>5, SwitchedKeeps DEF Displaying
<1>8. v'.dga = v.dga /\ ("mode" \in f => h'.missed = h.missed)
  BY <1>4, <1>5 DEF PlanOf
<1>9. LockCounted'
  BY <1>2, <1>7 DEF LifeInv, LifeTypeOK, LockCounted, Locking
<1>10. LifeTypeOK'
  <2>1. count' \in Nat
    BY <1>2, <1>9 DEF LockCounted
  <2>. QED
    BY <1>2, <1>5, <2>1 DEF LifeInv, LifeTypeOK, States
<1>11. ScreenKept'
  BY <1>2, <1>6, <1>7, <1>8 DEF ScreenKept, DepthSet
<1>. QED
  BY <1>7, <1>9, <1>10, <1>11 DEF LifeInv

(* DGA's switch is that of the server, and it notes that it failed.        *)
LEMMA DGASwitchedDoes ==
  ASSUME NEW x \in Screens, opt \in Options, NEW f
  PROVE  LET y == Switched(x, f)
             z == DGASwitched(x, f)
         IN  /\ z \in Screens /\ z.v = y.v /\ z.k = y.k
             /\ z.h.bpp = y.h.bpp /\ z.h.vq = y.h.vq /\ z.h.image = y.h.image
             /\ z.h.vblank = y.h.vblank /\ ("mode" \in f => z.h.missed)
<1> DEFINE y == Switched(x, f)
           e == [y.h EXCEPT !.missed = @ \/ "mode" \in f]
<1>1. y \in Screens
  BY SwitchedDoes
<1>. HIDE DEF y
<1>2. DGASwitched(x, f) = [v |-> y.v, h |-> e, k |-> y.k]
  BY <1>1 DEF DGASwitched, Screens, y
<1>3. /\ e \in Hardware /\ e.bpp = y.h.bpp /\ e.vq = y.h.vq /\ e.image = y.h.image
      /\ e.vblank = y.h.vblank /\ ("mode" \in f => e.missed)
  BY <1>1 DEF Screens, Hardware
<1>. HIDE DEF e
<1>. QED
  BY <1>1, <1>2, <1>3 DEF Screens, y

(* What DGA changes before it sets a mode.                                 *)
Prepared(b, c, old) ==
  [X EXCEPT !.h.cursor = c, !.v.oldBpp = old, !.v.dga = TRUE, !.v.bpp = b]

LEMMA DGAPrepares ==
  ASSUME X \in Screens, NEW b \in Nat, NEW c \in BOOLEAN, NEW old \in Nat, NEW x,
         x = Prepared(b, c, old)
  PROVE  /\ x \in Screens /\ x.k = k
         /\ SetUpOf(x.v) = SetUpOf(v) /\ RingOf(x.v) = RingOf(v)
         /\ x.v.vtSema = v.vtSema /\ x.v.saved = v.saved /\ x.v.stateMode = v.stateMode
         /\ x.v.regions = v.regions /\ x.v.CursorStart = v.CursorStart
         /\ x.v.FBFreeEnd = v.FBFreeEnd
         /\ x.v.bpp = b /\ x.v.dga /\ x.v.oldBpp = old
         /\ x.h.vq = h.vq /\ x.h.image = h.image /\ x.h.bpp = h.bpp
<1> DEFINE e  == [h EXCEPT !.cursor = c]
           d1 == [v EXCEPT !.oldBpp = old]
           d2 == [d1 EXCEPT !.dga = TRUE]
           d  == [d2 EXCEPT !.bpp = b]
           a  == [X EXCEPT !.h.cursor = c]
           b1 == [a EXCEPT !.v.oldBpp = old]
           b2 == [b1 EXCEPT !.v.dga = TRUE]
           b3 == [b2 EXCEPT !.v.bpp = b]
<1>1. v \in Drivers /\ h \in Hardware /\ k \in Kernels /\ X.v = v /\ X.h = h /\ X.k = k
  BY DEF X, Screens
<1>2. e \in Hardware /\ e.vq = h.vq /\ e.image = h.image /\ e.bpp = h.bpp
  BY <1>1 DEF Hardware
<1>3. d1 \in Drivers /\ d2 \in Drivers
  BY <1>1 DEF Drivers
<1>4. /\ d \in Drivers /\ SetUpOf(d) = SetUpOf(v) /\ RingOf(d) = RingOf(v)
      /\ d.vtSema = v.vtSema /\ d.saved = v.saved /\ d.stateMode = v.stateMode
      /\ d.regions = v.regions /\ d.CursorStart = v.CursorStart
      /\ d.FBFreeEnd = v.FBFreeEnd
      /\ d.bpp = b /\ d.dga /\ d.oldBpp = old
  BY <1>1 DEF Drivers, SetUpOf, RingOf
<1>5. x = b3
  BY DEF Prepared
<1>6. a = [v |-> v, h |-> e, k |-> k]
  BY <1>1, SetField
<1>. HIDE DEF a, e
<1>7. a \in Screens /\ a.v = v /\ a.h = e /\ a.k = k
  BY <1>1, <1>2, <1>6 DEF Screens
<1>8. b1 = [v |-> d1, h |-> e, k |-> k]
  BY <1>7, SetField
<1>. HIDE DEF b1
<1>9. b1 \in Screens /\ b1.v = d1 /\ b1.h = e /\ b1.k = k
  <2>. HIDE DEF d1
  <2>. QED
    BY <1>1, <1>2, <1>3, <1>8 DEF Screens
<1>10. b2 = [v |-> d2, h |-> e, k |-> k]
  <2>. HIDE DEF d1
  <2>. QED
    BY <1>9, SetField
<1>. HIDE DEF b2
<1>11. b2 \in Screens /\ b2.v = d2 /\ b2.h = e /\ b2.k = k
  <2>. HIDE DEF d2
  <2>. QED
    BY <1>1, <1>2, <1>3, <1>10 DEF Screens
<1>12. b3 = [v |-> d, h |-> e, k |-> k]
  <2>. HIDE DEF d2
  <2>. QED
    BY <1>11, SetField
<1>. HIDE DEF d, b3
<1>13. x \in Screens /\ x.v = d /\ x.h = e /\ x.k = k
  BY <1>1, <1>2, <1>4, <1>5, <1>12 DEF Screens
<1>. QED
  BY <1>2, <1>4, <1>13

(* DGA sets a mode of its own.                                             *)
LEMMA DGASetModeKeeps == ASSUME LifeInv, DGASetMode PROVE LifeInv'
<1> DEFINE old == IF v.dga THEN v.oldBpp ELSE v.bpp
           c   == h.cursor /\ ~ opt.hwcursor
<1>1. PICK b \in DGADepths, f \in FailSets :
        Become(DGASwitched([X EXCEPT !.h.cursor = @ /\ ~opt.hwcursor, !.v.oldBpp = old,
                                     !.v.dga = TRUE, !.v.bpp = b], f))
  BY DEF DGASetMode
<1>2. /\ pc = "vt"
      /\ UNCHANGED <<opt, pc, count, client, awake, gen, visits, console, first>>
  BY DEF DGASetMode
<1>3. /\ X \in Screens /\ X.h = h /\ opt \in Options
      /\ v \in Drivers /\ h \in Hardware /\ k \in Kernels
  BY Parts DEF LifeInv, LifeTypeOK, X
<1>4. old \in Nat /\ c \in BOOLEAN /\ old = opt.bpp /\ b \in Nat
  BY <1>3, LifecycleAssumption DEF Drivers, Hardware, LifeInv, ScreenKept
<1> DEFINE x == Prepared(b, c, old)
           y == Switched(x, f)
           z == DGASwitched(x, f)
<1>5. Become(z)
  BY <1>1, <1>3 DEF Prepared
<1>. HIDE DEF old, c
<1>6. /\ x \in Screens /\ x.k = k
      /\ SetUpOf(x.v) = SetUpOf(v) /\ RingOf(x.v) = RingOf(v)
      /\ x.v.vtSema = v.vtSema /\ x.v.saved = v.saved /\ x.v.stateMode = v.stateMode
      /\ x.v.regions = v.regions /\ x.v.CursorStart = v.CursorStart
      /\ x.v.FBFreeEnd = v.FBFreeEnd
      /\ x.v.bpp = b /\ x.v.dga /\ x.v.oldBpp = old
      /\ x.h.vq = h.vq /\ x.h.image = h.image /\ x.h.bpp = h.bpp
  <2>1. x = Prepared(b, c, old)
    OBVIOUS
  <2>. HIDE DEF x
  <2>. QED
    BY <1>3, <1>4, <2>1, DGAPrepares
<1>. HIDE DEF x
<1>7. y \in Screens /\ PlanOf(y.v) = PlanOf(x.v)
  BY <1>3, <1>6, SwitchedDoes
<1>8. /\ z \in Screens /\ z.v = y.v /\ z.k = y.k
      /\ z.h.bpp = y.h.bpp /\ z.h.vq = y.h.vq /\ z.h.image = y.h.image
      /\ z.h.vblank = y.h.vblank /\ ("mode" \in f => z.h.missed)
  BY <1>3, <1>6, DGASwitchedDoes
<1>9. v' = y.v /\ h' = z.h /\ k' = y.k /\ X' \in Screens
  <2>. HIDE DEF y, z
  <2>. QED
    BY <1>5, <1>8, BecomeScreen DEF Become
<1>10. /\ ConsoleKept' /\ RingKept' /\ MemoryKept'
       /\ "mode" \notin f => h'.bpp = DepthSet(v')
       /\ "mode" \in f => h'.bpp = h.bpp
       /\ opt.hwcursor => h'.image # "junk"
       /\ v'.dri = v.dri /\ v'.pDRIInfo = v.pDRIInfo /\ k'.open = k.open
  <2>1. Displaying /\ pc' = "vt"
    BY <1>2 DEF Displaying
  <2>2. /\ h'.bpp = y.h.bpp /\ h'.vq = y.h.vq /\ h'.image = y.h.image
        /\ h'.vblank = y.h.vblank
    BY <1>8, <1>9
  <2>. QED
    BY <1>2, <1>6, <1>9, <2>1, <2>2, SwitchedKeeps
<1>11. v'.dga /\ v'.oldBpp = opt.bpp /\ ("mode" \in f => h'.missed)
  BY <1>4, <1>6, <1>7, <1>8, <1>9 DEF PlanOf
<1>12. LockCounted'
  BY <1>2, <1>10 DEF LifeInv, LockCounted, Locking
<1>13. LifeTypeOK'
  BY <1>2, <1>9 DEF LifeInv, LifeTypeOK
<1>14. ScreenKept'
  <2>1. opt.vbe > 0 => h.bpp = opt.bpp
    BY <1>2, <1>3, OptionFields DEF LifeInv, ScreenKept, Displaying, DepthSet
  <2>2. opt.vbe > 0 \/ opt.vbe = 0
    BY <1>3, OptionFields
  <2>3. h'.bpp = DepthSet(v') \/ (h'.missed /\ opt.vbe = 0)
    BY <1>10, <1>11, <2>1, <2>2 DEF DepthSet
  <2>. QED
    BY <1>2, <1>10, <1>11, <2>3 DEF ScreenKept, DepthSet
<1>. QED
  BY <1>10, <1>12, <1>13, <1>14 DEF LifeInv

(* DGA ends, and the server's depth is back.                               *)
LEMMA DGAEndKeeps == ASSUME LifeInv, DGAEnd PROVE LifeInv'
<1> DEFINE d == [v EXCEPT !.bpp = v.oldBpp]
           x == [v |-> d, h |-> h, k |-> k]
<1>1. PICK f \in FailSets :
        Become([DGASwitched([X EXCEPT !.v.bpp = v.oldBpp], f)
                  EXCEPT !.h.cursor = @ \/ opt.hwcursor, !.v.dga = FALSE])
  BY DEF DGAEnd
<1>2. /\ pc = "vt" /\ v.dga
      /\ UNCHANGED <<opt, pc, count, client, awake, gen, visits, console, first>>
  BY DEF DGAEnd
<1>3. /\ v \in Drivers /\ h \in Hardware /\ k \in Kernels /\ opt \in Options
      /\ X \in Screens /\ X.v = v /\ X.h = h /\ X.k = k
  BY Parts DEF LifeInv, LifeTypeOK, X
<1> DEFINE y == Switched(x, f)
           z == DGASwitched(x, f)
           w == [z.v EXCEPT !.dga = FALSE]
           e == [z.h EXCEPT !.cursor = @ \/ opt.hwcursor]
<1>4. [X EXCEPT !.v.bpp = v.oldBpp] = x
  BY <1>3, SetField
<1>5. Become([z EXCEPT !.h.cursor = @ \/ opt.hwcursor, !.v.dga = FALSE])
  BY <1>1, <1>4
<1>6. /\ d \in Drivers /\ SetUpOf(d) = SetUpOf(v) /\ RingOf(d) = RingOf(v)
      /\ d.vtSema = v.vtSema /\ d.saved = v.saved /\ d.stateMode = v.stateMode
      /\ d.regions = v.regions /\ d.CursorStart = v.CursorStart
      /\ d.FBFreeEnd = v.FBFreeEnd /\ d.bpp = v.oldBpp
  BY <1>3 DEF Drivers, SetUpOf, RingOf
<1>. HIDE DEF d
<1>7. x \in Screens /\ x.v = d /\ x.h = h /\ x.k = k
  BY <1>3, <1>6 DEF Screens
<1>. HIDE DEF x
<1>8. y \in Screens
  BY <1>3, <1>7, SwitchedDoes
<1>9. /\ z \in Screens /\ z.v = y.v /\ z.k = y.k
      /\ z.h.bpp = y.h.bpp /\ z.h.vq = y.h.vq /\ z.h.image = y.h.image
      /\ z.h.vblank = y.h.vblank /\ ("mode" \in f => z.h.missed)
  BY <1>3, <1>7, DGASwitchedDoes
<1>. HIDE DEF y, z
<1>10. /\ w \in Drivers /\ SetUpOf(w) = SetUpOf(y.v) /\ RingOf(w) = RingOf(y.v)
       /\ w.vtSema = y.v.vtSema /\ w.saved = y.v.saved /\ w.stateMode = y.v.stateMode
       /\ w.regions = y.v.regions /\ w.CursorStart = y.v.CursorStart
       /\ w.FBFreeEnd = y.v.FBFreeEnd /\ w.bpp = y.v.bpp /\ ~ w.dga
  BY <1>8, <1>9 DEF Screens, Drivers, SetUpOf, RingOf
<1>11. /\ e \in Hardware /\ e.bpp = y.h.bpp /\ e.vq = y.h.vq /\ e.image = y.h.image
       /\ e.vblank = y.h.vblank /\ e.missed = z.h.missed
  BY <1>9 DEF Screens, Hardware
<1>12. v' = w /\ h' = e /\ k' = y.k
  BY <1>5, <1>9 DEF Become, Screens
<1>. HIDE DEF w, e
<1>13. X' \in Screens
  BY <1>8, <1>10, <1>11, <1>12 DEF X, Screens
<1>14. /\ ConsoleKept' /\ RingKept' /\ MemoryKept'
       /\ "mode" \notin f => h'.bpp = DepthSet(v')
       /\ "mode" \in f => h'.bpp = h.bpp
       /\ opt.hwcursor => h'.image # "junk"
       /\ v'.bpp = x.v.bpp
       /\ v'.dri = v.dri /\ v'.pDRIInfo = v.pDRIInfo /\ k'.open = k.open
  <2>1. Displaying /\ pc' = "vt"
    BY <1>2 DEF Displaying
  <2>. QED
    BY <1>2, <1>6, <1>7, <1>10, <1>11, <1>12, <1>13, <2>1, SwitchedKeeps DEF y
<1>15. v'.bpp = opt.bpp /\ ~ v'.dga /\ ("mode" \in f => h'.missed)
  BY <1>2, <1>6, <1>7, <1>9, <1>10, <1>11, <1>12, <1>14 DEF LifeInv, ScreenKept
<1>16. LockCounted'
  BY <1>2, <1>14 DEF LifeInv, LockCounted, Locking
<1>17. LifeTypeOK'
  BY <1>2, <1>13 DEF LifeInv, LifeTypeOK
<1>18. ScreenKept'
  <2>1. opt.vbe > 0 => h.bpp = opt.bpp
    BY <1>2, <1>3, OptionFields DEF LifeInv, ScreenKept, Displaying, DepthSet
  <2>2. opt.vbe > 0 \/ opt.vbe = 0
    BY <1>3, OptionFields
  <2>3. h'.bpp = DepthSet(v') \/ (h'.missed /\ opt.vbe = 0)
    BY <1>14, <1>15, <2>1, <2>2 DEF DepthSet
  <2>. QED
    BY <1>2, <1>14, <1>15, <2>3 DEF ScreenKept, DepthSet
<1>. QED
  BY <1>14, <1>16, <1>17, <1>18 DEF LifeInv

(* The end of a generation.                                                *)
LEMMA CloseScreenLockedKeeps == ASSUME LifeInv, CloseScreenLocked PROVE LifeInv'
<1> DEFINE y == Closing
<1>1. /\ pc = "closing" \/ (pc = "away" /\ ~ client)
      /\ pc' = "down" /\ count' = 0 /\ awake' = FALSE /\ Become(y)
      /\ UNCHANGED <<opt, client, gen, visits, console, first>>
  BY DEF CloseScreenLocked
<1>2. X \in Screens /\ opt.vbe \in 0..2
  BY OptionFields DEF LifeInv, LifeTypeOK
<1>3. /\ y \in Screens /\ ~ y.v.vtSema
      /\ y.v.saved = v.saved /\ y.v.stateMode = v.stateMode
      /\ PlanOf(y.v) = PlanOf(v) /\ y.v.VQStart = v.VQStart /\ y.v.noAccel = v.noAccel
      /\ y.h.mode = (IF v.vtSema THEN IF opt.vbe > 0 THEN v.stateMode ELSE v.saved
                     ELSE h.mode)
      /\ ~ y.h.overlay /\ (v.vtSema \/ h.locked => y.h.locked)
      /\ y.k.open => k.open /\ ~ v.dri
      /\ y.h.vq => h.vq /\ (v.vtSema => ~ opt.vq)
  BY <1>2, ClosingDoes
<1>. HIDE DEF y
<1>4. v' = y.v /\ h' = y.h /\ k' = y.k /\ X' \in Screens
  BY <1>1, <1>3, BecomeScreen DEF Become
<1>5. /\ v'.regions = v.regions /\ v'.CursorStart = v.CursorStart
      /\ v'.FBFreeEnd = v.FBFreeEnd /\ v'.bpp = v.bpp /\ v'.dga = v.dga
  BY <1>3, <1>4 DEF PlanOf
<1>6. LifeTypeOK'
  BY <1>1, <1>4 DEF LifeInv, LifeTypeOK, States
<1>7. LockCounted'
  <2>1. ~ client /\ ~ k'.open
    BY <1>1, <1>3, <1>4 DEF LifeInv, LockCounted
  <2>. QED
    BY <1>1, <2>1 DEF LockCounted, Locking
<1>8. ConsoleKept'
  <2>1. ~ h'.vq
    BY <1>3, <1>4 DEF LifeInv, ConsoleKept
  <2>2. ModeKept'
    BY <1>1, <1>2, <1>3, <1>4 DEF LifeInv, ConsoleKept, ModeKept
  <2>3. h'.locked
    BY <1>1, <1>3, <1>4 DEF LifeInv, ConsoleKept
  <2>4. ~ opt.vq => v'.VQStart = 0
    BY <1>3, <1>4 DEF LifeInv, ConsoleKept
  <2>. QED
    BY <1>1, <1>3, <1>4, <2>1, <2>2, <2>3, <2>4 DEF ConsoleKept, Displaying
<1>9. RingKept' /\ ScreenKept'
  BY <1>1, <1>5 DEF LifeInv, RingKept, ScreenKept, Displaying
<1>10. MemoryKept'
  BY <1>1, <1>3, <1>4, <1>5, MemorySame DEF LifeInv
<1>. QED
  BY <1>6, <1>7, <1>8, <1>9, <1>10 DEF LifeInv

(* Between the hooks.                                                      *)
LEMMA LockTrafficKeeps ==
  ASSUME LifeInv, Wakeup \/ Block \/ ClientLock \/ ClientUnlock
  PROVE  LifeInv'
<1>1. UNCHANGED <<opt, pc, v, h, k, gen, visits, console, first>>
  BY DEF Wakeup, Block, ClientLock, ClientUnlock
<1>2. LockCounted' /\ count' \in Nat /\ client' \in BOOLEAN /\ awake' \in BOOLEAN
  <2>1. CASE Wakeup
    BY <2>1 DEF Wakeup, LifeInv, LifeTypeOK, LockCounted, Locking
  <2>2. CASE Block
    <3>1. awake /\ awake' = FALSE /\ count' = count - 1 /\ pc \in {"vt", "away"}
          /\ UNCHANGED <<pc, v, k, client>>
      BY <2>2 DEF Block
    <3>2. /\ v.dri /\ ~ client /\ client \in BOOLEAN
          /\ count = 1 + (IF pc = "away" THEN 1 ELSE 0)
          /\ k.open => v.pDRIInfo
      BY <3>1 DEF LifeInv, LifeTypeOK, LockCounted, Locking
    <3>3. /\ pc' = pc /\ v' = v /\ k' = k /\ ~ awake' /\ ~ client'
          /\ count' = (IF pc = "away" THEN 1 ELSE 0)
      BY <3>1, <3>2
    <3>4. Locking' <=> pc = "away"
      BY <3>1 DEF Locking
    <3>5. LockCounted'
      BY <3>1, <3>2, <3>3, <3>4 DEF LockCounted
    <3>6. count' \in Nat /\ client' \in BOOLEAN /\ awake' \in BOOLEAN
      <4>1. client' = client /\ awake' = FALSE /\ (count' = 0 \/ count' = 1)
        BY <3>1, <3>3
      <4>2. client' \in BOOLEAN
        BY <3>2, <4>1
      <4>3. awake' \in BOOLEAN
        BY <4>1, Zenon
      <4>4. count' \in Nat
        BY <4>1, SMT
      <4>. QED
        BY <4>2, <4>3, <4>4, Zenon
    <3>. QED
      BY <3>5, <3>6
  <2>3. CASE ClientLock
    <3>1. pc \in {"vt", "failed"}
      BY <2>3 DEF ClientLock, LifeInv, LifeTypeOK, States, LockCounted, Locking
    <3>. QED
      BY <2>3, <3>1 DEF ClientLock, LifeInv, LifeTypeOK, LockCounted, Locking
  <2>4. CASE ClientUnlock
    BY <2>4 DEF ClientUnlock, LifeInv, LifeTypeOK, LockCounted, Locking
  <2>. QED
    BY <2>1, <2>2, <2>3, <2>4
<1>3. LifeTypeOK'
  <2>1. X' = X
    BY <1>1 DEF X
  <2>. QED
    BY <1>1, <1>2, <2>1 DEF LifeInv, LifeTypeOK
<1>4. ConsoleKept' /\ RingKept' /\ ScreenKept'
  BY <1>1 DEF LifeInv, ConsoleKept, ModeKept, Crashed, RingKept, ScreenKept, DepthSet,
              Displaying
<1>5. MemoryKept'
  BY <1>1, MemorySame DEF LifeInv
<1>. QED
  BY <1>2, <1>3, <1>4, <1>5 DEF LifeInv

(* The server loads a cursor or puts a frame.                              *)
LEMMA DrawingKeeps == ASSUME LifeInv, LoadCursorImage \/ PutOverlay PROVE LifeInv'
<1>1. /\ pc = "vt" /\ UNCHANGED <<opt, pc, v, k, count, client, awake, gen, visits, console, first>>
      /\ h' = [h EXCEPT !.image = "X", !.cursor = TRUE] \/ h' = [h EXCEPT !.overlay = TRUE]
  BY DEF LoadCursorImage, PutOverlay
<1>2. v \in Drivers /\ h \in Hardware /\ k \in Kernels
  BY Parts DEF LifeInv
<1>3. /\ h' \in Hardware /\ h'.vq = h.vq /\ h'.vblank = h.vblank /\ h'.bpp = h.bpp
      /\ h'.mode = h.mode /\ h'.missed = h.missed
      /\ h'.image = h.image \/ h'.image = "X"
  BY <1>1, <1>2 DEF Hardware, Images
<1>4. LifeTypeOK'
  <2>1. X' \in Screens
    BY <1>1, <1>2, <1>3 DEF X, Screens
  <2>. QED
    BY <1>1, <2>1 DEF LifeInv, LifeTypeOK
<1>5. LockCounted' /\ MemoryKept'
  BY <1>1, MemorySame DEF LifeInv, LockCounted, Locking
<1>6. ConsoleKept'
  <2>1. v.vtSema
    BY <1>1 DEF LifeInv, ConsoleKept, Displaying
  <2>. QED
    BY <1>1, <1>3, <2>1 DEF LifeInv, ConsoleKept, ModeKept, Displaying
<1>7. RingKept'
  BY <1>1, <1>3 DEF LifeInv, RingKept, Displaying
<1>8. ScreenKept'
  BY <1>1, <1>3 DEF LifeInv, ScreenKept, DepthSet, Displaying
<1>. QED
  BY <1>4, <1>5, <1>6, <1>7, <1>8 DEF LifeInv

(* Every step of the driver keeps the invariant.                           *)
LEMMA NextLifeInv == LifeInv /\ [Next]_vars => LifeInv'
<1>. SUFFICES ASSUME LifeInv, [Next]_vars PROVE LifeInv'
  OBVIOUS
<1>1. CASE ScreenInit
  BY <1>1, ScreenInitKeeps
<1>2. CASE LeaveVT \/ SwitchMode \/ CloseScreen
  BY <1>2, LockKeeps
<1>3. CASE LeaveVTLocked
  BY <1>3, LeaveVTLockedKeeps
<1>4. CASE Abort
  BY <1>4, AbortKeeps
<1>5. CASE ConsoleDraws
  BY <1>5, ConsoleDrawsKeeps
<1>6. CASE EnterVT
  BY <1>6, EnterVTKeeps
<1>7. CASE SwitchModeLocked
  BY <1>7, SwitchModeLockedKeeps
<1>8. CASE DGASetMode
  BY <1>8, DGASetModeKeeps
<1>9. CASE DGAEnd
  BY <1>9, DGAEndKeeps
<1>10. CASE CloseScreenLocked
  BY <1>10, CloseScreenLockedKeeps
<1>11. CASE Wakeup \/ Block \/ ClientLock \/ ClientUnlock
  BY <1>11, LockTrafficKeeps
<1>12. CASE LoadCursorImage \/ PutOverlay
  BY <1>12, DrawingKeeps
<1>13. CASE UNCHANGED vars
  <2>1. X' = X
    BY <1>13 DEF vars, X
  <2>2. LifeTypeOK' /\ LockCounted'
    BY <1>13, <2>1 DEF vars, LifeInv, LifeTypeOK, LockCounted, Locking
  <2>3. ConsoleKept' /\ RingKept' /\ ScreenKept'
    BY <1>13 DEF vars, LifeInv, ConsoleKept, ModeKept, Crashed, RingKept, ScreenKept,
                 DepthSet, Displaying
  <2>4. MemoryKept'
    BY <1>13, MemorySame DEF vars, LifeInv
  <2>. QED
    BY <2>2, <2>3, <2>4 DEF LifeInv
<1>. QED
  BY <1>1, <1>2, <1>3, <1>4, <1>5, <1>6, <1>7, <1>8, <1>9, <1>10, <1>11, <1>12, <1>13 DEF Next

(* What the driver hands on from hook to hook, in every generation and     *)
(* after any failure.                                                      *)
THEOREM LifeInvariant == Spec => []LifeInv
<1>. QED
  BY InitLifeInv, NextLifeInv, PTL DEF Spec

(* Whoever gets the screen back from viaLeaveVT, VIACloseScreen or a       *)
(* server that gives up finds its mode (or the first one, from VBE 2 on),  *)
(* no queue or overlay running, and the registers locked; but for a server *)
(* that crashes on a closed DRI, and for the registers when the first mode *)
(* of a generation cannot be set, which VIAScreenInit leaves unlocked.     *)
THEOREM ConsoleAlwaysRestored == Spec => []ConsoleRestored
<1>1. ASSUME LifeInv PROVE ConsoleRestored
  <2>1. SUFFICES ASSUME pc \in {"away", "down", "dead"}, ~ Crashed
                 PROVE  /\ h.mode = console \/ (opt.vbe = 2 /\ h.mode = first)
                        /\ ~ h.vq /\ ~ h.overlay
                        /\ h.locked \/ (pc = "dead" /\ v.FirstInit)
    BY DEF ConsoleRestored
  <2>2. ~ v.vtSema
    BY <1>1, <2>1 DEF LifeInv, ConsoleKept
  <2>3. h.mode = console \/ (opt.vbe = 2 /\ h.mode = first)
    BY <1>1, <2>2 DEF LifeInv, ConsoleKept, ModeKept
  <2>. QED
    BY <1>1, <2>1, <2>2, <2>3 DEF LifeInv, ConsoleKept
<1>. QED
  BY <1>1, LifeInvariant, PTL

(* No client holds the DRI lock, which VIALeaveVT takes and VIAEnterVT     *)
(* gives back, while the screen is not in the server's mode.               *)
THEOREM ClientsAlwaysExcluded == Spec => []ClientsExcluded
<1>1. LifeInv => ClientsExcluded
  BY DEF LifeInv, LockCounted, ClientsExcluded
<1>. QED
  BY <1>1, LifeInvariant, PTL

(* After every hook the command ring runs unless it was refused, the       *)
(* driver knows whether it does, and its interrupt is not silent.          *)
THEOREM EngineAlwaysReady == Spec => []EngineReady
<1>1. LifeInv => EngineReady
  BY DEF LifeInv, RingKept, Displaying, EngineReady
<1>. QED
  BY <1>1, LifeInvariant, PTL

(* The screen has the depth the server draws in, unless DGA's mode could   *)
(* not be set, or the server's own depth where a VBE sets modes, which     *)
(* ViaVbeSetMode does by numbers chosen at the start; the cursor has an    *)
(* image of the server's.                                                  *)
THEOREM ScreenAlwaysAsDrawn == Spec => []ScreenAsDrawn
<1>1. ASSUME LifeInv PROVE ScreenAsDrawn
  <2>1. SUFFICES ASSUME pc = "vt"
                 PROVE  /\ IF opt.vbe > 0 THEN h.bpp = opt.bpp
                           ELSE h.missed \/ h.bpp = v.bpp
                        /\ v.dga \/ v.bpp = opt.bpp
                        /\ opt.hwcursor => h.image # "junk"
    BY DEF ScreenAsDrawn
  <2>2. opt.vbe \in 0..2
    BY <1>1, OptionFields DEF LifeInv, LifeTypeOK
  <2>3. /\ h.bpp = DepthSet(v) \/ (h.missed /\ opt.vbe = 0)
        /\ v.dga \/ v.bpp = opt.bpp
        /\ opt.hwcursor => h.image # "junk"
    BY <1>1, <2>1 DEF LifeInv, ScreenKept, Displaying
  <2>. QED
    BY <2>2, <2>3 DEF DepthSet
<1>. QED
  BY <1>1, LifeInvariant, PTL

(* Where memory holds the screen and what was taken from its end, for any  *)
(* sizes, no two of the parts that the driver, its allocators and the DRM  *)
(* have overlap, and none ends beyond memory.  viaInitAccel asks for the   *)
(* room of the queue only; the rest of it is this theorem's condition.     *)
THEOREM RegionsAlwaysDisjoint == Spec => []RegionsDisjoint
<1>1. ASSUME LifeInv PROVE RegionsDisjoint
  BY <1>1 DEF LifeInv, MemoryKept, Tidy, Apart, RegionsDisjoint, Disjoint
<1>. QED
  BY <1>1, LifeInvariant, PTL
=============================================================================
