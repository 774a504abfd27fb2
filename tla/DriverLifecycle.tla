---------------------------- MODULE DriverLifecycle ----------------------------
(***************************************************************************)
(* The life of a screen (via_driver.c, via_dri.c): server generations that *)
(* start and end, virtual terminals left and entered, mode and DGA         *)
(* switches, each with what it starts, suspends and hands back: the mode   *)
(* of the console, the virtual queue, the AGP ring buffer, the vertical    *)
(* blank interrupt, the cursor, the overlay, the DRI lock and the video    *)
(* memory.                                                                 *)
(*                                                                         *)
(* The driver is one thread.  A hook that takes the DRI lock is cut in two *)
(* where it has the lock, since direct rendering clients run in between;   *)
(* the rest of a hook is one step, built of operators on x, a record of    *)
(* the driver's fields (v), the hardware (h) and the kernel's DRM (k).     *)
(* DRILock and DRIUnlock count: the server holds the lock while it is      *)
(* awake, and a hook may ask for it again.                                 *)
(***************************************************************************)
EXTENDS Integers, FiniteSets

CONSTANTS
  Options,       \* the configurations (vbe: none, one before VBE 2, one since)
  FailSets,      \* sets of steps that fail together in one hook
  ConsoleModes,  \* modes the console may be in
  DGADepths,     \* depths of the modes of DGA
  MaxGenerations, MaxVisits,            \* bounds: generations, console switches
  Bpl, VirtualY,                        \* bytes per line, lines
  VQSize, CursorSize                    \* VIA_VQ_SIZE, VIA_CURSOR_SIZE

None == "none"

ASSUME LifecycleAssumption ==
  /\ {Bpl, VirtualY, VQSize, CursorSize} \subseteq Nat \ {0}
  /\ Options \subseteq [noAccel : BOOLEAN, bpp : Nat, vbe : 0..2, vq : BOOLEAN,
                         hwcursor : BOOLEAN, exa : BOOLEAN, agp : BOOLEAN,
                         irq : BOOLEAN, dma2d : BOOLEAN, shadow : BOOLEAN, ram : Nat]
  /\ None \notin ConsoleModes /\ DGADepths \subseteq Nat
  /\ MaxGenerations \in Nat /\ MaxVisits \in Nat

VARIABLES
  opt,           \* the configuration of this server
  pc,            \* "down", "vt", "away", the hook that has the lock, "dead"
  v, h, k,       \* driver, hardware, kernel
  count, client, \* DRI lock: how often the server has it, whether a client has
  awake,         \* the server is between its wakeup and its block handler
  gen, visits,   \* generations and console switches so far
  console,       \* the mode the console was left in
  first          \* the one the server found at first

vars == <<opt, pc, v, h, k, count, client, awake, gen, visits, console, first>>
X == [v |-> v, h |-> h, k |-> k]
Become(x) == v' = x.v /\ h' = x.h /\ k' = x.k
Ram == opt.ram

(* held: what the DRM holds for this server; closing it lets go of all.    *)
Closed == [open |-> FALSE, held |-> {}]
Init ==
  /\ opt \in Options
  /\ pc = "down" /\ gen = 0 /\ visits = 0
  /\ console \in ConsoleModes /\ first = console
  /\ v = [vtSema |-> FALSE, FirstInit |-> FALSE, saved |-> None, stateMode |-> None,
          noAccel |-> opt.noAccel, dri |-> FALSE, pDRIInfo |-> FALSE, agpDMA |-> FALSE,
          ringBufActive |-> FALSE, ringRefused |-> FALSE, irq |-> FALSE,
          driSize |-> 0, VQStart |-> 0, CursorStart |-> 0,
          FBFreeStart |-> 0, FBFreeEnd |-> 0, regions |-> {},
          cursorImage |-> None, cursorOn |-> FALSE, overlay |-> FALSE,
          bpp |-> opt.bpp, oldBpp |-> 0, dga |-> FALSE]
  /\ h = [mode |-> console, vq |-> FALSE, overlay |-> FALSE,
          cursor |-> FALSE, image |-> None, vblank |-> FALSE, bpp |-> 0,
          locked |-> TRUE, missed |-> FALSE]
  /\ k = Closed
  /\ count = 0 /\ client = FALSE /\ awake = FALSE

-----------------------------------------------------------------------------
(* Mode, console and memory. *)

(* The VBE keeps the mode number of the first save as long as it has a     *)
(* state buffer, which it has from VBE 2 on.                               *)
VbeSave(x) == [x EXCEPT !.v.stateMode = IF opt.vbe = 2 /\ @ # None THEN @ ELSE x.h.mode]
Save(x) == [VbeSave(x) EXCEPT !.v.saved = x.h.mode]

(* Mutant: with a VBE, too, only the state is restored. *)
RestoreState(x) == [x EXCEPT !.h.mode = IF opt.vbe > 0 THEN @ ELSE x.v.saved,
                             !.h.locked = TRUE]

(* Wherever the console is restored, the VGA registers are locked.         *)
Restore(x) ==
  [x EXCEPT !.h = [@ EXCEPT !.mode = IF opt.vbe > 0 THEN x.v.stateMode ELSE x.v.saved,
                            !.locked = TRUE]]

Initialize2DEngine(x) == [x EXCEPT !.h.vq = x.v.VQStart # 0]
DisableVQ(x) == IF opt.vq THEN [x EXCEPT !.h.vq = FALSE] ELSE x

(* VIAWriteMode, or ViaVbeSetMode: setting a mode silences the vertical    *)
(* blank interrupt.  The depth is what the driver has, but a mode of the   *)
(* VBE has a number that was chosen for the depth the server started with. *)
SetMode(x, f) ==
  LET y == [v |-> [x.v EXCEPT !.vtSema = TRUE],
            h |-> [x.h EXCEPT !.mode = "X", !.vblank = FALSE, !.missed = FALSE,
                              !.bpp = IF opt.vbe > 0 THEN opt.bpp ELSE x.v.bpp],
            k |-> x.k]
  IN  IF "mode" \in f THEN x
      ELSE IF x.v.noAccel THEN y ELSE Initialize2DEngine(y)

(* The first mode of a generation, set with the registers unlocked; they   *)
(* stay so if it cannot be set.                                            *)
FirstMode(x, f) ==
  [SetMode([x EXCEPT !.h.locked = FALSE], f) EXCEPT !.v.FirstInit = "mode" \in f]

Region(name, lo, hi) == [name |-> name, lo |-> lo, hi |-> hi]
ScreenEnd == VirtualY * Bpl
AddRegion(x, r) ==
  IF r.lo < r.hi THEN [x EXCEPT !.v.regions = @ \cup {r}] ELSE x

MapFB(x) ==
  [x EXCEPT !.v.FBFreeStart = ScreenEnd, !.v.FBFreeEnd = Ram,
            !.v.regions = {Region("screen", 0, ScreenEnd)}]

(* n bytes from the end of what is free. *)
Top(x, name, n) ==
  AddRegion([x EXCEPT !.v.FBFreeEnd = @ - n],
            Region(name, x.v.FBFreeEnd - n, x.v.FBFreeEnd))

Lesser(a, b) == IF a < b THEN a ELSE b

(* The virtual queue, the cursor and the marker at the end of memory, and  *)
(* what EXA or XAA may use in front of them.                               *)
InitAccel(x, f) ==
  LET vq == opt.vq /\ x.v.FBFreeEnd - x.v.FBFreeStart >= VQSize
      a  == IF vq THEN Top(x, "vq", VQSize) ELSE x
      b  == Initialize2DEngine(
              [a EXCEPT !.v.VQStart = IF vq THEN a.v.FBFreeEnd ELSE 0])
      c  == IF opt.hwcursor THEN Top(b, "cursor", CursorSize) ELSE b
      d  == Top([c EXCEPT !.v.CursorStart = IF opt.hwcursor THEN c.v.FBFreeEnd ELSE @],
                "marker", 32)
      free == d.v.FBFreeEnd - d.v.FBFreeStart
      maxY == Lesser(4 * VirtualY,
                     IF d.v.dri THEN VirtualY + (free \div 2) \div Bpl
                     ELSE d.v.FBFreeEnd \div Bpl)
      e  == [d EXCEPT !.v.FBFreeStart = (maxY + 1) * Bpl]
  IN  IF opt.exa
      THEN IF "exa" \in f THEN [d EXCEPT !.v.noAccel = TRUE]
           ELSE AddRegion([d EXCEPT !.v.driSize = free \div 2],
                          Region("exa", ScreenEnd, d.v.FBFreeEnd))
      ELSE AddRegion(
             AddRegion([e EXCEPT !.v.driSize = e.v.FBFreeEnd - e.v.FBFreeStart - Bpl],
                       Region("pixmaps", ScreenEnd, maxY * Bpl)),
             Region("linear", e.v.FBFreeStart, e.v.FBFreeEnd))

(* Mutant: the cursor gets memory that stays free. *)
HWCursorInitNoSpace(x) ==
  LET start == IF x.v.CursorStart = 0 THEN x.v.FBFreeEnd - CursorSize ELSE x.v.CursorStart
  IN  [AddRegion(x, Region("cursor", start, start + CursorSize))
         EXCEPT !.v.CursorStart = start, !.h.image = None, !.h.cursor = FALSE]

(* Without acceleration the cursor takes its memory here, unless it has    *)
(* some from an earlier generation.                                        *)
HWCursorInit(x) ==
  LET y == IF x.v.CursorStart = 0
           THEN Top([x EXCEPT !.v.CursorStart = x.v.FBFreeEnd - CursorSize],
                    "cursor", CursorSize)
           ELSE AddRegion(x, Region("cursor", x.v.CursorStart,
                                    x.v.CursorStart + CursorSize))
  IN  [y EXCEPT !.h.image = None, !.h.cursor = FALSE]

(* The framebuffer manager of a server without acceleration; it takes the  *)
(* place of any allocator set up before the command buffer failed.         *)
InitLinear(x) ==
  LET start == (VirtualY + 2) * Bpl
      y == [x EXCEPT !.v.FBFreeStart = start,
                     !.v.driSize = x.v.FBFreeEnd - start - Bpl,
                     !.v.regions = {r \in @ : r.name \notin {"exa", "pixmaps", "linear"}}]
  IN  AddRegion(AddRegion(y, Region("pixmaps", ScreenEnd, ScreenEnd + Bpl)),
                Region("linear", start, x.v.FBFreeEnd))

-----------------------------------------------------------------------------
(* The DRM. *)

RingCleanup(x) ==
  IF x.v.ringBufActive
  THEN [x EXCEPT !.k.held = @ \ {"ring"}, !.v.ringBufActive = FALSE] ELSE x

(* Without AGP memory the kernel has no ring to offer. *)
RingInit(x, f) ==
  IF x.v.ringBufActive \/ ~opt.agp THEN x
  ELSE IF "ring" \in f \/ "agp" \notin x.k.held
  THEN [x EXCEPT !.v.ringRefused = TRUE]
  ELSE [x EXCEPT !.v.ringBufActive = TRUE, !.k.held = @ \cup {"ring"}]

(* Any step that fails undoes the ones before it. *)
AgpInit(x, f) ==
  IF f \cap {"acquire", "alloc", "addmap", "agpinit"} # {} THEN x
  ELSE [x EXCEPT !.k.held = @ \cup {"agp"}]

DriClose(x) == [RingCleanup(x) EXCEPT !.k = Closed, !.v.irq = FALSE, !.v.pDRIInfo = FALSE]

DriScreenInit(x, f) ==
  IF f \cap {"symbols", "drm", "version", "maps"} # {}
  THEN [x EXCEPT !.v.dri = FALSE, !.v.pDRIInfo = FALSE]
  ELSE [x EXCEPT !.v.dri = TRUE, !.v.pDRIInfo = TRUE, !.v.ringBufActive = FALSE,
                 !.v.irq = FALSE, !.k = [open |-> TRUE, held |-> {}]]

(* The heap comes from EXA's memory or from the linear memory, which there *)
(* is none of yet without acceleration.                                    *)
HeapFits(x) == x.v.driSize >= Bpl /\ ~x.v.noAccel

(* What the DRM gives to its clients is taken from the start of it.        *)
Heap(x) ==
  LET lo == IF opt.exa THEN ScreenEnd ELSE x.v.FBFreeStart
      hi == lo + x.v.driSize
  IN  [x EXCEPT !.v.regions =
         {r \in @ : r.name \notin {"exa", "linear"}}
           \cup {Region("heap", lo, hi),
                 Region(IF opt.exa THEN "exa" ELSE "linear", hi, x.v.FBFreeEnd)}]

DriFinishScreenInit(x, f) ==
  LET a == AgpInit(x, f)
      b == IF opt.irq /\ "irq" \notin f
           THEN [a EXCEPT !.v.irq = TRUE, !.k.held = @ \cup {"irq"}, !.h.vblank = TRUE]
           ELSE a
  IN  IF f \cap {"heap", "kernel"} # {} \/ ~HeapFits(x)
      THEN [DriClose(a) EXCEPT !.v.dri = FALSE]
      ELSE RingInit([Heap(b) EXCEPT !.v.ringBufActive = FALSE], f)

(* Mutant: the interrupt stays silent. *)
KickVblankNot(x) == x
KickVblank(x) == IF x.v.irq THEN [x EXCEPT !.h.vblank = TRUE] ELSE x

-----------------------------------------------------------------------------
(* The hooks. *)

(* viaFinishInitAccel; a command buffer that cannot be had ends            *)
(* acceleration.                                                           *)
FinishInitAccel(x, f) == IF "cbuffer" \in f THEN [x EXCEPT !.v.noAccel = TRUE] ELSE x

(* The stages of VIAScreenInit after the mode is set, each for the servers *)
(* that have it.                                                           *)
AccelStage(x, f) == IF x.v.noAccel THEN x ELSE InitAccel(x, f)
CursorStage(x) == IF opt.hwcursor THEN HWCursorInit(x) ELSE x
DriStage(x, f) == IF x.v.dri THEN DriFinishScreenInit(x, f) ELSE x
DmaStage(x) == [x EXCEPT !.v.agpDMA = x.v.dri /\ opt.dma2d /\ x.v.ringBufActive]
BufferStage(x, f) == IF x.v.noAccel THEN x ELSE FinishInitAccel(x, f)
LinearStage(x) == IF x.v.noAccel THEN InitLinear(x) ELSE x

(* A step that fails ends the server, but for those that only cost DRI or  *)
(* acceleration.                                                           *)
ScreenInit ==
  /\ pc = "down" /\ gen < MaxGenerations /\ gen' = gen + 1
  /\ \E f \in FailSets :
       LET b == FirstMode(Save(MapFB(X)), f)
           c == CursorStage(AccelStage(DriScreenInit(b, f), f))
           d == DriStage([c EXCEPT !.v.agpDMA = FALSE, !.v.ringRefused = FALSE], f)
           e == LinearStage(BufferStage(DmaStage(d), f))
       IN  IF f \cap {"fb", "mmio"} # {} THEN Become(X) /\ pc' = "failed"
           ELSE IF f \cap {"mode", "visuals"} # {} THEN Become(b) /\ pc' = "failed"
           ELSE IF "colormap" \in f THEN Become(c) /\ pc' = "failed"
           ELSE Become(e) /\ pc' = "vt"
  /\ UNCHANGED <<opt, count, client, awake, visits, console, first>>

(* Mutant: a client that has the lock is not waited for. *)
LockAtOnce == /\ count' = IF v.dri THEN count + 1 ELSE count
              /\ UNCHANGED <<opt, v, h, k, client, awake, gen, visits, console, first>>

(* DRILock, for a screen whose direct rendering is on: it waits for the    *)
(* client that has it.                                                     *)
Lock == /\ v.dri => ~client
        /\ count' = IF v.dri THEN count + 1 ELSE count
        /\ UNCHANGED <<opt, v, h, k, client, awake, gen, visits, console, first>>
Unlock == count' = IF v.dri THEN count - 1 ELSE count

\* DGA does not let the server go.
LeaveVT == pc = "vt" /\ ~v.dga /\ Lock /\ pc' = "leaving"
SwitchMode == pc = "vt" /\ ~v.dga /\ Lock /\ pc' = "switching"
CloseScreen == pc = "vt" /\ ~v.dga /\ Lock /\ pc' = "closing"

CursorStore(x) == IF opt.hwcursor
                  THEN [x EXCEPT !.v.cursorImage = x.h.image, !.v.cursorOn = x.h.cursor]
                  ELSE x

CursorRestore(x) == IF opt.hwcursor
                    THEN [x EXCEPT !.h.image = v.cursorImage, !.h.cursor = v.cursorOn,
                                   !.v.cursorImage = None]
                    ELSE x
SaveVideo(x) == [x EXCEPT !.v.overlay = x.h.overlay, !.h.overlay = FALSE]

(* Before the driver's own hook, xf86xv stops the ports that are on, and   *)
(* the cursor layer hides the cursor.                                      *)
Left ==
  LET a == [X EXCEPT !.h.overlay = FALSE, !.h.cursor = FALSE]
      b == IF v.dri THEN RingCleanup(a) ELSE a
      c == CursorStore(SaveVideo(DisableVQ(b)))
  IN  Restore(c)

LeaveVTLocked ==
  /\ pc = "leaving" /\ pc' = "away"
  /\ Become([Left EXCEPT !.v.vtSema = FALSE])
  /\ UNCHANGED <<opt, count, client, awake, gen, visits, console, first>>

(* A server that gives up, at any time, leaves the terminal if it has it,  *)
(* and crashes if it takes direct rendering to be on that is closed: as it *)
(* does after a generation that had it, until VIADRIScreenInit is reached. *)
Abort ==
  /\ pc = "failed" \/ (pc = "vt" /\ ~v.dga)
  /\ pc' = "dead"
  /\ v.dri => ~client
  /\ count' = IF v.dri /\ v.pDRIInfo THEN count + 1 ELSE count
  /\ Become(IF v.vtSema /\ (v.dri => v.pDRIInfo) THEN [Left EXCEPT !.v.vtSema = FALSE] ELSE X)
  /\ UNCHANGED <<opt, client, awake, gen, visits, console, first>>

(* Somebody else has the screen and its memory. *)
ConsoleDraws ==
  /\ pc = "away" /\ visits < MaxVisits /\ visits' = visits + 1
  /\ \E m \in ConsoleModes : console' = m /\ h' = [h EXCEPT !.mode = m, !.image = "junk"]
  /\ UNCHANGED <<opt, pc, v, k, count, client, awake, gen, first>>

(* The server gives up if the mode cannot be set. *)
EnterVT ==
  /\ pc = "away"
  /\ \E f \in FailSets :
       LET a == CursorRestore(SetMode(Save([X EXCEPT !.v.vtSema = TRUE]), f))
           b == [a EXCEPT !.h = [@ EXCEPT !.overlay = v.overlay, !.locked = FALSE]]
       IN  /\ Become(IF v.dri THEN RingInit(KickVblank(b), f) ELSE b)
           /\ pc' = IF "mode" \in f THEN "failed" ELSE "vt"
  /\ Unlock
  /\ UNCHANGED <<opt, client, awake, gen, visits, console, first>>

Switched(x, f) ==
  LET a == DisableVQ(IF x.v.dri THEN RingCleanup(x) ELSE x)
      b == SetMode(a, f)
  IN  IF x.v.dri THEN RingInit(KickVblank(b), f) ELSE b

SwitchModeLocked ==
  /\ pc = "switching" /\ pc' = "vt"
  /\ \E f \in FailSets : Become(Switched(X, f))
  /\ Unlock
  /\ UNCHANGED <<opt, client, awake, gen, visits, console, first>>

(* DGA ignores that its mode could not be set.                             *)
DGASwitched(x, f) == [Switched(x, f) EXCEPT !.h.missed = @ \/ "mode" \in f]

(* Mutant: each mode of DGA saves the depth that is found. *)
DGASetModeSavesAlways ==
  /\ pc = "vt" /\ ~opt.shadow
  /\ v.dri => ~client
  /\ \E b \in DGADepths, f \in FailSets :
       Become(DGASwitched([X EXCEPT !.h.cursor = @ /\ ~opt.hwcursor, !.v.oldBpp = v.bpp,
                                    !.v.dga = TRUE, !.v.bpp = b], f))
  /\ UNCHANGED <<opt, pc, count, client, awake, gen, visits, console, first>>

(* DGA switches the mode with a depth of its own, any number of times, and *)
(* back to the one it found.                                               *)
DGASetMode ==
  /\ pc = "vt" /\ ~opt.shadow
  /\ v.dri => ~client
  /\ \E b \in DGADepths, f \in FailSets :
       LET old == IF v.dga THEN v.oldBpp ELSE v.bpp
       IN  Become(DGASwitched([X EXCEPT !.h.cursor = @ /\ ~opt.hwcursor, !.v.oldBpp = old,
                                        !.v.dga = TRUE, !.v.bpp = b], f))
  /\ UNCHANGED <<opt, pc, count, client, awake, gen, visits, console, first>>

DGAEnd ==
  /\ pc = "vt" /\ v.dga
  /\ v.dri => ~client
  /\ \E f \in FailSets :
       Become([DGASwitched([X EXCEPT !.v.bpp = v.oldBpp], f)
                 EXCEPT !.h.cursor = @ \/ opt.hwcursor, !.v.dga = FALSE])
  /\ UNCHANGED <<opt, pc, count, client, awake, gen, visits, console, first>>

(* The rest of VIACloseScreen, on the terminal or away from it, where it   *)
(* leaves hardware and mappings alone.  The clients are gone, and with     *)
(* them what their ports showed.  The screen is never a secondary one      *)
(* (ViaOutputsSelect refuses to start it).                                 *)
Closing ==
  LET z == [X EXCEPT !.h.overlay = FALSE]
      a == IF v.vtSema THEN DisableVQ([z EXCEPT !.h.cursor = FALSE]) ELSE z
      b == IF v.dri THEN DriClose(a) ELSE a
  IN  [(IF v.vtSema THEN Restore(b) ELSE b) EXCEPT !.v.vtSema = FALSE]

CloseScreenLocked ==
  /\ pc = "closing" \/ (pc = "away" /\ ~client)
  /\ pc' = "down" /\ count' = 0 /\ awake' = FALSE
  /\ Become(Closing)
  /\ UNCHANGED <<opt, client, gen, visits, console, first>>

-----------------------------------------------------------------------------
(* Between the hooks: handlers of the server, other drawing, clients. *)

Wakeup ==
  /\ pc \in {"vt", "away"} /\ v.dri /\ ~awake /\ ~client
  /\ awake' = TRUE /\ count' = count + 1
  /\ UNCHANGED <<opt, pc, v, h, k, client, gen, visits, console, first>>

Block ==
  /\ pc \in {"vt", "away"} /\ awake
  /\ awake' = FALSE /\ count' = count - 1
  /\ UNCHANGED <<opt, pc, v, h, k, client, gen, visits, console, first>>

ClientLock ==
  /\ k.open /\ v.dri /\ pc # "down" /\ count = 0 /\ ~client
  /\ client' = TRUE
  /\ UNCHANGED <<opt, pc, v, h, k, count, awake, gen, visits, console, first>>

ClientUnlock ==
  /\ client /\ client' = FALSE
  /\ UNCHANGED <<opt, pc, v, h, k, count, awake, gen, visits, console, first>>

LoadCursorImage ==
  /\ pc = "vt" /\ opt.hwcursor /\ ~v.dga
  /\ h' = [h EXCEPT !.image = "X", !.cursor = TRUE]
  /\ UNCHANGED <<opt, pc, v, k, count, client, awake, gen, visits, console, first>>

PutOverlay ==
  /\ pc = "vt" /\ h' = [h EXCEPT !.overlay = TRUE]
  /\ UNCHANGED <<opt, pc, v, k, count, client, awake, gen, visits, console, first>>

Next ==
  \/ ScreenInit \/ LeaveVT \/ LeaveVTLocked \/ Abort \/ ConsoleDraws \/ EnterVT
  \/ SwitchMode \/ SwitchModeLocked \/ DGASetMode \/ DGAEnd
  \/ CloseScreen \/ CloseScreenLocked
  \/ Wakeup \/ Block \/ ClientLock \/ ClientUnlock \/ LoadCursorImage \/ PutOverlay

Spec == Init /\ [][Next]_vars
-----------------------------------------------------------------------------

(* Whoever gets the screen back, the console or another server, finds it   *)
(* as it was left: its mode (or, from VBE 2 on, the one the server found   *)
(* at first, whose number is all the driver keeps), no virtual queue that  *)
(* still fetches commands, no overlay, and the registers locked - after    *)
(* any number of mode switches and visits.  So it is when the server gives *)
(* up halfway, but for two ways: it crashes in a later generation, before  *)
(* it has opened DRI anew, and it leaves the registers unlocked when the   *)
(* first mode of a generation cannot be set.                               *)
Crashed == pc = "dead" /\ v.dri /\ ~v.pDRIInfo
ConsoleRestored ==
  pc \in {"away", "down", "dead"} /\ gen > 0 =>
    \/ Crashed
    \/ /\ h.mode = console \/ (opt.vbe = 2 /\ h.mode = first)
       /\ ~h.vq /\ ~h.overlay
       /\ h.locked \/ (pc = "dead" /\ v.FirstInit)

(* The same without those exceptions, which the code does not meet.        *)
ConsoleAsFound ==
  pc \in {"away", "down", "dead"} /\ gen > 0 =>
    h.mode = console /\ ~h.vq /\ ~h.overlay /\ h.locked

(* A client that renders directly does so while the server has the screen  *)
(* in its mode: not on the console's screen, in a mode switch, or after.   *)
ClientsExcluded ==
  client => pc = "vt" \/ pc = "failed"

(* What rendering relies on is there again after every hook: commands go   *)
(* through a ring that runs unless the kernel refused it, and an interrupt *)
(* that the driver counts on is not silent.                                *)
EngineReady ==
  pc = "vt" /\ v.dri =>
    /\ v.agpDMA /\ ~v.ringRefused => "ring" \in k.held
    /\ v.ringBufActive <=> "ring" \in k.held
    /\ v.irq => h.vblank

(* Where memory holds the screen and what is taken from its end (and a     *)
(* line more without acceleration), visible memory, queue, cursor, marker, *)
(* what the DRM and what the allocators may hand out never overlap.  No    *)
(* line of the code asks for that room but for the queue's.  A server      *)
(* without acceleration has lost its cursor's memory in its second         *)
(* generation, and shares what it gives out with the DRM if acceleration   *)
(* ended after the DRM had its part.                                       *)
Roomy == v.FBFreeEnd >= ScreenEnd + (IF v.noAccel THEN Bpl ELSE 0)
Claimed == {r \in v.regions : v.noAccel => r.name # "heap"}
Disjoint(R) == \A r, s \in R : /\ r.hi <= Ram
                               /\ r = s \/ r.hi <= s.lo \/ s.hi <= r.lo
RegionsDisjoint ==
  Roomy /\ ~(v.noAccel /\ opt.hwcursor /\ gen > 1) => Disjoint(Claimed)

(* The same with any memory, which the code does not meet.                 *)
RegionsNeverOverlap == ~v.noAccel => Disjoint(v.regions)

(* The screen is in the depth the server draws in, its own one when no DGA *)
(* client has asked for another, and a hardware cursor shows what the      *)
(* server has loaded, not what the console has made of its memory.  A DGA  *)
(* switch that failed has left the depth as it was, until the next mode;   *)
(* with a VBE the screen never leaves the server's own.                    *)
ScreenAsDrawn ==
  pc = "vt" => /\ IF opt.vbe > 0 THEN h.bpp = opt.bpp ELSE h.missed \/ h.bpp = v.bpp
               /\ v.dga \/ v.bpp = opt.bpp
               /\ opt.hwcursor => h.image # "junk"

(* The same for DGA whatever fails, which the code does not meet.          *)
DepthAsDrawn == pc = "vt" => h.bpp = v.bpp
=============================================================================
