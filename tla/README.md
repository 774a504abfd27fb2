# A TLA+ verification of xf86-video-via

This directory holds TLA+ models of the X.Org driver for VIA Unichrome graphics
(`src/`): the TLC runs that check them on small instances, and theorems about
them whose proofs TLAPS checks. The driver is two programs that share memory and
hardware: the driver module in the X server (`src/src/*.c`) and the XvMC client
library (`src/src/xvmc/*.c`) that every playing client loads. What is hard in it
is between them: a lock in shared memory, commands that are executed later, an
overlay that is programmed from both sides, and caches that let a call leave
work out.

Line numbers are those of this repository; `file:line` without a directory is
under `src/src/` or `src/src/xvmc/`.

## 1. Inventory

### Components that are modelled

| component | state | operations | interacts through |
|---|---|---|---|
| **decoder lock** `via_drmclient.h` | one 32-bit word per lock in the SAREA: last owner, HELD, CONT bits | `UNICHROME_LOCK`, `UNICHROME_UNLOCK`, used by `grabDecoder`, `releaseDecoder` | SAREA word; `VIA_FUTEX_WAIT/WAKE` ioctls; the DRM frees it for a dead context |
| **decoding session** `viaXvMC.c`, `viaLowLevel.c` | per context `haveDecoder`, `rendSurf`, matrices and their loaded flags, time stamps, `agp_buffer`; per surface `needsSync`, `timeStamp` | `XvMCBeginSurface`, `XvMCPutSlice(2)`, `XvMCFlushSurface`, `XvMCSyncSurface`, `XvMCLoadQMatrix` | decoder lock; the one command ring; time stamps the ring writes to memory |
| **overlay display** `viaXvMC.c`, `via_xvmc.c` | SAREA `XvMCDisplaying`, `XvMCSubPicOn`; client `lastSrfDisplaying`, regions, attributes; server `ctxDisplaying`, `xvAttr`, `newAttribute` | `XvMCPutSurface`, `XvMCHideSurface`, `XvMCSetAttribute`; intercepted `XvPutImage` and attribute calls; plain Xv | hardware lock, SAREA, X requests (some not waited for) |
| **XvMC server resources** `via_xvmc.c`, `via_memory.c` | tables of contexts, surfaces and subpictures, `nContexts`, `nSurfaces`, port number, video memory | `ViaInitXVMC`, `ViaCleanupXVMC`, create and destroy of contexts, surfaces, subpictures | called by the server's XvMC layer; clients write the SAREA in between |
| **Xv port and its surfaces** `via_video.c`, `via_swov.c` | old rectangles, clip, colour key, panning, frame number, `VideoStatus`, `SrcFourCC`, `SWfbMem`, `HQVMem` | `viaPutImage`, `viaReputImage`, `viaStopVideo`, `viaSetPortAttribute`, panning, mode changes | XvMC puts images of its dummy format on the same port and hides the overlay behind its back |

### More of the driver and the library

| component | state | operations | what makes it correct | modelled in |
|---|---|---|---|---|
| **client contexts** `viaXvMC.c:188-580` | per context the resources it has reached; `numContexts` and the shared connection, file and mappings of a process | `XvMCCreateContext`, `XvMCDestroyContext`, `releaseContextResources` | a failure returns exactly what was taken; nothing in use is unmapped | `ClientContext`, over `XvMCServer` |
| **subpicture calls** `viaXvMC.c:1191-1677` | subpictures, `privSubPic`, time stamps of blits | create, clear, composite, blend, sync | what is written lies in the subpicture and the memory the server allocated | `VideoGeometry`, in part `OverlayDisplay` |
| **Pro low level** `viaLowLevelPro.c` | two command buffers with headers, shadow of the HQV registers, last time stamps | pictures, slices, blits, flips, syncs, start-up and release | buffers never overflow and are well formed; a picture waits for the decoder; a sync covers what it is asked for | `LowLevelPro` (functions) |
| **command buffer, 2D engine** `via_accel.c`, `via_dmabuffer.h` | words, header mode, `has3dState`; `ViaTwodContext`; `curMarker`, `lastMarkerRead`; halves of the AGP buffer, bounce buffers | the EXA, XAA and DGA hooks, both flushes, the waits | the stream parses; nothing reaches memory the engine still uses | `CommandBuffer`, `Acceleration`, `PixelFormats` |
| **3D engine** `via_3d.c` | what is dirty, the texture units, who used the engine last | the setters, `emitState`, `emitQuad`, `emitClipRect` | a quad is drawn with the state set for it | `Engine3D` |
| **life cycle** `via_driver.c`, `via_dri.c`, `via_cursor.c`, `via_dga.c` | what is mapped, saved, opened, on; the DRI lock | `PreInit`, `ScreenInit`, `CloseScreen`, `EnterVT`, `LeaveVT`, mode and DGA switches | whatever ends or is suspended is handed back; clients never run without the engine | `PreInit`, `DriverLifecycle` |
| **modes and bandwidth** `via_mode.c`, `via_bandwidth.c`, `via_vbe.c` | registers, `PanelIndex`, expire numbers | `VIAValidMode`, `VIAWriteMode`, panel and FIFO set-up | what is shown is the mode that was accepted | `CrtcTimings`, `ModeSelection` |
| **outputs and TV** `via_mode.c`, `via_vt162x.c` | what is present and active, saved encoder registers | detection, selection, save, restore | some output is used, and only one that exists | `Outputs` |
| **shadow frame buffer** `via_shadow.c` | none between calls | the refresh hooks, `VIAPointerMoved` | picture and pointer agree when turned | `ShadowRotation` |
| **overlay arithmetic** `via_swov.c`, `via_video.c` | none between calls | clipping, zoom, fetch, FIFO, bandwidth, layout of images | results fit their fields and cover the picture | `OverlayScaling`, `VideoGeometry` |

Not modelled: `driDrawable.c` (its state is that of the DRI extension, in another
repository), the XF86DRI stubs (copied from Mesa), `via_id.c` (a table),
`via_memcpy.c` (a benchmark), `via_i2c.c` (wires), build files.

### Which behaviours are hard

*Concurrency*: client processes race on the lock word, between the claim of the
SAREA and the server's reply, and the ring executes what was flushed long
before. *Failure*: ioctls, allocations and bandwidth checks fail halfway through
a call. *Ordering*: time stamps decide when decoding is over; UNDISPLAY requests
arrive late. *Time-outs and crashes*: the futex wait times out, clients die with
the lock, DRM context numbers are reused. *Caches*: quantiser matrices, colour
key, old rectangles, surfaces, last displayed surface, 3D state, cursor image.
*Suspension*: everything the server has set up is taken away at a console switch
and must come back, with clients that render in between. `PROJECT.json` lists
forty such hazards with the properties that cover them, or why none does.

## 2. Modules

    DecoderMutex     what the decoder lock promises
      ^ refined by                    ^ used by (INSTANCE)
    DecoderLock      the futex        DecoderSession   pictures over one decoder
      ^ EXTENDS                         ^ EXTENDS
    DecoderLockProofs, MCDecoderLock  DecoderSessionProofs, MCDecoderSession

    OverlayDisplay   clients, server, Xv          <- MCOverlayDisplay,
                                                     OverlayDisplayProofs
    XvMCServer       tables and memory            <- XvMCServerProofs
      ^ EXTENDS                                        ^ EXTENDS
    ClientContext    a client process over it     <- MCXvMCServer,
                                                     ClientContextProofs
    XvPort           one Xv port                  <- MCXvPort, XvPortProofs
    CommandBuffer <- Engine3D <- Acceleration     <- MCAcceleration,
                                                     AccelerationProofs
    DriverLifecycle  a screen from start to end   <- MCDriverLifecycle,
                                                     DriverLifecycleProofs

    functions, with assumptions that TLC evaluates:
    LowLevelPro                                   <- MCDecoderSession
    VideoGeometry, OverlayScaling                 <- MCXvPort
    PixelFormats                                  <- MCAcceleration
    CrtcTimings, ModeSelection, Outputs, PreInit,
    ShadowRotation                                <- MCDriverLifecycle

Operators whose name ends in `_Something`, or that a comment calls a mutant, are
mutations: a body of another operator with one plausible mistake. They take no part in any
specification; they stand beside the definition so that one can see that each
property notices a mistake in the code it is about.

### DecoderMutex and DecoderLock

`DecoderMutex` is the abstract lock: `Acquire`, `Release`, `Vanish` (a context
dies) on `holder` and `last`. `DecoderLock` has an action for every access of
the two macros of `via_drmclient.h` to shared memory: the load (line 45), the
two compare-and-swaps (46, 57-58), the plain reload, the futex wait with its
recheck in the kernel and its time-out, the guard of the unlock (79-80), the
clear and its slow path (82-91) and the wake-up. The word is a record of owner,
held and contended bits. A context may die at any point (`ContextGone`: the DRM
frees its lock and forgets its number) and its number be given out again
(`ContextCreated`). `MaxDeaths` bounds how often each context goes away; how often
it locks is not bounded.

`ImplementsMutex` is the refinement, with `holder` the owner of a held word and
`last` the owner a free word names.

### DecoderSession

Two or more contexts over one ring and one decoder, AGP path. A client call is
one step, since `ctxMutex` admits one call of a context at a time, but for
`XvMCBeginSurface`, which is cut at the two places where other processes and the
hardware matter: after the lock is taken (`BeginSurface`), after the time stamp
is flushed (`BeginStamp`), and the rest (`BeginPicture`). `Flush` is `agpFlush`
with the wait of `agpSync`; a flush may fail (feature `"fail"`), in which case
the commands stay in the buffer as in the code. Matrices come in two sets, `Luma`
and `Chroma`, each with a flag of its own (`loaded`): a begin command sends those
whose flag is clear, and a decoder taken over from another context clears the
luma flags only (`Known`, `viaXvMC.c:985-988`). `ExecStamp`, `ExecBegin`,
`ExecSlice` and `DecoderIdle` are the external hardware. Clients come in kinds
(`Features`), because XvMC leaves much to the client's good behaviour: `"refs"`
names reference surfaces, `"early"` syncs before it flushes, `"reflush"` flushes
a surface other than the one it renders, `"again"` begins before it has flushed,
`"chroma"` loads chroma matrices.
Each property says for which kinds of clients it is claimed; the clients of the
other kinds run beside the orderly one, which must not be disturbed by them.
`"junk"` lets the last time stamp that was read start with any value, as the code
does.

### OverlayDisplay

The SAREA words, the overlay as hardware (address loaded, surface shown, on or
off, for whom and which rectangles set up, attribute values), the server's
record of who displays, and per context a queue of requests. A section under the
hardware lock is one step, and a request the server handles is one. `PutSurface`
is `XvMCPutSurface` up to its first unlock, `PutSurfaceResume` one more turn of
its loop (855-890), `PutSurfaceFails` and `PutSurfaceNoDrawable` its error
returns, `PutSurfaceReturns` the return from the update after the flip. A call
takes its context's `ctxMutex`, so that one runs at a time (`Callable`), but for
`DestroySurface`, which does without it and may run during a put. A call of
`XvMCSetAttribute` with a value out of range returns with the mutex locked
(`SetAttributeBadValue`, 1793-1796), and the context is `jammed` from then on. The
server's `Display`, `ForcedDisplay`, `Undisplay`, `Attributes`, `XvPutImage` are
the branches of `viaXvMCInterceptPutImage` (931-994).

### XvMCServer and ClientContext

`XvMCServer` has one step per request: slot tables, their counters, two
allocators (DRM and X off-screen memory, as in `VIAAllocLinear`), creations that
fail halfway, `InitXvMC` and `CleanupXvMC` across server generations, and the
claims that clients make in the SAREA.

`ClientContext` is a client process over it. A creation takes ten resources in
turn (`Levels`, the names of `enum ContextRes` in the order in which they are
taken); five of them are shared by the contexts of the process and counted by
`numContexts`. Every step may fail, and `ReleaseOwn`, `ReleaseShared` and
`EndRelease` are the ladder of `releaseContextResources` from there. A step is
what a thread does between two accesses to the globals. `Die` ends the process
at any point; `ServerReaps` is the server that destroys what it has left.
`Mismatch` admits a reply of the server that the library does not understand:
the context it names is never destroyed by the client (`stray`).

### XvPort

One step per call of the X server. `PutImage` is `viaPutImage` that returns
Success, `PutImageFails` its early returns; `Creations`, `Destroyed`,
`WithBuffer` and `WithHQV` are the functions of `via_swov.c` as functions from
surfaces to sets of surfaces (an allocation may give any free block, or none). A
put has the size of the image and of the part of it that is shown (`Parts`):
whether the surface is made anew depends on the part (`Kept`, `via_video.c:1172`),
its memory and the copy on the image. Where the halves of the memory are depends
on the image it was made for, so that one made anew at the same place may overlap
the half still shown, and is filled with black in both (`via_swov.c:1045-1058`).
What the put may leave out is `SameAsBefore`. The colour key is painted by the
driver or left to the client (`SetAutoPaint`). Of the `Features`, `"noMemory"`
and `"noBlit"` make allocations and blits fail, `"noBandwidth"` has modes without
an overlay, and `"autopaint"` clients that paint the key themselves for a while.
The history variables are `copy` (does the image fit where it is copied to, has
that been made anew, does it clash with what is shown), `oldImage`, `remade`, and
`missed`: what the port has no memory of (a put or an allocation that failed, a
change of format or of the size of the image under an unchanged part), from which
a stop that has returned all memory recovers.

### CommandBuffer, Engine3D and Acceleration

`CommandBuffer` counts words and keeps what the parser of `viaFlushPCI` would
make of them: the section it is in, and whether it has understood every word as
it was meant. The operators are the macros of `via_dmabuffer.h`, which insert
headers by `mode` and flush when the buffer is full, and the two flushes of
`via_accel.c`. `Engine3D` is `Via3DState`: groups of registers that are dirty,
and, as a history variable, groups whose value in the stream is the one set
(`fresh`). `Acceleration` has an action per hook of EXA, XAA and DGA. A hook is
one step except where it waits: there the engine (`Engine`), which executes in
order, and the DMA engine go on by themselves. In the composite of a one-pixel
repeat picture the CPU reads that pixel, and waits for nothing (`ReadsPixel`,
`via_accel.c:2052`). `ClientDraws` is a direct
rendering client that uses the 3D engine in between. `MarkMod` is where the
marker wraps, `Window` the distance that `viaAccelWaitMarker` takes for "already
passed"; `MaxMarks`, `MaxQueue` and `MaxBands` bound markers, outstanding
commands and the bands of a transfer.

### DriverLifecycle and PreInit

The driver's fields (`v`), the hardware (`h`) and the kernel's DRM (`k`) are
records, and the functions that the hooks call are operators on the three. Hooks
that take the DRI lock are cut in two where they have it. `ScreenInit` fails at
any subset of steps named in `FailSets` and the server then gives up
(`Abort`); the console and clients act in between. The first mode of a generation
is set with the VGA registers unlocked, and they stay so if it cannot be set
(`FirstMode`); `h.locked` says how they are. A server that gives up after DRI was
closed and not opened anew follows a null pointer (`Crashed`). A VBE from version
2 on keeps the number of the mode it has saved first, `first`, for good, and sets
modes of the depth the server started with. DGA may ask for any number of modes
in its own depths, and does not notice when one cannot be set (`DGASwitched`,
`h.missed`). Memory is a set of regions, that of the DRM among them (`Heap`); the
configurations include memories in which there is no room for them all. `PreInit`
computes from
options and a card either the settings of `DriverLifecycle` (`Options`) or a
refusal.

### Functions over bounded inputs

The other modules are the pure algorithms of the driver and have no behaviour:
operators translated from the functions, and named assumptions that compare them
with what they are meant to compute, over inputs that include the edges. TLC
evaluates the assumptions in every run of the module that extends them.

* `LowLevelPro`: sequences of calls, from every way a buffer may have been left,
  never overflow it (`BuffersHold`), deliver slices whole (`SliceDelivered`),
  wait where the decoder needs it (`PictureWaits`, `SyncCovers`), flip to the
  right surface although bits are only or-ed into a shadow (`FlipShowsPicture`)
  and release what they took (`LowLevelReleased`).
* `PixelFormats`: the hash of formats is injective, components expand and unpack
  faithfully, an upload fits its half of the buffer.
* `CrtcTimings`: a mode is laid out in the bits of the registers and read back:
  what is shown is the mode (`PrimaryRoundTrip`, `SecondaryRoundTrip`), and any
  frame can be panned to.
* `ModeSelection`: clocks (`TableClocks`, `ComputedClocks`), panels
  (`PanelHasMode`, `PanelSizes`, `PanelPower`), what an accepted mode gets
  (`AcceptedModeHasClock`), registers that outlive a mode (`FIFOHistory`) and
  the detection of memory.
* `Outputs`: some output is used and none that is absent (`OutputsUsed`,
  `TVHasEncoder`), encoders are restored (`TVRestored`).
* `PreInit`: refusals return what was taken (`RefusalFrees`), settings agree
  with each other (`SettingsConsistent`, `ConfiguredOutputs`).
* `VideoGeometry`: an image is a few planes of bytes. Copies by CPU and DMA
  carry each byte to where the overlay is told to read it (`CopyCarriesImage`,
  `InterleavesChroma`, `UpdateReadsWhatFlipShows`) and nothing elsewhere
  (`CopyStaysInside`); the addresses that the client library computes lie in what
  the server allocated (`ClientStaysInAllocation`), and blits reach them
  (`BlitFindsPlane`); `OverlapIsIntersection` is about the clipping of
  subpictures.
* `OverlayScaling`: the source window follows a destination cut by the screen,
  zoom factors fill the window and fit their fields, fetches cover lines, FIFO
  thresholds lie in the FIFO, and a smaller mode is never refused an overlay
  that a larger one gets (`SmallerIsSupported`).
* `ShadowRotation`: a turned refresh brings each pixel to where the pointer over
  it is shown, and rounding a box to words writes nothing else
  (`PictureUnderPointer`, `WordsAligned`).

Where the code does not do what it is meant to, the assumption states the exact
extent (except for which table entry, which heights, which option), so that it
changes when the code is mended; these places are listed below.

## 3. Runs

All runs use TLC with two workers; each takes less than three minutes on two
cores. Deadlock is checked in all but `driver_lifecycle`, where a server that gave
up has ended.

| run | instance | distinct states |
|---|---|---|
| `decoder_lock` | 3 contexts, which go away twice, once and never | @DL |
| `decoder_session` | 2 contexts, 3 surfaces, one of them with chroma matrices, ring of 2, buffer of 1, 4 and 2 time stamps | @DS |
| `session_failed_begin` | the same with flushes that fail | violation |
| `overlay_clients` | 2 contexts, 3 surface slots, 2 regions, 2 outstanding requests | @OC |
| `overlay_xv` | 1 context and Xv, surfaces destroyed, puts failing | @OX |
| `overlay_xv_unmarked` | 1 context and Xv | violation |
| `xvmc_server` | a client process, 2 context and 3 surface slots, 5 objects, 2 blocks of each kind of memory | @XS |
| `xv_port_memory` | 2 formats, 2 sizes, whole and in part, 2 blocks, failing allocations and blits | @XM |
| `xv_port_places` | 1 format, 2 sizes, whole and in part, 2 of everything a picture is placed by | @XP |
| `xv_port_refused` | 1 format, 2 sizes, puts that fail | violation |
| `acceleration` | 3 kinds of screen, 4 sets of hooks, buffer of 80 words, 3 markers, bands and queued commands | @AC |
| `driver_lifecycle` | 14 configurations, 6 of them short of memory, 16 sets of failures, 2 generations, 2 visits to the console, 2 console modes, 2 depths of DGA | @LC |

**decoder_lock.** `MutualExclusion`: between `UNICHROME_LOCK` and the release at
most one context. `NoLostWakeup`: a context asleep in the kernel on a word that
is free has a wake-up or its time-out still coming. `HadLastIsMine`: the answer
"you were the last" is true, so that skipping the decoder reset is right, even
though context numbers are reused. `AttemptEndsUnlessOvertaken`: a lock attempt
ends, with the lock or with the time-out, unless other contexts take the decoder
again and again without end. It has that exception because the code has: the ten
milliseconds are those of one wait, and whoever is woken and finds the word
changed begins anew (`via_drmclient.h:46-66`). Attempts are not bounded, so that
others may take it for ever. `ImplementsMutex`: the futex is the mutex of
`DecoderMutex`. Three contexts are the least with which two waiters contend behind
one holder; a context that dies twice gives a number that is reborn and dies again.

**decoder_session.** `HaveMeansHold`, `HeldForRendering`: who thinks to have the
decoder has it, and keeps it only while it renders. `BeginWhenIdle`,
`SliceInOwnPicture`, `MatricesOfPicture`: the decoder, which others used in
between, begins a picture only when idle, decodes slices into the picture they
belong to and with that picture's intra and non-intra matrices. `ChromaOfPicture`
says the same of chroma matrices as long as one client only loads some: their flags
survive a hand-over (`viaXvMC.c:985-988`), and with two such clients one decodes
with the other's (`ChromaOfEveryPicture`, violated with
`MCDecoderSessionChroma.cfg`). `SyncedIsDecoded`: a surface without
`needsSync` is decoded. `BeginEnds`: a begin call ends. One context has two
surfaces and references, the other misbehaves. A buffer of one command makes
slices flush on the way; a ring of two makes flushes wait for the hardware.

**overlay_clients, overlay_xv.** `FlipOwnsOverlay`: a flip goes into an overlay
set up for that context and its rectangles. `OverlayShowsClaim`: with nothing
pending, the surface named in the SAREA is the one on the screen.
`SubpictureOfShown`: a subpicture on the screen belongs to the picture under it.
`PutEndsUnlessRobbed`: the loop of a put whose claim stands is left, unless another
client takes the overlay, or the server has still to handle the UNDISPLAY of a hide
of the same surface: that takes the claim away, which the loop does not make again
(`PutEndsAlone`, violated with one client in `MCOverlayHide.cfg`).
`NoFreedSurface`: no freed surface is named or shown.
`AttributesFollowOwner`: colour key and the like are those of the owner.

**xvmc_server.** `CountersMatch`: the counters that guard the creations agree
with the tables, so the unbounded slot searches stay in them.
`MemoryAccounted`: every block allocated is referred to by one slot.
`NamesAreLive`: no name of a destroyed object is left where its successor in the
slot would inherit it. `SharedWhileUsed`: what a context of the client uses is
still open and mapped. `NothingLeftBehind`: a client that has destroyed its
contexts, or failed to create them at any step, holds nothing shared, and the
server has no context of it but those of a reply it did not understand. Two
contexts are what it takes for one to be created while the other is released;
identifiers are symmetric.

**xv_port_memory, xv_port_places.** `SurfaceFitsImage`: an image is copied into
memory allocated for its format and size, until a put fails or an image of another
size comes under the same part: neither is remembered, and the second overruns the
memory without any failure (`MCXvPortCropped.cfg`). `DrawsOffScreen`: a copy never
goes into the buffer on the screen, as long as the surface has not been made anew
while its former half was shown; the first copy into a new one may
(`NeverOnScreen`, violated with `MCXvPortResized.cfg`). `OverlayReadsLiveMemory`:
the overlay reads memory it still has. `KeyPainted`: where the port has noted a clip
and painted it, the colour key on the screen is the present one. A clip noted while
the client painted stays unpainted when the driver is to do so again, since
`XV_AUTOPAINT_COLORKEY` does not empty the clip (`KeyAlwaysPainted`, violated with
`MCXvPortAutopaint.cfg`). `PutShows`: after a successful put the engine is programmed for the picture,
although most puts do not program it. Two values of each parameter are what it
takes for a cache to be stale. Two blocks of memory are what the surfaces of one
image need, and let those of the next lie the other way round, so that a block
that was freed comes back as something else.

**acceleration.** `StreamParses`: whatever hooks follow each other, and wherever
the buffer fills up, every word is read as what it was written for.
`StateThroughDrm`: 3D state goes through the verifier of the kernel.
`QuadState`: a quad is drawn with the state set for it, although only what is
dirty is emitted and others use the engine. `CpuAfterEngine`, `BandsInOrder`:
CPU, DMA engine and drawing engine take turns on the same memory, where the server
waits. It does not before it reads the pixel of a one-pixel repeat picture: there
`CpuAfterEngine` says only that EXA knows of the wait that is missing, and that the
drawing is done (`PixelAfterEngine`) is violated with `MCAccelerationPixel.cfg`.
`WaitEnds`: a wait for a marker ends. The buffer is small enough to fill in the middle of a
hook and large enough for the largest block the code reserves (`BufAssumption`);
three bands make both bounce buffers be used again. Hooks that never meet in one
server (EXA and XAA) are not combined.

**driver_lifecycle.** `ConsoleRestored`: whoever gets the screen back finds its
mode, no queue and no overlay running and the VGA registers locked, also when
start-up fails. Three cases are excepted, each because the code does otherwise
(`ConsoleAsFound`, violated with `MCDriverLifecycleStrict.cfg`): a VBE from version
2 on restores the first mode it found, a server whose first mode cannot be set
leaves the registers unlocked (`via_driver.c:1957-1971`), and one that gives up in
a later generation before DRI is open crashes. `ClientsExcluded`: no direct
rendering client runs on a screen that the server has given away. `EngineReady`:
ring and interrupt are there after every hook. `RegionsDisjoint`: the parts of
video memory do not overlap where memory has room for the screen and what is cut
from its end (`Roomy`). That is a condition, since the code asks for the queue's
room only; configurations without it are in the run, and `RegionsNeverOverlap` is
violated (`MCDriverLifecycleStrict.cfg`). `ScreenAsDrawn`: depth and cursor are what
the server believes, unless a mode of DGA could not be set; with a VBE the depth is
always the one the server started with, whatever DGA draws in (`DepthAsDrawn`,
violated with `MCDriverLifecycleStrict.cfg`). Two generations and two visits let
what one leaves behind meet the next, and two depths let a mode of DGA follow
another. Failures that end `PreInit`, or that concern what is not modelled (the
map calls and version of the DRM), are not among the sets; failures are combined
where one hides behind another.

**Fairness.** `DecoderLock` and `DecoderSession` assume that a process inside a
macro or a begin call is scheduled again, and that the hardware executes the
ring. `OverlayDisplay` assumes that the server handles requests and that a client
whose request was answered runs on. No fairness is assumed of calls a client
need not make, and none that would make a contender miss the lock only so often. `Acceleration` assumes that the engine executes what it was given and
that the loop of a wait reads again. The other modules have no liveness.

### Disagreements between code and comments

Three runs end in a violation on purpose; `PROJECT.json`, "findings", quotes the
lines. `session_failed_begin`: a failed flush in `XvMCBeginSurface` releases the
lock and keeps `haveDecoder`. `overlay_xv_unmarked`: `viaXvMCSetDisplayLock` acts
only for ports numbered from 1, and the port is number 0. `xv_port_refused`: the
old source size is remembered only by puts that succeed.

Nine further findings have no run of their own there. Configurations beside the
runs reproduce some of them, and what the properties of the runs except; TLC finds
each property below violated (the last configuration has three, and TLC shows
them all with `-continue`).

| configuration | property | what it shows |
|---|---|---|
| `MCAccelerationMasks.cfg` | `MaskIsOwn` | a plane mask stays from an earlier call |
| `MCAccelerationRefused.cfg` | `StateThroughDrm` | a submission the DRM refuses is sent again past it |
| `MCAccelerationPixel.cfg` | `PixelAfterEngine` | a one-pixel picture is read while the engine has still to fill it |
| `MCDecoderSessionJunk.cfg` | `BeginWhenIdle` | `lastReadTimeStamp` is never set |
| `MCDecoderSessionChroma.cfg` | `ChromaOfEveryPicture` | the flags of chroma matrices survive a hand-over |
| `MCXvMCServerThreads.cfg` | `SharedWhileUsed` | two threads of a client count contexts without a lock |
| `MCOverlayHide.cfg` | `PutEndsAlone` | a put right after a hide of the same surface asks for ever |
| `MCXvPortCropped.cfg` | `CopyFits` | a larger image under the same part overruns its memory |
| `MCXvPortResized.cfg` | `NeverOnScreen` | a surface made anew is written where the former one is still shown |
| `MCXvPortAutopaint.cfg` | `KeyAlwaysPainted` | the key stays unpainted when the driver is to paint it again |
| `MCDriverLifecycleStrict.cfg` | `ConsoleAsFound` | what a server that gives up, or a VBE, leaves otherwise |
| `MCDriverLifecycleStrict.cfg` | `RegionsNeverOverlap` | cursor, marker and XAA's line are cut from memory unasked |
| `MCDriverLifecycleStrict.cfg` | `DepthAsDrawn` | DGA ignores a failure, and the VBE its depth |

The others are exceptions in assumptions: the Pro's
clock for 856x480 (`TableClocks`), a TV without encoder (`TVHasEncoder`), the
power sequence of panel 7 of 7 (`PanelPower`), the clipping of subpictures
(`OverlapIsIntersection`), `ShadowFB "off"` (`SettingsConsistent`), a time stamp
area that cannot be had.

The following were met while the models were written. They are outside what the
passing runs claim, and each property says so:

* A begin before the last surface is flushed waits for the wrong time stamp
  (`viaXvMC.c:979-982`): `BeginWhenIdle` needs clients without `"again"`.
* Flushing an earlier surface again gives the context a newer time stamp, from
  which a later `XvMCSyncSurface` concludes that a later picture has begun
  (`viaXvMC.c:1064-1067`, 1693-1695): `SyncedIsDecoded` needs clients without
  `"reflush"`.
* New rectangles are stored before the call can fail (`viaXvMC.c:822-824`):
  `OverlayShowsClaim` needs puts that do not fail.
* `lastSrfDisplaying` is a slot number: when surfaces are destroyed by two
  clients a recycled number is mistaken for the old surface (`viaXvMC.c:855`).
* A refused DISPLAY has already set its attributes (`via_xvmc.c:960-966`):
  `AttributesFollowOwner` is checked for one context next to Xv. A put after a
  hide by the same context has the same effect, since the UNDISPLAY of the hide
  is handled after the put has begun.
* A failed put leaves its claim in the SAREA; destroying the surface still shown
  then hides nothing (`viaXvMC.c:866-884`, `via_xvmc.c:727-733`).
* The loop of a put asks again for as long as another client displays, and claims
  the SAREA before the loop only: an UNDISPLAY that the same context has sent just
  before, handled late, takes the claim away for good (`viaXvMC.c:855-890`, 1904;
  `via_xvmc.c:969-975`). Only `PutEndsUnlessRobbed` holds.
* `XvMCSetAttribute` with a value out of range returns with `ctxMutex` locked, so
  that the next call of the context waits for ever (`viaXvMC.c:1793-1796`).
* A hand-over of the decoder clears the flags of two of the four matrices
  (`viaXvMC.c:985-988`): `MatricesOfPicture` is claimed for those two.
* A lock attempt has a time-out per wait and none of its own
  (`via_drmclient.h:46-66`).
* Whether a surface is made anew is asked of the part of the image that is shown
  (`via_video.c:1172`), but it is made for the whole image (1177, 1191-1226):
  `SurfaceFitsImage` excepts images of another size under the same part.
* A surface made anew may lie where the former one did, whose half the overlay
  still shows; it is filled with black, and the image copied, before the flip
  (`via_swov.c:1045-1058`, `via_video.c:1276`).
* `XV_AUTOPAINT_COLORKEY` does not empty the clip (`via_video.c:822-823`), and a
  put under the same clip paints nothing (1309).
* A failed `ViaSwovSurfaceCreate` leaves memory that `viaStopVideo` does not free
  (`via_swov.c:1098-1102`), and a change of format at the same size leaves the
  overlay on the former HQV memory (`via_swov.c:1146`, `via_video.c:1283-1292`):
  `missed` keeps these cases out of the properties.
* An update of the overlay computes the second chroma plane differently from a
  flip for heights that are no multiple of four (`via_swov.c:459`).
* The offset of a planar picture that is cut and minified is not reduced with it
  (`via_swov.c:403-411`), and `Upd_Video` gives up between register writes when a
  picture cannot be scaled, while the put returns Success.
* The DMA bounce buffer is kept when only the format changes
  (`via_video.c:1026-1037`).
* A colour of a texture that blends as a mask is emitted though no quad needs it;
  a quad reserves fewer words than it writes (`via_3d.c:317`), which the macros
  tolerate since the buffer is larger than any block.
* The marker counter wraps, and a marker taken before is then waited for without
  end (`via_accel.c:1129`, 1154); and since `lastMarkerRead` is read in waits
  only, a marker of the next round may count as passed. Both take 2^31 markers.
* `VIADRIAgpInit` leaves `agpSize` set when it fails, so it is released twice;
  the DRM is closed before the interrupt is given back; the memory of EXA is
  freed after the DRM is closed (`via_dri.c:785-824`, `via_driver.c:2247-2252`).
* `viaExaComposite` reads the pixel of a one-pixel repeat picture with the CPU
  without a wait for the engine (`via_accel.c:2052`, 2056).
* A first mode that cannot be set ends `VIAScreenInit` with the VGA registers
  unlocked, and `vtSema` says that there is nothing to restore
  (`via_driver.c:1957-1971`).
* A second generation that gives up before DRI is opened leaves
  `directRenderingEnabled` on and `pDRIInfo` null, which `LeaveVT` follows.
* DGA ignores the result of `SwitchMode` (`via_dga.c:249`, 279), and
  `ViaVbeSetMode` sets the number of a mode whatever its depth is now
  (`via_vbe.c:128-140`).
* Cursor, marker and XAA's line are taken from the end of memory without a check
  that they are there (`via_accel.c:2156-2176`).
* A close while switched away releases neither video nor mappings
  (`via_driver.c:2225-2275`), and `SwitchMode` that fails leaves the queue off.
* The check for wide blanking of a mode looks at values the server has shrunk
  (`via_mode.c:812`, 857): such modes are shown wrong.
* `XvMCBlendSubpicture2` compares the height of the source with itself
  (`viaXvMC.c:1514`), and `getDRIDrawableInfoLocked` asks the server again and
  again while a window is fully covered (`driDrawable.c:84`, `xf86dri.c:520`).

## 4. Proofs

The modules named `...Proofs` prove for all values of the constants what the runs
check on small ones: any number of contexts, surfaces, slots, blocks of memory,
formats, configurations, generations. Their only assumptions are the ASSUMEs of
the modules (which TLC evaluates in every run) and those a theorem states. Each
proof has an inductive invariant, which TLC was given first, with a lemma per
action; the temporal step is the last one.

### DecoderLock

`TypeCorrect`, `DecoderExclusive` (mutual exclusion), `HadLastCorrect`,
`LockRefinesMutex`, `WakeupNotLost`. The invariant `IInv` adds to the types what
mutual exclusion does not say by itself: the word a context is about to compare
with is a free one, and one it is about to mark contended a held one
(`LocalCopies`), and the context between lock and unlock is the one the held word
names (`WordOwned`). `MutualExclusion` is not inductive without them: with a held
word as the local copy, the compare-and-swap would take the decoder from its
holder. `HadInv` relates the word to the last grab that was recorded, which is
what the answer "you were the last" is about. `WakeInv` says that who sleeps does
so on a word that was held and contended, so that a change of it is an unlock
through the slow path or the death of the holder, whose `Waker` is still to come.

### DecoderSession

Three layers, each with one more hypothesis about the clients. A context's
behaviour is a matter of its `Features`, so "no `"fail"`" means that its flushes
do not fail. Each hypothesis is one the property does not hold without: TLC finds
each property of a layer violated by clients that break its hypothesis.

* *None*: `HeldToRender` (`HeldForRendering`), from `HolderKnows`: who holds the
  decoder knows it (`haveDecoder`), and has a `rendSurf` unless its client syncs
  early. This is true with failing flushes, where the converse is not.
* *`NoneFails`*: `HaveIsHold` (`HaveMeansHold`, which `session_failed_begin`
  refutes otherwise), `MatricesArrive` (`MatricesOfPicture`) and
  `SlicesInTheirPicture` (`SliceInOwnPicture`), for clients of every other kind,
  `"again"` and `"junk"` included. The matrices are those of
  `Luma`: `ChromaOfPicture` is left to TLC. `HoldInv` says that only the holder has
  commands in its buffer, all of one surface and behind their begin command, if
  it is there. The two properties are about the decoder at a moment when the
  commands in the ring were submitted long before, by several clients. What
  carries them there is `InForce`: the picture the decoder will have after the
  first *n* commands of the ring. `PicInv` claims it to be the slice's own before
  each slice, and the holder's at the end of the ring, unless the holder's begin
  command is still in its buffer; `MatInv` claims that it has, of those matrices, the ones
  each begin command does not bring, and at the end of the ring, for a context
  that was the last to hold the decoder, the ones marked as loaded. So what
  `viaXvMCPriv.h` leaves out is rightly left out, although nobody waits for the
  ring. How `InForce` goes along with a ring that grows or loses its head are
  lemmas (`InForcePrefix`, `InForceOn`, `InForceBegin`, `FlushInForce`).
* *`Orderly`*: nobody's flushes fail, nobody begins a picture before the last is
  flushed (`"again"`), and the last time stamp read starts below those emitted (no
  `"junk"`). `BegunWhenIdle` (`BeginWhenIdle`) rests on `StampInv`, the stamps of a
  context are in the ring in their order and not read yet, and `QueueInv`: slices
  in the ring are followed by a stamp that their context waits for (`Covered`),
  they are of one context (`Sole`), and a context that has taken the decoder over
  has none (`Absent`). A begin command is thus submitted behind no slice. For
  what `"again"` does see `viaXvMC.c:979-982`, for `"junk"`
  `MCDecoderSessionJunk.cfg`. `SyncIsEnough` (`SyncedIsDecoded`) needs `DoneInv`
  in addition: what a surface has in the ring is followed by its own stamp, and
  that is the context's last one, so that waiting for the stamp and for an idle
  decoder is waiting for the surface. The clients for whose surfaces it is claimed
  neither sync early nor flush another surface; the others may, as in the run.

`DecoderSession` cuts begin calls at two places, and a client in between is a
case of every invariant: `Standing` says of each place what is known there.

### XvPort

`TypeCorrect`; `PortInvariant`: an engine that is on belongs to a port that is
on, which has a source format (so that `ViaOverlayHide` acts on the right
engine), a place, and shows the buffer that is not written next. From it
`CopiesOffScreen` (`DrawsOffScreen`), which is about copies into the surface that
is shown; of one made anew nothing is claimed. `KeyWherePainted` (`KeyPainted`) is
inductive with the types: what is painted under the noted clip is the present key,
or nothing, where the client was to paint. `MemoryFits` (`SurfaceFitsImage`) needs
`FitInv`: as long as no put has failed and no image has changed its size under an
unchanged part, a created surface was allocated for its format and for the
remembered image, of which the remembered part was shown.
`OverlayMemoryLive` and `PutsShow` come from `ShowInv`: what the port remembers
of the last put (size, place, panning, the buffer of the engine) is what the
overlay has, so that a put that leaves the set-up out leaves out nothing.
`DestroyedOK`, `BufferOK`, `HQVOK`, `CreationOK` and `CreationFits` are lemmas
about the functions of `via_swov.c`.

### XvMCServer and ClientContext

`ServerInv` is the conjunction of `CountersMatch`, `MemoryAccounted`,
`NamesAreLive`, the types, `OneSlotEach` (an XID has one slot) and `ParentsLive`
(the context of a surface is an XID the server knows): without the last two, the
destruction of one object could take the slot of another. The counters are
cardinalities, and every lemma about a request rests on the facts about finite
sets of `TakenFinite` and what follows it. `CountersAlwaysMatch`,
`MemoryAlwaysAccounted` and `NamesAlwaysLive` are stated for the server alone.
`ClientImplementsServer` is the refinement: every step of a client process,
failures and deaths included, is a step of the server or leaves its state alone.
So the accounts hold with clients of any number of threads
(`ServerSoundUnderClients`).

`SharedResourcesHeld` and `NothingStaysBehind` assume `OneThread`, a program that
calls the library from one thread at a time. They do not hold without it: with
two threads TLC finds `SharedWhileUsed` violated (`MCXvMCServerThreads.cfg`, which
is not among the runs). `ClientInv` has
three parts: where the call under way stands on the ladder of ten resources is
what the contexts hold (`Settled` when there is none), the shared counter and the
shared resources are those of the contexts that use them (`SharesCounted`, again
a cardinality), and the server's contexts are the client's but for those a dead
or confused call has left (`ServerAgrees`). In the middle of a call neither
property says anything of the intermediate level; the invariant has to.

### OverlayDisplay

`DisplayInv`: the types, and `Waits`, of every context: an update of the overlay
is the last request in its queue, it is for the surface and the rectangles of the
put that waits for it, and the surface is that context's. On it rest three
results.

* `FreedNeverShown` (`NoFreedSurface`) holds whatever the clients do: any
  `Features`, any number of the port, any number of contexts (the run has one).
  `LiveInv` adds that an overlay which is on although the SAREA claims it for no
  surface shows Xv's picture.
* `FlipsOwnOverlay`, `ClaimShown`, `SubpictureIsOfShown` assume `Marked`: the
  clients put, hide, set attributes and change subpictures, next to plain Xv on a
  port that marks its images in the SAREA. `ClaimInv` says that the surface the
  SAREA names is the last one its owner put, that its address is loaded, and that
  the overlay is set up for it or a request is under way that will do it. The
  theorem covers more than the run, which has no Xv and no attributes; with a port
  numbered 0 it is false (run `overlay_xv_unmarked`, a finding), and with failed
  puts, destroyed surfaces or a stopped port as well: `lastSrfDisplaying` knows
  nothing of them (see the hazard at `viaXvMC.c:855`).
* `AttributesOfOwner` (`AttributesFollowOwner`) assumes `Alone`: one XvMC client,
  and if there is plain Xv, then on the port numbered 0 and without hides. In all
  other cases a `DISPLAY` command can be refused, and by then it has already
  written its attributes (`via_xvmc.c:960-967`), which the server does not record:
  the property fails, and so the assumption says when it does. `AttrInv` relates
  the values in effect to the last `ATTRIBUTES` request still in the queue.

### DriverLifecycle

`LifeInv` is a conjunction with a part per concern, all for the states in between
the hooks as well:

* `LockCounted`: the holds of the server are its wakeup and the hook under way,
  and no client has the lock with them (`ClientsAlwaysExcluded`);
* `ConsoleKept`: on the terminal the console's mode is what was saved, off it what
  the hardware has (`ModeKept`; with a VBE from version 2 on the first mode is saved
  for good, and what the hardware has may be that one), queue and overlay are off
  and the registers locked, but after a first mode that could not be set
  (`ConsoleAlwaysRestored`);
* `RingKept`: the driver knows whether its ring runs (`EngineAlwaysReady`);
* `ScreenKept`: the depth is the server's but in DGA, the hardware has the one the
  driver has, or with a VBE the server's, unless a mode of DGA was missed, and the
  image of the cursor is in its memory or stored (`ScreenAlwaysAsDrawn`);
* `MemoryKept`: the regions do not overlap where there is room
  (`RegionsAlwaysDisjoint`).

`ScreenInit` is proved in its stages (`SavedDoes`, `ModeSetDoes`, `DrawingDoes`,
`StartedDoes`), each a lemma about what it makes of a screen; so are all helpers
(`RingInitDoes`, `SetModeDoes`, ...). The proof covers any set of configurations
and of steps that fail, any number of generations and visits.
No configuration is excluded for its memory: `RegionsAlwaysDisjoint` is about every
screen, and its condition (`Roomy`) is a fact of the driver's state, that what was
cut from the end of memory has not gone below the screen. The code asks only
whether the queue fits (`viaInitAccel`, `via_accel.c:2156`); for a screen that
leaves the queue's room and less than the rest, the condition fails and the regions
overlap. The lemmas about the cuts (`InitAccelDoes`, `InitLinearDoes`, `HeapDoes`) go backwards
from what is left at the end: if that is not below the screen, neither was any
earlier cut.

### Acceleration

The hypotheses are `Accepted`, the kernel takes every submission (otherwise
`StateThroughDrm` fails, see `MCAccelerationRefused.cfg`), and `NoWrap`, the
markers of a behaviour are fewer than `MarkMod` (with `MarkMod = 3`, `Window = 1`,
`MaxMarks = 4` TLC finds `CpuAfterEngine` violated). Three kinds of screen, all
sets of hooks, plane masks and pixmaps, any buffer of more than 64 words, any
bounds of markers, queues and bands are covered.

* `QuadsHaveState` and `BandsComeInOrder` need neither. `QuadInv` says what of
  the state a quad needs is fresh at each point of a hook: all, but for the colour
  of a mask of one pixel, which `Composite` sets itself before the first quad.
  `BandInv` follows the halves of the bounce buffer through the queue of the DMA
  engine: `Will(dmaq, half, b, n)` says that half `b` has band `n`, or the last
  blit to it that is outstanding brings it.
* `StreamIsParsed` and `StateIsVerified` need `Accepted`. Every macro of
  `via_dmabuffer.h` and both flushes have a lemma that says how they keep a buffer
  `Sound`: below a header 2 the parser is where the driver thinks it is, outside
  there is an even number of words, and what is 3D state is marked. That is not
  enough for `EmitState`: a header 2 that is left out does not set the mark, so
  whoever writes state needs a buffer that is `Marked` if it is in a header 2, and
  leaves one (`StreamInv`). The mark that `viaSet3DEmitState` and `emitClipRect`
  restore is that of the state they continue: the register group `"enable"` is
  written by every hook that goes on to draw. `EmitState` is therefore a chain of
  its eight groups (`EmitIfNeeded`), which the proof takes one by one.
* `CpuWaitsForEngine` needs both. Of the pixel that a composite reads without a wait
  it claims only that EXA knows of what is still to be drawn (`exaSync`): the
  hooks that draw set that, and only a wait clears it. `Counters` puts the markers in order: read,
  blitted, in the queue, given. A marker that a hook waits for follows, in the
  queue, the work it stands for (`Followed`, in `DrawInv` for what EXA has drawn
  and in `ReadInv` for each half of the AGP memory); when it counts as passed it
  has been read (`PassedIsRead`), so it is not in the queue any more, and neither
  is what it follows (`FollowedIsDone`). Without AGP the wait is for an empty
  queue. `JobMarks` says that no hook waits for a marker that was never given.

### Model-checked only

The assumptions about functions. Out of the prover's reach
and left to TLC: liveness under fairness (`AttemptEndsUnlessOvertaken`, `BeginEnds`,
`PutEndsUnlessRobbed`, `WaitEnds`) and ENABLED, induction over data, and
RECURSIVE operators, which no module here uses. `ChromaOfPicture` is within its
reach and not proved. The types (`TypeOK`) of
`DecoderLock` and `XvPort` are proved and no longer part of a run.

## 5. What is abstracted, and what is not modelled

Pixel data and the contents of most registers; command words, which are counted
and classified; XvMC attributes other than as one value; the second overlay
engine; the cap of 16 MB that EXA puts on the heap of the DRM. Time stamps do not wrap (a client
would have to emit 2^32). Hardware answers before the driver's time-outs.

Not modelled, because nothing of it can be stated beyond the code itself: the
byte tables of panels and TV encoders, the wires of I2C, the tables of cards, the
layout of X requests, `via_memcpy.c`, cursor images, colour conversion in
floating point, code under `#if 0` (software deinterlacing of HQV) and
`#ifdef UNUSED`. Not modelled, because the driver never runs it: the secondary
controller and its FIFO (no secondary screen is ever started; its register
layout is in `CrtcTimings`), the overlay without HQV. Not modelled, because it
depends on what is not in this repository: the kernel's DRM beyond the answers it
gives, the drawables of DRI, EXA's and XAA's choice of calls, the modes of panels
that the BIOS scales.

## 6. Plan

1. *Done*: the modules above, in the order in which the two programs meet: lock,
   decoder, overlay, server; then client contexts, acceleration, life cycle; then
   the functions.
2. *Proofs*: done for the lock, the session, the port, the server, its clients,
   the overlay, the life cycle and the acceleration: every safety property of a
   run but `ChromaOfPicture` is a theorem. Left: that one, and what functions compute, where no induction is needed.
3. *Models that would add something*: a composition of `DecoderSession` with
   `OverlayDisplay` (a surface is displayed only when decoded), subpicture blits
   with the CPU copy of a composite, `DecoderSession` over `LowLevelPro`.
