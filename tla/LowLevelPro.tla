---------------------------- MODULE LowLevelPro ----------------------------
(***************************************************************************)
(* The low level of the client library for the newer decoders             *)
(* (xvmc/viaLowLevelPro.c): two command buffers, one for the ring (a) and  *)
(* one for the command port (p), the commands of decoder, 2D engine and    *)
(* HQV that go into them, and what is waited for before they are sent.     *)
(*                                                                         *)
(* Words are counted.  A segment is a header with what follows it: reg is  *)
(* the register a header 5 streams to, "regs" for the register writes of a *)
(* header 6, "h1" for commands without a header; cmds are the commands a   *)
(* property speaks of.  The video engine gets its commands over the port   *)
(* (VIDEO_DMA is undefined, line 44).                                      *)
(***************************************************************************)
EXTENDS Integers, Sequences, FiniteSets, SequencesExt

AgpBufSize == 8192          \* LL_AGP_CMDBUF_SIZE
PciBufSize == 4096          \* LL_PCI_CMDBUF_SIZE
PaletteSize == 16           \* VIA_SUBPIC_PALETTE_SIZE

SizeOf(b) == IF b = "a" THEN AgpBufSize ELSE PciBufSize

EmptyBuffer == [pos |-> 0, mode |-> "none", reg |-> "none", wait |-> {}, segs |-> <<>>]

NoShadow == [addr |-> {}, ctl |-> {}, minify |-> {}, set |-> {}]

(* agpSync: the next submission to the ring waits for the decoder.  sent   *)
(* holds the submissions, with what was waited for before each.            *)
LowLevel(agp) ==
  [agp |-> agp, agpSync |-> FALSE, errors |-> {}, a |-> EmptyBuffer, p |-> EmptyBuffer,
   shadow |-> NoShadow, sent |-> <<>>]

-----------------------------------------------------------------------------
(* finish_header_agp: the data behind a header is padded to four words.    *)
Finish(buf) ==
  IF buf.mode = "none" THEN buf
  ELSE [buf EXCEPT !.mode = "none", !.pos = @ + ((4 - (Last(buf.segs).n % 4)) % 4)]

Submit(l, b, waits) ==
  [l EXCEPT !.sent = Append(@, [buf |-> b, waits |-> waits, segs |-> l[b].segs])]

(* What a submission to the command port waits for, by its buffer's flags. *)
PortWaits(flags, dma) ==
  flags \cup (IF dma \/ (flags \notin {{}, {"video"}}) THEN {"dma"} ELSE {})

PciFlush(l0, b) ==
  LET l == [l0 EXCEPT ![b] = Finish(@)]
      s == Submit(l, b, PortWaits(l[b].wait, b = "a" /\ l[b].wait = {"video"}))
  IN  [s EXCEPT ![b] = EmptyBuffer]

(* The wait of agpSync returns its errors to nobody. *)
AgpFlush(l0) ==
  IF ~ l0.agp THEN PciFlush(l0, "a")
  ELSE LET l == [l0 EXCEPT !.a = Finish(@)]
           s == Submit(l, "a", IF l.agpSync THEN {"stamp", "idle"} ELSE {})
       IN  [s EXCEPT !.a = [EmptyBuffer EXCEPT !.wait = l.a.wait \cap {"video"}],
                     !.agpSync = FALSE,
                     !.errors = IF l.agpSync THEN {} ELSE @]

FlushBuffer(l, b) == IF b = "a" THEN AgpFlush(l) ELSE PciFlush(l, "p")

FlushPort(l) ==
  LET p == IF l.p.pos > 0 THEN PciFlush(l, "p") ELSE l
  IN  IF ~ p.agp /\ p.a.pos > 0 THEN AgpFlush(p) ELSE p

FlushAll(l) ==
  LET p == IF l.p.pos > 0 THEN PciFlush(l, "p") ELSE l
      a == IF p.a.pos > 0 THEN AgpFlush(p) ELSE p
  IN  [a EXCEPT !.errors = {}]

-----------------------------------------------------------------------------
BeginRing(l, b, size) == IF l[b].pos > SizeOf(b) - size THEN FlushBuffer(l, b) ELSE l

(* BEGIN_HEADER5_AGP and BEGIN_HEADER6_AGP. *)
Header(l0, b, mode, reg) ==
  LET l == BeginRing(l0, b, 8)
  IN  [l EXCEPT ![b].mode = mode, ![b].reg = reg, ![b].pos = @ + 4,
                ![b].segs = Append(@, [reg |-> reg, n |-> 0, cmds |-> <<>>])]

(* BEGIN_HEADER5_DATA and BEGIN_HEADER6_DATA: the header in force is used  *)
(* if it is of the kind.                                                   *)
BeginData(l, b, mode, reg, words) ==
  CASE l[b].pos > SizeOf(b) - (words + 16) -> Header(FlushBuffer(l, b), b, mode, reg)
    [] l[b].mode = mode /\ l[b].reg = reg  -> l
    [] OTHER -> Header([l EXCEPT ![b] = Finish(@)], b, mode, reg)

BeginRegs(l, b, pairs)   == BeginData(l, b, "h6", "regs", 2 * pairs)
BeginStream(l, b, words) == BeginData(l, b, "h5", "slice", words)

Out(l, b, words, cmds) ==
  LET k == Len(l[b].segs)
  IN  [l EXCEPT ![b].pos = @ + words,
                ![b].segs[k] = [@ EXCEPT !.n = @ + words, !.cmds = @ \o cmds]]

WaitFlags(l, b, flag) == [l EXCEPT ![b].wait = @ \cup {flag}]

(* Register writes for the decoder. *)
DecoderRegs(l, pairs, cmds) ==
  Out(WaitFlags(BeginRegs(l, "a", pairs), "a", "idle"), "a", 2 * pairs, cmds)

MpegSetSurfaceStride(l) == DecoderRegs(l, 1, <<>>)
MpegSetFB(l)            == DecoderRegs(l, 2, <<>>)
MpegReset(l)            == DecoderRegs(l, 99, <<<<"reset">>>>)

(* matrices of the four are not loaded: one selection and sixteen words of *)
(* coefficients each; room is made for all of them.                        *)
MpegBeginPicture(l, matrices) ==
  Out(WaitFlags(BeginRegs(l, "a", 72), "a", "idle"), "a",
      2 * (4 + 17 * matrices), <<<<"begin">>>>)

Smaller(x, y) == IF x < y THEN x ELSE y

(* The data of a slice, in pieces that fit into the buffer. *)
Piece == AgpBufSize - 20

SliceData(l, n) ==
  LET pieces == IF n = 0 THEN 1 ELSE (n + Piece - 1) \div Piece
      Send(m, i) ==
        LET k == Smaller(i * Piece, n) - (i - 1) * Piece
            o == Out(BeginStream(m, "a", k), "a", k, <<<<"data", k>>>>)
        IN  [o EXCEPT !.a = Finish(@)]
  IN  FoldLeft(Send, l, [i \in 1..pieces |-> i])

SliceErrors == {"decoder", "idctFifo", "sliceFifo", "sliceFault"}

(* A slice is announced with its length in bytes; its start code, its data,*)
(* the bytes of the last word and two words of zeroes follow.              *)
MpegWriteSlice(l, nBytes, sCode) ==
  LET n      == nBytes \div 4
      bytes  == nBytes + (IF sCode THEN 4 ELSE 0)
      r      == bytes % 4
      padded == 4 * ((bytes + 3) \div 4) + 8
      first  == WaitFlags(BeginRegs(l, "a", 2), "a", "idle")
      size   == Out(first, "a", 2, <<<<"slice", padded>>>>)
      code   == IF sCode THEN Out(size, "a", 2, <<<<"data", 1>>>>) ELSE size
      tail   == BeginStream(SliceData(code, n), "a", 3)
      words  == IF r > 0 THEN 3 ELSE 2
      whole  == Out(tail, "a", words, <<<<"data", words>>>>)
  IN  IF l.errors \cap SliceErrors # {} THEN l ELSE [whole EXCEPT !.a = Finish(@)]

-----------------------------------------------------------------------------
(* The 2D engine: commands without a header. *)
Blit(l0, w, h, transparent) ==
  LET l     == [l0 EXCEPT !.a = Finish(@)]
      room  == WaitFlags(BeginRing(l, "a", 20), "a", "2d")
      words == IF transparent THEN 20 ELSE 18
      seg   == [reg |-> "h1", n |-> words, cmds |-> <<<<"blit">>>>]
  IN  IF w = 0 \/ h = 0 THEN l0
      ELSE [room EXCEPT !.a.pos = @ + words, !.a.segs = Append(@, seg)]

(* viaDMATimeStampLowLevel: a fill of one pixel, on the ring only. *)
TimeStamp(l) == IF l.agp THEN Blit(l, 1, 1, FALSE) ELSE l

(* The subpicture flags are set before room is made.                       *)
SubPictureOff(l) ==
  Out(BeginRegs(WaitFlags(l, "p", "video"), "p", 1), "p", 2, <<<<"SUBP_CONTROL", "off">>>>)

SubPictureOn(l, s) ==
  Out(BeginRegs(WaitFlags(l, "p", "video"), "p", PaletteSize + 2), "p",
      2 * (PaletteSize + 2), <<<<"SUBP_STARTADDR", s>>, <<"SUBP_CONTROL", "on">>>>)

-----------------------------------------------------------------------------
(* syncXvMCLowLevel: what is waited for when modes are asked for.          *)
SyncWaits(l, modes) ==
  (IF modes \cap {"video", "3d"} # {} \/ ~ l.agp
     THEN (IF modes = {"video"} THEN {} ELSE {"dma"}) \cup (modes \cap {"3d", "video"})
     ELSE {"stamp"})
  \cup (modes \cap {"slice", "idle"})

(* The shadow of the HQV registers, static in the library.  Bits are or-ed *)
(* in, so what a register holds is a set; only registers set since the     *)
(* last upload are sent, the control register (3D0) with a flip.           *)
SetStartAddress(shadow, srf) ==
  [shadow EXCEPT !.addr = @ \cup {srf}, !.ctl = @ \cup {"NV12"},
                 !.set = @ \cup {"3D4", "3D8", "3F8"}]

SetDeinterlacing(shadow, picture) ==
  [shadow EXCEPT !.ctl = @ \cup (IF picture \in {"top", "bottom"} THEN {"DEINTERLACE"} ELSE {})
                           \cup (IF picture = "bottom" THEN {"FLIP_ODD"} ELSE {})]

SetDeblocking(shadow, on) ==
  IF on THEN [shadow EXCEPT !.minify = @ \cup {"deblock"},
                            !.addr = @ \cup {"thresholds"},
                            !.set = @ \cup {"3DC", "3D4", "3D8"}]
  ELSE [shadow EXCEPT !.minify = @ \ {"deblock"}, !.set = @ \cup {"3DC"}]

SetTripleBuffer(shadow) == [shadow EXCEPT !.ctl = @ \cup {"TRIPLE"}]

(* uploadHQVShadow *)
UploadShadow(l0, flip) ==
  LET l == WaitFlags(BeginRegs(l0, "p", 13), "p", "video")
      sh == l.shadow
      Value(r) == IF r = "3DC" THEN sh.minify ELSE sh.addr
      regs == SetToSeq(sh.set)
      cmds == [i \in 1..Len(regs) |-> <<regs[i], Value(regs[i])>>]
              \o (IF flip THEN <<<<"3D0", sh.ctl>>>> ELSE <<>>)
  IN  [Out(l, "p", 2 * Len(cmds), cmds) EXCEPT !.shadow.set = {}]

(* Both wait for the HQV before they upload, besides the wait of the flush.*)
SetSWFlip(l, srf) ==
  PciFlush(UploadShadow([l EXCEPT !.shadow = SetStartAddress(NoShadow, srf)], FALSE), "p")

SWFlip(l, picture) ==
  LET sh == SetTripleBuffer(SetDeblocking(SetDeinterlacing(l.shadow, picture),
                                          picture = "frame"))
  IN  PciFlush(UploadShadow([l EXCEPT !.shadow = sh], TRUE), "p")
-----------------------------------------------------------------------------
(* initXvMCLowLevel: what it takes, in this order, and the failure that    *)
(* can stop it at each.  The DRM may also give memory of another size.     *)
Steps == <<"xl", "agpBuf", "pciBuf", "timeStamp", "scale">>

(* What the steps up to k hold; without AGP there is no time stamp.        *)
Taken(agp, k) == {Steps[i] : i \in 1..k} \ (IF agp THEN {} ELSE {"timeStamp"})

(* releaseXvMCLowLevel by the state reached: scale memory, time stamp,     *)
(* buffers, record.                                                        *)
ReleaseXvMCLowLevel(agp, held, state) ==
  held \ ((IF state >= 5 THEN {"scale"} ELSE {})
          \cup (IF state >= 4 /\ agp THEN {"timeStamp"} ELSE {})
          \cup (IF state >= 3 THEN {"pciBuf"} ELSE {})
          \cup (IF state >= 2 THEN {"agpBuf"} ELSE {})
          \cup {"xl"})

(* Memory of the wrong size is not freed, as its step is not counted as    *)
(* reached (and updateLowLevelBuf forgets its size).                       *)
FailedLowLevel(agp, step, wrongSize) ==
  LET held == Taken(agp, step - 1) \cup (IF wrongSize THEN {Steps[step]} ELSE {})
  IN  IF step = 1 THEN {} ELSE ReleaseXvMCLowLevel(agp, held, step - 1)

-----------------------------------------------------------------------------
(* A buffer between two calls: a header in force can still be padded.      *)
Fits(l) == \A b \in {"a", "p"} : Finish(l[b]).pos <= SizeOf(b)

(* The commands a client of the low level gives, by buffer. *)
RingCommands(l) ==
  {MpegSetSurfaceStride(l), MpegSetFB(l), MpegReset(l), TimeStamp(l),
   Blit(l, 8, 8, TRUE), Blit(l, 8, 8, FALSE)}
  \cup {MpegBeginPicture(l, k) : k \in 0..4}
  \cup {MpegWriteSlice(l, n, sCode) : n \in 0..5, sCode \in BOOLEAN}

PortCommands(l) == {SubPictureOff(l), SubPictureOn(l, "s1"), SetSWFlip(l, "s1"),
                    SWFlip(l, "top"), SWFlip(l, "frame")}

(* A low level whose buffer b holds pos words, with a header of the mode.  *)
Filled(agp, b, pos, mode) ==
  [LowLevel(agp) EXCEPT ![b] =
     [pos |-> pos, mode |-> mode, reg |-> IF mode = "h6" THEN "regs" ELSE "none",
      wait |-> {}, segs |-> <<[reg |-> "regs", n |-> pos - 4, cmds |-> <<>>]>>]]

(* No command writes past the end of its buffer, wherever the last one has *)
(* left it and whatever header is in force, and none leaves a header that  *)
(* cannot be padded: the room each reserves is enough.                     *)
ASSUME BuffersHold ==
  /\ \A agp \in BOOLEAN, pos \in 4..AgpBufSize, mode \in {"none", "h6"} :
       LET l == Filled(agp, "a", pos, mode)
       IN  (pos < 300 \/ pos > AgpBufSize - 300) /\ Fits(l)
             => \A m \in RingCommands(l) : Fits(m)
  /\ \A pos \in 4..PciBufSize, mode \in {"none", "h6"} :
       LET l == Filled(TRUE, "p", pos, mode)
       IN  (pos < 100 \/ pos > PciBufSize - 100) /\ Fits(l)
             => \A m \in PortCommands(l) : Fits(m)

(* Everything submitted or waiting in the ring's buffer, in order. *)
Stream(l) ==
  FlattenSeq([i \in 1..Len(l.sent) |-> l.sent[i].segs] \o <<l.a.segs>>)

SliceWords(segs) ==
  FoldLeft(LAMBDA s, seg : FoldLeft(LAMBDA t, c : IF c[1] = "data" THEN t + c[2] ELSE t,
                                    s, seg.cmds), 0, segs)

SliceLengths == (0..9) \cup {4 * Piece + d : d \in -9..9} \cup {8 * Piece + d : d \in -3..3}

(* The decoder gets as many words as the slice was announced with, in      *)
(* whatever pieces and submissions they reach it: it takes the next slice  *)
(* for the rest of this one otherwise.                                     *)
ASSUME SliceDelivered ==
  \A agp, sCode \in BOOLEAN, pos \in {4, 5, 100, AgpBufSize - 17, AgpBufSize - 16},
     n \in SliceLengths :
    LET l == MpegWriteSlice(Filled(agp, "a", pos, "none"), n, sCode)
        announced == CHOOSE c \in UNION {Range(seg.cmds) : seg \in Range(Stream(l))} :
                       c[1] = "slice"
    IN  /\ 4 * SliceWords(Stream(l)) = announced[2]
        /\ Fits(l)

(* XvMCBeginSurface with its reset, XvMCPutSlice2 for each length, and the *)
(* flush of the surface, as viaXvMC.c calls them.                          *)
PictureOf(l, slices) ==
  LET begun == FlushPort(MpegBeginPicture(MpegSetFB(MpegSetFB(MpegSetFB(
                 MpegSetSurfaceStride(MpegReset([l EXCEPT !.agpSync = TRUE]))))), 2))
      PutSlice2(m, n) == FlushPort(MpegWriteSlice(m, n, TRUE))
  IN  FlushAll(TimeStamp(FoldLeft(PutSlice2, begun, slices)))

(* The commands of a submission, in order. *)
Commands(s) == FlattenSeq([j \in 1..Len(s.segs) |-> s.segs[j].cmds])

(* The decoder is idle before a picture is begun, and nobody waits for it  *)
(* in the middle of a slice, where it waits for the rest: with AGP and     *)
(* without, for slices that do not fit into a buffer.                      *)
ASSUME PictureWaits ==
  \A agp \in BOOLEAN, n1, n2 \in {40, 4 * Piece - 1, 8 * Piece + 40} :
    LET sent == PictureOf(LowLevel(agp), <<n1, n2>>).sent
    IN  \A i \in DOMAIN sent :
          LET cmds == Commands(sent[i])
          IN  /\ <<"begin">> \in Range(cmds) => "idle" \in sent[i].waits
              /\ cmds[1][1] = "data" => sent[i].waits = {}

(* A wait for an engine waits for it, or for a time stamp behind its        *)
(* commands; the 2D engine is not waited for without AGP (syncXvMCLowLevel  *)
(* asks syncAccel for the 3D engine only).                                 *)
ASSUME SyncCovers ==
  \A agp \in BOOLEAN, engine \in {"slice", "idle", "2d", "3d", "video"} :
    LET waits == SyncWaits(LowLevel(agp), {engine})
    IN  \/ engine \in waits
        \/ engine = "2d" /\ ("stamp" \in waits <=> agp)

(* What the HQV holds after the submissions of l: the last write to each   *)
(* register.                                                               *)
Shown(l) ==
  LET cmds == FlattenSeq([i \in 1..Len(l.sent) |-> Commands(l.sent[i])])
      Of(r) == SelectSeq(cmds, LAMBDA c : c[1] = r)
  IN  [r \in {"3D0", "3D4", "3D8", "3DC", "3F8"} |-> Last(Of(r))[2]]

Pictures == {"none", "top", "bottom", "frame"}

(* A put shows its own surface as its own kind of picture, whatever was    *)
(* put before it and although bits are only ever or-ed into the shadow: no *)
(* address, field or deblocking bit of the last put remains.               *)
ASSUME FlipShowsPicture ==
  \A p, q \in Pictures :
    LET Put(l, srf, picture) == SWFlip(SetSWFlip(l, srf), picture)
        shown == Shown(Put(Put(LowLevel(TRUE), "s1", p), "s2", q))
        own   == {"s2"} \cup (IF q = "frame" THEN {"thresholds"} ELSE {})
    IN  /\ shown["3D4"] = own /\ shown["3D8"] = own /\ shown["3F8"] = {"s2"}
        /\ shown["3D0"] = {"NV12", "TRIPLE"}
             \cup (IF q \in {"top", "bottom"} THEN {"DEINTERLACE"} ELSE {})
             \cup (IF q = "bottom" THEN {"FLIP_ODD"} ELSE {})
        /\ shown["3DC"] = IF q = "frame" THEN {"deblock"} ELSE {}

(* A low level that cannot be had leaves nothing behind, except video      *)
(* memory of a size it did not ask for.                                    *)
ASSUME LowLevelReleased ==
  \A agp \in BOOLEAN, step \in 1..Len(Steps) :
    /\ FailedLowLevel(agp, step, FALSE) = {}
    /\ Steps[step] \in {"timeStamp", "scale"} =>
         FailedLowLevel(agp, step, TRUE) = {Steps[step]}
    /\ ReleaseXvMCLowLevel(agp, Taken(agp, Len(Steps)), Len(Steps)) = {}
=============================================================================
