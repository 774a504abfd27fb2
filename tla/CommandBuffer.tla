---------------------------- MODULE CommandBuffer ----------------------------
(***************************************************************************)
(* The command buffer of the X server (via_dmabuffer.h) and its two flush  *)
(* functions (via_accel.c): operators on a record cb.                      *)
(*                                                                         *)
(* Words are counted, not stored.  What the stream parser of viaFlushPCI   *)
(* would make of the words written so far is kept instead: sect is the     *)
(* section it would be in behind the last word ("none", "h1" or the        *)
(* parameter type of a header 2), and ok says that it has understood every *)
(* word the way it was meant.                                              *)
(***************************************************************************)
EXTENDS Integers, Sequences

CONSTANT BufSize       \* words in the buffer: VIA_DMASIZE >> 2

ASSUME BufAssumption == BufSize \in Nat /\ BufSize > 64

Vdata == "Vdata"                     \* HC_ParaType_CmdVdata
Paras == {"NotTex", "TexGeneral", "Tex0", "Tex1", Vdata}

(* flushFunc and agpDMA never change while the buffer is in use; drm is    *)
(* what the kernel answers to the next submission.  work holds what the    *)
(* engine will do for the buffered words, queue what it was given; leaked  *)
(* remembers 3D state that reached the engine of a DRI screen behind the   *)
(* kernel's back.                                                          *)
SetupCBuffer(dri, agp) ==
  [pos |-> 0, mode |-> 0, rindex |-> "none", has3d |-> FALSE,
   flushFunc |-> IF dri THEN "dri" ELSE "pci", agpDMA |-> agp, drm |-> TRUE,
   sect |-> "none", ok |-> TRUE, state3d |-> FALSE, work |-> <<>>,
   queue |-> <<>>, leaked |-> FALSE]

Emptied(cb) ==
  [cb EXCEPT !.pos = 0, !.sect = "none", !.state3d = FALSE, !.work = <<>>,
             !.queue = @ \o cb.work]

(* Mutant: the mode survives a flush. *)
FlushKeepsMode(cb) ==
  [Emptied(cb) EXCEPT !.has3d = FALSE,
                      !.leaked = @ \/ (cb.state3d /\ cb.flushFunc = "dri")]

FlushPCI(cb) ==
  [Emptied(cb) EXCEPT !.mode = 0, !.has3d = FALSE,
                      !.leaked = @ \/ (cb.state3d /\ cb.flushFunc = "dri")]

(* HC_DUMMY: harmless among the parameters of a header 2 only. *)
Dummy(cb) ==
  [cb EXCEPT !.pos = @ + 1, !.ok = @ /\ cb.sect \in Paras]

(* A submission that the kernel refuses leaves the words where they are. *)
FlushDRI(cb) ==
  LET odd == /\ cb.agpDMA /\ cb.mode = 2 /\ cb.rindex # Vdata
             /\ cb.pos % 2 = 1
      c   == IF odd THEN Dummy(cb) ELSE cb
      s   == [c EXCEPT !.mode = 0, !.has3d = FALSE]
  IN  IF ~(c.agpDMA \/ c.has3d) THEN FlushPCI(c)
      ELSE IF c.drm THEN Emptied(s) ELSE s

Flush(cb) == IF cb.flushFunc = "dri" THEN FlushDRI(cb) ELSE FlushPCI(cb)

BeginRing(cb, size) == IF cb.pos > BufSize - size THEN Flush(cb) ELSE cb

(* n register writes.  The mode of the buffer stays what it was, and       *)
(* behind vertex data the parser takes them for vertices.                  *)
OutH1(cb, n) ==
  [cb EXCEPT !.pos = @ + 2 * n, !.sect = IF @ = Vdata THEN @ ELSE "h1",
             !.ok = @ /\ cb.sect # Vdata]

(* A header 2, unless the last one written is for the same parameters. *)
BeginH2(cb, para, size) ==
  LET c == BeginRing(cb, size + 6)
      d == IF c.pos % 2 = 1 THEN Dummy(c) ELSE c
  IN  IF c.mode = 2 /\ c.rindex = para THEN c
      ELSE [d EXCEPT !.pos = @ + 2, !.rindex = para, !.mode = 2,
                     !.has3d = @ \/ para # Vdata,
                     !.sect = IF @ = Vdata THEN @ ELSE para,
                     !.ok = @ /\ d.sect # Vdata]

(* n parameters, meant for the header 2 written last. *)
OutSubA(cb, n) ==
  [cb EXCEPT !.pos = @ + n, !.ok = @ /\ cb.sect = cb.rindex]

(* The same for parameters that are 3D state to the kernel. *)
OutState(cb, n) == [OutSubA(cb, n) EXCEPT !.state3d = TRUE]

Work(cb, w) == [cb EXCEPT !.work = Append(@, w)]
=============================================================================
