---------------------------- MODULE MCAcceleration ----------------------------
(* Small instances of Acceleration for TLC.                                *)
EXTENDS Acceleration, PixelFormats

(* What is called together in one behaviour. *)
Exa3D == {"composite", "texture", "client", "cpu"}
Exa2D == {"solid", "copy", "cpu", "dga"}
ExaBoth == {"solid", "composite", "blit", "cpu"}
MCScreens == {"agp", "dri", "pci"} \X {Exa3D, Exa2D, ExaBoth, {"xaa", "dga"}}
MCMasked == {<<"pci", {"solid", "copy"}>>}
MCPixmaps == {<<32, 32>>, <<24, 32>>}
MCPixmaps16 == {<<16, 16>>}
===============================================================================
