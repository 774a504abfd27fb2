-------------------------- MODULE MCDriverLifecycle --------------------------
(* Small instances of DriverLifecycle for TLC.                             *)
EXTENDS DriverLifecycle, CrtcTimings, PreInit, ShadowRotation

(* Options that do not meet are not combined. *)
Plain == [noAccel |-> FALSE, bpp |-> 16, vbe |-> 0, vq |-> TRUE, hwcursor |-> TRUE,
         exa |-> TRUE, agp |-> TRUE, irq |-> TRUE, dma2d |-> TRUE,
         shadow |-> FALSE, ram |-> 16777216]

(* Memory with room for the queue but not for the cursor, for both, for    *)
(* neither.                                                                *)
Tight == {ScreenEnd + VQSize + 2048, ScreenEnd + VQSize + 8192, ScreenEnd + 2048}
MCOptions == {Plain,
              [Plain EXCEPT !.vbe = 2],
              [Plain EXCEPT !.vbe = 1, !.exa = FALSE, !.irq = FALSE],
              [Plain EXCEPT !.exa = FALSE, !.vq = FALSE, !.dma2d = FALSE],
              [Plain EXCEPT !.agp = FALSE],
              [Plain EXCEPT !.noAccel = TRUE, !.shadow = TRUE],
              [Plain EXCEPT !.exa = FALSE, !.hwcursor = FALSE],
              [Plain EXCEPT !.noAccel = TRUE, !.shadow = TRUE, !.ram = ScreenEnd + 5120]}
             \cup {[Plain EXCEPT !.exa = e, !.agp = FALSE, !.irq = FALSE, !.ram = n] :
                    e \in BOOLEAN, n \in Tight}

(* VIAPreInit can make each of these settings of some configuration, with  *)
(* any memory.                                                             *)
ASSUME OptionsConfigurable ==
  \A opt0 \in MCOptions : \E flags \in SUBSET Flags, shadow \in {"unset", "on"} :
    [f \in DOMAIN opt0 \ {"ram"} |-> opt0[f]] =
      Configured([flags |-> flags, shadowFB |-> shadow, hwCursor |-> "on"], opt0.bpp, opt0.vbe)

MCFailSets == {{}, {"fb"}, {"mode"}, {"visuals"}, {"colormap"}, {"symbols"}, {"drm"}, {"acquire"},
               {"heap"}, {"kernel"}, {"irq"}, {"ring"}, {"exa"}, {"cbuffer"},
               {"exa", "acquire"}, {"exa", "colormap"}}
===============================================================================
