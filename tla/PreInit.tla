-------------------------------- MODULE PreInit --------------------------------
(***************************************************************************)
(* VIAPreInit (via_driver.c): from the options of the configuration file   *)
(* and the card to the settings a server runs with, or to a refusal, which *)
(* gives back what the steps before it have taken.                         *)
(*                                                                         *)
(* Flags are the boolean options that are on.  ShadowFB and HWCursor tell  *)
(* "unset" from "on" and "off".  The settings are the records that         *)
(* DriverLifecycle has as Options, those of the outputs the configurations *)
(* of Outputs.                                                             *)
(***************************************************************************)
EXTENDS ModeSelection

Flags == {"NoAccel", "EXA", "Rotate", "SWCursor", "DisableVQ", "DisableIRQ",
          "EnableAGPDMA", "NoAGPFor2D", "VBEModes"}
Switch == {"unset", "on", "off"}

(* Any ShadowFB, off too, turns the shadow on, and with it acceleration    *)
(* off; the choice of EXA is made before that.                             *)
Shadow(o) == o.shadowFB # "unset" \/ "Rotate" \in o.flags
Configured(o, depth, vbe) ==
  [noAccel |-> "NoAccel" \in o.flags \/ Shadow(o),
   exa |-> "EXA" \in o.flags /\ "NoAccel" \notin o.flags,
   shadow |-> Shadow(o),
   hwcursor |-> /\ "SWCursor" \notin o.flags
                /\ IF o.hwCursor = "unset" THEN ~Shadow(o) ELSE o.hwCursor = "on",
   vq |-> "DisableVQ" \notin o.flags, irq |-> "DisableIRQ" \notin o.flags,
   agp |-> "EnableAGPDMA" \in o.flags, dma2d |-> "NoAGPFor2D" \notin o.flags,
   bpp |-> IF depth = 24 THEN 32 ELSE depth,
   vbe |-> vbe]

(* The options of the outputs.  A size that is not in the list is no size; *)
(* DFP means the panel.                                                    *)
PanelNames == <<"640x480", "800x600", "1024x768", "1280x768", "1280x1024", "1400x1050">>
OutputOptions(o) ==
  [force |-> o.forcePanel,
   tv |-> IF o.tvOutput \in TVOutputs THEN o.tvOutput ELSE NoTV,
   active |-> {d \in {"crt", "lcd", "tv"} : d \in o.devices \/ (d = "lcd" /\ "dfp" \in o.devices)},
   size |-> IF \E i \in 1 .. 6 : PanelNames[i] = o.panelSize
            THEN (CHOOSE i \in 1 .. 6 : PanelNames[i] = o.panelSize) - 1 ELSE NoPanel,
   type |-> IF o.tvType \in {"NTSC", "PAL"} THEN o.tvType ELSE "jumper",
   narrow |-> o.busWidth # "24BIT"]

(* A name in the configuration goes before a number, a number before what  *)
(* the bus reports; the table is the driver's.                             *)
Chip(name, id, probed, table) ==
  IF name # "" THEN name ELSE table[IF id >= 0 THEN id ELSE probed]

(* The standard of the TV: the option, else a jumper.                      *)
TVType(type, jumper) == IF type # "jumper" THEN type ELSE IF jumper THEN "PAL" ELSE "NTSC"

(* The BIOS sets modes where it is asked to, and for a panel on the chips  *)
(* whose panels the driver cannot drive; if it is not to be had, the driver*)
(* does so after all.  bios: the version of its VBE, 0 for none.           *)
UseVBE(o, used, chip, bios) ==
  IF "VBEModes" \in o.flags \/ ("lcd" \in used /\ chip \in ProChips) THEN bios ELSE 0

-----------------------------------------------------------------------------
(* The steps that may refuse, in their order, and what is held when each   *)
(* does: the entity's record, the driver's record, the registers' mapping, *)
(* the encoder's device, the VBE.                                          *)

Step(name, held) == [name |-> name, held |-> held]
Probing == {"record", "entity"}
Mapped == {"record", "mmio"}
Steps(encoder, vbe) ==
  LET found == Mapped \cup (IF encoder # NoTV THEN {"encoder"} ELSE {})
      chosen == found \cup (IF vbe > 0 THEN {"vbe"} ELSE {})
  IN  <<Step("entities", {}), Step("vgahw", {}), Step("resources", Probing),
        Step("bypassed", Probing), Step("depth", Probing), Step("weight", Probing),
        Step("visual", Probing), Step("not true colour", Probing),
        Step("mmio", {"record"}), Step("gamma", Mapped), Step("i2c", Mapped),
        Step("ddc", Mapped), Step("outputs", found), Step("modes", chosen),
        Step("fb", chosen), Step("exa", chosen), Step("xaa", chosen),
        Step("ramdac", chosen), Step("shadowfb", chosen)>>

(* VIAFreeRec lets go of all the driver's record knows of.                 *)
VIAFreeRec(held) == held \ {"record", "mmio", "encoder", "vbe"}
Refuse(step) ==
  IF step.name = "visual" THEN step.held ELSE VIAFreeRec(step.held) \ {"entity"}

(* The modules a server loads: refused are only those it needs.            *)
Needed(conf) ==
  {"fb"} \cup (IF conf.noAccel THEN {} ELSE {"xaa"} \cup (IF conf.exa THEN {"exa"} ELSE {}))
    \cup (IF conf.hwcursor THEN {"ramdac"} ELSE {}) \cup (IF conf.shadow THEN {"shadowfb"} ELSE {})

-----------------------------------------------------------------------------
(* A refusal takes everything back, except where no visual can be set: the *)
(* driver then returns with its records allocated.                         *)
ASSUME RefusalFrees ==
  \A encoder \in {NoTV, "VT1622"}, vbe \in {0, 2} : \A i \in DOMAIN Steps(encoder, vbe) :
    LET step == Steps(encoder, vbe)[i] IN Refuse(step) = {} <=> step.name # "visual"

(* Settings are consistent: rotation and the shadow exclude acceleration,  *)
(* and no acceleration needs no module for it.                             *)
ASSUME SettingsConsistent ==
  \A flags \in SUBSET Flags, shadow \in Switch, cursor \in Switch :
    LET o == [flags |-> flags, shadowFB |-> shadow, hwCursor |-> cursor]
        c == Configured(o, 16, 0)
    IN  /\ "Rotate" \in flags => c.shadow
        /\ c.shadow => c.noAccel
        /\ c.noAccel <=> "xaa" \notin Needed(c)
        /\ "SWCursor" \in flags => ~c.hwcursor
        /\ c.shadow /\ c.hwcursor => cursor = "on"

(* Whatever is configured, some output is used, and a card whose panel the *)
(* driver cannot drive is driven by the BIOS or has none.                  *)
ASSUME ConfiguredOutputs ==
  \A force \in BOOLEAN, tv \in {"", "rgb"}, devices \in SUBSET {"crt", "dfp", "tv"}, bios \in {0, 2} :
    LET o == [flags |-> {}, forcePanel |-> force, tvOutput |-> tv, devices |-> devices,
              panelSize |-> "1600x1200", tvType |-> "", busWidth |-> ""]
        conf == OutputOptions(o)
    IN  \A card \in {c \in Cards : c.pins = 0 /\ c.buses[2] = Silent} :
          LET used == Used(card, conf)
          IN  /\ used # {} /\ conf.size = NoPanel
              /\ UseVBE(o, used, "PM800", bios) = 0 => "lcd" \notin used \/ bios = 0
              /\ UseVBE(o, used, "CLE266A", bios) = 0
================================================================================
