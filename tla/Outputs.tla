-------------------------------- MODULE Outputs --------------------------------
(***************************************************************************)
(* Which outputs of a card the driver finds and uses (via_mode.c), and the *)
(* VT162x TV encoders (via_vt162x.c).                                      *)
(*                                                                         *)
(* A card is a record: known, whether its subsystem id is in the driver's  *)
(* table, and outputs, what the table says of it; ddc, whether a monitor   *)
(* answers; buses, the version each I2C bus reports at the address of an   *)
(* encoder (Silent when nothing answers); pins, what the encoder senses.   *)
(* A configuration has force (a panel), tv (TVOutput) and active, the set  *)
(* of devices that ActiveDevice names.                                     *)
(***************************************************************************)
EXTENDS Integers, Sequences

Silent == -1
NoTV == "none"
TVOutputs == {"composite", "svideo", "rgb", "ycbcr", "sc"}

(* The version register tells the encoder; the VT1625 (0x50) is refused.   *)
ViaVT162xDetect(version) ==
  CASE version = 2 -> "VT1621" [] version = 3 -> "VT1622" [] version = 16 -> "VT1623"
    [] OTHER -> NoTV

(* The second bus is asked only when nothing answers on the first.         *)
ViaTVDetect(buses) ==
  IF buses[1] # Silent THEN ViaVT162xDetect(buses[1])
  ELSE IF buses[2] # Silent THEN ViaVT162xDetect(buses[2]) ELSE NoTV

(* The cables an encoder senses at its four converters.                    *)
DACSense(encoder, pins) ==
  LET p == pins % 16
  IN  IF encoder = "VT1621"
      THEN CASE p = 0 -> "sc" [] p = 1 -> "composite" [] p = 2 -> "svideo" [] OTHER -> NoTV
      ELSE CASE p = 0 -> "rgb" [] p = 1 -> "sc" [] p = 7 -> "composite" [] p = 8 -> "ycbcr"
             [] p = 9 -> "svideo" [] OTHER -> NoTV

ViaOutputsDetect(card, conf) ==
  LET panel == conf.force \/ (card.known /\ "lcd" \in card.outputs)
      encoder == ViaTVDetect(card.buses)
  IN  [panel |-> panel,
       crt |-> card.ddc \/ (~panel /\ (card.known => "crt" \in card.outputs)),
       encoder |-> encoder,
       tv |-> IF encoder # NoTV
              THEN IF conf.tv # NoTV THEN conf.tv ELSE DACSense(encoder, card.pins)
              ELSE IF card.known /\ "tv" \in card.outputs THEN NoTV ELSE conf.tv]

(* The devices that are used of those that were found.                     *)
ViaOutputsSelect(found, active) ==
  IF active = {}
  THEN {d \in {"lcd", "tv", "crt"} :
          CASE d = "lcd" -> found.panel
            [] d = "tv"  -> ~found.panel /\ found.tv # NoTV
            [] d = "crt" -> found.crt}
  ELSE LET lcd == "lcd" \in active /\ found.panel
           tv  == "tv" \in active /\ found.encoder # NoTV /\ found.tv # NoTV /\ ~lcd
       IN  (IF lcd THEN {"lcd"} ELSE {}) \cup (IF tv THEN {"tv"} ELSE {})
             \cup (IF "crt" \in active \/ (~lcd /\ ~tv) THEN {"crt"} ELSE {})

-----------------------------------------------------------------------------
(* The modes of an encoder, by name and standard.  Its list of modes and   *)
(* its table of register values have the same entries.                     *)

Both(names) == names \X {"NTSC", "PAL"}
TVModes(encoder) ==
  CASE encoder = "VT1621" ->
         Both({"640x480", "800x600", "640x480Over", "800x600Over"})
    [] encoder \in {"VT1622", "VT1623"} ->
         Both({"640x480", "800x600", "1024x768", "848x480", "640x480Over", "800x600Over",
               "1024x768Over", "848x480Over"})
           \cup {<<"720x480", "NTSC">>, <<"720x480Over", "NTSC">>, <<"720x576", "PAL">>,
                 <<"720x576Over", "PAL">>, <<"720x576Noscale", "PAL">>}
           \cup (IF encoder = "VT1622" THEN {<<"720x480Noscale", "NTSC">>} ELSE {})
    [] OTHER -> {}

(* A mode (private: the standard of the encoder's own modes, or "" for any *)
(* other) is valid if it is of the standard in use and has its table.  One *)
(* check serves the VT1621 and another, the same, the rest.                *)
ModeIndexed(encoder, type, mode) == <<mode.name, type>> \in TVModes(encoder)
VT162xModeValid(encoder, type, mode) ==
  mode.private = type /\ ModeIndexed(encoder, type, mode)

(* Without an encoder nothing is asked of a mode.                          *)
ViaTVModeValid(encoder, type, mode) ==
  encoder = NoTV \/ VT162xModeValid(encoder, type, mode)

-----------------------------------------------------------------------------
(* The registers of the encoder that setting a mode, sensing the cables and*)
(* powering it write, and those that are saved at start and restored.      *)

SubCarrier == 22 .. 25
VT1621Written ==
  (0 .. 21) \cup SubCarrier \cup {28} \cup (30 .. 35) \cup {36} \cup (74 .. 81) \cup (82 .. 97)
    \cup {14, 17}
VT1622Written(output) ==
  {29} \cup (0 .. 21) \cup SubCarrier \cup {26, 28} \cup (30 .. 47) \cup (74 .. 100)
    \cup {14, 17, 3}
    \cup (IF output = "rgb" THEN {2, 39, 43, 44} \cup (101 .. 103)
          ELSE IF output = "ycbcr" THEN {2} \cup (101 .. 103) ELSE {})
TVPower == {14}
TVWritten(encoder, output) ==
  TVPower \cup (IF encoder = "VT1621" THEN VT1621Written ELSE VT1622Written(output))
TVSaved(encoder) == 0 .. (IF encoder = "VT1623" THEN 108 ELSE 104) - 1

(* ViaTVSetMode's part on the controller: the encoder takes over the clock *)
(* except on the K8M800 and the PM800.                                     *)
ClockExternal(encoder, chip) == encoder # NoTV /\ chip \notin {"K8M800", "PM800"}

-----------------------------------------------------------------------------
(* Cards (those in the driver's table all have a CRT) and configurations. *)
Cards ==
  {c \in [known : BOOLEAN, outputs : SUBSET {"lcd", "tv", "crt"}, ddc : BOOLEAN,
          buses : {<<a, b>> : a \in {Silent, 3, 80}, b \in {Silent, 2, 16}}, pins : {0, 3, 9, 15}] :
     IF c.known THEN "crt" \in c.outputs ELSE c.outputs = {}}
Configurations ==
  [force : BOOLEAN, tv : {NoTV, "rgb"}, active : SUBSET {"lcd", "tv", "crt"}]
Used(card, conf) == ViaOutputsSelect(ViaOutputsDetect(card, conf), conf.active)

(* There is always a picture somewhere, never on a panel and a TV at once, *)
(* and what ActiveDevice does not name is used only when nothing it names  *)
(* can be.                                                                 *)
ASSUME OutputsUsed ==
  \A card \in Cards, conf \in Configurations :
    LET used == Used(card, conf)
    IN  /\ used # {} /\ ~({"lcd", "tv"} \subseteq used)
        /\ conf.active # {} => used \subseteq conf.active \/ used = {"crt"}

(* A TV is used without an encoder only where TVOutput is configured, the  *)
(* driver chooses the devices, and its table expects no TV of the card.    *)
ASSUME TVHasEncoder ==
  \A card \in Cards, conf \in Configurations :
    "tv" \in Used(card, conf) =>
      \/ ViaOutputsDetect(card, conf).encoder # NoTV
      \/ conf.tv # NoTV /\ conf.active = {} /\ "tv" \notin card.outputs

(* Whatever is written to an encoder is restored when the driver leaves.   *)
ASSUME TVRestored ==
  \A e \in {"VT1621", "VT1622", "VT1623"}, o \in TVOutputs : TVWritten(e, o) \subseteq TVSaved(e)

(* The driver offers each mode of an encoder for its own standard alone,   *)
(* and knows no mode of the configuration by the same name.                *)
ASSUME TVModesOffered ==
  \A e \in {"VT1621", "VT1622", "VT1623"}, type \in {"NTSC", "PAL"} : \A m \in TVModes(e) :
    /\ ViaTVModeValid(e, type, [name |-> m[1], private |-> m[2]]) <=> m[2] = type
    /\ ~ViaTVModeValid(e, type, [name |-> m[1], private |-> ""])
================================================================================
