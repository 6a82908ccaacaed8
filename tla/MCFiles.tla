------------------------------- MODULE MCFiles -------------------------------
(* Dolphin's folder with game a (a1, a2), its companion b and another game c; *)
(* an N64 cartridge in the three forms; Game Boy cartridges in the emulators  *)
(* that differ in how they keep RAM and clock.                                *)
EXTENDS SyncFiles, TLC

CONSTANTS a, b, c, a1, a2, b1, c1, c2

MCSetup(platform, games, layout, cart, spelled, remove) ==
  [remove |-> remove, platform |-> platform, games |-> games, layout |-> layout, cart |-> cart, spelled |-> spelled]

MCDolphin(remove) == MCSetup("gci", {a}, "dolphin", "card", TRUE, remove)
MCN64(form, spelled, remove) == MCSetup("n64", {a}, form, "cart", spelled, remove)
MCGb(layout, cart) == MCSetup("gb", {a}, layout, cart, TRUE, FALSE)

MCClockCores == {"gambatte", "mgba", "sameboy", "tgbdual", "gearboy", "mgba_standalone", "vbam_standalone"}
MCSetups ==
  {MCDolphin(TRUE), MCN64("libretro", TRUE, FALSE), MCN64("mupen64plus", FALSE, TRUE), MCN64("project64", FALSE, FALSE)}
    \cup {MCGb(layout, "clock") : layout \in MCClockCores}
    \cup {MCGb(layout, "mbc2") : layout \in {"mgba", "gambatte", "sameboy"}}

MCCompanions == [g \in {a, b, c} |-> IF g = a THEN {b} ELSE {}]

MCIdGame == [i \in {a1, a2, b1, c1, c2} |-> CASE i \in {a1, a2} -> a [] i = b1 -> b [] OTHER -> c]
MCIdName == [i \in {a1, a2, b1, c1, c2} |-> CASE i = a1 -> <<1, 0>> [] i = a2 -> <<2, 0>> [] i = b1 -> <<3, 0>> [] OTHER -> <<4, 0>>]
MCIdBlocks == [i \in {a1, a2, b1, c1, c2} |-> IF i = c1 THEN 2 ELSE 1]
MCRegion == [g \in {a, b, c} |-> "EUR"]

\* A file of the folder; 0 for one that is no save.
MCGci(i, n) == [id |-> i, data |-> IF n = 0 THEN Broken ELSE <<n>>]

MCTypes == <<"eeprom", "pak1", "pak2", "sram">>
\* Contents as a unit holds them: a save of version n, a type by its name.
MCHolds(t, n) == CASE t = "eeprom" -> IF n = 1 THEN <<1>> ELSE <<n, 3>> [] t = "sram" -> <<1, n>> [] OTHER -> <<n, 5>>
MCN64Unit(types, n) == Unit({SaveOf(a, t, MCHolds(t, n)) : t \in types}, None)

MCRam(n) == <<n, n, 1>>
MCCells(n) == <<Gb!Byte(n, 1), Gb!Byte(1, 1)>>
MCGbUnit(ram, clock) == Unit({SaveOf(a, "ram", ram)}, clock)

\* A clock that runs, one whose days overflowed, one that stands still.
MCClocks ==
  {Gb!Clock(Gb!Regs(1, 1, 1, FALSE, FALSE), Gb!Zero, 9),
   Gb!Clock(Gb!Regs(0, 1, 0, FALSE, TRUE), Gb!Regs(1, 0, 0, FALSE, FALSE), 11),
   Gb!Clock(Gb!Regs(1, 0, 1, TRUE, FALSE), Gb!Zero, 9)}

\* Clocks as emulators store them: the latched registers are older than the
\* current ones, and VBA-M may keep the whole day count in its low byte.
MCVba(size) == {[size |-> size, current |-> Gb!Regs(1, 3, 0, FALSE, FALSE), latched |-> Gb!Regs(0, 1, 0, FALSE, FALSE), stamp |-> 5]}
MCStored(format) ==
  CASE format \in {"vba", "mgba"} -> MCVba(48) [] format = "vba32" -> MCVba(44)
    [] format = "gambatte" -> {[size |-> 8, base |-> base] : base \in {-4, 2}}
    [] format = "mesen2" -> {[size |-> 13, current |-> Gb!Regs(1, 1, 1, FALSE, TRUE), stamp |-> 5]}
    [] format = "sameboy" -> {[size |-> 32, current |-> Gb!Regs(1, 1, 1, TRUE, FALSE), latched |-> Gb!Zero, stamp |-> 5]}
    [] format = "tgbdual" -> {[size |-> 4, count |-> 5]}
MCFormats(layout) == IF Gb!CoreClock(layout) # None THEN {Gb!CoreClock(layout)} ELSE {"vba", "vba32", "mesen2"}

MCOneFile(path, content) == (path :> content)

MCGbDisks(s) ==
  {MCOneFile("ram", Gb!Ram(MCRam(1), None))}
    \cup IF Gb!HasRtc(s.layout)
         THEN {"ram" :> Gb!Ram(MCRam(1), None) @@ "rtc" :> f : f \in UNION {MCStored(m) : m \in MCFormats(s.layout)}}
         ELSE {MCOneFile("ram", Gb!Ram(MCRam(1), f)) : f \in MCVba(48) \cup (IF s.layout = "vbam_standalone" THEN MCVba(44) ELSE {})}

MCDisksOf(s) ==
  CASE s.platform = "gci" ->
         {<<1, 0>> :> MCGci(c1, 1) @@ <<4, 0>> :> MCGci(a2, 1),
          <<1, 0>> :> MCGci(a1, 1) @@ <<1, 1>> :> MCGci(a1, 2) @@ <<3, 0>> :> MCGci(b1, 2),
          <<2, 0>> :> MCGci(a2, 0) @@ <<4, 0>> :> MCGci(c1, 1) @@ <<4, 1>> :> MCGci(c2, 1) @@ <<3, 0>> :> MCGci(b1, 1)}
    [] s.layout = "libretro" -> {<<>>, MCOneFile(<<"srm", 1>>, <<1, 8, 1, 5, 9, 7, 2, 1, 4>>)}
    [] s.layout = "mupen64plus" ->
         {<<"eeprom", 1>> :> <<1, 8>> @@ <<"mpk", 1>> :> <<1, 5, 9, 7>>, MCOneFile(<<"mpk", 1>>, <<9, 7, 1, 5>>),
          MCOneFile(<<"eeprom", 1>>, <<Void, Void>>)}
    [] s.layout = "project64" -> {<<"eeprom", 1>> :> <<1, 8>> @@ <<"pak1", 1>> :> <<1, 5>>}
    [] s.cart = "mbc2" -> {<<>>, MCOneFile("ram", Gb!Ram(Gb!InForm(MCCells(0), Gb!Form(s.layout)), None))}
    [] OTHER -> MCGbDisks(s)
MCDisks == [s \in Setups |-> MCDisksOf(s)]

MCEditsOf(s) ==
  CASE s.platform = "gci" -> {<<<<1, 0>>, MCGci(a1, 2)>>, <<<<2, 0>>, MCGci(c1, 1)>>, <<<<3, 0>>, MCGci(b1, 2)>>}
    [] s.layout = "libretro" -> {<<<<"srm", 1>>, <<2, 3, 9, 7, 2, 5, 8, 8>>>>, <<<<"srm", 2>>, <<1, 8, 9, 0, 9, 0, 8, 8>>>>}
    [] s.layout = "mupen64plus" -> {<<<<"eeprom", 1>>, <<2, 8>>>>, <<<<"mpk", 1>>, <<2, 5, 9, 7>>>>, <<<<"eeprom", 1>>, None>>}
    [] s.layout = "project64" -> {<<<<"pak1", 1>>, <<2, 5>>>>, <<<<"sram", 1>>, <<3, 1>>>>}
    [] s.cart = "mbc2" -> {<<"ram", Gb!Ram(Gb!InForm(MCCells(1), Gb!Form(s.layout)), None)>>, <<"ram", None>>}
    [] OTHER -> {<<"ram", Gb!Ram(MCRam(3), None)>>, <<"ram", Gb!Empty>>}
                  \cup IF Gb!HasRtc(s.layout) THEN {<<"rtc", None>>} ELSE {}
MCEdits == [s \in Setups |-> MCEditsOf(s)]

MCUnitsOf(s) ==
  CASE s.platform = "gci" ->
         {Unit({SaveOf(a, a1, <<1>>), SaveOf(a, a2, <<2>>)}, None), Unit({SaveOf(a, a1, <<2>>)}, None)}
    [] s.layout = "mupen64plus" ->
         {MCN64Unit({"eeprom", "sram"}, 2), MCN64Unit({"pak1"}, 1), MCN64Unit({"eeprom", "pak2"}, 2)}
    [] s.platform = "n64" -> {MCN64Unit({"eeprom", "sram"}, 2), MCN64Unit({"eeprom", "pak1"}, 1), MCN64Unit({"eeprom", "pak2"}, 2)}
    [] s.cart = "mbc2" -> {MCGbUnit(Gb!Neutral(MCCells(1)), None)}
    [] OTHER -> {MCGbUnit(MCRam(2), None)} \cup {MCGbUnit(MCRam(2), Gb!Write("vba", k)) : k \in MCClocks}
MCUnits ==
  [s \in Setups |-> [g \in IF s.platform = "gci" THEN {a, b} ELSE {a} |-> IF g = b THEN {Unit({SaveOf(b, b1, <<1>>)}, None)} ELSE MCUnitsOf(s)]]

\* A game whose second save is named as its first with a zero after it, and a
\* broken file where the first one goes.
MCSetupsNamed == {MCDolphin(TRUE)}
MCIdNameNamed == [MCIdName EXCEPT ![a2] = <<1, 1>>]
MCDisksNamed == [s \in Setups |-> {MCOneFile(<<1, 0>>, MCGci(a1, 0))}]
MCEditsNamed == [s \in Setups |-> {<<<<1, 0>>, MCGci(a1, 2)>>, <<<<4, 0>>, MCGci(c1, 1)>>}]
=============================================================================
