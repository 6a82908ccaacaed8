-------------------------------- MODULE GbSave --------------------------------
(***************************************************************************)
(* A Game Boy cartridge's save in its emulators' files                     *)
(* (src/src/sync_gb.c): the RAM in a .srm with the clock in an .rtc beside *)
(* it (libretro cores), or both in one .sav, the clock as a footer.        *)
(*                                                                         *)
(* RAM is a sequence of bytes.  MBC2's is Cells cells of four bits, kept   *)
(* two to a byte, one to a byte, or in the cart's whole address range; a   *)
(* nibble has Nibble values here.                                          *)
(***************************************************************************)
EXTENDS Naturals, Sequences, SequencesExt, ClockGb

CONSTANTS
  Cells,    \* cells of an MBC2 cart, 512 on the real one
  Span,     \* bytes of its address range, 8192 there
  Nibble,   \* values of four bits, 16 there
  None      \* no file, no clock

High == Nibble - 1
Byte(low, high) == low + Nibble * high

Path == {"ram", "rtc"}
Ram(bytes, footer) == [bytes |-> bytes, footer |-> footer]

(***************************************************************************)
(* MBC2's three forms.                                                     *)
(***************************************************************************)
Packed == Cells \div 2

\* An MBC2 cart, by its header or the length of its RAM.
Mbc2(cart, bytes) == cart = "mbc2" \/ Len(bytes) \in {Packed, Cells}

\* Mutant: a packed pair is taken high nibble first.
NeutralHighFirst(bytes) ==
  [i \in 1..Cells |->
     IF Len(bytes) = Packed
     THEN LET pair == bytes[(i + 1) \div 2] IN Byte(IF i % 2 = 0 THEN pair % Nibble ELSE pair \div Nibble, High)
     ELSE IF i <= Len(bytes) THEN Byte(bytes[i] % Nibble, High) ELSE Byte(High, High)]

\* Each cell in the low nibble, all ones above it.
Neutral(bytes) ==
  [i \in 1..Cells |->
     IF Len(bytes) = Packed
     THEN LET pair == bytes[(i + 1) \div 2] IN Byte(IF i % 2 = 1 THEN pair % Nibble ELSE pair \div Nibble, High)
     ELSE IF i <= Len(bytes) THEN Byte(bytes[i] % Nibble, High) ELSE Byte(High, High)]

InForm(cells, length) ==
  IF length = Packed THEN [i \in 1..Packed |-> Byte(cells[2 * i - 1] % Nibble, cells[2 * i] % Nibble)]
  ELSE [i \in 1..length |-> IF i <= Cells THEN cells[i] ELSE Byte(High, High)]

Normal(cart, bytes) == IF Mbc2(cart, bytes) THEN Neutral(bytes) ELSE bytes

(***************************************************************************)
(* What each emulator keeps, by its layout.                                *)
(***************************************************************************)
\* The clock format a core writes; None for one sigil doesn't know.
CoreClock(layout) == IF layout \in {"gambatte", "mgba", "sameboy", "tgbdual"} THEN layout
                     ELSE IF layout = "vbam" THEN "vba" ELSE None

\* mGBA, standalone, pairs the time with the latched registers.
FooterFormat(layout) == IF layout = "mgba_standalone" THEN "mgba" ELSE "vba"

Standalone(layout) == layout \in {"mgba_standalone", "vbam_standalone"}
HasRtc(layout) == ~Standalone(layout)

\* The format of that size.  Mutant: the core does not count, 48 bytes are VBA's.
FormatBySize(layout, file) ==
  CASE file.size = 48 -> "vba" [] file.size = 44 -> "vba32" [] file.size = 8 -> "gambatte"
    [] file.size = 13 -> "mesen2" [] file.size = 32 -> "sameboy" [] file.size = 4 -> "tgbdual"

\* The core's format when it has that size, else the one of that size.
ClockFormat(layout, file) ==
  IF CoreClock(layout) # None /\ SizeOf(CoreClock(layout)) = file.size THEN CoreClock(layout)
  ELSE FormatBySize(None, file)

Form(layout) ==
  CASE layout \in {"mgba", "mgba_standalone"} -> Packed [] layout \in {"gambatte", "tgbdual"} -> Span [] OTHER -> Cells

(***************************************************************************)
(* Reading (take_ram, read_local).  An empty file holds no save.           *)
(***************************************************************************)
Empty == Ram(<<>>, None)
HasRam(d) == d["ram"] \notin {None, Empty}
LocalRam(d, cart) == Normal(cart, d["ram"].bytes)

\* The RAM is the save; a clock that ticked makes no new one.
Local(d, cart) == IF HasRam(d) THEN {LocalRam(d, cart)} ELSE {}

FooterClock(layout, footer) == Read(IF footer.size = 48 THEN FooterFormat(layout) ELSE "vba32", footer, 0)

\* An .rtc wins over a footer.
LocalClock(d, layout, now) ==
  IF d["rtc"] # None THEN Read(ClockFormat(layout, d["rtc"]), d["rtc"], now)
  ELSE IF HasRam(d) /\ d["ram"].footer # None THEN FooterClock(layout, d["ram"].footer)
  ELSE None

\* The clock of a collected unit, in the 48-byte VBA layout.
UnitClock(d, layout, cart, now) ==
  IF cart = "clock" /\ LocalClock(d, layout, now) # None THEN Write("vba", LocalClock(d, layout, now)) ELSE None

(***************************************************************************)
(* Writing (ram_file, target_clock).  A unit is its RAM, in the neutral    *)
(* form, and its clock as collected, or None.                              *)
(***************************************************************************)
In(clock) == IF clock = None THEN None ELSE Read("vba", clock, 0)

FormThere(d, layout) ==
  IF HasRam(d) /\ Len(d["ram"].bytes) \in {Packed, Cells, Span} THEN Len(d["ram"].bytes) ELSE Form(layout)

\* The unit's clock, else the one there.
Timed(d, layout, now, clock) == IF clock # None THEN In(clock) ELSE LocalClock(d, layout, now)

RamFile(d, layout, cart, now, ram, clock) ==
  IF Mbc2(cart, ram) THEN Ram(InForm(ram, FormThere(d, layout)), None)
  ELSE Ram(ram, IF Standalone(layout) /\ cart = "clock" /\ Timed(d, layout, now, clock) # None
                THEN Write(FooterFormat(layout), Timed(d, layout, now, clock)) ELSE None)

\* The format of the .rtc there, else the core's; None when none is written.
TargetFormat(d, layout, clock) ==
  IF clock = None \/ ~HasRtc(layout) THEN None
  ELSE IF d["rtc"] # None THEN ClockFormat(layout, d["rtc"])
  ELSE CoreClock(layout)

\* The RAM first, then the clock.
Turns(d, layout, cart, now, ram, clock) ==
  LET format == TargetFormat(d, layout, clock)
  IN <<{[path |-> "ram", data |-> RamFile(d, layout, cart, now, ram, clock)]}>>
     \o IF format = None THEN <<>> ELSE <<{[path |-> "rtc", data |-> Write(format, In(clock))]}>>

(***************************************************************************)
(* The clock the emulator shows at a time, or None.  A core reads an .rtc  *)
(* as its own format; one sigil doesn't know writes one told by its size.  *)
(***************************************************************************)
ShownClock(d, layout, time) ==
  IF HasRtc(layout)
  THEN IF d["rtc"] = None THEN None
       ELSE EmulatorShows(IF CoreClock(layout) # None THEN CoreClock(layout) ELSE FormatBySize(layout, d["rtc"]), d["rtc"], time)
  ELSE IF ~HasRam(d) \/ d["ram"].footer = None THEN None
  ELSE EmulatorShows(FooterFormat(layout), d["ram"].footer, time)

\* The format the unit's clock ends up in, in either file.
TargetFormatAny(d, layout, clock) ==
  IF Standalone(layout) THEN FooterFormat(layout) ELSE TargetFormat(d, layout, clock)
=============================================================================
