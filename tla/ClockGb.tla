-------------------------------- MODULE ClockGb --------------------------------
(***************************************************************************)
(* The clock of a Game Boy cartridge (MBC3) in the formats emulators keep  *)
(* it in (src/src/clock_gb.c).  Between them stands the neutral clock: the *)
(* registers, which hold at the time `stamp`.                              *)
(*                                                                         *)
(* Time is scaled: a day of Day ticks stands for 86400 seconds, a low day  *)
(* byte of LowDays values for 256, stored words of Word values for 2^32.   *)
(***************************************************************************)
EXTENDS Integers

CONSTANTS
  Day,      \* ticks of a day
  LowDays,  \* values of the day counter's low byte
  Word      \* values of a 32-bit word

DayLimit == 2 * LowDays
Limit == DayLimit * Day     \* where the counter wraps and sets the carry

\* Registers: ticks in the day, the day's low byte, and DH's three bits.
Regs(tick, low, high, halt, carry) ==
  [tick |-> tick, low |-> low, high |-> high, halt |-> halt, carry |-> carry]
Register == [tick : 0..(Day - 1), low : 0..(LowDays - 1), high : 0..1, halt : BOOLEAN, carry : BOOLEAN]

Clock(r, latched, stamp) ==
  [tick |-> r.tick, days |-> r.low + LowDays * r.high, halted |-> r.halt, carry |-> r.carry,
   latched |-> latched, stamp |-> stamp]

Zero == Regs(0, 0, 0, FALSE, FALSE)
RegsOf(c) == Regs(c.tick, c.days % LowDays, c.days \div LowDays, c.halted, c.carry)

\* Mutant: the whole count VBA-M may keep in the low byte is cut to a byte.
CutRegisters(r) == [r EXCEPT !.low = @ % LowDays]

\* VBA-M may keep the whole day count in the low byte.
SetRegisters(r) ==
  IF r.low >= LowDays THEN Regs(r.tick % Day, r.low % LowDays, (r.low % DayLimit) \div LowDays, r.halt, r.carry)
  ELSE r

FromTicks(total) ==
  LET days == total \div Day
  IN Regs(total % Day, days % LowDays, (days % DayLimit) \div LowDays, FALSE, days >= DayLimit)

\* Mutant: the days past the low byte are not counted.
LowTicksOf(c) == (c.days % LowDays) * Day + c.tick

TicksOf(c) == c.days * Day + c.tick

(***************************************************************************)
(* The formats.  A stored clock is a record of its size and its fields;    *)
(* "vba" and "mgba" have one size and differ in which registers the time   *)
(* goes with.                                                              *)
(***************************************************************************)
Formats == {"vba", "vba32", "mgba", "gambatte", "mesen2", "sameboy", "tgbdual"}
SizeOf(format) ==
  CASE format \in {"vba", "mgba"} -> 48 [] format = "vba32" -> 44 [] format = "gambatte" -> 8
    [] format = "mesen2" -> 13 [] format = "sameboy" -> 32 [] format = "tgbdual" -> 4

Read(format, f, now) ==
  CASE format \in {"vba", "vba32", "sameboy"} -> Clock(SetRegisters(f.current), f.latched, f.stamp)
    [] format = "mgba" -> Clock(SetRegisters(f.latched), f.latched, f.stamp)
    [] format = "gambatte" -> Clock(Zero, Zero, f.base)
    [] format = "mesen2" -> Clock(f.current, f.current, f.stamp)
    [] format = "tgbdual" -> Clock(FromTicks(f.count), FromTicks(f.count), now)

\* Mutant: a counter that overflowed is counted from its last wrap.
BaseOfCounter(c) == c.stamp - TicksOf(c)

\* The time a gambatte counter started at.
BaseOf(c) == c.stamp - TicksOf(c) - (IF c.carry THEN Limit ELSE 0)

Write(format, c) ==
  LET r == RegsOf(c) IN
  CASE format \in {"vba", "sameboy"} -> [size |-> SizeOf(format), current |-> r, latched |-> c.latched, stamp |-> c.stamp]
    [] format = "vba32" -> [size |-> 44, current |-> r, latched |-> c.latched, stamp |-> c.stamp % Word]
    [] format = "mgba" -> [size |-> 48, current |-> r, latched |-> r, stamp |-> c.stamp]
    [] format = "gambatte" -> [size |-> 8, base |-> BaseOf(c)]
    [] format = "mesen2" -> [size |-> 13, current |-> r, stamp |-> c.stamp]
    [] format = "tgbdual" -> [size |-> 4, count |-> TicksOf(c) % Word]

(***************************************************************************)
(* What a clock shows at a time: a cartridge's, and each emulator's with   *)
(* the file it loads then (docs/platforms/gb.md, "Clock formats").         *)
(***************************************************************************)
Advanced(r, ticks) ==
  LET total == (r.low + LowDays * r.high) * Day + r.tick + ticks
  IN IF r.halt THEN r ELSE [FromTicks(total) EXCEPT !.carry = @ \/ r.carry]

Shows(c, time) == Advanced(RegsOf(c), time - c.stamp)

EmulatorShows(format, f, time) ==
  CASE format \in {"vba", "vba32", "sameboy"} -> Advanced(f.current, time - f.stamp)
    [] format = "mgba" -> Advanced(f.latched, time - f.stamp)
    [] format = "gambatte" -> FromTicks(time - f.base)
    [] format = "mesen2" -> Advanced(f.current, time - f.stamp)
    [] format = "tgbdual" -> FromTicks(f.count)

\* What a format has no room for, of a clock written in it at its stamp:
\* gambatte's always runs; TGB Dual's stands still while it is off, has no carry
\* and runs again when it is on.
Kept(format, c) == ~(format = "gambatte" /\ c.halted) /\ format # "tgbdual"
==============================================================================
