-------------------------------- MODULE Clock --------------------------------
(***************************************************************************)
(* System call 78, which the program clock makes in a loop: read_rtc       *)
(* (src/src/cmos/cmos.c) reads the time from the clock chip, and writeClock*)
(* (src/src/Keyboard/keyboard.c) writes it into the corner of the screen.  *)
(*                                                                         *)
(* The chip runs on its own.  It announces an update, advances its         *)
(* registers one after the other, and withdraws the announcement; the      *)
(* driver reads the registers one at a time, so an update can fall between *)
(* any two of its reads.  The chip is external: it is modelled from the    *)
(* way read_rtc treats it.                                                 *)
(***************************************************************************)
EXTENDS Integers, Sequences

CONSTANTS
  MINUTES, SECONDS,   \* minutes in an hour and seconds in a minute (60)
  StartTimes,         \* times at which a behaviour may begin
  MaxTicks            \* bound: updates the chip makes in a behaviour

HOURS == 24
Times == [hour : 0 .. HOURS - 1, minute : 0 .. MINUTES - 1, second : 0 .. SECONDS - 1]

ASSUME ClockAssumption ==
  /\ MINUTES \in 1 .. 60 /\ SECONDS \in 1 .. 60
  /\ StartTimes \subseteq Times
  /\ MaxTicks \in Nat

VARIABLES
  now,      \* the time, as of the chip's last complete update
  phase,    \* "steady", "announced" or "carrying": the chip's update
  ticks,    \* updates so far
  binary,   \* register B: binary registers, or BCD
  h24,      \* register B: 24-hour format, or 12-hour with a PM bit
  pc,       \* where read_rtc is; "idle" between two calls
  first,    \* is this the pass before the do loop?
  read,     \* secondc, minutec and hourc
  last,     \* last_second, last_minute and last_hour
  display,  \* cells 72 to 80 of the last row of the screen
  seen      \* ghost: the times that were right during the call, in order

chipVars   == <<now, phase, ticks, binary, h24>>
driverVars == <<pc, first, read, last, display, seen>>
vars == <<chipVars, driverVars>>

Blank == 10   \* characters other than digits
Colon == 11
Columns == 72 .. 80

Init ==
  /\ now \in StartTimes
  /\ phase = "steady" /\ ticks = 0
  /\ binary \in BOOLEAN /\ h24 \in BOOLEAN
  /\ pc = "idle" /\ first = TRUE
  /\ read = [second |-> 0, minute |-> 0, hour |-> 0]
  /\ last = read
  /\ display = [c \in Columns |-> Blank]
  /\ seen = << >>

-----------------------------------------------------------------------------
(* The chip *)

After(t) ==
  LET s == (t.second + 1) % SECONDS
      m == IF s = 0 THEN (t.minute + 1) % MINUTES ELSE t.minute
      h == IF s = 0 /\ m = 0 THEN (t.hour + 1) % HOURS ELSE t.hour
  IN  [hour |-> h, minute |-> m, second |-> s]

(* What the registers hold: while the chip is carrying, the seconds have    *)
(* advanced and the rest has not.                                           *)
Registers ==
  IF phase = "carrying" THEN [now EXCEPT !.second = After(now).second] ELSE now

Encode(n) == IF binary THEN n ELSE (n \div 10) * 16 + (n % 10)

EncodeHour(h) ==
  IF h24 THEN Encode(h)
  ELSE Encode(IF h % 12 = 0 THEN 12 ELSE h % 12) + (IF h >= 12 THEN 128 ELSE 0)

UpdateInProgress == phase # "steady"

ChipAnnounces ==
  /\ phase = "steady" /\ ticks < MaxTicks
  /\ phase' = "announced" /\ ticks' = ticks + 1
  /\ UNCHANGED <<now, binary, h24, driverVars>>

ChipCarries ==
  /\ phase = "announced"
  /\ phase' = "carrying"
  /\ UNCHANGED <<now, ticks, binary, h24, driverVars>>

ChipUpdates ==
  /\ phase = "carrying"
  /\ phase' = "steady" /\ now' = After(now)
  /\ seen' = IF pc = "idle" THEN seen ELSE Append(seen, now')
  /\ UNCHANGED <<ticks, binary, h24, pc, first, read, last, display>>

-----------------------------------------------------------------------------
(* read_rtc *)

Call ==
  /\ pc = "idle"
  /\ pc' = "wait" /\ first' = TRUE /\ seen' = <<now>>
  /\ UNCHANGED <<chipVars, read, last, display>>

(* while (get_update_in_progress_flag()); *)
WaitForUpdate ==
  /\ pc = "wait" /\ ~UpdateInProgress
  /\ pc' = "second"
  /\ UNCHANGED <<chipVars, first, read, last, display, seen>>

ReadSecond ==
  /\ pc = "second"
  /\ read' = [read EXCEPT !.second = Encode(Registers.second)]
  /\ pc' = "minute"
  /\ UNCHANGED <<chipVars, first, last, display, seen>>

ReadMinute ==
  /\ pc = "minute"
  /\ read' = [read EXCEPT !.minute = Encode(Registers.minute)]
  /\ pc' = "hour"
  /\ UNCHANGED <<chipVars, first, last, display, seen>>

(* Mutant: one pass is enough. *)
ReadHourOnce ==
  /\ pc = "hour"
  /\ read' = [read EXCEPT !.hour = EncodeHour(Registers.hour)]
  /\ pc' = "show"
  /\ UNCHANGED <<chipVars, first, last, display, seen>>

(* Mutant: the values compared with stay those of the first pass. *)
ReadHourKeepsLast ==
  /\ pc = "hour"
  /\ read' = [read EXCEPT !.hour = EncodeHour(Registers.hour)]
  /\ last' = IF first THEN read' ELSE last
  /\ pc' = IF ~first /\ read' = last THEN "show" ELSE "wait"
  /\ first' = FALSE
  /\ UNCHANGED <<chipVars, display, seen>>

(* The last register of a pass.  The passes go on until two in a row have   *)
(* read the same.                                                           *)
ReadHour ==
  /\ pc = "hour"
  /\ read' = [read EXCEPT !.hour = EncodeHour(Registers.hour)]
  /\ last' = read'
  /\ pc' = IF ~first /\ read' = last THEN "show" ELSE "wait"
  /\ first' = FALSE
  /\ UNCHANGED <<chipVars, display, seen>>

-----------------------------------------------------------------------------
(* Conversion and display *)

Decode(r) == IF binary THEN r ELSE (r % 16) + (r \div 16) * 10

(* The PM bit is set aside while the hour is converted from BCD.  Adding 12 *)
(* is right for every hour of the 12-hour format but 12 itself.             *)
DecodeHour(r) ==
  LET h == Decode(r % 128)
  IN  IF r < 128 THEN h ELSE IF h24 THEN h + 128 ELSE (h + 12) % 24

(* Mutant: a number is written into one cell. *)
OneDigit(cells, n, c) == [cells EXCEPT ![c] = n]

(* A one-digit number is followed by a blank: for the seconds that is       *)
(* column 80, outside the row.                                              *)
printDigits(cells, n, c) ==
  IF n > 9 THEN [cells EXCEPT ![c] = n \div 10, ![c + 1] = n % 10]
           ELSE [cells EXCEPT ![c] = n, ![c + 1] = Blank]

Padded(cells, n, c) ==
  IF n <= 9 THEN printDigits([cells EXCEPT ![c] = 0], n, c + 1) ELSE printDigits(cells, n, c)

writeClock(cells, hour, minute, second) ==
  LET hours   == [Padded(cells, hour, 72) EXCEPT ![74] = Colon]
      minutes == [Padded(hours, minute, 75) EXCEPT ![77] = Colon]
  IN  Padded(minutes, second, 78)

(* The kernel's clock is seven hours ahead of the chip's. *)
Show ==
  /\ pc = "show"
  /\ display' = writeClock(display, (DecodeHour(read.hour) + 7) % 24,
                           Decode(read.minute), Decode(read.second))
  /\ pc' = "idle"
  /\ UNCHANGED <<chipVars, first, read, last, seen>>

-----------------------------------------------------------------------------

Chip   == ChipAnnounces \/ ChipCarries \/ ChipUpdates
Driver == Call \/ WaitForUpdate \/ ReadSecond \/ ReadMinute \/ ReadHour \/ Show

Next == Chip \/ Driver

(* The chip completes the updates it announces, and the processor goes on   *)
(* executing the driver, which runs with interrupts off.                    *)
Fairness == WF_vars(ChipCarries \/ ChipUpdates) /\ WF_vars(Driver)

Spec == Init /\ [][Next]_vars /\ Fairness

-----------------------------------------------------------------------------
(* Properties *)

TypeOK ==
  /\ now \in Times /\ seen \in Seq(Times)
  /\ phase \in {"steady", "announced", "carrying"} /\ ticks \in 0 .. MaxTicks
  /\ pc \in {"idle", "wait", "second", "minute", "hour", "show"}
  /\ read \in [second : 0 .. 255, minute : 0 .. 255, hour : 0 .. 255]
  /\ last \in [second : 0 .. 255, minute : 0 .. 255, hour : 0 .. 255]
  /\ display \in [Columns -> 0 .. 9 \cup {Blank, Colon}]

(* "hh:mm:ss" for time t, seven hours ahead, in columns 72 to 79. *)
Digits(n) == <<n \div 10, n % 10>>
Shows(cells, t) ==
  /\ <<cells[72], cells[73]>> = Digits((t.hour + 7) % 24)
  /\ <<cells[75], cells[76]>> = Digits(t.minute)
  /\ <<cells[78], cells[79]>> = Digits(t.second)
  /\ cells[74] = Colon /\ cells[77] = Colon

(* The time written on the screen was the right time at some moment of the  *)
(* call, whatever updates fell between the reads of the three registers,    *)
(* and in every register format, when the call takes less than a minute:    *)
(* two passes a minute apart read the same seconds of different minutes.    *)
(* Excepted are noon and midnight in the 12-hour format: cmos.c:61-64 takes *)
(* 12 PM for 0 and 12 AM for 12.                                            *)
ShownTimeWasReal ==
  [][pc = "show" /\ pc' = "idle" /\ Len(seen) < SECONDS =>
       \/ \E i \in 1 .. Len(seen) : Shows(display', seen[i])
       \/ ~h24 /\ \E i \in 1 .. Len(seen) : seen[i].hour % 12 = 0]_vars

(* read_rtc loops twice over, waiting and comparing, with interrupts off:   *)
(* every call comes to an end, or the machine would stand still.            *)
ReadReturns == pc # "idle" ~> pc = "idle"
=============================================================================
