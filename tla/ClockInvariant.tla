--------------------------- MODULE ClockInvariant ---------------------------
(***************************************************************************)
(* What holds at every step of a call of read_rtc, so that the time it     *)
(* ends with was right at some moment of the call.  The registers of a     *)
(* pass are read at moments that follow one another; the registers of the  *)
(* pass before it were read at earlier ones and held the same values.      *)
(***************************************************************************)
EXTENDS Clock

(* What is shown is in range: two digits are enough for it. *)
Displayable(r) == /\ Decode(r.second) \in 0 .. 59 /\ Decode(r.minute) \in 0 .. 59
                  /\ DecodeHour(r.hour) \in 0 .. 23

(* The contents of the cells, and a time written into them. *)
Screens == [Columns -> 0 .. 9 \cup {Blank, Colon}]

Written(w, h, m, s) ==
  /\ w[72] = h \div 10 /\ w[73] = h % 10 /\ w[74] = Colon
  /\ w[75] = m \div 10 /\ w[76] = m % 10 /\ w[77] = Colon
  /\ w[78] = s \div 10 /\ w[79] = s % 10

(* read_rtc is between its first and its last line. *)
Busy == pc # "idle"

(* The times of a call are the chip's, one second after the other.          *)
SeenInv ==
  /\ Busy => Len(seen) >= 1 /\ seen[Len(seen)] = now
  /\ \A i \in 1 .. Len(seen) - 1 : seen[i + 1] = After(seen[i])

(* The seconds of the j-th time of a call shorter than a minute.            *)
SecondAt(j) ==
  IF seen[1].second + j - 1 < SECONDS THEN seen[1].second + j - 1
  ELSE seen[1].second + j - 1 - SECONDS

(* Counted from any of these times, the seconds run on without a carry      *)
(* exactly as long as minutes and hours stay.                               *)
ShortCallInv ==
  Len(seen) < SECONDS =>
    /\ \A j \in 1 .. Len(seen) : seen[j].second = SecondAt(j)
    /\ \A j, k \in 1 .. Len(seen) :
         j <= k /\ seen[k].second - seen[j].second = k - j =>
           seen[k].minute = seen[j].minute /\ seen[k].hour = seen[j].hour

(* r was read in a pass: the seconds at the i-th time, as they were then or,  *)
(* during a carry, one further (j), the minutes at the a-th, the hours at the *)
(* b-th.                                                                      *)
SecondOf(r, i, j) == i <= j /\ j <= i + 1 /\ r.second = Encode(SecondAt(j))
MinuteOf(r, a)    == r.minute = Encode(seen[a].minute)
HourOf(r, b)      == r.hour = EncodeHour(seen[b].hour)

PassOf(r, i, j, a, b) ==
  /\ i <= a /\ a <= b
  /\ SecondOf(r, i, j) /\ MinuteOf(r, a) /\ HourOf(r, b)

Moments == 1 .. Len(seen)

(* The previous pass ended before moment c, and the carry it may have met is *)
(* over by then.                                                             *)
PassBefore(r, c) == \E i, j, a, b \in Moments : PassOf(r, i, j, a, b) /\ b <= c /\ j <= c

(* The j that is not yet a moment of the call is the second the chip has     *)
(* carried already.                                                          *)
NextMoment(j) == j \in Moments \/ (j = Len(seen) + 1 /\ phase = "carrying")

PassInv ==
  Len(seen) < SECONDS =>
    /\ pc = "wait" /\ ~first =>
         \E i, a, b \in Moments, j \in 1 .. Len(seen) + 1 : PassOf(last, i, j, a, b) /\ NextMoment(j)
    /\ pc = "second" /\ ~first => PassBefore(last, Len(seen))
    /\ pc = "minute" =>
         \E i \in Moments, j \in 1 .. Len(seen) + 1 :
           /\ SecondOf(read, i, j) /\ NextMoment(j)
           /\ ~first => PassBefore(last, i)
    /\ pc = "hour" =>
         \E i, a \in Moments, j \in 1 .. Len(seen) + 1 :
           /\ SecondOf(read, i, j) /\ NextMoment(j) /\ MinuteOf(read, a) /\ i <= a
           /\ ~first => PassBefore(last, i)
    /\ pc = "show" =>
         /\ last = read
         /\ \E i, a, b \in Moments, j \in 1 .. Len(seen) + 1 :
              PassOf(read, i, j, a, b) /\ PassBefore(read, i)

ClockInv == TypeOK /\ Displayable(read) /\ SeenInv /\ ShortCallInv /\ PassInv
=============================================================================
