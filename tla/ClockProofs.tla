----------------------------- MODULE ClockProofs -----------------------------
(***************************************************************************)
(* The clock never shows a time that was not right at some moment of the   *)
(* call, for every hour and minute length up to sixty, every starting time *)
(* and every number of updates of the chip.                                *)
(*                                                                         *)
(* The conversion lemmas come first: what Encode puts into a register is   *)
(* what Decode takes out of it, with the exception of 12 o'clock in the    *)
(* 12-hour format.  Then ClockInv, one lemma for each action.  Last, the   *)
(* argument about two equal passes (TwoPasses), and the step of Show.      *)
(***************************************************************************)
EXTENDS ClockInvariant, NatLemmas

-----------------------------------------------------------------------------
(* Registers and digits                                                     *)

(* Two decimal digits come back from either register format.                *)
LEMMA DecodeEncode ==
  ASSUME NEW n \in 0 .. 59
  PROVE  Encode(n) \in 0 .. 89 /\ Decode(Encode(n)) = n
<1> DEFINE t == n \div 10
           u == n % 10
<1>1. t \in 0 .. 5 /\ u \in 0 .. 9 /\ n = 10 * t + u
  OBVIOUS
<1> HIDE DEF t, u
<1>2. t * 16 + u \in 0 .. 89 /\ (t * 16 + u) % 16 = u /\ (t * 16 + u) \div 16 = t
  BY <1>1
<1>3. ~binary => Encode(n) = t * 16 + u
  BY DEF Encode, t, u
<1>4. QED
  BY <1>1, <1>2, <1>3 DEF Encode, Decode

LEMMA DecodeHourEncodeHour ==
  ASSUME NEW h \in 0 .. 23
  PROVE  /\ EncodeHour(h) \in 0 .. 255
         /\ DecodeHour(EncodeHour(h)) \in 0 .. 23
         /\ h24 \/ h % 12 # 0 => DecodeHour(EncodeHour(h)) = h
<1>1. CASE h24
  <2>1. EncodeHour(h) = Encode(h) /\ Encode(h) \in 0 .. 89 /\ Decode(Encode(h)) = h
    BY <1>1, DecodeEncode DEF EncodeHour
  <2>2. QED
    BY <2>1 DEF DecodeHour
<1>2. CASE ~h24
  <2> DEFINE k == IF h % 12 = 0 THEN 12 ELSE h % 12
             e == Encode(k)
  <2>1. k \in 1 .. 12 /\ (h % 12 # 0 => (h < 12 => k = h) /\ (h >= 12 => k = h - 12))
    OBVIOUS
  <2>2. e \in 0 .. 89 /\ Decode(e) = k
    BY <2>1, DecodeEncode
  <2>3. EncodeHour(h) = IF h >= 12 THEN e + 128 ELSE e
    BY <1>2, <2>2 DEF EncodeHour
  <2> HIDE DEF e, k
  <2>4. EncodeHour(h) % 128 = e /\ (EncodeHour(h) < 128 <=> h < 12) /\ EncodeHour(h) \in 0 .. 255
    BY <2>2, <2>3
  <2>5. DecodeHour(EncodeHour(h)) = IF h < 12 THEN k ELSE (k + 12) % 24
    BY <1>2, <2>2, <2>4 DEF DecodeHour
  <2>6. QED
    BY <1>2, <2>1, <2>4, <2>5
<1>3. QED
  BY <1>1, <1>2

(* A number of two digits occupies its two cells, and at most one more,     *)
(* which is blank.                                                          *)
LEMMA PaddedCells ==
  ASSUME NEW cells \in [Columns -> 0 .. 9 \cup {Blank, Colon}], NEW n \in 0 .. 59, NEW c \in 72 .. 78
  PROVE  /\ Padded(cells, n, c) \in [Columns -> 0 .. 9 \cup {Blank, Colon}]
         /\ Padded(cells, n, c)[c] = n \div 10 /\ Padded(cells, n, c)[c + 1] = n % 10
         /\ \A i \in Columns : i < c \/ i > c + 2 => Padded(cells, n, c)[i] = cells[i]
<1>1. n \div 10 \in 0 .. 9 /\ n % 10 \in 0 .. 9 /\ (n <= 9 => n \div 10 = 0 /\ n % 10 = n)
  OBVIOUS
<1>2. c \in Columns /\ c + 1 \in Columns /\ c + 2 \in Columns /\ c \in Int
  BY DEF Columns
<1> DEFINE C == 0 .. 9 \cup {Blank, Colon}
<1>3. CASE n <= 9
  <2>1. Padded(cells, n, c) = [[cells EXCEPT ![c] = 0] EXCEPT ![c + 1] = n, ![c + 2] = Blank]
    BY <1>3 DEF Padded, printDigits
  <2>2. QED
    BY <1>1, <1>2, <1>3, <2>1
<1>4. CASE n > 9
  <2>1. Padded(cells, n, c) = [cells EXCEPT ![c] = n \div 10, ![c + 1] = n % 10]
    BY <1>4 DEF Padded, printDigits
  <2>2. QED
    BY <1>1, <1>2, <1>4, <2>1
<1>5. QED
  BY <1>3, <1>4

(* What writeClock writes.                                                  *)
LEMMA ClockWritten ==
  ASSUME NEW cells \in Screens,
         NEW h \in 0 .. 23, NEW m \in 0 .. 59, NEW s \in 0 .. 59
  PROVE  /\ writeClock(cells, h, m, s) \in Screens
         /\ Written(writeClock(cells, h, m, s), h, m, s)
<1> DEFINE C == 0 .. 9 \cup {Blank, Colon}
           h0 == Padded(cells, h, 72)
           h1 == [h0 EXCEPT ![74] = Colon]
           m0 == Padded(h1, m, 75)
           m1 == [m0 EXCEPT ![77] = Colon]
           s0 == Padded(m1, s, 78)
<1>0. \A i \in 72 .. 80 : i \in Columns
  BY DEF Columns
<1>1. \A f, n, c : f \in [Columns -> C] /\ n \in 0 .. 59 /\ c \in 72 .. 78 =>
        /\ Padded(f, n, c) \in [Columns -> C]
        /\ Padded(f, n, c)[c] = n \div 10 /\ Padded(f, n, c)[c + 1] = n % 10
        /\ \A i \in Columns : i < c \/ i > c + 2 => Padded(f, n, c)[i] = f[i]
  BY PaddedCells
<1> HIDE DEF C
<1>2. h0 \in [Columns -> C] /\ h0[72] = h \div 10 /\ h0[73] = h % 10
  <2>1. h \in 0 .. 59 /\ 72 \in 72 .. 78 /\ 72 + 1 = 73 /\ cells \in [Columns -> C]
    BY DEF C, Screens
  <2>2. h0 \in [Columns -> C] /\ h0[72] = h \div 10 /\ h0[72 + 1] = h % 10
    BY <1>1, <2>1
  <2>3. QED
    BY <2>1, <2>2
<1>3. h1 \in [Columns -> C] /\ h1[72] = h \div 10 /\ h1[73] = h % 10 /\ h1[74] = Colon
  <2> HIDE DEF h0
  <2>1. Colon \in C
    BY DEF C
  <2>2. QED
    BY <1>0, <1>2, <2>1
<1>4. /\ m0 \in [Columns -> C] /\ m0[75] = m \div 10 /\ m0[76] = m % 10
      /\ m0[72] = h1[72] /\ m0[73] = h1[73] /\ m0[74] = h1[74]
  <2> HIDE DEF h1
  <2>1. 75 \in 72 .. 78 /\ 75 + 1 = 76 /\ 72 < 75 /\ 73 < 75 /\ 74 < 75
    OBVIOUS
  <2>2. 72 \in Columns /\ 73 \in Columns /\ 74 \in Columns
    BY <1>0
  <2>3. m0 \in [Columns -> C] /\ m0[75] = m \div 10 /\ m0[75 + 1] = m % 10
    BY <1>1, <1>3, <2>1
  <2>4. \A i \in Columns : i < 75 => m0[i] = h1[i]
    BY <1>1, <1>3, <2>1
  <2>5. QED
    BY <2>1, <2>2, <2>3, <2>4
<1>5. /\ m1 \in [Columns -> C] /\ m1[75] = m \div 10 /\ m1[76] = m % 10 /\ m1[77] = Colon
      /\ m1[72] = h1[72] /\ m1[73] = h1[73] /\ m1[74] = h1[74]
  <2> HIDE DEF h1, m0
  <2>1. Colon \in C
    BY DEF C
  <2>2. QED
    BY <1>0, <1>4, <2>1
<1>6. /\ s0 \in [Columns -> C] /\ s0[78] = s \div 10 /\ s0[79] = s % 10
      /\ \A i \in 72 .. 77 : s0[i] = m1[i]
  <2> HIDE DEF m1
  <2>1. 78 \in 72 .. 78 /\ 78 + 1 = 79 /\ \A i \in 72 .. 77 : i < 78 /\ i \in Columns
    BY DEF Columns
  <2>2. s0 \in [Columns -> C] /\ s0[78] = s \div 10 /\ s0[78 + 1] = s % 10
    BY <1>1, <1>5, <2>1
  <2>3. \A i \in Columns : i < 78 => s0[i] = m1[i]
    BY <1>1, <1>5, <2>1
  <2>4. QED
    BY <2>1, <2>2, <2>3
<1>7. writeClock(cells, h, m, s) = s0
  BY DEF writeClock
<1> HIDE DEF h1, m1, s0
<1>8. QED
  BY <1>3, <1>5, <1>6, <1>7 DEF C, Screens, Written

-----------------------------------------------------------------------------
(* Time                                                                     *)

LEMMA AfterTime ==
  ASSUME NEW t \in Times
  PROVE  /\ After(t) \in Times
         /\ After(t).second = IF t.second + 1 = SECONDS THEN 0 ELSE t.second + 1
         /\ t.second + 1 < SECONDS => After(t).minute = t.minute /\ After(t).hour = t.hour
         /\ t.second + 1 = SECONDS =>
              After(t).minute = IF t.minute + 1 = MINUTES THEN 0 ELSE t.minute + 1
         /\ t.second + 1 = SECONDS /\ t.minute + 1 < MINUTES => After(t).hour = t.hour
         /\ t.second + 1 = SECONDS /\ t.minute + 1 = MINUTES =>
              After(t).hour = IF t.hour = 23 THEN 0 ELSE t.hour + 1
<1>1. /\ SECONDS \in Nat \ {0} /\ MINUTES \in Nat \ {0}
      /\ t.second \in 0 .. SECONDS - 1 /\ t.minute \in 0 .. MINUTES - 1 /\ t.hour \in 0 .. 23
  BY ClockAssumption DEF Times, HOURS
<1>2. /\ (t.second + 1) % SECONDS = IF t.second + 1 = SECONDS THEN 0 ELSE t.second + 1
      /\ (t.minute + 1) % MINUTES = IF t.minute + 1 = MINUTES THEN 0 ELSE t.minute + 1
      /\ (t.hour + 1) % HOURS = IF t.hour = 23 THEN 0 ELSE t.hour + 1
  BY <1>1, ModUp DEF HOURS
<1>3. QED
  BY <1>1, <1>2 DEF After, Times, HOURS
-----------------------------------------------------------------------------
(* The times of a call                                                      *)

LEMMA Bounds ==
  /\ SECONDS \in Nat \ {0} /\ MINUTES \in Nat \ {0} /\ SECONDS <= 60 /\ MINUTES <= 60
  /\ \A t \in Times : /\ t.second \in Nat /\ t.second < SECONDS
                      /\ t.minute \in Nat /\ t.minute < MINUTES /\ t.hour \in 0 .. 23
BY ClockAssumption DEF Times, HOURS

(* The ranges of a clock of at most sixty minutes and seconds.              *)
LEMMA Sixty ==
  /\ \A s : s \in Nat /\ s < SECONDS => s \in 0 .. 59
  /\ \A t : t \in Times => t.second \in 0 .. 59 /\ t.minute \in 0 .. 59 /\ t.hour \in 0 .. 23
BY ClockAssumption DEF Times, HOURS

(* The seconds of the j-th and of a later time of a call, without a carry   *)
(* before the first of them, are as far apart as these times.               *)
LEMMA SecondsApart ==
  ASSUME NEW s \in Nat, s < SECONDS, NEW j \in Nat \ {0}, NEW k \in Nat, j <= k, k < SECONDS,
         (IF s + j - 1 < SECONDS THEN s + j - 1 ELSE s + j - 1 - SECONDS) = 0
  PROVE  (IF s + k - 1 < SECONDS THEN s + k - 1 ELSE s + k - 1 - SECONDS) = k - j
BY Bounds

(* The seconds of different times of a short call differ.                   *)
LEMMA SecondsDiffer ==
  ASSUME NEW s \in Nat, s < SECONDS, NEW j \in 1 .. SECONDS, NEW k \in 1 .. SECONDS,
         (IF s + j - 1 < SECONDS THEN s + j - 1 ELSE s + j - 1 - SECONDS) =
         (IF s + k - 1 < SECONDS THEN s + k - 1 ELSE s + k - 1 - SECONDS)
  PROVE  j = k
BY Bounds

(* The seconds of every time of a short call, and of the one that the chip  *)
(* is carrying to, are counted on from the first.                           *)
LEMMA SecondsCounted ==
  ASSUME TypeOK, SeenInv, ShortCallInv, Len(seen) < SECONDS, Busy
  PROVE  /\ \A j \in 1 .. Len(seen) + 1 : SecondAt(j) \in Nat /\ SecondAt(j) < SECONDS
         /\ SecondAt(Len(seen)) = now.second
         /\ SecondAt(Len(seen) + 1) = After(now).second
<1>1. /\ Len(seen) \in Nat /\ Len(seen) >= 1 /\ now = seen[Len(seen)] /\ now \in Times
      /\ seen[1] \in Times
  BY DEF TypeOK, SeenInv
<1>2. seen[1].second \in Nat /\ seen[1].second < SECONDS /\ SECONDS \in Nat
  BY <1>1, Bounds
<1>3. \A j \in 1 .. Len(seen) + 1 : SecondAt(j) \in Nat /\ SecondAt(j) < SECONDS
  BY <1>1, <1>2 DEF SecondAt
<1>4. SecondAt(Len(seen)) = now.second
  BY <1>1 DEF ShortCallInv
<1>5. SecondAt(Len(seen) + 1) = IF now.second + 1 = SECONDS THEN 0 ELSE now.second + 1
  <2> DEFINE s == seen[1].second
             n == Len(seen)
             x == now.second
  <2>1. /\ s \in Nat /\ s < SECONDS /\ n \in Nat /\ n >= 1 /\ n < SECONDS
        /\ x \in Nat /\ x < SECONDS
    BY <1>1, <1>2, Bounds
  <2>2. x = (IF s + n - 1 < SECONDS THEN s + n - 1 ELSE s + n - 1 - SECONDS)
    BY <1>4 DEF SecondAt
  <2>3. SecondAt(n + 1) = (IF s + (n + 1) - 1 < SECONDS THEN s + (n + 1) - 1 ELSE s + (n + 1) - 1 - SECONDS)
    BY Zenon DEF SecondAt
  <2> HIDE DEF s, n, x
  <2>4. SecondAt(n + 1) = IF x + 1 = SECONDS THEN 0 ELSE x + 1
    BY <1>2, <2>1, <2>2, <2>3
  <2>5. QED
    BY <2>4 DEF n, x
<1>6. QED
  BY <1>1, <1>3, <1>4, <1>5, AfterTime

(* An update during a call adds one time to those seen.                     *)
LEMMA UpdateSeen ==
  ASSUME TypeOK, SeenInv, ChipUpdates, Busy
  PROVE  /\ Len(seen') = Len(seen) + 1 /\ seen' \in Seq(Times)
         /\ \A i \in 1 .. Len(seen) : seen'[i] = seen[i]
         /\ seen'[Len(seen) + 1] = After(now) /\ now' = After(now)
         /\ \A j : SecondAt(j)' = SecondAt(j)
         /\ Len(seen) \in Nat /\ Len(seen) >= 1
<1>1. seen' = Append(seen, After(now)) /\ now' = After(now)
  BY DEF ChipUpdates, Busy
<1>2. After(now) \in Times /\ seen \in Seq(Times) /\ Len(seen) \in Nat /\ Len(seen) >= 1
  BY AfterTime DEF TypeOK, SeenInv
<1>3. /\ Len(seen') = Len(seen) + 1 /\ seen' \in Seq(Times)
      /\ \A i \in 1 .. Len(seen) : seen'[i] = seen[i]
      /\ seen'[Len(seen) + 1] = After(now)
  BY <1>1, <1>2
<1>4. seen'[1] = seen[1]
  BY <1>2, <1>3
<1>5. \A j : SecondAt(j)' = SecondAt(j)
  BY <1>4 DEF SecondAt
<1>6. QED
  BY <1>1, <1>2, <1>3, <1>5

LEMMA UpdateKeepsCount ==
  ASSUME TypeOK, SeenInv, ShortCallInv, ChipUpdates, Busy
  PROVE  SeenInv' /\ ShortCallInv'
<1> DEFINE n == Len(seen)
<1>1. /\ Len(seen') = n + 1 /\ n \in Nat /\ n >= 1
      /\ \A i \in 1 .. n : seen'[i] = seen[i]
      /\ seen'[n + 1] = After(now) /\ now' = After(now) /\ pc' = pc
      /\ \A j : SecondAt(j)' = SecondAt(j)
      /\ now = seen[n] /\ now \in Times
      /\ \A i \in 1 .. n : seen[i] \in Times
  BY UpdateSeen DEF ChipUpdates, SeenInv, Busy, TypeOK
<1>2. SeenInv'
  <2>1. \A i \in 1 .. n - 1 : seen[i + 1] = After(seen[i])
    BY DEF SeenInv
  <2>2. \A i \in 1 .. n : seen'[i + 1] = After(seen'[i])
    <3>1. ASSUME NEW i \in 1 .. n PROVE seen'[i + 1] = After(seen'[i])
      <4>1. CASE i = n
        BY <1>1, <4>1
      <4>2. CASE i # n
        <5>1. i \in 1 .. n - 1 /\ i + 1 \in 1 .. n
          BY <1>1, <4>2
        <5>2. QED
          BY <1>1, <2>1, <5>1
      <4>3. QED
        BY <4>1, <4>2
    <3>2. QED
      BY <3>1
  <2>3. After(now)' = After(now') /\ \A t : After(t)' = After(t)
    BY DEF After
  <2>4. QED
    BY <1>1, <2>2, <2>3 DEF SeenInv, Busy
<1>3. ShortCallInv'
  <2> SUFFICES ASSUME Len(seen') < SECONDS PROVE ShortCallInv'
    BY DEF ShortCallInv
  <2>1. n < SECONDS /\ SecondAt(n + 1) = After(now).second /\ After(now).second \in Nat
    BY <1>1, SecondsCounted, Bounds
  <2>2. \A j \in 1 .. n + 1 : seen'[j].second = SecondAt(j)'
    <3>1. \A j \in 1 .. n + 1 : j \in 1 .. n \/ j = n + 1
      BY <1>1
    <3>2. QED
      BY <1>1, <2>1, <3>1 DEF ShortCallInv
  <2>3. ASSUME NEW j \in 1 .. n + 1, NEW k \in 1 .. n + 1, j <= k,
               seen'[k].second - seen'[j].second = k - j
        PROVE  seen'[k].minute = seen'[j].minute /\ seen'[k].hour = seen'[j].hour
    <3>1. CASE k \in 1 .. n
      <4>1. j \in 1 .. n
        BY <1>1, <2>3, <3>1
      <4>2. QED
        BY <1>1, <2>1, <2>3, <3>1, <4>1 DEF ShortCallInv
    <3>2. CASE k = n + 1 /\ j \in 1 .. n
      <4>1. seen'[j] = seen[j] /\ seen'[k] = After(now) /\ seen[j].second \in Nat
        BY <1>1, <3>2, Bounds
      <4>2. After(now).second = seen[j].second + (n + 1 - j)
        BY <1>1, <2>1, <2>3, <3>2, <4>1
      <4>3. now.second \in Nat /\ SECONDS \in Nat /\ now.second < SECONDS
        BY <1>1, Bounds
      <4>4. After(now).second # 0
        BY <1>1, <3>2, <4>1, <4>2
      <4>5. now.second + 1 < SECONDS /\ After(now).second = now.second + 1
        <5>1. After(now).second = IF now.second + 1 = SECONDS THEN 0 ELSE now.second + 1
          BY <1>1, AfterTime
        <5>2. QED
          BY <4>3, <4>4, <5>1
      <4>6. seen[n].second - seen[j].second = n - j
        <5> DEFINE x == now.second
                   y == seen[j].second
        <5>1. x \in Nat /\ y \in Nat /\ x + 1 = y + (n + 1 - j)
          BY <4>1, <4>2, <4>3, <4>5
        <5>2. seen[n].second = x
          BY <1>1
        <5> HIDE DEF x, y
        <5>3. x - y = n - j
          BY <1>1, <5>1
        <5>4. QED
          BY <5>2, <5>3 DEF y
      <4>7. now.minute = seen[j].minute /\ now.hour = seen[j].hour
        BY <1>1, <2>1, <3>2, <4>6 DEF ShortCallInv
      <4>8. QED
        BY <1>1, <4>1, <4>5, <4>7, AfterTime
    <3>3. CASE k = n + 1 /\ j = n + 1
      BY <3>3
    <3>4. QED
      BY <1>1, <3>1, <3>2, <3>3
  <2>4. QED
    BY <1>1, <2>2, <2>3 DEF ShortCallInv
<1>4. QED
  BY <1>2, <1>3
-----------------------------------------------------------------------------
(* The passes                                                               *)

(* While the chip goes on, what was read stays what was right at its moment. *)
LEMMA PassesKept ==
  ASSUME TypeOK, PassInv, UNCHANGED <<pc, first, read, last, binary, h24>>,
         Len(seen') \in Nat, Len(seen) <= Len(seen'),
         \A i \in Moments : seen'[i] = seen[i],
         \A j : SecondAt(j)' = SecondAt(j),
         \A j : NextMoment(j) => NextMoment(j)'
  PROVE  PassInv'
<1> SUFFICES ASSUME Len(seen') < SECONDS PROVE PassInv'
  BY DEF PassInv
<1>1. Len(seen) \in Nat /\ Len(seen) < SECONDS
  BY Bounds DEF TypeOK
<1>2. /\ \A i \in Moments : i \in Moments' /\ seen'[i] = seen[i]
      /\ \A j \in 1 .. Len(seen) + 1 : j \in 1 .. Len(seen') + 1
      /\ Len(seen) \in Moments => Len(seen) <= Len(seen')
  BY <1>1 DEF Moments
<1>3. \A n : Encode(n)' = Encode(n) /\ EncodeHour(n)' = EncodeHour(n)
  BY DEF Encode, EncodeHour
<1>4. /\ \A i, j : SecondOf(read, i, j) => SecondOf(read, i, j)'
      /\ \A a \in Moments : MinuteOf(read, a) => MinuteOf(read, a)'
      /\ \A b \in Moments : HourOf(read, b) => HourOf(read, b)'
      /\ \A i, j : SecondOf(last, i, j) => SecondOf(last, i, j)'
      /\ \A a \in Moments : MinuteOf(last, a) => MinuteOf(last, a)'
      /\ \A b \in Moments : HourOf(last, b) => HourOf(last, b)'
  BY <1>2, <1>3 DEF SecondOf, MinuteOf, HourOf
<1>5. /\ \A i, j, a, b : a \in Moments /\ b \in Moments /\ PassOf(read, i, j, a, b) => PassOf(read, i, j, a, b)'
      /\ \A i, j, a, b : a \in Moments /\ b \in Moments /\ PassOf(last, i, j, a, b) => PassOf(last, i, j, a, b)'
  BY <1>4 DEF PassOf
<1>6. /\ \A c : PassBefore(read, c) => PassBefore(read, c)'
      /\ \A c : PassBefore(last, c) => PassBefore(last, c)'
  BY <1>2, <1>5 DEF PassBefore
<1>7. ASSUME PassBefore(last, Len(seen)) PROVE PassBefore(last, Len(seen))'
  <2>1. PICK i, j, a, b \in Moments : PassOf(last, i, j, a, b) /\ b <= Len(seen) /\ j <= Len(seen)
    BY <1>7 DEF PassBefore
  <2>2. PassOf(last, i, j, a, b)' /\ b <= Len(seen') /\ j <= Len(seen')
    BY <1>1, <1>5, <2>1 DEF Moments
  <2>3. QED
    BY <1>2, <2>2 DEF PassBefore
<1>8. pc = "wait" /\ ~first =>
        (\E i, a, b \in Moments, j \in 1 .. Len(seen) + 1 : PassOf(last, i, j, a, b) /\ NextMoment(j))'
  BY <1>1, <1>2, <1>5 DEF PassInv
<1>9. pc = "second" /\ ~first => PassBefore(last, Len(seen))'
  BY <1>1, <1>7 DEF PassInv
<1>10. pc = "minute" =>
         (\E i \in Moments, j \in 1 .. Len(seen) + 1 :
            /\ SecondOf(read, i, j) /\ NextMoment(j)
            /\ ~first => PassBefore(last, i))'
  BY <1>1, <1>2, <1>4, <1>6 DEF PassInv
<1>11. pc = "hour" =>
         (\E i, a \in Moments, j \in 1 .. Len(seen) + 1 :
            /\ SecondOf(read, i, j) /\ NextMoment(j) /\ MinuteOf(read, a) /\ i <= a
            /\ ~first => PassBefore(last, i))'
  BY <1>1, <1>2, <1>4, <1>6 DEF PassInv
<1>12. pc = "show" =>
         (/\ last = read
          /\ \E i, a, b \in Moments, j \in 1 .. Len(seen) + 1 :
               PassOf(read, i, j, a, b) /\ PassBefore(read, i))'
  BY <1>1, <1>2, <1>5, <1>6 DEF PassInv
<1>13. QED
  BY <1>8, <1>9, <1>10, <1>11, <1>12 DEF PassInv

LEMMA ChipStepInv == ASSUME ClockInv, Chip PROVE ClockInv'
<1> USE DEF ClockInv
<1>1. UNCHANGED <<binary, h24, pc, first, read, last, display>>
  BY DEF Chip, ChipAnnounces, ChipCarries, ChipUpdates, driverVars
<1>2. Displayable(read)'
  BY <1>1 DEF Displayable, Decode, DecodeHour
<1>3. CASE ChipAnnounces \/ ChipCarries
  <2>1. UNCHANGED <<now, seen>> /\ phase' \in {"announced", "carrying"} /\ phase # "carrying"
    BY <1>3 DEF ChipAnnounces, ChipCarries, driverVars
  <2>2. TypeOK'
    BY <1>1, <1>3, <2>1, ClockAssumption DEF TypeOK, ChipAnnounces, ChipCarries
  <2>3. SeenInv'
    BY <1>1, <2>1 DEF SeenInv, Busy, After
  <2>4. ShortCallInv' /\ \A j : SecondAt(j)' = SecondAt(j)
    BY <2>1 DEF ShortCallInv, SecondAt
  <2>5. \A j : NextMoment(j) => NextMoment(j)'
    BY <2>1 DEF NextMoment, Moments
  <2>6. Len(seen) \in Nat
    BY DEF TypeOK
  <2>7. PassInv'
    BY <1>1, <2>1, <2>4, <2>5, <2>6, PassesKept
  <2>8. QED
    BY <1>2, <2>2, <2>3, <2>4, <2>7
<1>4. CASE ChipUpdates /\ Busy
  <2>1. SeenInv' /\ ShortCallInv'
    BY <1>4, UpdateKeepsCount
  <2>2. /\ Len(seen') = Len(seen) + 1 /\ Len(seen) \in Nat /\ seen' \in Seq(Times)
        /\ \A i \in Moments : seen'[i] = seen[i]
        /\ \A j : SecondAt(j)' = SecondAt(j)
    BY <1>4, UpdateSeen DEF Moments
  <2>3. TypeOK'
    BY <1>1, <1>4, <2>2, AfterTime DEF TypeOK, ChipUpdates
  <2>4. \A j : NextMoment(j) => NextMoment(j)'
    BY <2>2 DEF NextMoment, Moments
  <2>5. PassInv'
    BY <1>1, <2>2, <2>4, PassesKept
  <2>6. QED
    BY <1>2, <2>1, <2>3, <2>5
<1>5. CASE ChipUpdates /\ ~Busy
  <2>1. UNCHANGED seen /\ pc = "idle" /\ now' = After(now) /\ phase' = "steady" /\ UNCHANGED ticks
    BY <1>5 DEF ChipUpdates, Busy
  <2>2. TypeOK'
    BY <1>1, <2>1, AfterTime DEF TypeOK
  <2>3. SeenInv' /\ ShortCallInv'
    BY <1>1, <2>1 DEF SeenInv, ShortCallInv, SecondAt, Busy, After
  <2>4. PassInv'
    BY <1>1, <2>1 DEF PassInv
  <2>5. QED
    BY <1>2, <2>2, <2>3, <2>4
<1>6. QED
  BY <1>3, <1>4, <1>5 DEF Chip
-----------------------------------------------------------------------------
(* read_rtc and the display                                                 *)

LEMMA CallInv == ASSUME ClockInv, Call PROVE ClockInv'
<1> USE DEF ClockInv
<1>1. /\ pc' = "wait" /\ first' = TRUE /\ seen' = <<now>>
      /\ UNCHANGED <<now, phase, ticks, binary, h24, read, last, display>>
  BY DEF Call, chipVars
<1>2. now \in Times /\ Len(seen') = 1 /\ seen'[1] = now /\ seen' \in Seq(Times)
  BY <1>1 DEF TypeOK
<1>3. TypeOK' /\ Displayable(read)'
  BY <1>1, <1>2 DEF TypeOK, Displayable, Decode, DecodeHour
<1>4. SeenInv'
  BY <1>1, <1>2 DEF SeenInv
<1>5. ShortCallInv'
  BY <1>1, <1>2, Bounds DEF ShortCallInv, SecondAt
<1>6. PassInv'
  BY <1>1 DEF PassInv
<1>7. QED
  BY <1>3, <1>4, <1>5, <1>6

(* The steps of the driver leave the chip and the times alone.              *)
LEMMA DriverKeeps ==
  ASSUME ClockInv, UNCHANGED <<chipVars, seen>>, Busy
  PROVE  /\ SeenInv' /\ ShortCallInv'
         /\ \A j : SecondAt(j)' = SecondAt(j)
         /\ \A n : Encode(n)' = Encode(n) /\ EncodeHour(n)' = EncodeHour(n)
         /\ \A n : Decode(n)' = Decode(n) /\ DecodeHour(n)' = DecodeHour(n)
         /\ Len(seen) \in Nat /\ Len(seen) >= 1 /\ now \in Times /\ now = seen[Len(seen)]
<1>1. UNCHANGED <<now, phase, ticks, binary, h24, seen>>
  BY DEF chipVars
<1>2. \A j : SecondAt(j)' = SecondAt(j)
  BY <1>1 DEF SecondAt
<1>3. \A n : Encode(n)' = Encode(n) /\ Decode(n)' = Decode(n)
  BY <1>1 DEF Encode, Decode
<1>4. \A n : EncodeHour(n)' = EncodeHour(n) /\ DecodeHour(n)' = DecodeHour(n)
  BY <1>1, <1>3 DEF EncodeHour, DecodeHour
<1>5. SeenInv'
  BY <1>1 DEF ClockInv, SeenInv, Busy, After
<1>6. ShortCallInv'
  BY <1>1, <1>2 DEF ClockInv, ShortCallInv
<1>7. Len(seen) \in Nat /\ Len(seen) >= 1 /\ now \in Times /\ now = seen[Len(seen)]
  BY DEF ClockInv, TypeOK, SeenInv
<1>8. QED
  BY <1>2, <1>3, <1>4, <1>5, <1>6, <1>7

(* What the second register gives is a second that can be displayed.        *)
LEMMA RegistersRead ==
  ASSUME ClockInv
  PROVE  /\ Registers.second \in 0 .. 59 /\ Registers.minute \in 0 .. 59 /\ Registers.hour \in 0 .. 23
         /\ Registers.second = IF phase = "carrying" THEN After(now).second ELSE now.second
         /\ Registers.minute = now.minute /\ Registers.hour = now.hour
<1>1. now \in Times /\ After(now) \in Times
  BY AfterTime DEF ClockInv, TypeOK
<1>2. /\ Registers.second = IF phase = "carrying" THEN After(now).second ELSE now.second
      /\ Registers.minute = now.minute /\ Registers.hour = now.hour
  BY <1>1 DEF Registers, Times
<1>3. QED
  BY <1>1, <1>2, Bounds

LEMMA WaitInv == ASSUME ClockInv, WaitForUpdate PROVE ClockInv'
<1> USE DEF ClockInv
<1>1. /\ pc = "wait" /\ pc' = "second" /\ phase = "steady"
      /\ UNCHANGED <<now, phase, ticks, binary, h24, first, read, last, display, seen>>
  BY DEF WaitForUpdate, UpdateInProgress, chipVars, TypeOK
<1>2. SeenInv' /\ ShortCallInv' /\ TypeOK' /\ Displayable(read)'
  <2>1. UNCHANGED <<chipVars, seen>> /\ Busy
    BY <1>1 DEF chipVars, Busy
  <2>2. SeenInv' /\ ShortCallInv'
    BY <2>1, DriverKeeps
  <2>3. TypeOK' /\ Displayable(read)'
    BY <1>1 DEF TypeOK, Displayable, Decode, DecodeHour
  <2>4. QED
    BY <2>2, <2>3
<1>3. PassInv'
  <2> SUFFICES ASSUME Len(seen) < SECONDS, ~first PROVE PassBefore(last, Len(seen))'
    BY <1>1 DEF PassInv
  <2>1. PICK i \in Moments, a \in Moments, b \in Moments, j \in 1 .. Len(seen) + 1 :
          PassOf(last, i, j, a, b) /\ NextMoment(j)
    BY <1>1 DEF PassInv
  <2>2. j \in Moments /\ b <= Len(seen) /\ j <= Len(seen)
    BY <1>1, <2>1 DEF NextMoment, Moments, TypeOK
  <2>3. PassBefore(last, Len(seen))
    BY <2>1, <2>2 DEF PassBefore
  <2>4. QED
    BY <1>1, <2>3 DEF PassBefore, PassOf, SecondOf, MinuteOf, HourOf, SecondAt, Encode, EncodeHour, Moments
<1>4. QED
  BY <1>2, <1>3

LEMMA ReadSecondInv == ASSUME ClockInv, ReadSecond PROVE ClockInv'
<1> USE DEF ClockInv
<1>1. /\ pc = "second" /\ pc' = "minute"
      /\ read' = [read EXCEPT !.second = Encode(Registers.second)]
      /\ UNCHANGED <<now, phase, ticks, binary, h24, first, last, display, seen>>
  BY DEF ReadSecond, chipVars
<1>2. /\ SeenInv' /\ ShortCallInv'
      /\ \A j : SecondAt(j)' = SecondAt(j)
      /\ \A n : Encode(n)' = Encode(n) /\ EncodeHour(n)' = EncodeHour(n)
      /\ \A n : Decode(n)' = Decode(n) /\ DecodeHour(n)' = DecodeHour(n)
      /\ Len(seen) \in Nat /\ Len(seen) >= 1 /\ now \in Times /\ now = seen[Len(seen)]
  BY <1>1, DriverKeeps DEF chipVars, Busy
<1>3. Encode(Registers.second) \in 0 .. 255 /\ Decode(Encode(Registers.second)) \in 0 .. 59
  BY RegistersRead, DecodeEncode
<1>4. /\ read'.second = Encode(Registers.second) /\ read'.minute = read.minute /\ read'.hour = read.hour
      /\ read' \in [second : 0 .. 255, minute : 0 .. 255, hour : 0 .. 255]
  BY <1>1, <1>3 DEF TypeOK
<1>5. TypeOK' /\ Displayable(read)'
  BY <1>1, <1>2, <1>3, <1>4 DEF TypeOK, Displayable
<1>6. PassInv'
  <2> SUFFICES ASSUME Len(seen) < SECONDS
               PROVE  (\E i \in Moments, j \in 1 .. Len(seen) + 1 :
                         /\ SecondOf(read, i, j) /\ NextMoment(j)
                         /\ ~first => PassBefore(last, i))'
    BY <1>1 DEF PassInv
  <2> DEFINE i == Len(seen)
             j == IF phase = "carrying" THEN i + 1 ELSE i
  <2>1. i \in Moments /\ j \in 1 .. Len(seen) + 1 /\ NextMoment(j)
    BY <1>2 DEF NextMoment, Moments
  <2>2. Registers.second = SecondAt(j)
    BY <1>1, <1>2, RegistersRead, SecondsCounted DEF Busy
  <2>3. SecondOf(read, i, j)'
    BY <1>1, <1>2, <1>4, <2>2 DEF SecondOf
  <2>4. ~first => PassBefore(last, i)'
    <3>1. ~first => PassBefore(last, i)
      BY <1>1 DEF PassInv
    <3>2. QED
      BY <1>1, <3>1 DEF PassBefore, PassOf, SecondOf, MinuteOf, HourOf, SecondAt, Encode, EncodeHour, Moments
  <2>5. QED
    BY <1>1, <2>1, <2>3, <2>4 DEF NextMoment, Moments
<1>7. QED
  BY <1>2, <1>5, <1>6

LEMMA ReadMinuteInv == ASSUME ClockInv, ReadMinute PROVE ClockInv'
<1> USE DEF ClockInv
<1>1. /\ pc = "minute" /\ pc' = "hour"
      /\ read' = [read EXCEPT !.minute = Encode(Registers.minute)]
      /\ UNCHANGED <<now, phase, ticks, binary, h24, first, last, display, seen>>
  BY DEF ReadMinute, chipVars
<1>2. /\ SeenInv' /\ ShortCallInv'
      /\ \A j : SecondAt(j)' = SecondAt(j)
      /\ \A n : Encode(n)' = Encode(n) /\ EncodeHour(n)' = EncodeHour(n)
      /\ \A n : Decode(n)' = Decode(n) /\ DecodeHour(n)' = DecodeHour(n)
      /\ Len(seen) \in Nat /\ Len(seen) >= 1 /\ now \in Times /\ now = seen[Len(seen)]
  BY <1>1, DriverKeeps DEF chipVars, Busy
<1>3. /\ Encode(Registers.minute) \in 0 .. 255 /\ Decode(Encode(Registers.minute)) \in 0 .. 59
      /\ Registers.minute = now.minute
  BY RegistersRead, DecodeEncode
<1>4. /\ read'.minute = Encode(Registers.minute) /\ read'.second = read.second /\ read'.hour = read.hour
      /\ read' \in [second : 0 .. 255, minute : 0 .. 255, hour : 0 .. 255]
  BY <1>1, <1>3 DEF TypeOK
<1>5. TypeOK' /\ Displayable(read)'
  BY <1>1, <1>2, <1>3, <1>4 DEF TypeOK, Displayable
<1>6. PassInv'
  <2> SUFFICES ASSUME Len(seen) < SECONDS
               PROVE  (\E i, a \in Moments, j \in 1 .. Len(seen) + 1 :
                         /\ SecondOf(read, i, j) /\ NextMoment(j) /\ MinuteOf(read, a) /\ i <= a
                         /\ ~first => PassBefore(last, i))'
    BY <1>1 DEF PassInv
  <2>1. PICK i \in Moments, j \in 1 .. Len(seen) + 1 :
          /\ SecondOf(read, i, j) /\ NextMoment(j)
          /\ ~first => PassBefore(last, i)
    BY <1>1 DEF PassInv
  <2>2. Len(seen) \in Moments /\ i <= Len(seen)
    BY <1>2 DEF Moments
  <2>3. MinuteOf(read, Len(seen))' /\ SecondOf(read, i, j)'
    BY <1>1, <1>2, <1>3, <1>4, <2>1 DEF SecondOf, MinuteOf
  <2>4. ~first => PassBefore(last, i)'
    BY <1>1, <2>1 DEF PassBefore, PassOf, SecondOf, MinuteOf, HourOf, SecondAt, Encode, EncodeHour, Moments
  <2>5. QED
    BY <1>1, <2>1, <2>2, <2>3, <2>4 DEF NextMoment, Moments
<1>7. QED
  BY <1>2, <1>5, <1>6

LEMMA ReadHourInv == ASSUME ClockInv, ReadHour PROVE ClockInv'
<1> USE DEF ClockInv
<1>1. /\ pc = "hour" /\ pc' = IF ~first /\ read' = last THEN "show" ELSE "wait"
      /\ read' = [read EXCEPT !.hour = EncodeHour(Registers.hour)] /\ last' = read' /\ first' = FALSE
      /\ UNCHANGED <<now, phase, ticks, binary, h24, display, seen>>
  BY DEF ReadHour, chipVars
<1>2. /\ SeenInv' /\ ShortCallInv'
      /\ \A j : SecondAt(j)' = SecondAt(j)
      /\ \A n : Encode(n)' = Encode(n) /\ EncodeHour(n)' = EncodeHour(n)
      /\ \A n : Decode(n)' = Decode(n) /\ DecodeHour(n)' = DecodeHour(n)
      /\ Len(seen) \in Nat /\ Len(seen) >= 1 /\ now \in Times /\ now = seen[Len(seen)]
  BY <1>1, DriverKeeps DEF chipVars, Busy
<1>3. /\ EncodeHour(Registers.hour) \in 0 .. 255 /\ DecodeHour(EncodeHour(Registers.hour)) \in 0 .. 23
      /\ Registers.hour = now.hour
  BY RegistersRead, DecodeHourEncodeHour
<1>4. /\ read'.hour = EncodeHour(Registers.hour) /\ read'.second = read.second /\ read'.minute = read.minute
      /\ read' \in [second : 0 .. 255, minute : 0 .. 255, hour : 0 .. 255]
  BY <1>1, <1>3 DEF TypeOK
<1>5. TypeOK' /\ Displayable(read)'
  BY <1>1, <1>2, <1>3, <1>4 DEF TypeOK, Displayable
<1>6. PassInv'
  <2> SUFFICES ASSUME Len(seen) < SECONDS PROVE PassInv'
    BY <1>1 DEF PassInv
  <2>1. PICK i \in Moments, a \in Moments, j \in 1 .. Len(seen) + 1 :
          /\ SecondOf(read, i, j) /\ NextMoment(j) /\ MinuteOf(read, a) /\ i <= a
          /\ ~first => PassBefore(last, i)
    BY <1>1 DEF PassInv
  <2>2. Len(seen) \in Moments /\ a <= Len(seen)
    BY <1>2 DEF Moments
  <2>3. PassOf(read, i, j, a, Len(seen))'
    BY <1>1, <1>2, <1>3, <1>4, <2>1, <2>2 DEF PassOf, SecondOf, MinuteOf, HourOf
  <2>4. NextMoment(j)' /\ Moments' = Moments /\ Len(seen') = Len(seen)
    BY <1>1, <2>1 DEF NextMoment, Moments
  <2>5. CASE pc' = "wait"
    <3>1. PassOf(last, i, j, a, Len(seen))'
      BY <1>1, <2>3 DEF PassOf, SecondOf, MinuteOf, HourOf
    <3>2. QED
      BY <2>1, <2>2, <2>4, <2>5, <3>1 DEF PassInv
  <2>6. CASE pc' = "show"
    <3>1. ~first /\ read' = last /\ PassBefore(last, i)
      BY <1>1, <2>1, <2>6
    <3>2. last' = last /\ UNCHANGED <<seen, binary, h24>>
      BY <1>1, <3>1
    <3>3. PassBefore(last, i)'
      BY <3>1, <3>2 DEF PassBefore, PassOf, SecondOf, MinuteOf, HourOf, SecondAt, Encode, EncodeHour, Moments
    <3>4. PassBefore(read, i)'
      BY <1>1, <3>3 DEF PassBefore, PassOf, SecondOf, MinuteOf, HourOf
    <3>5. QED
      BY <1>1, <2>1, <2>2, <2>3, <2>4, <2>6, <3>4 DEF PassInv
  <2>7. QED
    BY <1>1, <2>5, <2>6
<1>7. QED
  BY <1>2, <1>5, <1>6

LEMMA ShowInv == ASSUME ClockInv, Show PROVE ClockInv'
<1> USE DEF ClockInv
<1>1. /\ pc = "show" /\ pc' = "idle"
      /\ display' = writeClock(display, (DecodeHour(read.hour) + 7) % 24, Decode(read.minute), Decode(read.second))
      /\ UNCHANGED <<now, phase, ticks, binary, h24, first, read, last, seen>>
  BY DEF Show, chipVars
<1>2. display' \in [Columns -> 0 .. 9 \cup {Blank, Colon}]
  <2>1. (DecodeHour(read.hour) + 7) % 24 \in 0 .. 23
    BY DEF Displayable
  <2>2. QED
    BY <1>1, <2>1, ClockWritten DEF Displayable, TypeOK, Screens
<1>3. TypeOK'
  BY <1>1, <1>2 DEF TypeOK
<1>4. SeenInv' /\ ShortCallInv' /\ PassInv' /\ Displayable(read)'
  <2>1. SeenInv' /\ Displayable(read)'
    BY <1>1 DEF SeenInv, Busy, After, Displayable, Decode, DecodeHour
  <2>2. \A j : SecondAt(j)' = SecondAt(j)
    BY <1>1 DEF SecondAt
  <2>3. ShortCallInv'
    BY <1>1, <2>2 DEF ShortCallInv
  <2>4. PassInv'
    BY <1>1 DEF PassInv
  <2>5. QED
    BY <2>1, <2>3, <2>4
<1>5. QED
  BY <1>3, <1>4

LEMMA ClockInitInv == Init => ClockInv
<1> SUFFICES ASSUME Init PROVE ClockInv
  OBVIOUS
<1>1. TypeOK
  BY ClockAssumption DEF Init, TypeOK
<1>2. Displayable(read)
  BY DEF Init, Displayable, Decode, DecodeHour
<1>3. SeenInv /\ ShortCallInv /\ PassInv
  BY DEF Init, SeenInv, Busy, ShortCallInv, PassInv
<1>4. QED
  BY <1>1, <1>2, <1>3 DEF ClockInv

LEMMA ClockStutterInv == ClockInv /\ UNCHANGED vars => ClockInv'
<1> SUFFICES ASSUME ClockInv, UNCHANGED vars PROVE ClockInv'
  OBVIOUS
<1> USE DEF ClockInv, vars, chipVars, driverVars
<1>1. TypeOK' /\ Displayable(read)'
  BY DEF TypeOK, Displayable, Decode, DecodeHour
<1>2. SeenInv' /\ ShortCallInv' /\ (\A j : SecondAt(j)' = SecondAt(j))
  BY DEF SeenInv, Busy, After, ShortCallInv, SecondAt
<1>3. \A j : NextMoment(j) => NextMoment(j)'
  BY DEF NextMoment, Moments
<1>4. PassInv'
  BY <1>2, <1>3, PassesKept DEF TypeOK
<1>5. QED
  BY <1>1, <1>2, <1>4

(* ClockInv holds in every state.                                           *)
THEOREM ClockInvHolds == Spec => []ClockInv
<1>1. ClockInv /\ [Next]_vars => ClockInv'
  BY ChipStepInv, CallInv, WaitInv, ReadSecondInv, ReadMinuteInv, ReadHourInv, ShowInv, ClockStutterInv
  DEF Next, Driver
<1>2. QED
  BY <1>1, ClockInitInv, PTL DEF Spec

(* Registers, what is read from them and the cells of the screen keep their *)
(* range: what the conversion gives always has two digits.                  *)
THEOREM ClockTypeCorrect == Spec => []TypeOK
<1>1. ClockInv => TypeOK
  BY DEF ClockInv
<1>2. QED
  BY <1>1, ClockInvHolds, PTL
-----------------------------------------------------------------------------
(* The time shown                                                           *)

(* Two passes of a short call that read the same read the registers of one  *)
(* moment: the second the first pass has read comes back only after a       *)
(* minute, so that only a carry can lie between its minutes and hours, and  *)
(* the second pass would have seen the minute or the hour that it changed.  *)
LEMMA TwoPasses ==
  ASSUME ClockInv, pc = "show", Len(seen) < SECONDS
  PROVE  \E t \in Moments : /\ Decode(read.second) = seen[t].second
                            /\ Decode(read.minute) = seen[t].minute
                            /\ read.hour = EncodeHour(seen[t].hour)
<1> USE DEF ClockInv
<1> DEFINE n == Len(seen)
<1>1. n \in Nat /\ n >= 1 /\ n < SECONDS /\ SECONDS \in Nat /\ \A i \in Moments : seen[i] \in Times
  BY Bounds DEF TypeOK, SeenInv, Moments, Busy
<1>2. PICK i2 \in Moments, a2 \in Moments, b2 \in Moments, j2 \in 1 .. n + 1 :
        PassOf(read, i2, j2, a2, b2) /\ PassBefore(read, i2)
  BY DEF PassInv
<1>3. PICK i1, j1, a1, b1 \in Moments : PassOf(read, i1, j1, a1, b1) /\ b1 <= i2 /\ j1 <= i2
  BY <1>2 DEF PassBefore
<1>4. /\ i1 \in 1 .. n /\ j1 \in 1 .. n /\ a1 \in 1 .. n /\ b1 \in 1 .. n
      /\ i2 \in 1 .. n /\ j2 \in 1 .. n + 1 /\ a2 \in 1 .. n /\ b2 \in 1 .. n
      /\ i1 <= a1 /\ a1 <= b1 /\ b1 <= i2 /\ i2 <= a2 /\ a2 <= b2
      /\ i1 <= j1 /\ j1 <= i1 + 1 /\ j1 <= i2 /\ i2 <= j2 /\ j2 <= i2 + 1
  BY <1>2, <1>3 DEF Moments, PassOf, SecondOf
<1>5. /\ SecondAt(j1) \in Nat /\ SecondAt(j1) < SECONDS
      /\ SecondAt(j2) \in Nat /\ SecondAt(j2) < SECONDS
  BY <1>1, <1>4, SecondsCounted DEF Busy
<1>6. SecondAt(j1) = SecondAt(j2)
  <2>1. Encode(SecondAt(j1)) = Encode(SecondAt(j2))
    BY <1>2, <1>3 DEF PassOf, SecondOf
  <2>2. SecondAt(j1) \in 0 .. 59 /\ SecondAt(j2) \in 0 .. 59
    BY <1>5, Sixty, Zenon
  <2>3. QED
    BY <2>1, <2>2, DecodeEncode
<1>7. j1 = j2 /\ j1 = i2
  <2>1. seen[1].second \in Nat /\ seen[1].second < SECONDS
    BY <1>1, Bounds DEF Moments
  <2>2. j1 = j2
    <3>1. j1 \in 1 .. SECONDS /\ j2 \in 1 .. SECONDS
      BY <1>1, <1>4
    <3> DEFINE s1 == seen[1].second
    <3>2. SecondAt(j1) = (IF s1 + j1 - 1 < SECONDS THEN s1 + j1 - 1 ELSE s1 + j1 - 1 - SECONDS)
      BY Zenon DEF SecondAt
    <3>3. SecondAt(j2) = (IF s1 + j2 - 1 < SECONDS THEN s1 + j2 - 1 ELSE s1 + j2 - 1 - SECONDS)
      BY Zenon DEF SecondAt
    <3>4. s1 \in Nat /\ s1 < SECONDS
      BY <2>1
    <3> HIDE DEF s1
    <3>5. (IF s1 + j1 - 1 < SECONDS THEN s1 + j1 - 1 ELSE s1 + j1 - 1 - SECONDS) =
          (IF s1 + j2 - 1 < SECONDS THEN s1 + j2 - 1 ELSE s1 + j2 - 1 - SECONDS)
      BY <1>6, <3>2, <3>3, Zenon
    <3>6. QED
      BY <3>1, <3>4, <3>5, SecondsDiffer, Zenon
  <2>3. QED
    BY <1>4, <2>2
<1>8. \A k \in 1 .. n : /\ seen[k] \in Times /\ seen[k].second = SecondAt(k)
                       /\ seen[k].second \in 0 .. 59 /\ seen[k].minute \in 0 .. 59
  <2> TAKE k \in 1 .. n
  <2>1. seen[k] \in Times /\ seen[k].second = SecondAt(k)
    BY <1>1 DEF ShortCallInv, Moments
  <2>2. QED
    BY <2>1, Sixty, Zenon
<1>9. Decode(read.second) = seen[j1].second
  <2>1. read.second = Encode(seen[j1].second) /\ seen[j1].second \in 0 .. 59
    BY <1>3, <1>4, <1>7, <1>8 DEF PassOf, SecondOf
  <2>2. QED
    BY <2>1, DecodeEncode
<1>10. seen[a1].minute = seen[a2].minute /\ Decode(read.minute) = seen[a1].minute
  <2>1. read.minute = Encode(seen[a1].minute) /\ read.minute = Encode(seen[a2].minute)
    BY <1>2, <1>3 DEF PassOf, MinuteOf
  <2>2. seen[a1].minute \in 0 .. 59 /\ seen[a2].minute \in 0 .. 59
    BY <1>4, <1>8
  <2>3. QED
    BY <2>1, <2>2, DecodeEncode
<1>11. read.hour = EncodeHour(seen[b1].hour) /\ read.hour = EncodeHour(seen[b2].hour)
  BY <1>2, <1>3 DEF PassOf, HourOf
<1>12. CASE seen[j1].second # 0 \/ i1 = j1
  <2>1. \A k \in i1 .. j1 : seen[k].minute = seen[j1].minute /\ seen[k].hour = seen[j1].hour
    <3>1. CASE i1 = j1
      BY <1>4, <3>1
    <3>2. CASE j1 = i1 + 1 /\ seen[j1].second # 0
      <4>1. i1 \in 1 .. n - 1 /\ seen[i1 + 1] = After(seen[i1])
        BY <1>4, <3>2 DEF SeenInv
      <4>2. seen[i1].second + 1 < SECONDS
        BY <1>4, <1>8, <3>2, <4>1, AfterTime, Bounds
      <4>3. seen[j1].minute = seen[i1].minute /\ seen[j1].hour = seen[i1].hour
        BY <1>4, <1>8, <3>2, <4>1, <4>2, AfterTime
      <4>4. QED
        BY <1>4, <3>2, <4>3
    <3>3. j1 = i1 \/ j1 = i1 + 1
      BY <1>4
    <3>4. QED
      BY <1>12, <3>1, <3>2, <3>3, Zenon
  <2>2. a1 \in i1 .. j1 /\ b1 \in i1 .. j1
    BY <1>4, <1>7
  <2>3. QED
    BY <1>4, <1>9, <1>10, <1>11, <2>1, <2>2 DEF Moments
<1>13. CASE seen[j1].second = 0 /\ j1 = i1 + 1
  <2>1. \A k \in j1 .. n : seen[k].minute = seen[j1].minute /\ seen[k].hour = seen[j1].hour
    <3>1. ASSUME NEW k \in j1 .. n PROVE seen[k].second - seen[j1].second = k - j1 /\ k \in 1 .. n
      <4>1. seen[1].second \in Nat /\ seen[1].second < SECONDS
        BY <1>1, Bounds DEF Moments
      <4>2. SecondAt(j1) = 0 /\ SecondAt(k) = seen[k].second /\ k \in 1 .. n /\ seen[k].second \in Nat
        BY <1>4, <1>8, <1>13, Bounds
      <4>3. QED
        <5>1. k \in Nat /\ j1 \in Nat \ {0} /\ j1 <= k /\ k < SECONDS
          BY <1>1, <1>4
        <5>2. SecondAt(k) = k - j1
          <6> DEFINE s1 == seen[1].second
          <6>1. SecondAt(j1) = (IF s1 + j1 - 1 < SECONDS THEN s1 + j1 - 1 ELSE s1 + j1 - 1 - SECONDS)
            BY Zenon DEF SecondAt
          <6>2. SecondAt(k) = (IF s1 + k - 1 < SECONDS THEN s1 + k - 1 ELSE s1 + k - 1 - SECONDS)
            BY Zenon DEF SecondAt
          <6>3. s1 \in Nat /\ s1 < SECONDS
            BY <4>1
          <6> HIDE DEF s1
          <6>4. (IF s1 + j1 - 1 < SECONDS THEN s1 + j1 - 1 ELSE s1 + j1 - 1 - SECONDS) = 0
            BY <4>2, <6>1, Zenon
          <6>5. (IF s1 + k - 1 < SECONDS THEN s1 + k - 1 ELSE s1 + k - 1 - SECONDS) = k - j1
            BY <5>1, <6>3, <6>4, SecondsApart, Zenon
          <6>6. QED
            BY <6>2, <6>5
        <5>3. QED
          BY <1>4, <1>8, <4>2, <5>1, <5>2
    <3>2. QED
      BY <1>1, <1>4, <3>1 DEF ShortCallInv
  <2>2. a2 \in j1 .. n /\ b2 \in j1 .. n
    BY <1>4, <1>7
  <2>3. Decode(read.minute) = seen[j1].minute /\ read.hour = EncodeHour(seen[j1].hour)
    BY <1>10, <1>11, <2>1, <2>2
  <2>4. QED
    BY <1>4, <1>9, <2>3 DEF Moments
<1>14. QED
  BY <1>4, <1>12, <1>13

LEMMA ShowStep ==
  ASSUME ClockInv, [Next]_vars, pc = "show", pc' = "idle", Len(seen) < SECONDS
  PROVE  \/ \E i \in 1 .. Len(seen) : Shows(display', seen[i])
         \/ ~h24 /\ \E i \in 1 .. Len(seen) : seen[i].hour % 12 = 0
<1> SUFFICES ASSUME h24 \/ \A i \in Moments : seen[i].hour % 12 # 0
             PROVE  \E i \in Moments : Shows(display', seen[i])
  BY DEF Moments
<1>1. PICK t \in Moments : /\ Decode(read.second) = seen[t].second
                          /\ Decode(read.minute) = seen[t].minute
                          /\ read.hour = EncodeHour(seen[t].hour)
  BY TwoPasses
<1>2. seen[t] \in Times
  BY DEF ClockInv, TypeOK, Moments
<1>3. seen[t].second \in 0 .. 59 /\ seen[t].minute \in 0 .. 59 /\ seen[t].hour \in 0 .. 23
  BY <1>2, Sixty, Zenon
<1> DEFINE h == (seen[t].hour + 7) % 24
<1>4. DecodeHour(read.hour) = seen[t].hour
  <2>1. h24 \/ seen[t].hour % 12 # 0
    OBVIOUS
  <2>2. DecodeHour(EncodeHour(seen[t].hour)) = seen[t].hour
    BY <1>3, <2>1, DecodeHourEncodeHour
  <2>3. QED
    BY <1>1, <2>2
<1>5. display' = writeClock(display, h, seen[t].minute, seen[t].second)
  BY <1>1, <1>4 DEF Next, Chip, ChipAnnounces, ChipCarries, ChipUpdates, Driver, Call, WaitForUpdate,
    ReadSecond, ReadMinute, ReadHour, Show, driverVars, vars
<1>6. h \in 0 .. 23
  <2>1. \A x \in 0 .. 23 : (x + 7) % 24 \in 0 .. 23
    OBVIOUS
  <2>2. QED
    BY <1>3, <2>1
<1>7. display \in Screens
  BY DEF ClockInv, TypeOK, Screens
<1> HIDE DEF h
<1>8. Written(display', h, seen[t].minute, seen[t].second)
  BY <1>3, <1>5, <1>6, <1>7, ClockWritten
<1>9. Shows(display', seen[t])
  BY <1>8 DEF Shows, Digits, Written, h
<1>10. QED
  BY <1>9

(* The clock never shows a time that was not right at some moment of the    *)
(* call, in a call that is shorter than a minute: for every time, every     *)
(* register format and every way updates fall between the reads.            *)
THEOREM ShownTimeRight == Spec => ShownTimeWasReal
<1>1. ASSUME ClockInv, [Next]_vars
      PROVE  [pc = "show" /\ pc' = "idle" /\ Len(seen) < SECONDS =>
                \/ \E i \in 1 .. Len(seen) : Shows(display', seen[i])
                \/ ~h24 /\ \E i \in 1 .. Len(seen) : seen[i].hour % 12 = 0]_vars
  BY <1>1, ShowStep
<1>2. QED
  BY <1>1, ClockInvHolds, PTL DEF Spec, ShownTimeWasReal
=============================================================================
