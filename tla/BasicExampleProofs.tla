------------------------- MODULE BasicExampleProofs -------------------------
(***************************************************************************)
(* Proofs about BasicExample, for any buttons, every length of the history *)
(* and every range of program numbers: the loop is a debouncer, the        *)
(* program number follows the buttons, and no byte is lost on its way out. *)
(***************************************************************************)
EXTENDS BasicExample, SequenceTheorems, TLAPS

Byte == 0 .. 255

(* What the loop can say. *)
ProgramMsg == {<<"programchange", b, v>> : b \in {0, 1}, v \in Nat}
OtherMsg   == {<<kind, b, v>> : kind \in {"noteoff", "noteon", "cc"}, b \in 2 .. 7, v \in Nat}
Msg == ProgramMsg \cup OtherMsg

DriverTypes ==
    /\ udr \in Byte \cup {Empty} /\ shift \in Byte \cup {Empty} /\ left \in Seq(Byte)
    /\ at \in {"outside", "wait", "write"}
    /\ (at = "outside") = (left = <<>>)
    /\ at = "write" => udr = Empty

LoopTypes ==
    /\ inputs \in [History -> SUBSET Button] /\ historyIndex \in History
    /\ lastInput \subseteq Button
    /\ program \in 0 .. 2 * ProgramRange - 1
    /\ sent \in Seq(Msg)

Types == LoopTypes /\ DriverTypes /\ toSend \in Seq(Msg)

(* Every button has a row of equal readings, as long as Row says. *)
RowInv == \A b \in Button : Row(b) \in 1 .. INPUT_HISTORY /\ IsRow(b, Row(b))

IInv == Types /\ RowInv

-----------------------------------------------------------------------------
(* The history as a ring. *)

LEMMA NextPlace ==
    ASSUME NEW h \in History
    PROVE  /\ (h + 1) % INPUT_HISTORY = IF h + 1 = INPUT_HISTORY THEN 0 ELSE h + 1
           /\ (h + 1) % INPUT_HISTORY \in History
<1>1. INPUT_HISTORY \in Nat /\ INPUT_HISTORY > 0 /\ h \in Nat /\ h < INPUT_HISTORY
  BY HistoryAssumption DEF History
<1>2. CASE h + 1 = INPUT_HISTORY
  BY <1>1, <1>2 DEF History
<1>3. CASE h + 1 < INPUT_HISTORY
  BY <1>1, <1>3 DEF History
<1> QED  BY <1>1, <1>2, <1>3

(* Where the reading of n rounds ago is. *)
LEMMA PlaceAgo ==
    ASSUME NEW h \in History, NEW n \in History
    PROVE  /\ (h + INPUT_HISTORY - 1 - n) % INPUT_HISTORY =
                IF n < h THEN h - 1 - n ELSE h + INPUT_HISTORY - 1 - n
           /\ (h + INPUT_HISTORY - 1 - n) % INPUT_HISTORY \in History
<1>1. /\ INPUT_HISTORY \in Nat /\ INPUT_HISTORY > 0
      /\ h \in Nat /\ h < INPUT_HISTORY /\ n \in Nat /\ n < INPUT_HISTORY
  BY HistoryAssumption DEF History
<1>2. CASE n < h
  <2>1. h - 1 - n \in Nat /\ h - 1 - n < INPUT_HISTORY
    BY <1>1, <1>2
  <2>2. h + INPUT_HISTORY - 1 - n = (h - 1 - n) + INPUT_HISTORY
    BY <1>1
  <2>3. ((h - 1 - n) + INPUT_HISTORY) % INPUT_HISTORY = h - 1 - n
    BY <1>1, <2>1
  <2> QED  BY <1>1, <1>2, <2>1, <2>2, <2>3 DEF History
<1>3. CASE n >= h
  BY <1>1, <1>3 DEF History
<1> QED  BY <1>1, <1>2, <1>3

LEMMA EveryPlace ==
    ASSUME NEW h \in History, NEW j \in History
    PROVE  \E n \in History : (IF n < h THEN h - 1 - n ELSE h + INPUT_HISTORY - 1 - n) = j
<1> DEFINE n == IF j < h THEN h - 1 - j ELSE h + INPUT_HISTORY - 1 - j
<1>1. n \in History /\ (IF n < h THEN h - 1 - n ELSE h + INPUT_HISTORY - 1 - n) = j
  BY HistoryAssumption DEF History
<1> QED  BY <1>1

(* What a round does to the readings: one more, at the front. *)
LEMMA RoundAges ==
    ASSUME LoopTypes, NEW PINC \in SUBSET Button, Round(PINC)
    PROVE  /\ Ago(0)' = PINC
           /\ \A n \in 1 .. INPUT_HISTORY - 1 : Ago(n)' = Ago(n - 1)
           /\ \A j \in History : \E n \in History : inputs'[j] = Ago(n)'
<1> DEFINE h == historyIndex
           k == historyIndex'
           N == INPUT_HISTORY
<1>1. /\ N \in Nat /\ N > 0 /\ h \in History /\ h \in Nat /\ h < N
      /\ inputs \in [History -> SUBSET Button]
  BY HistoryAssumption DEF LoopTypes, History
<1>2. k = (h + 1) % N /\ inputs' = [inputs EXCEPT ![h] = PINC]
  BY DEF Round
<1>3. k = (IF h + 1 = N THEN 0 ELSE h + 1) /\ k \in History
  BY <1>1, <1>2, NextPlace
<1>4. ASSUME NEW n \in History
      PROVE  /\ Ago(n)' = inputs'[IF n < k THEN k - 1 - n ELSE k + N - 1 - n]
             /\ Ago(n) = inputs[IF n < h THEN h - 1 - n ELSE h + N - 1 - n]
  <2>1. (k + N - 1 - n) % N = IF n < k THEN k - 1 - n ELSE k + N - 1 - n
    BY <1>3, PlaceAgo
  <2>2. (h + N - 1 - n) % N = IF n < h THEN h - 1 - n ELSE h + N - 1 - n
    BY <1>1, PlaceAgo
  <2> QED  BY <2>1, <2>2 DEF Ago
<1>5. Ago(0)' = PINC
  <2>1. 0 \in History
    BY <1>1 DEF History
  <2>2. Ago(0)' = inputs'[IF 0 < k THEN k - 1 - 0 ELSE k + N - 1 - 0]
    BY <1>4, <2>1
  <2>3. (IF 0 < k THEN k - 1 - 0 ELSE k + N - 1 - 0) = h
    BY <1>1, <1>3
  <2> QED  BY <1>1, <1>2, <2>2, <2>3
<1>6. ASSUME NEW n \in 1 .. N - 1 PROVE Ago(n)' = Ago(n - 1)
  <2> DEFINE x == IF n < k THEN k - 1 - n ELSE k + N - 1 - n
  <2>1. n \in History /\ n - 1 \in History
    BY <1>1 DEF History
  <2>2. Ago(n)' = inputs'[x]
    BY <1>4, <2>1
  <2>3. Ago(n - 1) = inputs[IF n - 1 < h THEN h - 1 - (n - 1) ELSE h + N - 1 - (n - 1)]
    BY <1>4, <2>1
  <2>4. x = (IF n - 1 < h THEN h - 1 - (n - 1) ELSE h + N - 1 - (n - 1)) /\ x # h /\ x \in History
    BY <1>1, <1>3 DEF History
  <2>5. inputs'[x] = inputs[x]
    BY <1>1, <1>2, <2>4
  <2> QED  BY <2>2, <2>3, <2>4, <2>5
<1>7. ASSUME NEW j \in History PROVE \E n \in History : inputs'[j] = Ago(n)'
  <2>1. PICK n \in History : (IF n < k THEN k - 1 - n ELSE k + N - 1 - n) = j
    BY <1>3, EveryPlace
  <2> QED  BY <1>4, <2>1
<1> QED  BY <1>5, <1>6, <1>7

-----------------------------------------------------------------------------
(* Rows of equal readings.  There is one row for each button, so Row can   *)
(* be computed from any that is known; once for a state and once for the   *)
(* next.                                                                   *)

LEMMA RowIs ==
    ASSUME NEW b, NEW n \in 1 .. INPUT_HISTORY, IsRow(b, n)
    PROVE  Row(b) = n
<1>1. INPUT_HISTORY \in Nat /\ n \in Nat
  BY HistoryAssumption
<1>2. ASSUME NEW m \in 1 .. INPUT_HISTORY, IsRow(b, m) PROVE m = n
  <2>1. m \in Nat
    BY <1>1
  <2>2. CASE m < n
    <3>1. m \in 1 .. n - 1 /\ m # INPUT_HISTORY
      BY <1>1, <2>2
    <3> QED  BY <1>2, <3>1 DEF IsRow
  <2>3. CASE n < m
    <3>1. n \in 1 .. m - 1 /\ n # INPUT_HISTORY
      BY <1>1, <2>3
    <3> QED  BY <1>2, <3>1 DEF IsRow
  <2> QED  BY <1>1, <2>1, <2>2, <2>3
<1>3. \E m \in 1 .. INPUT_HISTORY : IsRow(b, m)
  OBVIOUS
<1>4. Row(b) \in 1 .. INPUT_HISTORY /\ IsRow(b, Row(b))
  BY <1>3 DEF Row
<1> QED  BY <1>2, <1>4

LEMMA NextRowIs ==
    ASSUME NEW b, NEW n \in 1 .. INPUT_HISTORY, IsRow(b, n)'
    PROVE  Row(b)' = n
<1>1. INPUT_HISTORY \in Nat /\ n \in Nat
  BY HistoryAssumption
<1>2. ASSUME NEW m \in 1 .. INPUT_HISTORY, IsRow(b, m)' PROVE m = n
  <2>1. m \in Nat
    BY <1>1
  <2>2. CASE m < n
    <3>1. m \in 1 .. n - 1 /\ m # INPUT_HISTORY
      BY <1>1, <2>2
    <3> QED  BY <1>2, <3>1 DEF IsRow
  <2>3. CASE n < m
    <3>1. n \in 1 .. m - 1 /\ n # INPUT_HISTORY
      BY <1>1, <2>3
    <3> QED  BY <1>2, <3>1 DEF IsRow
  <2> QED  BY <1>1, <2>1, <2>2, <2>3
<1>3. Row(b)' = CHOOSE m \in 1 .. INPUT_HISTORY : IsRow(b, m)'
  BY DEF Row
<1>4. PICK r : r = Row(b)'
  OBVIOUS
<1>5. \E m \in 1 .. INPUT_HISTORY : IsRow(b, m)'
  OBVIOUS
<1>6. r \in 1 .. INPUT_HISTORY /\ IsRow(b, r)'
  BY <1>3, <1>4, <1>5
<1> QED  BY <1>2, <1>4, <1>6

(* How a round lengthens a row or ends it.                                 *)
NextRow(b, pins) ==
    IF (b \in pins) # (b \in Ago(0)) THEN 1
    ELSE IF Row(b) < INPUT_HISTORY THEN Row(b) + 1 ELSE INPUT_HISTORY

LEMMA RoundRows ==
    ASSUME LoopTypes, NEW PINC \in SUBSET Button, Round(PINC), NEW b \in Button,
           Row(b) \in 1 .. INPUT_HISTORY, IsRow(b, Row(b))
    PROVE  \E m \in 1 .. INPUT_HISTORY :
               m = NextRow(b, PINC) /\ m = Row(b)' /\ IsRow(b, m)'
<1> DEFINE N == INPUT_HISTORY
<1>1. N \in Nat /\ N > 0
  BY HistoryAssumption
<1>2. PICK n \in 1 .. N : n = Row(b)
  OBVIOUS
<1>3. Ago(0)' = PINC /\ \A i \in 1 .. N - 1 : Ago(i)' = Ago(i - 1)
  BY RoundAges
<1>4. /\ n = N \/ (b \in Ago(n)) # (b \in Ago(0))
      /\ \A j \in 1 .. n - 1 : (b \in Ago(j)) = (b \in Ago(0))
  BY <1>2 DEF IsRow
<1>5. SUFFICES ASSUME NEW m \in 1 .. N, m = NextRow(b, PINC)
               PROVE  IsRow(b, m)'
  <2>1. NextRow(b, PINC) \in 1 .. N
    BY <1>1, <1>2 DEF NextRow
  <2> QED  BY <2>1, NextRowIs
<1>6. SUFFICES /\ m = N \/ (b \in Ago(m)') # (b \in Ago(0)')
               /\ \A j \in 1 .. m - 1 : (b \in Ago(j)') = (b \in Ago(0)')
  BY DEF IsRow
<1>7. CASE (b \in PINC) # (b \in Ago(0))
  <2>1. m = 1
    BY <1>5, <1>7 DEF NextRow
  <2>2. m # N => Ago(1)' = Ago(1 - 1)
    BY <1>1, <1>3, <2>1
  <2>3. m # N => (b \in Ago(1)') # (b \in Ago(0)')
    BY <1>3, <1>7, <2>2
  <2> QED  BY <2>1, <2>3
<1>8. CASE (b \in PINC) = (b \in Ago(0))
  <2>1. m = IF n < N THEN n + 1 ELSE N
    BY <1>2, <1>5, <1>8 DEF NextRow
  <2>2. ASSUME NEW j \in 1 .. m - 1 PROVE (b \in Ago(j)') = (b \in Ago(0)')
    <3>1. j \in 1 .. N - 1 /\ j - 1 \in 0 .. n - 1
      BY <1>1, <2>1
    <3>2. Ago(j)' = Ago(j - 1)
      BY <1>3, <3>1
    <3>3. (b \in Ago(j - 1)) = (b \in Ago(0))
      <4>1. CASE j = 1
        BY <4>1
      <4>2. CASE j # 1
        <5>1. j - 1 \in 1 .. n - 1
          BY <1>1, <3>1, <4>2
        <5> QED  BY <1>4, <5>1
      <4> QED  BY <4>1, <4>2
    <3> QED  BY <1>3, <1>8, <3>2, <3>3
  <2>3. ASSUME m # N PROVE (b \in Ago(m)') # (b \in Ago(0)')
    <3>1. n # N /\ m = n + 1 /\ m \in 1 .. N - 1 /\ m - 1 = n
      BY <1>1, <2>1, <2>3
    <3>2. Ago(m)' = Ago(n)
      BY <1>3, <3>1
    <3> QED  BY <1>3, <1>4, <1>8, <3>1, <3>2
  <2> QED  BY <2>2, <2>3
<1> QED  BY <1>7, <1>8

(* The comparison of all readings, wherever the last one is, finds the     *)
(* rows that are long enough.                                              *)
LEMMA ConsistentIs ==
    ASSUME LoopTypes, NEW PINC \in SUBSET Button, Round(PINC), NEW b \in Button,
           NEW n \in 1 .. INPUT_HISTORY, IsRow(b, n)'
    PROVE  /\ Consistent(b) = (n = INPUT_HISTORY)
           /\ Consistent(b) => (b \in inputs'[0]) = (b \in PINC)
<1> DEFINE N == INPUT_HISTORY
<1>1. N \in Nat /\ N > 0 /\ 0 \in History
  BY HistoryAssumption DEF History
<1>2. Ago(0)' = PINC /\ \A j \in History : \E i \in History : inputs'[j] = Ago(i)'
  BY RoundAges
<1>3. /\ n = N \/ (b \in Ago(n)') # (b \in Ago(0)')
      /\ \A j \in 1 .. n - 1 : (b \in Ago(j)') = (b \in Ago(0)')
  BY DEF IsRow
<1>4. ASSUME NEW i \in History PROVE \E j \in History : Ago(i)' = inputs'[j]
  <2>1. historyIndex' \in History
    BY NextPlace DEF Round, LoopTypes
  <2> QED  BY <2>1, PlaceAgo DEF Ago
<1>5. ASSUME n = N PROVE \A j \in History : (b \in inputs'[j]) = (b \in PINC)
  <2> TAKE j \in History
  <2>1. PICK i \in History : inputs'[j] = Ago(i)'
    BY <1>2
  <2>2. i = 0 \/ i \in 1 .. n - 1
    BY <1>1, <1>5 DEF History
  <2> QED  BY <1>2, <1>3, <2>1, <2>2
<1>6. ASSUME Consistent(b) PROVE \A i \in History : (b \in Ago(i)') = (b \in inputs'[0])
  BY <1>4, <1>6 DEF Consistent
<1>7. Consistent(b) => n = N
  <2> SUFFICES ASSUME Consistent(b), n # N PROVE FALSE
    OBVIOUS
  <2>1. n \in History
    BY <1>1 DEF History
  <2>2. (b \in Ago(n)') = (b \in inputs'[0]) /\ (b \in Ago(0)') = (b \in inputs'[0])
    BY <1>1, <1>6, <2>1
  <2> QED  BY <1>3, <2>2
<1>8. n = N => Consistent(b)
  BY <1>1, <1>5 DEF Consistent
<1>9. Consistent(b) => (b \in inputs'[0]) = (b \in PINC)
  BY <1>1, <1>5, <1>7
<1>10. Consistent(b) \in BOOLEAN
  BY DEF Consistent
<1> QED  BY <1>7, <1>8, <1>9, <1>10

-----------------------------------------------------------------------------
(* The program number. *)

(* A program number in a uint8_t is at most twice its range.               *)
LEMMA Remainder ==
    ASSUME NEW x \in 0 .. 2 * ProgramRange - 1
    PROVE  /\ x % ProgramRange = IF x < ProgramRange THEN x ELSE x - ProgramRange
           /\ x % ProgramRange \in 0 .. ProgramRange - 1
<1>1. ProgramRange \in Nat /\ ProgramRange > 0 /\ x \in Nat
  BY RangeAssumption
<1>2. CASE x < ProgramRange
  BY <1>1, <1>2
<1>3. CASE x >= ProgramRange
  <2>1. x - ProgramRange \in Nat /\ x - ProgramRange < ProgramRange
    BY <1>1, <1>3
  <2>2. x = (x - ProgramRange) + ProgramRange
    BY <1>1
  <2>3. ((x - ProgramRange) + ProgramRange) % ProgramRange = x - ProgramRange
    BY <1>1, <2>1
  <2> QED  BY <1>1, <1>3, <2>1, <2>2, <2>3
<1> QED  BY <1>1, <1>2, <1>3

LEMMA UpFollows ==
    ASSUME NEW p \in 0 .. 2 * ProgramRange - 1
    PROVE  /\ ProgramUp(p) \in 0 .. 2 * ProgramRange - 1
           /\ ProgramUp(p) % ProgramRange = ((p % ProgramRange) + 1) % ProgramRange
<1> DEFINE R == ProgramRange
<1>1. R \in Nat /\ R > 0 /\ p \in Nat
  BY RangeAssumption
<1>2. PICK q \in 0 .. R - 1 : q = p % R /\ q = (IF p < R THEN p ELSE p - R)
  BY Remainder
<1>3. q + 1 \in 0 .. 2 * R - 1
  BY <1>1
<1>4. (q + 1) % R = (IF q + 1 = R THEN 0 ELSE q + 1) /\ (q + 1) % R \in 0 .. R - 1
  <2>1. PICK x \in 0 .. 2 * R - 1 : x = q + 1
    BY <1>3
  <2>2. x % R = IF x < R THEN x ELSE x - R
    BY Remainder
  <2> QED  BY <1>1, <2>1, <2>2
<1>5. (p + 1) % R = (q + 1) % R
  <2>1. CASE p + 1 \in 0 .. 2 * R - 1
    <3>1. PICK x \in 0 .. 2 * R - 1 : x = p + 1
      BY <2>1
    <3>2. x % R = IF x < R THEN x ELSE x - R
      BY Remainder
    <3> QED  BY <1>1, <1>2, <1>4, <3>1, <3>2
  <2>2. CASE p + 1 \notin 0 .. 2 * R - 1
    <3>1. p + 1 = R + R /\ q + 1 = R
      BY <1>1, <1>2, <2>2
    <3>2. (R + R) % R = 0
      BY <1>1
    <3> QED  BY <1>1, <1>4, <3>1, <3>2
  <2> QED  BY <2>1, <2>2
<1>6. ((q + 1) % R) % R = (q + 1) % R
  <2>1. PICK r \in 0 .. R - 1 : r = (q + 1) % R
    BY <1>4
  <2>2. r % R = r
    BY <1>1, <2>1
  <2> QED  BY <2>1, <2>2
<1>7. (q + 1) % R \in 0 .. 2 * R - 1
  BY <1>1, <1>4
<1> QED  BY <1>2, <1>5, <1>6, <1>7 DEF ProgramUp

LEMMA DownFollows ==
    ASSUME NEW p \in 0 .. 2 * ProgramRange - 1
    PROVE  /\ ProgramDown(p) \in 0 .. 2 * ProgramRange - 1
           /\ ProgramDown(p) % ProgramRange = ((p % ProgramRange) + ProgramRange - 1) % ProgramRange
<1> DEFINE R == ProgramRange
<1>1. R \in Nat /\ R > 0 /\ p \in Nat
  BY RangeAssumption
<1>2. PICK q \in 0 .. R - 1 : q = p % R /\ q = (IF p < R THEN p ELSE p - R)
  BY Remainder
<1>3. q + R - 1 \in 0 .. 2 * R - 1
  BY <1>1
<1>4. (q + R - 1) % R = IF q = 0 THEN R - 1 ELSE q - 1
  <2>1. PICK x \in 0 .. 2 * R - 1 : x = q + R - 1
    BY <1>3
  <2>2. x % R = IF x < R THEN x ELSE x - R
    BY Remainder
  <2> QED  BY <1>1, <2>1, <2>2
<1>5. CASE p = 0
  <2>1. 2 * R - 1 \in 0 .. 2 * R - 1 /\ q = 0
    BY <1>1, <1>2, <1>5
  <2>2. PICK x \in 0 .. 2 * R - 1 : x = 2 * R - 1
    BY <2>1
  <2>4. x % R = IF x < R THEN x ELSE x - R
    BY Remainder
  <2>3. (2 * R - 1) % R = R - 1
    BY <1>1, <2>2, <2>4
  <2> QED  BY <1>2, <1>4, <1>5, <2>1, <2>3 DEF ProgramDown
<1>6. CASE p # 0
  <2>1. p - 1 \in 0 .. 2 * R - 1
    BY <1>1, <1>6
  <2>2. PICK d \in 0 .. R - 1 : d = (p - 1) % R /\ d = (IF p - 1 < R THEN p - 1 ELSE p - 1 - R)
    BY <2>1, Remainder
  <2>3. d = (IF q = 0 THEN R - 1 ELSE q - 1)
    BY <1>1, <1>2, <1>6, <2>2
  <2>4. d % R = d /\ d \in 0 .. 2 * R - 1
    BY <1>1, <2>2
  <2>5. ProgramDown(p) = d
    BY <1>6, <2>2 DEF ProgramDown
  <2> QED  BY <1>2, <1>4, <2>3, <2>4, <2>5
<1> QED  BY <1>5, <1>6

LEMMA ProgramNumbers ==
    ASSUME LoopTypes
    PROVE  /\ First \in 0 .. 2 * ProgramRange - 1 /\ Second \in 0 .. 2 * ProgramRange - 1
           /\ First % ProgramRange \in Nat /\ Second % ProgramRange \in Nat
<1>1. program \in 0 .. 2 * ProgramRange - 1
  BY DEF LoopTypes
<1>2. First \in 0 .. 2 * ProgramRange - 1
  BY <1>1, UpFollows DEF First
<1>3. Second \in 0 .. 2 * ProgramRange - 1
  BY <1>2, DownFollows DEF Second
<1>4. \A p \in 0 .. 2 * ProgramRange - 1 : p % ProgramRange \in Nat
  BY Remainder
<1> QED  BY <1>2, <1>3, <1>4

-----------------------------------------------------------------------------
(* What a round says. *)

Elements(s) == {s[i] : i \in 1 .. Len(s)}

LEMMA ConcatElements ==
    ASSUME NEW S, NEW s \in Seq(S), NEW t \in Seq(S)
    PROVE  s \o t \in Seq(S) /\ Elements(s \o t) = Elements(s) \cup Elements(t)
<1> DEFINE st == s \o t
<1>1. /\ st \in Seq(S) /\ Len(st) = Len(s) + Len(t) /\ Len(s) \in Nat /\ Len(t) \in Nat
      /\ \A i \in 1 .. Len(s) + Len(t) : st[i] = IF i <= Len(s) THEN s[i] ELSE t[i - Len(s)]
  BY ConcatProperties, LenProperties
<1> HIDE DEF st
<1>2. \A i \in 1 .. Len(s) : i \in 1 .. Len(st) /\ st[i] = s[i]
  BY <1>1
<1>3. ASSUME NEW i \in 1 .. Len(t) PROVE \E j \in 1 .. Len(st) : st[j] = t[i]
  <2>1. i + Len(s) \in 1 .. Len(st) /\ ~(i + Len(s) <= Len(s)) /\ (i + Len(s)) - Len(s) = i
    BY <1>1
  <2> QED  BY <1>1, <2>1
<1>4. ASSUME NEW i \in 1 .. Len(st)
      PROVE  (\E j \in 1 .. Len(s) : st[i] = s[j]) \/ (\E j \in 1 .. Len(t) : st[i] = t[j])
  <2>1. CASE i <= Len(s)
    BY <1>1, <2>1
  <2>2. CASE ~(i <= Len(s))
    <3>1. i - Len(s) \in 1 .. Len(t)
      BY <1>1, <2>2
    <3> QED  BY <1>1, <2>2, <3>1
  <2> QED  BY <2>1, <2>2
<1>5. Elements(st) = Elements(s) \cup Elements(t)
  <2>1. ASSUME NEW x \in Elements(st) PROVE x \in Elements(s) \cup Elements(t)
    <3>1. PICK i \in 1 .. Len(st) : x = st[i]
      BY DEF Elements
    <3> QED  BY <1>4, <3>1 DEF Elements
  <2>2. Elements(s) \subseteq Elements(st)
    BY <1>2 DEF Elements
  <2>3. ASSUME NEW x \in Elements(t) PROVE x \in Elements(st)
    <3>1. PICK i \in 1 .. Len(t) : x = t[i]
      BY DEF Elements
    <3>2. PICK j \in 1 .. Len(st) : st[j] = x
      BY <1>3, <3>1
    <3> QED  BY <3>2 DEF Elements
  <2> QED  BY <2>1, <2>2, <2>3
<1> QED  BY <1>1, <1>5 DEF st

(* The messages of the two program buttons come first.                     *)
Begins(a, s) ==
    /\ Len(a) <= Len(s)
    /\ \A k \in 1 .. Len(a) : s[k] = a[k]
    /\ \A k \in 1 .. Len(s) : s[k][1] = "programchange" => k <= Len(a)

LEMMA OthersFollow ==
    ASSUME NEW a \in Seq(Msg), NEW s \in Seq(Msg), NEW t \in Seq(OtherMsg), Begins(a, s)
    PROVE  s \o t \in Seq(Msg) /\ Begins(a, s \o t)
<1> DEFINE st == s \o t
<1>1. t \in Seq(Msg)
  BY DEF Msg
<1>2. /\ st \in Seq(Msg) /\ Len(st) = Len(s) + Len(t)
      /\ Len(s) \in Nat /\ Len(t) \in Nat /\ Len(a) \in Nat
      /\ \A i \in 1 .. Len(s) + Len(t) : st[i] = IF i <= Len(s) THEN s[i] ELSE t[i - Len(s)]
  BY <1>1, ConcatProperties, LenProperties
<1> HIDE DEF st
<1>3. Len(a) <= Len(st) /\ \A k \in 1 .. Len(a) : st[k] = a[k]
  BY <1>2 DEF Begins
<1>4. ASSUME NEW k \in 1 .. Len(st), st[k][1] = "programchange" PROVE k <= Len(a)
  <2>1. CASE k <= Len(s)
    BY <1>2, <1>4, <2>1 DEF Begins
  <2>2. CASE ~(k <= Len(s))
    <3>1. k - Len(s) \in 1 .. Len(t) /\ st[k] = t[k - Len(s)]
      BY <1>2, <2>2
    <3>2. t[k - Len(s)] \in OtherMsg
      BY <3>1
    <3>3. st[k][1] # "programchange"
      BY <3>1, <3>2 DEF OtherMsg
    <3> QED  BY <1>4, <3>3
  <2> QED  BY <2>1, <2>2
<1>5. Begins(a, st)
  BY <1>3, <1>4 DEF Begins
<1> QED  BY <1>2, <1>5 DEF st

HasMessage(b) == b \in Pressed \/ (b \in Released /\ b > 1)
MessageFor(b) == MessageOf(b, IF b = 0 THEN First ELSE Second, Released)

LEMMA ToldIs ==
    ASSUME LoopTypes, NEW b \in 0 .. 7
    PROVE  /\ Told(b) = IF HasMessage(b) THEN <<MessageFor(b)>> ELSE <<>>
           /\ b < 2 => Told(b) \in Seq(ProgramMsg)
           /\ b >= 2 => Told(b) \in Seq(OtherMsg)
           /\ Elements(Told(b)) = IF HasMessage(b) THEN {MessageFor(b)} ELSE {}
           /\ MessageFor(b) \in Msg
<1>1. Told(b) = IF HasMessage(b) THEN <<MessageFor(b)>> ELSE <<>>
  BY DEF Told, HasMessage, MessageFor
<1>2. First % ProgramRange \in Nat /\ Second % ProgramRange \in Nat
  BY ProgramNumbers
<1>3. ASSUME b < 2 PROVE MessageFor(b) \in ProgramMsg
  <2>1. b \in {0, 1}
    BY <1>3
  <2>2. MessageFor(b) = <<"programchange", b, (IF b = 0 THEN First ELSE Second) % ProgramRange>>
    BY <1>3 DEF MessageFor, MessageOf
  <2> QED  BY <1>2, <2>1, <2>2 DEF ProgramMsg
<1>4. ASSUME b >= 2 PROVE MessageFor(b) \in OtherMsg
  <2>1. b \in 2 .. 7 /\ ~(b < 2)
    BY <1>4
  <2>2. CASE b = 2
    <3>1. MessageFor(b) \in {<<"noteoff", b, 64>>, <<"noteon", b, 64>>}
      BY <2>1, <2>2 DEF MessageFor, MessageOf
    <3> QED  BY <2>1, <3>1 DEF OtherMsg
  <2>3. CASE b # 2
    <3>1. b > 2
      BY <2>1, <2>3
    <3>2. MessageFor(b) = <<"cc", b, IF b \in Released THEN 0 ELSE 1>>
      BY <2>1, <2>3, <3>1 DEF MessageFor, MessageOf
    <3> QED  BY <2>1, <3>2 DEF OtherMsg
  <2> QED  BY <2>2, <2>3
<1>5. /\ b < 2 => Told(b) \in Seq(ProgramMsg)
      /\ b >= 2 => Told(b) \in Seq(OtherMsg)
  BY <1>1, <1>3, <1>4
<1>6. Elements(Told(b)) = IF HasMessage(b) THEN {MessageFor(b)} ELSE {}
  <2>1. CASE HasMessage(b)
    <3> DEFINE m == MessageFor(b)
    <3>1. Told(b) = <<m>>
      BY <1>1, <2>1
    <3> HIDE DEF m
    <3>2. Len(<<m>>) = 1 /\ <<m>>[1] = m
      OBVIOUS
    <3>3. Elements(<<m>>) = {m}
      BY <3>2 DEF Elements
    <3> QED  BY <2>1, <3>1, <3>3 DEF m
  <2>2. CASE ~HasMessage(b)
    <3>1. Told(b) = <<>> /\ Len(<<>>) = 0
      BY <1>1, <2>2
    <3>2. Elements(<<>>) = {}
      BY <3>1 DEF Elements
    <3> QED  BY <2>2, <3>1, <3>2
  <2> QED  BY <2>1, <2>2
<1>7. MessageFor(b) \in Msg
  BY <1>3, <1>4 DEF Msg
<1> QED  BY <1>1, <1>5, <1>6, <1>7

(* The messages of a round are those of the eight buttons, the two program *)
(* buttons first.                                                          *)
LEMMA SaidIs ==
    ASSUME LoopTypes, NEW PINC \in SUBSET Button, Round(PINC)
    PROVE  /\ sent' \in Seq(Msg)
           /\ Begins(Told(0) \o Told(1), sent')
           /\ Elements(sent') = UNION {Elements(Told(b)) : b \in 0 .. 7}
<1> DEFINE a1 == Told(0) \o Told(1)
           a2 == a1 \o Told(2)
           a3 == a2 \o Told(3)
           a4 == a3 \o Told(4)
           a5 == a4 \o Told(5)
           a6 == a5 \o Told(6)
           a7 == a6 \o Told(7)
<1>1. sent' = a7
  BY DEF Round
<1>2. /\ Told(0) \in Seq(ProgramMsg) /\ Told(1) \in Seq(ProgramMsg)
      /\ Told(2) \in Seq(OtherMsg) /\ Told(3) \in Seq(OtherMsg) /\ Told(4) \in Seq(OtherMsg)
      /\ Told(5) \in Seq(OtherMsg) /\ Told(6) \in Seq(OtherMsg) /\ Told(7) \in Seq(OtherMsg)
  <2>1. \A b \in 0 .. 7 : /\ b < 2 => Told(b) \in Seq(ProgramMsg)
                          /\ b >= 2 => Told(b) \in Seq(OtherMsg)
    BY ToldIs
  <2> QED  BY <2>1
<1>3. \A b \in 0 .. 7 : Told(b) \in Seq(Msg)
  <2> TAKE b \in 0 .. 7
  <2>1. (b < 2 => Told(b) \in Seq(ProgramMsg)) /\ (b >= 2 => Told(b) \in Seq(OtherMsg))
    BY ToldIs
  <2>2. Told(b) \in Seq(ProgramMsg) \/ Told(b) \in Seq(OtherMsg)
    BY <2>1
  <2>3. ProgramMsg \subseteq Msg /\ OtherMsg \subseteq Msg
    BY DEF Msg
  <2> QED  BY <2>2, <2>3
<1>4. a1 \in Seq(Msg) /\ Begins(a1, a1)
  <2>1. a1 \in Seq(Msg) /\ Len(a1) \in Nat
    BY <1>3, ConcatProperties, LenProperties
  <2> QED  BY <2>1 DEF Begins
<1> HIDE DEF a1, a2, a3, a4, a5, a6, a7
<1>5. a2 \in Seq(Msg) /\ Begins(a1, a2)
  BY <1>2, <1>4, OthersFollow DEF a2
<1>6. a3 \in Seq(Msg) /\ Begins(a1, a3)
  BY <1>2, <1>4, <1>5, OthersFollow DEF a3
<1>7. a4 \in Seq(Msg) /\ Begins(a1, a4)
  BY <1>2, <1>4, <1>6, OthersFollow DEF a4
<1>8. a5 \in Seq(Msg) /\ Begins(a1, a5)
  BY <1>2, <1>4, <1>7, OthersFollow DEF a5
<1>9. a6 \in Seq(Msg) /\ Begins(a1, a6)
  BY <1>2, <1>4, <1>8, OthersFollow DEF a6
<1>10. a7 \in Seq(Msg) /\ Begins(a1, a7)
  BY <1>2, <1>4, <1>9, OthersFollow DEF a7
<1>11. /\ Told(0) \in Seq(Msg) /\ Told(1) \in Seq(Msg) /\ Told(2) \in Seq(Msg)
       /\ Told(3) \in Seq(Msg) /\ Told(4) \in Seq(Msg) /\ Told(5) \in Seq(Msg)
       /\ Told(6) \in Seq(Msg) /\ Told(7) \in Seq(Msg)
  BY <1>3
<1>12. Elements(a1) = Elements(Told(0)) \cup Elements(Told(1))
  BY <1>11, ConcatElements DEF a1
<1>13. Elements(a2) = Elements(a1) \cup Elements(Told(2))
  BY <1>4, <1>11, ConcatElements DEF a2
<1>14. Elements(a3) = Elements(a2) \cup Elements(Told(3))
  BY <1>5, <1>11, ConcatElements DEF a3
<1>15. Elements(a4) = Elements(a3) \cup Elements(Told(4))
  BY <1>6, <1>11, ConcatElements DEF a4
<1>16. Elements(a5) = Elements(a4) \cup Elements(Told(5))
  BY <1>7, <1>11, ConcatElements DEF a5
<1>17. Elements(a6) = Elements(a5) \cup Elements(Told(6))
  BY <1>8, <1>11, ConcatElements DEF a6
<1>18. Elements(a7) = Elements(a6) \cup Elements(Told(7))
  BY <1>9, <1>11, ConcatElements DEF a7
<1>19. Elements(a7) = UNION {Elements(Told(b)) : b \in 0 .. 7}
  <2>1. 0 .. 7 = {0, 1, 2, 3, 4, 5, 6, 7}
    OBVIOUS
  <2>2. UNION {Elements(Told(b)) : b \in {0, 1, 2, 3, 4, 5, 6, 7}} =
          Elements(Told(0)) \cup Elements(Told(1)) \cup Elements(Told(2)) \cup Elements(Told(3))
          \cup Elements(Told(4)) \cup Elements(Told(5)) \cup Elements(Told(6)) \cup Elements(Told(7))
    OBVIOUS
  <2> QED  BY <1>12, <1>13, <1>14, <1>15, <1>16, <1>17, <1>18, <2>1, <2>2
<1> QED  BY <1>1, <1>10, <1>19 DEF a1

(* What they tell.                                                         *)
LEMMA TellsUp ==
    ASSUME NEW m, m[1] = "noteoff" \/ (m[1] = "cc" /\ m[3] = 0)
    PROVE  Tells(m) = <<m[2], TRUE>>
<1>1. (m[1] = "noteoff" \/ (m[1] = "cc" /\ m[3] = 0)) = TRUE
  OBVIOUS
<1> QED  BY <1>1, Zenon DEF Tells

LEMMA TellsDown ==
    ASSUME NEW m, ~(m[1] = "noteoff" \/ (m[1] = "cc" /\ m[3] = 0))
    PROVE  Tells(m) = <<m[2], FALSE>>
<1>1. (m[1] = "noteoff" \/ (m[1] = "cc" /\ m[3] = 0)) = FALSE
  OBVIOUS
<1> QED  BY <1>1, Zenon DEF Tells

LEMMA RoundTells ==
    ASSUME LoopTypes, NEW PINC \in SUBSET Button, Round(PINC)
    PROVE  {Tells(sent'[k]) : k \in DOMAIN sent'} =
             {<<b, FALSE>> : b \in Pressed} \cup {<<b, TRUE>> : b \in Released \ {0, 1}}
<1>1. Pressed \subseteq Button /\ Released \subseteq Button /\ Pressed \cap Released = {}
  BY DEF Pressed, Released
<1>2. sent' \in Seq(Msg) /\ Elements(sent') = UNION {Elements(Told(b)) : b \in 0 .. 7}
  BY SaidIs
<1>3. {Tells(sent'[k]) : k \in DOMAIN sent'} = {Tells(m) : m \in Elements(sent')}
  <2>1. DOMAIN sent' = 1 .. Len(sent')
    BY <1>2, LenProperties
  <2> QED  BY <2>1 DEF Elements
<1>4. Elements(sent') = {MessageFor(b) : b \in {c \in 0 .. 7 : HasMessage(c)}}
  <2>1. \A b \in 0 .. 7 : Elements(Told(b)) = IF HasMessage(b) THEN {MessageFor(b)} ELSE {}
    BY ToldIs
  <2> QED  BY <1>2, <2>1
<1>5. ASSUME NEW b \in 0 .. 7, HasMessage(b)
      PROVE  /\ b \in Released => Tells(MessageFor(b)) = <<b, TRUE>> /\ b \notin {0, 1}
             /\ b \notin Released => Tells(MessageFor(b)) = <<b, FALSE>>
  <2> DEFINE m == MessageFor(b)
  <2>1. CASE b < 2
    <3>1. b \notin Released
      BY <1>1, <1>5, <2>1 DEF HasMessage
    <3>2. m = <<"programchange", b, (IF b = 0 THEN First ELSE Second) % ProgramRange>>
      BY <2>1 DEF MessageFor, MessageOf
    <3>3. m[1] = "programchange" /\ m[2] = b
      BY <3>2
    <3> QED  BY <3>1, <3>3, TellsDown
  <2>2. CASE b = 2
    <3>1. b \in Released => m[1] = "noteoff" /\ m[2] = b
      BY <2>2 DEF MessageFor, MessageOf
    <3>2. b \notin Released => m[1] = "noteon" /\ m[2] = b
      BY <2>2 DEF MessageFor, MessageOf
    <3> HIDE DEF m
    <3>3. b \in Released => Tells(m) = <<b, TRUE>>
      BY <3>1, TellsUp
    <3>4. b \notin Released => Tells(m) = <<b, FALSE>>
      BY <3>2, TellsDown
    <3>5. b \notin {0, 1}
      BY <2>2
    <3> QED  BY <3>3, <3>4, <3>5, Zenon DEF m
  <2>3. CASE b > 2
    <3>1. m[1] = "cc" /\ m[2] = b /\ m[3] = IF b \in Released THEN 0 ELSE 1
      BY <2>3 DEF MessageFor, MessageOf
    <3> HIDE DEF m
    <3>2. b \in Released => Tells(m) = <<b, TRUE>>
      BY <3>1, TellsUp
    <3>3. b \notin Released => ~(m[1] = "noteoff" \/ (m[1] = "cc" /\ m[3] = 0))
      BY <3>1
    <3>4. b \notin Released => Tells(m) = <<b, FALSE>>
      BY <3>1, <3>3, TellsDown, Zenon
    <3>5. b \notin {0, 1}
      BY <2>3
    <3> QED  BY <3>2, <3>4, <3>5, Zenon DEF m
  <2>4. b < 2 \/ b = 2 \/ b > 2
    OBVIOUS
  <2> QED  BY <2>1, <2>2, <2>3, <2>4, Zenon
<1>6. {c \in 0 .. 7 : HasMessage(c)} = Pressed \cup (Released \ {0, 1})
  <2>1. \A c \in 0 .. 7 : (c > 1) = (c \notin {0, 1})
    OBVIOUS
  <2> QED  BY <1>1, <2>1, ButtonAssumption DEF HasMessage
<1>7. /\ \A b \in Pressed : Tells(MessageFor(b)) = <<b, FALSE>>
      /\ \A b \in Released \ {0, 1} : Tells(MessageFor(b)) = <<b, TRUE>>
  BY <1>1, <1>5, <1>6
<1>8. {Tells(m) : m \in Elements(sent')} = {Tells(MessageFor(b)) : b \in Pressed \cup (Released \ {0, 1})}
  BY <1>4, <1>6
<1>9. {Tells(MessageFor(b)) : b \in Pressed \cup (Released \ {0, 1})} =
        {<<b, FALSE>> : b \in Pressed} \cup {<<b, TRUE>> : b \in Released \ {0, 1}}
  BY <1>7
<1> QED  BY <1>3, <1>8, <1>9

-----------------------------------------------------------------------------
(* The driver. *)

IsCall(call) == call.cnt \in {2, 3} /\ call.bytes \in Seq(Byte) /\ Len(call.bytes) = 3

LEMMA CallBytes ==
    ASSUME NEW m \in Msg
    PROVE  IsCall(CallOf(m))
<1>1. ASSUME NEW c \in {2, 3}, NEW x \in Byte, NEW y \in Byte, NEW z \in Byte
      PROVE  IsCall(SendCall(c, x, y, z))
  BY DEF SendCall, IsCall
<1>2. ASSUME NEW n \in Int PROVE Low7(n) \in Byte
  BY DEF Low7, Byte
<1>3. /\ OnChannel(MIDI_PROGCHANGE, 0) \in Byte /\ OnChannel(MIDI_NOTEON, 0) \in Byte
      /\ OnChannel(MIDI_NOTEOFF, 0) \in Byte /\ OnChannel(MIDI_CC, 0) \in Byte /\ 0 \in Byte
  BY DEF OnChannel, LowNibble, MIDI_PROGCHANGE, MIDI_NOTEON, MIDI_NOTEOFF, MIDI_CC, Byte
<1>6. 2 \in {2, 3} /\ 3 \in {2, 3}
  OBVIOUS
<1>7. ASSUME NEW y \in Byte, NEW z \in Byte
      PROVE  /\ IsCall(SendCall(3, OnChannel(MIDI_NOTEOFF, 0), y, z))
             /\ IsCall(SendCall(3, OnChannel(MIDI_NOTEON, 0), y, z))
             /\ IsCall(SendCall(3, OnChannel(MIDI_CC, 0), y, z))
  BY <1>1, <1>3, <1>6, Zenon
<1>4. CASE m \in ProgramMsg
  <2>1. m[1] = "programchange" /\ m[3] \in Int
    BY <1>4 DEF ProgramMsg
  <2>2. CallOf(m) = SendCall(2, OnChannel(MIDI_PROGCHANGE, 0), Low7(m[3]), 0)
    BY <2>1 DEF CallOf, midi_send_programchange
  <2> QED  BY <1>1, <1>2, <1>3, <1>6, <2>1, <2>2, Zenon
<1>5. CASE m \in OtherMsg
  <2>1. m[1] \in {"noteoff", "noteon", "cc"} /\ m[2] - 3 \in Int /\ m[3] \in Int
    BY <1>5 DEF OtherMsg
  <2>2. Low7(m[2] - 3) \in Byte /\ Low7(m[3]) \in Byte /\ Low7(30) \in Byte /\ Low7(127) \in Byte
    BY <1>2, <2>1
  <2>3. CASE m[1] = "noteoff"
    <3>1. CallOf(m) = SendCall(3, OnChannel(MIDI_NOTEOFF, 0), Low7(m[3]), Low7(30))
      BY <2>3 DEF CallOf, midi_send_noteoff
    <3> QED  BY <1>7, <2>2, <3>1, Zenon
  <2>4. CASE m[1] = "noteon"
    <3>1. CallOf(m) = SendCall(3, OnChannel(MIDI_NOTEON, 0), Low7(m[3]), Low7(127))
      BY <2>4 DEF CallOf, midi_send_noteon
    <3> QED  BY <1>7, <2>2, <3>1, ZenonT(40)
  <2>5. CASE m[1] = "cc"
    <3>1. CallOf(m) = SendCall(3, OnChannel(MIDI_CC, 0), Low7(m[2] - 3), Low7(m[3]))
      BY <2>5 DEF CallOf, midi_send_cc
    <3> QED  BY <1>7, <2>2, <3>1, Zenon
  <2> QED  BY <2>1, <2>3, <2>4, <2>5
<1> QED  BY <1>4, <1>5 DEF Msg

LEMMA WrittenBytes ==
    ASSUME NEW m \in Msg
    PROVE  Written(CallOf(m)) \in Seq(Byte) /\ Written(CallOf(m)) # <<>>
<1> DEFINE b == CallOf(m).bytes
           n == IF CallOf(m).cnt = 3 THEN 3 ELSE IF CallOf(m).cnt > 1 THEN 2 ELSE 1
<1>1. b \in Seq(Byte) /\ Len(b) = 3 /\ n \in {2, 3}
  BY CallBytes DEF IsCall
<1>2. Written(CallOf(m)) = SubSeq(b, 1, n)
  BY DEF Written
<1> HIDE DEF b, n
<1>3. \A i \in 1 .. n : b[i] \in Byte
  <2> TAKE i \in 1 .. n
  <2>1. i \in 1 .. Len(b)
    BY <1>1
  <2> QED  BY <1>1, <2>1, ElementOfSeq
<1>4. SubSeq(b, 1, n) \in Seq(Byte) /\ Len(SubSeq(b, 1, n)) = n
  BY <1>1, <1>3
<1> QED  BY <1>1, <1>2, <1>4

LEMMA HeldBytes ==
    ASSUME NEW r \in Byte \cup {Empty}
    PROVE  Held(r) \in Seq(Byte)
<1>1. <<>> \in Seq(Byte) /\ \A b \in Byte : <<b>> \in Seq(Byte)
  OBVIOUS
<1> QED  BY <1>1 DEF Held

LEMMA DriverKeeps ==
    ASSUME DriverTypes, SendStep \/ Load \/ ShiftOut
    PROVE  DriverTypes'
<1>1. CASE Wait
  BY <1>1 DEF DriverTypes, Wait
<1>2. CASE Write
  <2>1. left # <<>>
    BY <1>2 DEF DriverTypes, Write
  <2>2. Head(left) \in Byte /\ Tail(left) \in Seq(Byte)
    BY <2>1, HeadTailProperties DEF DriverTypes
  <2> QED  BY <1>2, <2>2 DEF DriverTypes, Write
<1>3. CASE Load
  BY <1>3 DEF DriverTypes, Load
<1>4. CASE ShiftOut
  BY <1>4 DEF DriverTypes, ShiftOut
<1> QED  BY <1>1, <1>2, <1>3, <1>4 DEF SendStep

LEMMA SendKeeps ==
    ASSUME DriverTypes, NEW m \in Msg, CallSend(CallOf(m))
    PROVE  DriverTypes' /\ Pending' = Pending \o Written(CallOf(m))
<1> DEFINE w == Written(CallOf(m))
           a == Held(shift) \o Held(udr)
<1>1. w \in Seq(Byte) /\ w # <<>>
  BY WrittenBytes
<1> HIDE DEF w
<1>2. left' = w /\ at' = "wait" /\ udr' = udr /\ shift' = shift /\ left = <<>>
  BY DEF CallSend, DriverTypes, w
<1>3. DriverTypes'
  BY <1>1, <1>2 DEF DriverTypes
<1>4. a \in Seq(Byte)
  BY HeldBytes, ConcatProperties DEF DriverTypes
<1>5. Pending' = a \o w /\ Pending = a \o <<>>
  BY <1>2 DEF Pending
<1> HIDE DEF a
<1>6. a \o <<>> = a
  BY <1>4, ConcatEmptySeq
<1> QED  BY <1>3, <1>5, <1>6 DEF w

LEMMA DriverOrder ==
    ASSUME DriverTypes, SendStep \/ Load \/ ShiftOut
    PROVE  Pending' = Pending \/ (Pending # <<>> /\ Pending' = Tail(Pending))
<1>0. /\ Held(shift) \in Seq(Byte) /\ Held(udr) \in Seq(Byte) /\ left \in Seq(Byte)
      /\ <<>> \in Seq(Byte)
  BY HeldBytes DEF DriverTypes
<1>1. CASE Wait
  BY <1>1 DEF Wait, Pending
<1>2. CASE Write
  <2> DEFINE b == Head(left)
             t == Tail(left)
  <2>1. left # <<>> /\ udr = Empty
    BY <1>2 DEF DriverTypes, Write
  <2>2. b \in Byte /\ t \in Seq(Byte) /\ left = <<b>> \o t /\ <<b>> \in Seq(Byte)
    <3>1. b \in Byte /\ t \in Seq(Byte)
      BY <1>0, <2>1, HeadTailProperties
    <3>2. left = <<b>> \o t
      <4>1. Len(left) \in Nat /\ Len(left) > 0 /\ Len(t) = Len(left) - 1
            /\ \A i \in 1 .. Len(t) : t[i] = left[i + 1]
        BY <1>0, <2>1, HeadTailProperties, LenProperties, EmptySeq
      <4> DEFINE bt == <<b>> \o t
      <4>2. b = left[1] /\ Len(<<b>>) = 1 /\ <<b>>[1] = b /\ <<b>> \in Seq(Byte)
        BY <3>1, <4>1
      <4> HIDE DEF b, t
      <4>3. /\ bt \in Seq(Byte) /\ Len(bt) = 1 + Len(t)
            /\ \A i \in 1 .. 1 + Len(t) : bt[i] = IF i <= 1 THEN <<b>>[i] ELSE t[i - 1]
        BY <3>1, <4>2, ConcatProperties
      <4> HIDE DEF bt
      <4>4. Len(bt) = Len(left)
        BY <4>1, <4>3
      <4>5. ASSUME NEW i \in 1 .. Len(left) PROVE bt[i] = left[i]
        <5>1. CASE i = 1
          BY <4>1, <4>2, <4>3, <5>1
        <5>2. CASE i # 1
          <6>1. i - 1 \in 1 .. Len(t) /\ i \in 1 .. 1 + Len(t) /\ ~(i <= 1) /\ (i - 1) + 1 = i
            BY <4>1, <5>2
          <6> QED  BY <4>1, <4>3, <6>1
        <5> QED  BY <5>1, <5>2
      <4>6. bt = left
        BY <1>0, <4>3, <4>4, <4>5, SeqEqual
      <4> QED  BY <4>6 DEF bt
    <3> QED  BY <3>1, <3>2
  <2>3. udr' = b /\ left' = t /\ shift' = shift
    BY <1>2 DEF Write
  <2> HIDE DEF b, t
  <2>4. Held(udr) = <<>> /\ Held(udr') = <<b>>
    BY <2>1, <2>2, <2>3 DEF Held, Byte, Empty
  <2>5. Held(shift) \o <<>> = Held(shift)
    BY <1>0, ConcatEmptySeq
  <2>6. (Held(shift) \o <<b>>) \o t = Held(shift) \o (<<b>> \o t)
    BY <1>0, <2>2, ConcatAssociative
  <2> QED  BY <2>2, <2>3, <2>4, <2>5, <2>6 DEF Pending
<1>3. CASE Load
  <2>1. Held(shift) = <<>> /\ Held(udr') = <<>> /\ Held(shift') = Held(udr) /\ left' = left
    BY <1>3 DEF Load, Held
  <2>2. <<>> \o Held(udr) = Held(udr) /\ Held(udr) \o <<>> = Held(udr)
    BY <1>0, ConcatEmptySeq
  <2> QED  BY <2>1, <2>2 DEF Pending
<1>4. CASE ShiftOut
  <2> DEFINE rest == Held(udr) \o left
  <2>1. /\ shift \in Byte /\ Held(shift) = <<shift>> /\ Held(shift') = <<>>
        /\ udr' = udr /\ left' = left /\ <<shift>> \in Seq(Byte)
    BY <1>4 DEF ShiftOut, Held, DriverTypes
  <2>2. rest \in Seq(Byte)
    BY <1>0, ConcatProperties
  <2>3. <<>> \o Held(udr) = Held(udr)
    BY <1>0, ConcatEmptySeq
  <2>4. Pending = <<shift>> \o rest /\ Pending' = rest
    BY <1>0, <2>1, <2>3, ConcatAssociative DEF Pending
  <2> HIDE DEF rest
  <2>5. /\ Len(<<shift>>) = 1 /\ Pending \in Seq(Byte) /\ Len(Pending) = 1 + Len(rest)
        /\ Len(rest) \in Nat
        /\ \A i \in 1 .. 1 + Len(rest) :
               Pending[i] = IF i <= 1 THEN <<shift>>[i] ELSE rest[i - 1]
    BY <2>1, <2>2, <2>4, ConcatProperties, LenProperties
  <2>6. Pending # <<>>
    BY <2>5
  <2>7. Tail(Pending) \in Seq(Byte) /\ Len(Tail(Pending)) = Len(rest)
        /\ \A i \in 1 .. Len(Tail(Pending)) : Tail(Pending)[i] = Pending[i + 1]
    BY <2>5, <2>6, HeadTailProperties
  <2>8. \A i \in 1 .. Len(Tail(Pending)) : Tail(Pending)[i] = rest[i]
    BY <2>5, <2>7
  <2>9. Tail(Pending) = rest
    BY <2>2, <2>7, <2>8, SeqEqual
  <2> QED  BY <2>4, <2>6, <2>9
<1> QED  BY <1>1, <1>2, <1>3, <1>4 DEF SendStep

-----------------------------------------------------------------------------
(* Every step keeps the invariant, and is a step of Debouncer or none.     *)

LEMMA Start == Init => IInv /\ Debounce!Init
<1> SUFFICES ASSUME Init PROVE IInv /\ Debounce!Init
  OBVIOUS
<1>1. INPUT_HISTORY \in Nat /\ INPUT_HISTORY > 0 /\ 0 \in History /\ ProgramRange \in Nat /\ ProgramRange > 0
  BY HistoryAssumption, RangeAssumption DEF History
<1>2. Types
  BY <1>1 DEF Init, DriverInit, Types, LoopTypes, DriverTypes
<1>3. ASSUME NEW n \in History PROVE Ago(n) = {}
  BY <1>3, <1>1, PlaceAgo DEF Ago, Init
<1>4. ASSUME NEW b \in Button PROVE IsRow(b, INPUT_HISTORY) /\ Row(b) = INPUT_HISTORY
  <2>1. IsRow(b, INPUT_HISTORY)
    <3>1. \A j \in 1 .. INPUT_HISTORY - 1 : j \in History
      BY <1>1 DEF History
    <3> QED  BY <1>1, <1>3, <3>1 DEF IsRow
  <2>2. INPUT_HISTORY \in 1 .. INPUT_HISTORY
    BY <1>1
  <2> QED  BY <2>1, <2>2, RowIs
<1>5. RowInv
  <2>1. INPUT_HISTORY \in 1 .. INPUT_HISTORY
    BY <1>1
  <2> QED  BY <1>4, <2>1 DEF RowInv
<1>6. Ago(0) = {} /\ [b \in Button |-> Row(b)] = [b \in Button |-> INPUT_HISTORY]
  BY <1>1, <1>3, <1>4
<1>7. {Tells(sent[k]) : k \in DOMAIN sent} = {}
  BY DEF Init
<1> QED  BY <1>2, <1>5, <1>6, <1>7 DEF IInv, Init, Debounce!Init

LEMMA RoundTypes ==
    ASSUME Types, NEW PINC \in SUBSET Button, Round(PINC)
    PROVE  Types'
<1>1. inputs' \in [History -> SUBSET Button] /\ historyIndex' \in History
  BY NextPlace DEF Types, LoopTypes, Round
<1>2. lastInput' \subseteq Button
  BY DEF Types, LoopTypes, Round, Released
<1>3. program' \in 0 .. 2 * ProgramRange - 1
  BY ProgramNumbers DEF Types, Round
<1>4. sent' \in Seq(Msg) /\ toSend' \in Seq(Msg)
  <2>1. sent' \in Seq(Msg)
    BY SaidIs DEF Types
  <2> QED  BY <2>1 DEF Round
<1>5. DriverTypes'
  BY DEF Types, DriverTypes, Round, driver
<1> QED  BY <1>1, <1>2, <1>3, <1>4, <1>5 DEF Types, LoopTypes

LEMMA RoundRowInv ==
    ASSUME IInv, NEW PINC \in SUBSET Button, Round(PINC)
    PROVE  RowInv'
<1> SUFFICES ASSUME NEW b \in Button
             PROVE  Row(b)' \in 1 .. INPUT_HISTORY /\ IsRow(b, Row(b))'
  BY DEF RowInv
<1>1. Row(b) \in 1 .. INPUT_HISTORY /\ IsRow(b, Row(b)) /\ LoopTypes
  BY DEF IInv, RowInv, Types
<1>2. PICK m \in 1 .. INPUT_HISTORY : m = Row(b)' /\ IsRow(b, m)'
  BY <1>1, RoundRows
<1>3. IsRow(b, Row(b))'
  BY <1>2 DEF IsRow
<1> QED  BY <1>2, <1>3

(* The round, with what it takes and what it says, is a reading.           *)
LEMMA RoundReads ==
    ASSUME IInv, NEW PINC \in SUBSET Button, Round(PINC)
    PROVE  Debounce!Read(PINC)
<1>1. LoopTypes /\ lastInput \subseteq Button
  BY DEF IInv, Types, LoopTypes
<1>2. Ago(0)' = PINC
  BY <1>1, RoundAges
<1>3. ASSUME NEW b \in Button
      PROVE  /\ Row(b)' = NextRow(b, PINC)
             /\ Consistent(b) = (Row(b)' = INPUT_HISTORY)
             /\ Consistent(b) => (b \in inputs'[0]) = (b \in PINC)
  <2>1. Row(b) \in 1 .. INPUT_HISTORY /\ IsRow(b, Row(b))
    BY DEF IInv, RowInv
  <2>2. PICK m \in 1 .. INPUT_HISTORY : m = NextRow(b, PINC) /\ m = Row(b)' /\ IsRow(b, m)'
    BY <1>1, <2>1, RoundRows
  <2>3. Consistent(b) = (m = INPUT_HISTORY) /\ (Consistent(b) => (b \in inputs'[0]) = (b \in PINC))
    BY <1>1, <2>2, ConsistentIs
  <2> QED  BY <2>2, <2>3
<1>4. [b \in Button |-> Row(b)]' =
        [b \in Button |-> IF (b \in PINC) # (b \in Ago(0)) THEN 1
                          ELSE IF [c \in Button |-> Row(c)][b] < INPUT_HISTORY
                               THEN [c \in Button |-> Row(c)][b] + 1 ELSE INPUT_HISTORY]
  <2>1. \A b \in Button : Row(b)' = IF (b \in PINC) # (b \in Ago(0)) THEN 1
                                    ELSE IF Row(b) < INPUT_HISTORY THEN Row(b) + 1 ELSE INPUT_HISTORY
    BY <1>3 DEF NextRow
  <2> QED  BY <2>1
<1>5. lastInput' = {b \in Button : IF Row(b)' = INPUT_HISTORY THEN b \in PINC ELSE b \in lastInput}
  <2>1. lastInput' = (lastInput \cup Released) \ Pressed
    BY DEF Round
  <2>2. ASSUME NEW b \in Button
        PROVE  (b \in lastInput') = (IF Consistent(b) THEN b \in PINC ELSE b \in lastInput)
    BY <1>3, <2>1 DEF Released, Pressed
  <2>3. lastInput' \subseteq Button
    BY <1>1, <2>1 DEF Released
  <2>4. \A b \in Button :
            (b \in lastInput') = (IF Row(b)' = INPUT_HISTORY THEN b \in PINC ELSE b \in lastInput)
    BY <1>3, <2>2
  <2> QED  BY <2>3, <2>4
<1>6. lastInput \ lastInput' = Pressed /\ lastInput' \ (lastInput \cup {0, 1}) = Released \ {0, 1}
  BY <1>1 DEF Round, Released, Pressed
<1>7. {Tells(sent'[k]) : k \in DOMAIN sent'} =
        {<<b, FALSE>> : b \in lastInput \ lastInput'}
          \cup {<<b, TRUE>> : b \in lastInput' \ (lastInput \cup {0, 1})}
  <2>1. {Tells(sent'[k]) : k \in DOMAIN sent'} =
          {<<b, FALSE>> : b \in Pressed} \cup {<<b, TRUE>> : b \in Released \ {0, 1}}
    BY <1>1, RoundTells
  <2> QED  BY <1>6, <2>1, Zenon
<1>8. ({Tells(sent[k]) : k \in DOMAIN sent})' = {Tells(sent'[k]) : k \in DOMAIN sent'}
  BY DEF Tells
<1>9. [b \in Button |-> Row(b)]' = [b \in Button |-> Row(b)']
  OBVIOUS
<1>10. lastInput' = {b \in Button : IF [c \in Button |-> Row(c)]'[b] = INPUT_HISTORY
                                    THEN b \in PINC ELSE b \in lastInput}
  <2>1. \A b \in Button : [c \in Button |-> Row(c)]'[b] = Row(b)'
    BY <1>9
  <2> QED  BY <1>5, <2>1
<1> QED  BY <1>2, <1>4, <1>7, <1>8, <1>10, Zenon DEF Debounce!Read

LEMMA LoopStays ==
    ASSUME IInv, UNCHANGED loopVars, DriverTypes', toSend' \in Seq(Msg)
    PROVE  IInv' /\ UNCHANGED Debounce!debouncer
<1>1. /\ inputs' = inputs /\ historyIndex' = historyIndex /\ lastInput' = lastInput
      /\ program' = program /\ sent' = sent
  BY DEF loopVars
<1>2. Types'
  BY <1>1 DEF IInv, Types, LoopTypes
<1>3. RowInv'
  BY <1>1, ZenonT(40) DEF IInv, RowInv, Row, IsRow, Ago
<1>4. UNCHANGED Debounce!debouncer
  <2>1. Ago(0)' = Ago(0) /\ lastInput' = lastInput
    BY <1>1 DEF Ago
  <2>2. [b \in Button |-> Row(b)]' = [b \in Button |-> Row(b)]
    BY <1>1 DEF Row, IsRow, Ago
  <2>3. ({Tells(sent[k]) : k \in DOMAIN sent})' = {Tells(sent[k]) : k \in DOMAIN sent}
    BY <1>1 DEF Tells
  <2> QED  BY <2>1, <2>2, <2>3 DEF Debounce!debouncer
<1> QED  BY <1>2, <1>3, <1>4 DEF IInv

LEMMA SendsKeeps ==
    ASSUME IInv, Sends
    PROVE  /\ UNCHANGED loopVars /\ DriverTypes' /\ toSend' \in Seq(Msg)
           /\ toSend # <<>> /\ Pending' = Pending \o Written(CallOf(Head(toSend)))
<1>1. toSend # <<>> /\ toSend \in Seq(Msg) /\ DriverTypes
  BY DEF Sends, IInv, Types
<1>2. Head(toSend) \in Msg /\ Tail(toSend) \in Seq(Msg)
  BY <1>1, HeadTailProperties
<1>3. CallSend(CallOf(Head(toSend))) /\ toSend' = Tail(toSend) /\ UNCHANGED loopVars
  BY DEF Sends
<1>4. DriverTypes' /\ Pending' = Pending \o Written(CallOf(Head(toSend)))
  BY <1>1, <1>2, <1>3, SendKeeps
<1> QED  BY <1>1, <1>2, <1>3, <1>4

LEMMA DriverStepKeeps ==
    ASSUME IInv, DriverStep
    PROVE  /\ UNCHANGED loopVars /\ DriverTypes' /\ toSend' \in Seq(Msg)
           /\ Pending' = Pending \/ (Pending # <<>> /\ Pending' = Tail(Pending))
<1>1. DriverTypes /\ toSend \in Seq(Msg)
  BY DEF IInv, Types
<1>2. (SendStep \/ Load \/ ShiftOut) /\ UNCHANGED <<loopVars, toSend>>
  BY DEF DriverStep
<1> QED  BY <1>1, <1>2, DriverKeeps, DriverOrder

LEMMA Step ==
    IInv /\ [Next]_basicVars =>
        /\ IInv'
        /\ Debounce!Next \/ UNCHANGED Debounce!debouncer
        /\ \/ Pending' = Pending
           \/ Pending # <<>> /\ Pending' = Tail(Pending)
           \/ toSend # <<>> /\ Pending' = Pending \o Written(CallOf(Head(toSend)))
<1> SUFFICES ASSUME IInv, [Next]_basicVars
             PROVE  /\ IInv'
                    /\ Debounce!Next \/ UNCHANGED Debounce!debouncer
                    /\ \/ Pending' = Pending
                       \/ Pending # <<>> /\ Pending' = Tail(Pending)
                       \/ toSend # <<>> /\ Pending' = Pending \o Written(CallOf(Head(toSend)))
  OBVIOUS
<1>1. CASE Rounds
  <2>1. PICK PINC \in SUBSET Button : Round(PINC)
    BY <1>1 DEF Rounds
  <2>2. IInv'
    BY <2>1, RoundTypes, RoundRowInv DEF IInv
  <2>3. Debounce!Read(PINC)
    BY <2>1, RoundReads
  <2>4. Debounce!Next
    BY <2>3 DEF Debounce!Next
  <2>5. Pending' = Pending
    BY <2>1 DEF Round, driver, Pending
  <2> QED  BY <2>2, <2>4, <2>5
<1>2. CASE Sends
  BY <1>2, SendsKeeps, LoopStays
<1>3. CASE DriverStep
  BY <1>3, DriverStepKeeps, LoopStays
<1>4. CASE UNCHANGED basicVars
  <2>1. UNCHANGED loopVars /\ UNCHANGED driver /\ toSend' = toSend
    BY <1>4 DEF basicVars
  <2>2. DriverTypes' /\ toSend' \in Seq(Msg) /\ Pending' = Pending
    BY <2>1 DEF IInv, Types, DriverTypes, driver, Pending
  <2> QED  BY <2>1, <2>2, LoopStays
<1> QED  BY <1>1, <1>2, <1>3, <1>4 DEF Next

(* The invariant: a row of equal readings for each button, wherever in the *)
(* history the next one goes, and no byte in the data register when the    *)
(* driver is past its wait (main of basic.c, serial_midi_send).            *)
THEOREM Invariance == Spec => []IInv
<1> QED  BY Start, Step, PTL DEF Spec

(* The loop of main is a debouncer: every round is a reading of one, and   *)
(* all other steps leave it alone.                                         *)
THEOREM Debounces == Spec => ImplementsDebouncer
<1>1. Init => Debounce!Init
  BY Start
<1>2. IInv /\ [Next]_basicVars => [Debounce!Next]_Debounce!debouncer
  BY Step
<1> QED  BY <1>1, <1>2, Invariance, PTL DEF Spec, ImplementsDebouncer, Debounce!Spec

(* No byte is lost or overtaken between serial_midi_send and the wire.     *)
THEOREM BytesLeaveInOrder == Spec => LeavesInOrder
<1>1. IInv /\ [Next]_basicVars =>
        [\/ Pending' = Pending
         \/ Pending # <<>> /\ Pending' = Tail(Pending)
         \/ toSend # <<>> /\ Pending' = Pending \o Written(CallOf(Head(toSend)))]_basicVars
  BY Step
<1> QED  BY <1>1, Invariance, PTL DEF Spec, LeavesInOrder

-----------------------------------------------------------------------------
(* The program number that is told. *)

(* The messages of the program buttons, one after the other.               *)
LEMMA ProgramMessages ==
    ASSUME LoopTypes
    PROVE  LET a == Told(0) \o Told(1)
               M0 == MessageFor(0)
               M1 == MessageFor(1)
           IN  /\ M0[2] = 0 /\ M0[3] = First % ProgramRange
               /\ M1[2] = 1 /\ M1[3] = Second % ProgramRange
               /\ 0 \notin Pressed /\ 1 \notin Pressed => Len(a) = 0
               /\ 0 \in Pressed /\ 1 \notin Pressed => Len(a) = 1 /\ a[1] = M0
               /\ 0 \notin Pressed /\ 1 \in Pressed => Len(a) = 1 /\ a[1] = M1
               /\ 0 \in Pressed /\ 1 \in Pressed => Len(a) = 2 /\ a[1] = M0 /\ a[2] = M1
<1> DEFINE a == Told(0) \o Told(1)
           M0 == MessageFor(0)
           M1 == MessageFor(1)
           s == Told(0)
           t == Told(1)
<1>1. M0 = <<"programchange", 0, First % ProgramRange>>
  BY DEF MessageFor, MessageOf
<1>2. M1 = <<"programchange", 1, Second % ProgramRange>>
  BY DEF MessageFor, MessageOf
<1>3. M0[2] = 0 /\ M0[3] = First % ProgramRange /\ M1[2] = 1 /\ M1[3] = Second % ProgramRange
  BY <1>1, <1>2
<1>4. /\ s = IF 0 \in Pressed THEN <<M0>> ELSE <<>>
      /\ t = IF 1 \in Pressed THEN <<M1>> ELSE <<>>
  BY DEF Told, MessageFor
<1>5. s \in Seq(ProgramMsg) /\ t \in Seq(ProgramMsg)
  <2>1. 0 \in 0 .. 7 /\ 1 \in 0 .. 7 /\ 0 < 2 /\ 1 < 2
    OBVIOUS
  <2> QED  BY <2>1, ToldIs
<1> HIDE DEF M0, M1
<1>6. /\ 0 \in Pressed => Len(s) = 1 /\ s[1] = M0
      /\ 0 \notin Pressed => Len(s) = 0
      /\ 1 \in Pressed => Len(t) = 1 /\ t[1] = M1
      /\ 1 \notin Pressed => Len(t) = 0
  <2>1. Len(<<M0>>) = 1 /\ <<M0>>[1] = M0 /\ Len(<<M1>>) = 1 /\ <<M1>>[1] = M1 /\ Len(<<>>) = 0
    OBVIOUS
  <2> HIDE DEF s, t
  <2> QED  BY <1>4, <2>1
<1> HIDE DEF s, t
<1>7. /\ Len(a) = Len(s) + Len(t) /\ Len(s) \in Nat /\ Len(t) \in Nat
      /\ \A i \in 1 .. Len(s) + Len(t) : a[i] = IF i <= Len(s) THEN s[i] ELSE t[i - Len(s)]
  BY <1>5, ConcatProperties, LenProperties DEF s, t
<1> HIDE DEF a
<1>8. 0 \notin Pressed /\ 1 \notin Pressed => Len(a) = 0
  BY <1>6, <1>7
<1>9. 0 \in Pressed /\ 1 \notin Pressed => Len(a) = 1 /\ a[1] = M0
  BY <1>6, <1>7
<1>10. 0 \notin Pressed /\ 1 \in Pressed => Len(a) = 1 /\ a[1] = M1
  BY <1>6, <1>7
<1>11. 0 \in Pressed /\ 1 \in Pressed => Len(a) = 2 /\ a[1] = M0 /\ a[2] = M1
  <2> SUFFICES ASSUME 0 \in Pressed, 1 \in Pressed PROVE Len(a) = 2 /\ a[1] = M0 /\ a[2] = M1
    OBVIOUS
  <2>1. Len(s) = 1 /\ Len(t) = 1 /\ s[1] = M0 /\ t[1] = M1
    BY <1>6
  <2>2. Len(a) = 2 /\ 1 \in 1 .. Len(s) + Len(t) /\ 2 \in 1 .. Len(s) + Len(t)
    BY <1>7, <2>1
  <2>3. /\ a[1] = IF 1 <= Len(s) THEN s[1] ELSE t[1 - Len(s)]
        /\ a[2] = IF 2 <= Len(s) THEN s[2] ELSE t[2 - Len(s)]
    BY <1>7, <2>2
  <2> QED  BY <2>1, <2>2, <2>3
<1> QED  BY <1>3, <1>8, <1>9, <1>10, <1>11 DEF a, M0, M1

LEMMA RoundFollows ==
    ASSUME LoopTypes, NEW PINC \in SUBSET Button, Round(PINC),
           NEW k \in DOMAIN sent', sent'[k][1] = "programchange"
    PROVE  Follows(IF k = 1 THEN program % ProgramRange ELSE sent'[k - 1][3], sent'[k])
<1> DEFINE a == Told(0) \o Told(1)
           M0 == MessageFor(0)
           M1 == MessageFor(1)
           R == ProgramRange
<1>1. /\ M0[2] = 0 /\ M0[3] = First % R /\ M1[2] = 1 /\ M1[3] = Second % R
      /\ 0 \notin Pressed /\ 1 \notin Pressed => Len(a) = 0
      /\ 0 \in Pressed /\ 1 \notin Pressed => Len(a) = 1 /\ a[1] = M0
      /\ 0 \notin Pressed /\ 1 \in Pressed => Len(a) = 1 /\ a[1] = M1
      /\ 0 \in Pressed /\ 1 \in Pressed => Len(a) = 2 /\ a[1] = M0 /\ a[2] = M1
  BY ProgramMessages
<1>2. Begins(a, sent') /\ sent' \in Seq(Msg)
  BY SaidIs
<1>3. First \in 0 .. 2 * R - 1 /\ program \in 0 .. 2 * R - 1
  BY ProgramNumbers DEF LoopTypes
<1>4. /\ 0 \in Pressed => M0[3] = ((program % R) + 1) % R
      /\ 1 \in Pressed => M1[3] = ((First % R) + R - 1) % R
      /\ 0 \notin Pressed => First = program
  <2>1. 0 \in Pressed => First % R = ((program % R) + 1) % R
    BY <1>3, UpFollows DEF First
  <2>2. 1 \in Pressed => Second % R = ((First % R) + R - 1) % R
    BY <1>3, DownFollows DEF Second
  <2>3. 0 \notin Pressed => First = program
    BY DEF First
  <2> HIDE DEF M0, M1
  <2> QED  BY <1>1, <2>1, <2>2, <2>3, Zenon
<1> HIDE DEF a, M0, M1
<1>5. k \in 1 .. Len(a) /\ \A i \in 1 .. Len(a) : sent'[i] = a[i]
  <2>1. k \in 1 .. Len(sent') /\ Len(sent') \in Nat
    BY <1>2, LenProperties
  <2>2. k <= Len(a) /\ \A i \in 1 .. Len(a) : sent'[i] = a[i]
    BY <1>2, <2>1 DEF Begins
  <2>3. Len(a) \in Nat
    BY <1>1
  <2> QED  BY <2>1, <2>2, <2>3
<1>6. CASE 0 \in Pressed /\ 1 \notin Pressed
  <2>1. Len(a) = 1 /\ a[1] = M0
    BY <1>1, <1>6
  <2>2. k = 1
    BY <1>5, <2>1
  <2>3. sent'[k] = M0
    BY <1>5, <2>1, <2>2
  <2> QED  BY <1>1, <1>4, <1>6, <2>2, <2>3 DEF Follows
<1>7. CASE 0 \notin Pressed /\ 1 \in Pressed
  <2>1. Len(a) = 1 /\ a[1] = M1
    BY <1>1, <1>7
  <2>2. k = 1
    BY <1>5, <2>1
  <2>3. sent'[k] = M1
    BY <1>5, <2>1, <2>2
  <2> QED  BY <1>1, <1>4, <1>7, <2>2, <2>3 DEF Follows
<1>8. CASE 0 \in Pressed /\ 1 \in Pressed
  <2>4. Len(a) = 2 /\ a[1] = M0 /\ a[2] = M1
    BY <1>1, <1>8
  <2>1. 1 \in 1 .. Len(a) /\ k \in {1, 2}
    BY <1>5, <2>4
  <2>2. CASE k = 1
    <3>1. sent'[k] = M0
      BY <1>5, <2>2, <2>4
    <3> QED  BY <1>1, <1>4, <1>8, <2>2, <3>1 DEF Follows
  <2>3. CASE k = 2
    <3>1. k # 1 /\ k - 1 = 1 /\ sent'[1] = M0 /\ sent'[k] = M1
      BY <1>5, <2>1, <2>3, <2>4
    <3> QED  BY <1>1, <1>4, <1>8, <3>1 DEF Follows
  <2> QED  BY <2>1, <2>2, <2>3
<1>9. CASE 0 \notin Pressed /\ 1 \notin Pressed
  BY <1>1, <1>5, <1>9
<1> QED  BY <1>6, <1>7, <1>8, <1>9

(* The receiver's program number goes up and down with the two buttons,    *)
(* around at both ends, although program is a uint8_t that becomes 255     *)
(* (main of basic.c, midi_send_programchange).                             *)
THEOREM ProgramNumberFollows == Spec => ProgramFollows
<1>1. IInv /\ [Next]_basicVars =>
        [historyIndex' # historyIndex =>
            \A k \in DOMAIN sent' : sent'[k][1] = "programchange" =>
                Follows(IF k = 1 THEN program % ProgramRange ELSE sent'[k - 1][3], sent'[k])]_basicVars
  <2> SUFFICES ASSUME IInv, [Next]_basicVars, historyIndex' # historyIndex,
                      NEW k \in DOMAIN sent', sent'[k][1] = "programchange"
               PROVE  Follows(IF k = 1 THEN program % ProgramRange ELSE sent'[k - 1][3], sent'[k])
    OBVIOUS
  <2>1. Rounds
    BY DEF Next, Sends, DriverStep, loopVars, basicVars
  <2>2. PICK PINC \in SUBSET Button : Round(PINC)
    BY <2>1 DEF Rounds
  <2> QED  BY <2>2, RoundFollows DEF IInv, Types
<1> QED  BY <1>1, Invariance, PTL DEF Spec, ProgramFollows
=============================================================================
