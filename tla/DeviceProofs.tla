---------------------------- MODULE DeviceProofs -----------------------------
(***************************************************************************)
(* Proofs about the devices, the settings and the codeplug's image: the    *)
(* battery's label shows the discharge curve's percentage of the latest    *)
(* reading; the volume is the pot's within the hysteresis and the          *)
(* overlay's percentage moves with it; every accessor of the codeplug      *)
(* reads and decodes the record it was asked for, out of every image; a    *)
(* fade ends where a call sent it; and rows, hardware and backlight follow *)
(* the settings.                                                           *)
(***************************************************************************)
EXTENDS Battery, Volume, CodeplugImage, Backlight, Settings, SequenceTheorems, TLAPS

-----------------------------------------------------------------------------
(* The battery thread and the label.                                       *)

\* The open-circuit voltages rise.
LEMMA CurveRises ==
  /\ \A i \in 1..11 : ocv_table_mv[i] \in Nat
  /\ \A i \in 1..11, j \in 1..11 : i <= j => ocv_table_mv[i] <= ocv_table_mv[j]
<1>1. /\ ocv_table_mv[1] = 3450 /\ ocv_table_mv[2] = 3680 /\ ocv_table_mv[3] = 3740
      /\ ocv_table_mv[4] = 3770 /\ ocv_table_mv[5] = 3790 /\ ocv_table_mv[6] = 3820
      /\ ocv_table_mv[7] = 3870 /\ ocv_table_mv[8] = 3920 /\ ocv_table_mv[9] = 3980
      /\ ocv_table_mv[10] = 4060 /\ ocv_table_mv[11] = 4200
  BY DEF ocv_table_mv
<1>2. \A i \in 1..11 : i \in {1, 2, 3, 4, 5, 6, 7, 8, 9, 10, 11}
  OBVIOUS
<1> QED
  BY <1>1, <1>2

\* The lengths of its segments.
LEMMA SegmentWidths ==
  ASSUME NEW i \in 1..10
  PROVE  ocv_table_mv[i + 1] - ocv_table_mv[i] \in {20, 30, 50, 60, 80, 140, 230}
<1>1. i \in {1, 2, 3, 4, 5, 6, 7, 8, 9, 10}
  OBVIOUS
<1> QED
  BY <1>1 DEF ocv_table_mv

\* Integer division of a segment in tenths.
LEMMA Tenths ==
  ASSUME NEW d \in {20, 30, 50, 60, 80, 140, 230}, NEW c \in 0..d
  PROVE  /\ (c * 10) \div d \in 0..10
         /\ ((c * 10) \div d) * d <= c * 10
         /\ c * 10 < ((c * 10) \div d + 1) * d
<1>1. CASE d = 20  BY <1>1
<1>2. CASE d = 30  BY <1>2
<1>3. CASE d = 50  BY <1>3
<1>4. CASE d = 60  BY <1>4
<1>5. CASE d = 80  BY <1>5
<1>6. CASE d = 140  BY <1>6
<1>7. CASE d = 230  BY <1>7
<1> QED
  BY <1>1, <1>2, <1>3, <1>4, <1>5, <1>6, <1>7

\* In its segment the charge is the curve's.
OnSegment(i, cell, p) ==
  /\ p \in (i - 1) * 10..i * 10
  /\ (p - (i - 1) * 10) * (ocv_table_mv[i + 1] - ocv_table_mv[i]) <= (cell - ocv_table_mv[i]) * 10
  /\ (cell - ocv_table_mv[i]) * 10
       < (p + 1 - (i - 1) * 10) * (ocv_table_mv[i + 1] - ocv_table_mv[i])

\* Charge() interpolates between the two entries of a segment.
LEMMA ChargeOnSegment ==
  ASSUME NEW i \in 1..10, NEW cell \in ocv_table_mv[i]..ocv_table_mv[i + 1]
  PROVE  OnSegment(i, cell, Charge(i, cell))
<1> DEFINE lo == ocv_table_mv[i]
           d  == ocv_table_mv[i + 1] - lo
           c  == cell - lo
           q  == (c * 10) \div d
<1>1. i + 1 \in 1..11 /\ i \in 1..11
  OBVIOUS
<1>2. lo \in Nat /\ ocv_table_mv[i + 1] \in Nat
  BY <1>1, CurveRises
<1>3. d \in {20, 30, 50, 60, 80, 140, 230}
  BY SegmentWidths
<1>4. cell \in Int /\ c \in 0..d /\ d \in Int
  BY <1>2
<1>5. q \in 0..10 /\ q * d <= c * 10 /\ c * 10 < (q + 1) * d
  <2> HIDE DEF d, c
  <2> QED
    BY <1>3, <1>4, Tenths
<1>6. Charge(i, cell) = (i - 1) * 10 + q
  BY DEF Charge
<1> HIDE DEF d, c, q
<1>7. Charge(i, cell) \in (i - 1) * 10..i * 10
      /\ Charge(i, cell) - (i - 1) * 10 = q /\ Charge(i, cell) + 1 - (i - 1) * 10 = q + 1
  BY <1>5, <1>6
<1> QED
  BY <1>5, <1>7 DEF OnSegment, d, c

\* The segment ocv_lookup_percent() finds is the one the voltage is in.
LEMMA SegmentFound ==
  ASSUME NEW i \in 1..10, NEW cell \in Int, ocv_table_mv[i] < cell, cell <= ocv_table_mv[i + 1]
  PROVE  (CHOOSE k \in 1..10 : cell <= ocv_table_mv[k + 1]
                               /\ \A j \in 1..k - 1 : cell > ocv_table_mv[j + 1]) = i
<1> DEFINE P(k) == cell <= ocv_table_mv[k + 1] /\ \A j \in 1..k - 1 : cell > ocv_table_mv[j + 1]
<1>1. P(i)
  <2>1. ASSUME NEW j \in 1..i - 1 PROVE cell > ocv_table_mv[j + 1]
    <3>1. j + 1 \in 1..11 /\ i \in 1..11 /\ j + 1 <= i
      OBVIOUS
    <3>2. ocv_table_mv[j + 1] <= ocv_table_mv[i] /\ ocv_table_mv[j + 1] \in Nat
          /\ ocv_table_mv[i] \in Nat
      BY <3>1, CurveRises
    <3> QED
      BY <3>2
  <2> QED
    BY <2>1
<1>2. ASSUME NEW k \in 1..10, P(k) PROVE k = i
  <2>1. CASE k < i
    <3>1. k + 1 \in 1..11 /\ i \in 1..11 /\ k + 1 <= i
      BY <2>1
    <3>2. ocv_table_mv[k + 1] <= ocv_table_mv[i] /\ ocv_table_mv[k + 1] \in Nat
          /\ ocv_table_mv[i] \in Nat
      BY <3>1, CurveRises
    <3> QED
      BY <1>2, <3>2
  <2>2. CASE k > i
    <3>1. i \in 1..k - 1
      BY <2>2
    <3>2. cell > ocv_table_mv[i + 1]
      BY <1>2, <3>1
    <3>3. i + 1 \in 1..11
      OBVIOUS
    <3> QED
      BY <3>2, <3>3, CurveRises
  <2> QED
    BY <2>1, <2>2
<1> HIDE DEF P
<1>3. (CHOOSE k \in 1..10 : P(k)) = i
  BY <1>1, <1>2
<1> QED
  BY <1>3 DEF P

\* At the end of a segment the charge is the full tenth.
LEMMA ChargeAtEnd ==
  ASSUME NEW i \in 1..10
  PROVE  Charge(i, ocv_table_mv[i + 1]) = i * 10
<1> DEFINE d == ocv_table_mv[i + 1] - ocv_table_mv[i]
<1>1. d \in {20, 30, 50, 60, 80, 140, 230}
  BY SegmentWidths
<1>2. (d * 10) \div d = 10
  <2> HIDE DEF d
  <2> QED
    BY <1>1
<1>3. Charge(i, ocv_table_mv[i + 1]) = (i - 1) * 10 + (d * 10) \div d
  BY DEF Charge
<1> HIDE DEF d
<1> QED
  BY <1>2, <1>3

\* Every voltage of the table's range is in a segment: the lowest one above which it is not.
LEMMA SegmentExists ==
  ASSUME NEW cell \in Int, ocv_table_mv[1] < cell, cell < ocv_table_mv[11]
  PROVE  \E i \in 1..10 : ocv_table_mv[i] < cell /\ cell <= ocv_table_mv[i + 1]
<1>1. /\ ocv_table_mv[1] = 3450 /\ ocv_table_mv[1 + 1] = 3680 /\ ocv_table_mv[2 + 1] = 3740
      /\ ocv_table_mv[3 + 1] = 3770 /\ ocv_table_mv[4 + 1] = 3790 /\ ocv_table_mv[5 + 1] = 3820
      /\ ocv_table_mv[6 + 1] = 3870 /\ ocv_table_mv[7 + 1] = 3920 /\ ocv_table_mv[8 + 1] = 3980
      /\ ocv_table_mv[9 + 1] = 4060 /\ ocv_table_mv[10 + 1] = 4200
  BY DEF ocv_table_mv
<1>2. SUFFICES ASSUME \A i \in 1..10 : ~(ocv_table_mv[i] < cell /\ cell <= ocv_table_mv[i + 1])
               PROVE  FALSE
  OBVIOUS
<1> QED
  BY <1>1, <1>2

\* The charge at a voltage, wherever it lies.
LEMMA PercentOnCurve ==
  ASSUME NEW cell \in Int
  PROVE  LET p == ocv_lookup_percent(cell)
         IN  /\ p \in 0..100
             /\ \A i \in 1..10 :
                  cell \in ocv_table_mv[i]..ocv_table_mv[i + 1] => OnSegment(i, cell, p)
             /\ cell < ocv_table_mv[1] => p = 0
             /\ cell > ocv_table_mv[11] => p = 100
<1> DEFINE p == ocv_lookup_percent(cell)
<1>0. ocv_table_mv[1] = 3450 /\ ocv_table_mv[11] = 4200
  BY DEF ocv_table_mv
\* In the segment that ends at an entry its charge is the one of the segment that begins there.
<1>1. ASSUME NEW i \in 1..10, cell = ocv_table_mv[i] PROVE OnSegment(i, cell, (i - 1) * 10)
  <2>1. ocv_table_mv[i + 1] - ocv_table_mv[i] \in {20, 30, 50, 60, 80, 140, 230}
    BY SegmentWidths
  <2> DEFINE d == ocv_table_mv[i + 1] - ocv_table_mv[i]
  <2>2. cell - ocv_table_mv[i] = 0
    BY <1>1
  <2>3. (i - 1) * 10 - (i - 1) * 10 = 0 /\ (i - 1) * 10 + 1 - (i - 1) * 10 = 1
        /\ (i - 1) * 10 \in (i - 1) * 10..i * 10
    OBVIOUS
  <2>4. d \in Nat /\ 0 * d = 0 /\ 1 * d = d /\ d > 0
    BY <2>1
  <2> HIDE DEF d
  <2> QED
    BY <2>2, <2>3, <2>4 DEF OnSegment, d
<1>2. ASSUME NEW i \in 1..10, cell = ocv_table_mv[i + 1] PROVE OnSegment(i, cell, i * 10)
  <2>1. ocv_table_mv[i + 1] - ocv_table_mv[i] \in {20, 30, 50, 60, 80, 140, 230}
    BY SegmentWidths
  <2> DEFINE d == ocv_table_mv[i + 1] - ocv_table_mv[i]
  <2>2. cell - ocv_table_mv[i] = d
    BY <1>2
  <2>3. i * 10 - (i - 1) * 10 = 10 /\ i * 10 + 1 - (i - 1) * 10 = 11
        /\ i * 10 \in (i - 1) * 10..i * 10
    OBVIOUS
  <2>4. d \in Nat /\ 10 * d <= d * 10 /\ d * 10 < 11 * d
    BY <2>1
  <2> HIDE DEF d
  <2> QED
    BY <2>2, <2>3, <2>4 DEF OnSegment, d
<1>3. CASE cell <= ocv_table_mv[1]
  <2>1. p = 0
    BY <1>3 DEF ocv_lookup_percent
  <2>2. ASSUME NEW i \in 1..10, cell \in ocv_table_mv[i]..ocv_table_mv[i + 1]
        PROVE  OnSegment(i, cell, p)
    <3>1. i = 1
      BY <1>0, <1>3, <2>2 DEF ocv_table_mv
    <3> QED
      BY <1>0, <1>1, <1>3, <2>1, <2>2, <3>1
  <2> QED
    BY <1>0, <1>3, <2>1, <2>2
<1>4. CASE cell >= ocv_table_mv[11]
  <2>1. p = 100
    BY <1>0, <1>4 DEF ocv_lookup_percent
  <2>2. ASSUME NEW i \in 1..10, cell \in ocv_table_mv[i]..ocv_table_mv[i + 1]
        PROVE  OnSegment(i, cell, p)
    <3>1. i = 10
      BY <1>0, <1>4, <2>2 DEF ocv_table_mv
    <3> QED
      BY <1>0, <1>2, <1>4, <2>1, <2>2, <3>1
  <2> QED
    BY <1>0, <1>4, <2>1, <2>2
<1>5. CASE ocv_table_mv[1] < cell /\ cell < ocv_table_mv[11]
  <2>1. PICK k \in 1..10 : ocv_table_mv[k] < cell /\ cell <= ocv_table_mv[k + 1]
    BY <1>5, SegmentExists
  <2>2. p = Charge(k, cell)
    <3>1. ~(cell <= ocv_table_mv[1]) /\ ~(cell >= ocv_table_mv[11])
      BY <1>0, <1>5
    <3> QED
      BY <2>1, <3>1, SegmentFound DEF ocv_lookup_percent
  <2>3. OnSegment(k, cell, p)
    <3>1. k \in 1..11 /\ k + 1 \in 1..11
      OBVIOUS
    <3>2. cell \in ocv_table_mv[k]..ocv_table_mv[k + 1]
      BY <2>1, <3>1, CurveRises
    <3> QED
      BY <2>2, <3>2, ChargeOnSegment
  <2>4. p \in 0..100
    BY <2>3 DEF OnSegment
  <2>5. ASSUME NEW i \in 1..10, cell \in ocv_table_mv[i]..ocv_table_mv[i + 1]
        PROVE  OnSegment(i, cell, p)
    <3>1. CASE i = k
      BY <2>3, <3>1
    <3>2. CASE i < k
      <4>1. i + 1 \in 1..11 /\ k \in 1..11 /\ i + 1 <= k
        BY <3>2
      <4>2. ocv_table_mv[i + 1] <= ocv_table_mv[k] /\ ocv_table_mv[i + 1] \in Nat
            /\ ocv_table_mv[k] \in Nat
        BY <4>1, CurveRises
      <4> QED
        BY <2>1, <2>5, <4>2
    <3>3. CASE i > k
      <4>1. k + 1 \in 1..11 /\ i \in 1..11 /\ k + 1 <= i
        BY <3>3
      <4>2. ocv_table_mv[k + 1] <= ocv_table_mv[i] /\ ocv_table_mv[k + 1] \in Nat
            /\ ocv_table_mv[i] \in Nat
        BY <4>1, CurveRises
      <4>3. cell = ocv_table_mv[k + 1] /\ cell = ocv_table_mv[i]
        BY <2>1, <2>5, <4>2
      <4>4. i = k + 1
        <5>1. CASE i > k + 1
          BY <4>3, <5>1 DEF ocv_table_mv
        <5> QED
          BY <3>3, <5>1
      <4>5. p = (i - 1) * 10
        BY <2>2, <4>3, <4>4, ChargeAtEnd
      <4> QED
        BY <1>1, <4>3, <4>5
    <3> QED
      BY <3>1, <3>2, <3>3
  <2> QED
    BY <1>0, <1>5, <2>4, <2>5
<1> QED
  BY <1>0, <1>3, <1>4, <1>5

-----------------------------------------------------------------------------
(* The label.                                                               *)

\* What the status bar's statics say was drawn.
DrawnAsSaid ==
  /\ is_pct \in BOOLEAN
  /\ drawn \in [mv : Nat, pct : BOOLEAN, text : [unit : {"%", "V"}, tens : Nat]]
  /\ drawn.text = Text(drawn.mv, drawn.pct)

BatteryInv == BatteryTypeOK /\ DrawnAsSaid /\ LabelTells

\* A reading is a voltage.
LEMMA PackMvNat ==
  ASSUME NEW pin \in PinMv
  PROVE  PackMv(pin) \in Nat
<1>1. pin \in Nat
  BY BatteryAssumption
<1> QED
  BY <1>1 DEF PackMv

\* Text, for a reading or none, is a number of one unit.
LEMMA TextType ==
  ASSUME NEW mv \in Nat \cup {-1}, NEW pct \in BOOLEAN
  PROVE  Text(mv, pct) \in [unit : {"%", "V"}, tens : Nat]
<1>1. Percent(mv) \in Nat
  <2>1. CASE mv < 0
    BY <2>1 DEF Percent
  <2>2. CASE mv \in Nat
    <3>1. mv \div CellCount \in Int
      BY <2>2 DEF CellCount
    <3>2. ocv_lookup_percent(mv \div CellCount) \in 0..100
      BY <3>1, PercentOnCurve
    <3> QED
      BY <2>2, <3>2 DEF Percent
  <2> QED
    BY <2>1, <2>2
<1>2. (IF mv < 0 THEN 0 ELSE mv) \div 100 \in Nat
  OBVIOUS
<1> QED
  BY <1>1, <1>2 DEF Text

\* Without a reading the label shows what it shows for none at all: zero, empty.
LEMMA NoReading ==
  ASSUME NEW pct \in BOOLEAN
  PROVE  Text(-1, pct) = Text(0, pct)
<1>1. Percent(-1) = 0 /\ Percent(0) = 0
  <2>1. 0 \div CellCount = 0 /\ 0 <= ocv_table_mv[1]
    BY DEF CellCount, ocv_table_mv
  <2> QED
    BY <2>1 DEF Percent, ocv_lookup_percent
<1> QED
  BY <1>1 DEF Text

\* The readings of the model's ADC.
LEMMA ReadingTypes ==
  ASSUME BatteryTypeOK
  PROVE  s_last_mv \in Nat \cup {-1} /\ battery_get_millivolts \in Nat
<1>1. s_last_mv \in Nat \cup {-1}
  BY PackMvNat DEF BatteryTypeOK
<1> QED
  BY <1>1 DEF battery_get_millivolts

\* The charge of the latest reading is on the curve.
LEMMA ShownOnCurve ==
  ASSUME BatteryTypeOK
  PROVE  ChargeOnCurve
<1> DEFINE cell == battery_get_millivolts \div CellCount
           p    == Percent(s_last_mv)
<1>1. battery_get_millivolts \in Nat /\ cell \in Int
  BY ReadingTypes DEF CellCount
<1>2. p = ocv_lookup_percent(cell)
  <2>1. CASE s_last_mv < 0
    <3>1. cell = 0 /\ cell <= ocv_table_mv[1]
      BY <2>1 DEF battery_get_millivolts, CellCount, ocv_table_mv
    <3> QED
      BY <2>1, <3>1 DEF Percent, ocv_lookup_percent
  <2>2. CASE ~(s_last_mv < 0)
    BY <2>2 DEF battery_get_millivolts, Percent
  <2> QED
    BY <2>1, <2>2
<1>3. /\ p \in 0..100
      /\ \A i \in 1..10 : cell \in ocv_table_mv[i]..ocv_table_mv[i + 1] => OnSegment(i, cell, p)
      /\ cell < ocv_table_mv[1] => p = 0
      /\ cell > ocv_table_mv[11] => p = 100
  <2> HIDE DEF cell
  <2> QED
    BY <1>1, <1>2, PercentOnCurve
<1> QED
  BY <1>3 DEF ChargeOnCurve, OnSegment

\* The label is drawn before anything was read.
LEMMA BatteryInvInit == BatteryInit => BatteryInv
<1> SUFFICES ASSUME BatteryInit PROVE BatteryInv
  OBVIOUS
<1>1. is_pct = TRUE /\ s_last_mv = -1 /\ bar_called = FALSE /\ due = 0 /\ adc = "not yet"
      /\ drawn = [mv |-> 0, pct |-> TRUE, text |-> Text(-1, TRUE)]
  BY DEF BatteryInit
<1>2. Text(-1, TRUE) \in [unit : {"%", "V"}, tens : Nat] /\ Text(-1, TRUE) = Text(0, TRUE)
  BY TextType, NoReading
<1>3. DrawnAsSaid
  BY <1>1, <1>2 DEF DrawnAsSaid
<1>4. BatteryTypeOK
  <2>1. 0 \in 0..Period - 1
    BY BatteryAssumption
  <2>2. drawn.text.tens \in Nat
    BY <1>3 DEF DrawnAsSaid
  <2> QED
    BY <1>1, <2>1, <2>2 DEF BatteryTypeOK
<1> QED
  BY <1>1, <1>3, <1>4 DEF BatteryInv, LabelTells

\* An update redraws the label, or finds on it what it would draw.
LEMMA UpdateTells ==
  ASSUME BatteryInv, BatteryUpdate
  PROVE  BatteryInv'
<1>0. BatteryTypeOK /\ DrawnAsSaid
  BY DEF BatteryInv
<1>1. is_pct' = is_pct /\ adc' = adc /\ bar_called' = TRUE /\ is_pct \in BOOLEAN
  BY <1>0 DEF BatteryUpdate, DrawnAsSaid
<1>2. s_last_mv' \in {-1} \cup {PackMv(pin) : pin \in PinMv} /\ due' \in 0..Period - 1
  <2>1. /\ s_last_mv \in {-1} \cup {PackMv(pin) : pin \in PinMv}
        /\ due \in 0..Period - 1 /\ Period \in Nat \ {0}
    BY <1>0, BatteryAssumption DEF BatteryTypeOK
  <2>2. CASE UNCHANGED <<s_last_mv, due>>
    BY <2>1, <2>2
  <2>3. CASE due > 0 /\ due' \in 0..due - 1 /\ UNCHANGED s_last_mv
    BY <2>1, <2>3
  <2>4. CASE due' = Period - 1 /\ s_last_mv' \in {s_last_mv} \cup {PackMv(pin) : pin \in PinMv}
    BY <2>1, <2>4
  <2> QED
    BY <2>2, <2>3, <2>4 DEF BatteryUpdate, battery_poll
<1> DEFINE mv == IF s_last_mv' < 0 THEN 0 ELSE s_last_mv'
<1>3. s_last_mv' \in Nat \cup {-1} /\ mv \in Nat
  <2>1. s_last_mv' \in Nat \cup {-1}
    BY <1>2, PackMvNat
  <2> QED
    BY <2>1
<1>4. Text(s_last_mv', is_pct) = Text(mv, is_pct)
  <2>1. CASE s_last_mv' = -1
    BY <1>1, <2>1, NoReading
  <2>2. CASE s_last_mv' \in Nat
    <3>1. mv = s_last_mv'
      BY <2>2
    <3> QED
      BY <3>1
  <2> QED
    BY <1>3, <2>1, <2>2
<1>5. Text(s_last_mv', is_pct) \in [unit : {"%", "V"}, tens : Nat]
  BY <1>1, <1>3, TextType
<1>6. DrawnAsSaid' /\ drawn'.text = Text(s_last_mv', is_pct)
  <2> HIDE DEF mv
  <2>1. CASE SameAsDrawn(mv)
    <3>1. drawn' = drawn
      BY <2>1 DEF BatteryUpdate, status_bar_update_battery, mv
    <3>2. drawn.text = Text(mv, is_pct)
      BY <1>0, <2>1 DEF SameAsDrawn, DrawnAsSaid
    <3> QED
      BY <1>0, <1>1, <1>4, <3>1, <3>2 DEF DrawnAsSaid
  <2>2. CASE ~SameAsDrawn(mv)
    <3>1. drawn' = [mv |-> mv, pct |-> is_pct, text |-> Text(s_last_mv', is_pct)]
      BY <2>2 DEF BatteryUpdate, status_bar_update_battery, mv
    <3> QED
      BY <1>1, <1>3, <1>4, <1>5, <3>1 DEF DrawnAsSaid
  <2> QED
    BY <2>1, <2>2
<1>7. BatteryTypeOK'
  BY <1>0, <1>1, <1>2, <1>6 DEF BatteryTypeOK, DrawnAsSaid
<1> QED
  BY <1>1, <1>6, <1>7 DEF BatteryInv, LabelTells

\* Every step keeps label and statics together.
LEMMA BatteryInvNext == BatteryInv /\ [BatteryNext]_batteryVars => BatteryInv'
<1> SUFFICES ASSUME BatteryInv, [BatteryNext]_batteryVars PROVE BatteryInv'
  OBVIOUS
<1>1. CASE battery_init
  <2>1. UNCHANGED <<is_pct, drawn>> /\ bar_called' = FALSE /\ adc' \in {"ready", "failed"}
    BY <1>1 DEF battery_init
  <2>2. s_last_mv' \in {-1} \cup {PackMv(pin) : pin \in PinMv} /\ due' \in 0..Period - 1
    <3>1. CASE UNCHANGED <<s_last_mv, due>>
      BY <3>1 DEF BatteryInv, BatteryTypeOK
    <3>2. ASSUME NEW pin \in PinMv, s_last_mv' = PackMv(pin), due' = Period - 1
          PROVE  s_last_mv' \in {-1} \cup {PackMv(p) : p \in PinMv} /\ due' \in 0..Period - 1
      BY <3>2, BatteryAssumption
    <3> QED
      BY <1>1, <3>1, <3>2 DEF battery_init
  <2> QED
    BY <2>1, <2>2 DEF BatteryInv, BatteryTypeOK, DrawnAsSaid, LabelTells
<1>2. CASE BatteryUpdate
  BY <1>2, UpdateTells
<1>3. CASE SetBatteryUnit
  <2>1. UNCHANGED <<s_last_mv, due, adc, drawn>> /\ bar_called' = FALSE /\ is_pct' \in BOOLEAN
    BY <1>3 DEF SetBatteryUnit
  <2> QED
    BY <2>1 DEF BatteryInv, BatteryTypeOK, DrawnAsSaid, LabelTells
<1>4. CASE UNCHANGED batteryVars
  BY <1>4 DEF batteryVars, BatteryInv, BatteryTypeOK, DrawnAsSaid, LabelTells
<1> QED
  BY <1>1, <1>2, <1>3, <1>4 DEF BatteryNext

\* battery.c and the status bar: the percentage is the discharge curve's at the latest reading, to
\* less than one percent, and after an update the label shows it, or the voltage, in the unit that
\* is set; for every reading of the ADC, before the first one too.
THEOREM BatteryTold == BatterySpec => []BatteryShown
<1>1. BatteryInv => BatteryShown
  BY ShownOnCurve DEF BatteryInv, BatteryShown
<1> QED
  BY <1>1, BatteryInvInit, BatteryInvNext, PTL DEF BatterySpec

-----------------------------------------------------------------------------
(* The volume knob.                                                        *)

\* A product grows with its factor.
LEMMA Grows ==
  ASSUME NEW a \in Int, NEW b \in Int, NEW d \in Nat, a <= b
  PROVE  a * d <= b * d
  OBVIOUS

\* What an integer division is.
LEMMA Quotient ==
  ASSUME NEW n \in Nat, NEW d \in Nat \ {0}
  PROVE  n \div d \in Nat /\ (n \div d) * d <= n /\ n < (n \div d + 1) * d
  OBVIOUS

\* A remainder is below the divisor.
LEMMA Remainder ==
  ASSUME NEW n \in Nat, NEW d \in Nat \ {0}
  PROVE  n % d \in 0..d - 1 /\ n = (n \div d) * d + (n % d)
  OBVIOUS

\* A quotient is at least what fits,
LEMMA QuotientAtLeast ==
  ASSUME NEW n \in Nat, NEW k \in Nat, NEW d \in Nat \ {0}, k * d <= n
  PROVE  k <= n \div d
<1> DEFINE p == n \div d
<1>1. p \in Nat /\ n < (p + 1) * d
  BY Quotient
<1> HIDE DEF p
<1>2. SUFFICES ASSUME p + 1 <= k PROVE FALSE
  BY <1>1 DEF p
<1>3. (p + 1) * d <= k * d
  BY <1>1, <1>2, Grows
<1>4. (p + 1) * d \in Int /\ k * d \in Int
  BY <1>1
<1> QED
  BY <1>1, <1>3, <1>4

\* and below what does not.
LEMMA QuotientBelow ==
  ASSUME NEW n \in Nat, NEW k \in Nat, NEW d \in Nat \ {0}, n < (k + 1) * d
  PROVE  n \div d <= k
<1> DEFINE q == n \div d
<1>1. q \in Nat /\ q * d <= n
  BY Quotient
<1> HIDE DEF q
<1>2. SUFFICES ASSUME k + 1 <= q PROVE FALSE
  BY <1>1 DEF q
<1>3. (k + 1) * d <= q * d
  BY <1>1, <1>2, Grows
<1>4. (k + 1) * d \in Int /\ q * d \in Int
  BY <1>1
<1> QED
  BY <1>1, <1>3, <1>4

\* A quotient does not fall while what is divided rises.
LEMMA QuotientRises ==
  ASSUME NEW n \in Nat, NEW m \in Nat, n <= m, NEW d \in Nat \ {0}
  PROVE  n \div d <= m \div d
<1>1. n \div d \in Nat /\ (n \div d) * d <= n
  BY Quotient
<1>2. (n \div d) * d <= m
  <2> DEFINE x == (n \div d) * d
  <2>1. x \in Int /\ x <= n
    BY <1>1
  <2> HIDE DEF x
  <2>2. x <= m
    BY <2>1
  <2> QED
    BY <2>2 DEF x
<1> QED
  BY <1>1, <1>2, QuotientAtLeast

-----------------------------------------------------------------------------
(* The percentage shown.                                                    *)

\* The entries of the taper and how far they are apart.
LEMMA TaperRises ==
  /\ \A i \in 1..11 : taper_lut_audio_a[i] \in 0..100
  /\ \A i \in 1..11, j \in 1..11 : i <= j => taper_lut_audio_a[i] <= taper_lut_audio_a[j]
<1>1. /\ taper_lut_audio_a[1] = 0 /\ taper_lut_audio_a[2] = 42 /\ taper_lut_audio_a[3] = 55
      /\ taper_lut_audio_a[4] = 60 /\ taper_lut_audio_a[5] = 66 /\ taper_lut_audio_a[6] = 72
      /\ taper_lut_audio_a[7] = 77 /\ taper_lut_audio_a[8] = 83 /\ taper_lut_audio_a[9] = 89
      /\ taper_lut_audio_a[10] = 94 /\ taper_lut_audio_a[11] = 100
  BY DEF taper_lut_audio_a
<1>2. \A i \in 1..11 : i \in {1, 2, 3, 4, 5, 6, 7, 8, 9, 10, 11}
  OBVIOUS
<1> QED
  BY <1>1, <1>2

\* The pot's way in tenths: the segment a position is in, and how far.
Tenth(raw) == ((raw - VOL_AXIS_MIN) * 10) \div VOL_AXIS_SPAN
Within(raw) == ((raw - VOL_AXIS_MIN) * 10) % VOL_AXIS_SPAN

\* Below the end of its way the pot is in one of ten segments.
LEMMA Segments ==
  ASSUME NEW raw \in VOL_AXIS_MIN..VOL_AXIS_MAX - 1
  PROVE  /\ VOL_AXIS_SPAN \in Nat \ {0} /\ raw - VOL_AXIS_MIN \in Nat
         /\ Tenth(raw) \in 0..9 /\ Within(raw) \in 0..VOL_AXIS_SPAN - 1
         /\ (raw - VOL_AXIS_MIN) * 10 = Tenth(raw) * VOL_AXIS_SPAN + Within(raw)
<1> DEFINE n == (raw - VOL_AXIS_MIN) * 10
<1>1. VOL_AXIS_SPAN \in Nat \ {0} /\ n \in Nat /\ n < (9 + 1) * VOL_AXIS_SPAN
      /\ raw - VOL_AXIS_MIN \in Nat
  BY VolumeAssumption DEF VOL_AXIS_SPAN
<1> HIDE DEF n
<1>2. n \div VOL_AXIS_SPAN \in Nat
  BY <1>1, Quotient
<1>3. n \div VOL_AXIS_SPAN <= 9
  BY <1>1, QuotientBelow
<1>4. n % VOL_AXIS_SPAN \in 0..VOL_AXIS_SPAN - 1
      /\ n = (n \div VOL_AXIS_SPAN) * VOL_AXIS_SPAN + (n % VOL_AXIS_SPAN)
  BY <1>1, Remainder
<1>5. Tenth(raw) = n \div VOL_AXIS_SPAN /\ Within(raw) = n % VOL_AXIS_SPAN
  BY DEF Tenth, Within, n
<1>6. Tenth(raw) \in 0..9
  BY <1>2, <1>3, <1>5
<1>7. (raw - VOL_AXIS_MIN) * 10 = Tenth(raw) * VOL_AXIS_SPAN + Within(raw)
  BY <1>4, <1>5 DEF n
<1> QED
  BY <1>1, <1>4, <1>5, <1>6, <1>7

\* The share of a segment's rise, rounded.
Share(h, r) == RoundClosest(h * r, VOL_AXIS_SPAN)

\* It lies between nothing and all of the rise, and grows with the way.
LEMMA ShareRises ==
  ASSUME VOL_AXIS_SPAN \in Nat \ {0}, NEW h \in Nat,
         NEW r \in 0..VOL_AXIS_SPAN - 1, NEW s \in 0..VOL_AXIS_SPAN - 1, r <= s
  PROVE  Share(h, r) \in 0..h /\ Share(h, r) <= Share(h, s)
<1> DEFINE d == VOL_AXIS_SPAN
           n == h * r + d \div 2
           m == h * s + d \div 2
<1>1. d \in Nat \ {0} /\ d \div 2 \in Nat /\ d \div 2 < d
  OBVIOUS
<1>2. r * h <= s * h /\ r * h <= d * h
  BY Grows
<1>3. r * h = h * r /\ s * h = h * s /\ d * h = h * d /\ (h + 1) * d = h * d + d
      /\ h * r \in Nat /\ h * s \in Nat /\ h * d \in Nat
  OBVIOUS
<1> DEFINE x == h * r
           y == h * s
           z == h * d
<1>4. n \in Nat /\ m \in Nat /\ n <= m /\ n < (h + 1) * d
  <2>1. x \in Nat /\ y \in Nat /\ z \in Nat /\ x <= y /\ x <= z /\ (h + 1) * d = z + d
    BY <1>2, <1>3
  <2> DEFINE e == d \div 2
             t == (h + 1) * d
  <2>2. e \in Nat /\ e < d /\ d \in Nat
    BY <1>1
  <2>3. t = z + d
    BY <2>1
  <2> HIDE DEF x, y, z, d, e, t
  <2>4. x + e \in Nat /\ y + e \in Nat /\ x + e <= y + e /\ x + e < t
    BY <2>1, <2>2, <2>3
  <2> QED
    BY <2>4 DEF x, y, e, t
<1>5. Share(h, r) = n \div d /\ Share(h, s) = m \div d
  BY DEF Share, RoundClosest
<1> HIDE DEF d, n, m
<1>6. n \div d \in Nat
  BY <1>1, <1>4, Quotient
<1>7. n \div d <= h
  BY <1>1, <1>4, QuotientBelow
<1>8. n \div d <= m \div d
  BY <1>1, <1>4, QuotientRises
<1> QED
  BY <1>5, <1>6, <1>7, <1>8

\* What volume_display_pct() adds to the lower checkpoint.
LEMMA ShownIn ==
  ASSUME NEW raw \in VOL_AXIS_MIN..VOL_AXIS_MAX - 1
  PROVE  LET i == Tenth(raw) + 1
         IN  /\ i \in 1..10
             /\ volume_display_pct(raw)
                  = taper_lut_audio_a[i]
                    + Share(taper_lut_audio_a[i + 1] - taper_lut_audio_a[i], Within(raw))
             /\ volume_display_pct(raw) \in taper_lut_audio_a[i]..taper_lut_audio_a[i + 1]
<1> DEFINE i == Tenth(raw) + 1
           lo == taper_lut_audio_a[i]
           hi == taper_lut_audio_a[i + 1]
<1>1. VOL_AXIS_SPAN \in Nat \ {0} /\ Tenth(raw) \in 0..9 /\ Within(raw) \in 0..VOL_AXIS_SPAN - 1
  BY Segments
<1>2. i \in 1..11 /\ i + 1 \in 1..11 /\ i <= i + 1 /\ i \in 1..10 /\ Tenth(raw) + 2 = i + 1
  BY <1>1
<1>3. lo \in 0..100 /\ hi \in 0..100 /\ lo <= hi
  <2> HIDE DEF i
  <2> QED
    BY <1>2, TaperRises
<1>4. ~(raw >= VOL_AXIS_MAX)
  BY VolumeAssumption
<1>5. volume_display_pct(raw) = lo + Share(hi - lo, Within(raw))
  <2>1. volume_display_pct(raw)
          = taper_lut_audio_a[Tenth(raw) + 1]
            + RoundClosest((taper_lut_audio_a[Tenth(raw) + 2] - taper_lut_audio_a[Tenth(raw) + 1])
                           * Within(raw), VOL_AXIS_SPAN)
    BY <1>4, Zenon DEF volume_display_pct, Tenth, Within
  <2> QED
    BY <1>2, <2>1 DEF Share
<1>6. Share(hi - lo, Within(raw)) \in 0..hi - lo
  <2> HIDE DEF lo, hi, i
  <2>1. hi - lo \in Nat
    BY <1>3
  <2> QED
    BY <1>1, <2>1, ShareRises
<1> HIDE DEF lo, hi
<1>7. volume_display_pct(raw) \in lo..hi
  BY <1>3, <1>5, <1>6
<1> QED
  BY <1>2, <1>5, <1>7 DEF lo, hi

\* Every position of the pot is shown as a percentage.
LEMMA ShownType ==
  ASSUME NEW raw \in VOL_AXIS_MIN..VOL_AXIS_MAX
  PROVE  volume_display_pct(raw) \in 0..100
<1>1. CASE raw = VOL_AXIS_MAX
  <2>1. raw >= VOL_AXIS_MAX
    BY <1>1, VolumeAssumption
  <2> QED
    BY <2>1 DEF volume_display_pct
<1>2. CASE raw \in VOL_AXIS_MIN..VOL_AXIS_MAX - 1
  <2> DEFINE i == Tenth(raw) + 1
  <2>1. i \in 1..10 /\ volume_display_pct(raw) \in taper_lut_audio_a[i]..taper_lut_audio_a[i + 1]
    BY <1>2, ShownIn
  <2>2. i \in 1..11 /\ i + 1 \in 1..11
    BY <2>1
  <2> HIDE DEF i
  <2>3. taper_lut_audio_a[i] \in 0..100 /\ taper_lut_audio_a[i + 1] \in 0..100
    BY <2>2, TaperRises
  <2> QED
    BY <2>1, <2>3
<1> QED
  BY <1>1, <1>2, VolumeAssumption

\* Further up the pot's way no less is shown.
LEMMA ShownMonotone ==
  ASSUME NEW a \in VOL_AXIS_MIN..VOL_AXIS_MAX, NEW b \in VOL_AXIS_MIN..VOL_AXIS_MAX, a <= b
  PROVE  volume_display_pct(a) <= volume_display_pct(b)
<1>0. VOL_AXIS_MIN \in Nat /\ VOL_AXIS_MAX \in Nat
  BY VolumeAssumption
<1>1. CASE b = VOL_AXIS_MAX
  <2>1. volume_display_pct(b) = 100
    BY <1>0, <1>1 DEF volume_display_pct
  <2>2. volume_display_pct(a) \in 0..100
    BY ShownType
  <2> QED
    BY <2>1, <2>2
<1>2. CASE a \in VOL_AXIS_MIN..VOL_AXIS_MAX - 1 /\ b \in VOL_AXIS_MIN..VOL_AXIS_MAX - 1
  <2> DEFINE i == Tenth(a) + 1
             j == Tenth(b) + 1
             n == (a - VOL_AXIS_MIN) * 10
             m == (b - VOL_AXIS_MIN) * 10
  <2>1. i \in 1..10 /\ volume_display_pct(a) \in taper_lut_audio_a[i]..taper_lut_audio_a[i + 1]
        /\ volume_display_pct(a)
             = taper_lut_audio_a[i]
               + Share(taper_lut_audio_a[i + 1] - taper_lut_audio_a[i], Within(a))
    BY <1>2, ShownIn
  <2>2. j \in 1..10 /\ volume_display_pct(b) \in taper_lut_audio_a[j]..taper_lut_audio_a[j + 1]
        /\ volume_display_pct(b)
             = taper_lut_audio_a[j]
               + Share(taper_lut_audio_a[j + 1] - taper_lut_audio_a[j], Within(b))
    BY <1>2, ShownIn
  <2>3. /\ VOL_AXIS_SPAN \in Nat \ {0} /\ n = Tenth(a) * VOL_AXIS_SPAN + Within(a)
        /\ Within(a) \in 0..VOL_AXIS_SPAN - 1 /\ Tenth(a) \in 0..9
    BY <1>2, Segments
  <2>4. /\ m = Tenth(b) * VOL_AXIS_SPAN + Within(b)
        /\ Within(b) \in 0..VOL_AXIS_SPAN - 1 /\ Tenth(b) \in 0..9
    BY <1>2, Segments
  <2>5. n \in Nat /\ m \in Nat /\ n <= m
    BY <1>0, <1>2
  <2>6. i <= j
    <3>1. n \div VOL_AXIS_SPAN <= m \div VOL_AXIS_SPAN
      <4> HIDE DEF n, m
      <4> QED
        BY <2>3, <2>5, QuotientRises
    <3>2. Tenth(a) <= Tenth(b)
      BY <3>1 DEF Tenth
    <3> QED
      BY <2>3, <2>4, <3>2
  <2> HIDE DEF i, j, n, m
  <2>7. CASE i = j
    <3> DEFINE h == taper_lut_audio_a[i + 1] - taper_lut_audio_a[i]
    <3>1. h \in Nat /\ taper_lut_audio_a[i] \in Nat
      <4>1. i \in 1..11 /\ i + 1 \in 1..11 /\ i <= i + 1
        BY <2>1
      <4>2. taper_lut_audio_a[i] \in 0..100 /\ taper_lut_audio_a[i + 1] \in 0..100
        BY <4>1, TaperRises, Zenon
      <4>3. taper_lut_audio_a[i] <= taper_lut_audio_a[i + 1]
        BY <4>1, TaperRises, Zenon
      <4> QED
        BY <4>2, <4>3
    <3>2. Within(a) <= Within(b)
      <4> DEFINE q == Tenth(a) * VOL_AXIS_SPAN
      <4>1. Tenth(a) = Tenth(b)
        BY <2>3, <2>4, <2>7 DEF i, j
      <4>2. q \in Int /\ n = q + Within(a) /\ m = q + Within(b)
        BY <2>3, <2>4, <4>1
      <4> HIDE DEF q
      <4> QED
        BY <2>3, <2>4, <2>5, <4>2
    <3>3. Share(h, Within(a)) \in 0..h /\ Share(h, Within(a)) <= Share(h, Within(b))
      <4> HIDE DEF h
      <4> QED
        BY <2>3, <2>4, <3>1, <3>2, ShareRises
    <3>4. Share(h, Within(b)) \in 0..h
      <4> HIDE DEF h
      <4> QED
        BY <2>3, <2>4, <3>1, ShareRises
    <3>5. /\ volume_display_pct(a) = taper_lut_audio_a[i] + Share(h, Within(a))
          /\ volume_display_pct(b) = taper_lut_audio_a[i] + Share(h, Within(b))
      BY <2>1, <2>2, <2>7
    <3> HIDE DEF h
    <3> QED
      BY <3>1, <3>3, <3>4, <3>5
  <2>8. CASE i < j
    <3>1. i + 1 \in 1..11 /\ j \in 1..11 /\ i + 1 <= j /\ i \in 1..11 /\ j + 1 \in 1..11
      BY <2>1, <2>2, <2>8
    <3>2. /\ taper_lut_audio_a[i] \in 0..100 /\ taper_lut_audio_a[i + 1] \in 0..100
          /\ taper_lut_audio_a[j] \in 0..100 /\ taper_lut_audio_a[j + 1] \in 0..100
      BY <3>1, TaperRises, Zenon
    <3>3. taper_lut_audio_a[i + 1] <= taper_lut_audio_a[j]
      BY <3>1, TaperRises, Zenon
    <3> QED
      BY <2>1, <2>2, <3>2, <3>3
  <2> QED
    BY <2>1, <2>2, <2>6, <2>7, <2>8
<1> QED
  BY <1>0, <1>1, <1>2

-----------------------------------------------------------------------------
(* The knob.                                                                *)

PotIsNear(raw) ==
  /\ raw - last_out < VOLUME_HYSTERESIS /\ last_out - raw < VOLUME_HYSTERESIS
  /\ last_out \in {VOL_AXIS_MIN, VOL_AXIS_MAX} => raw = last_out

\* The throttle's report is near the latest one of the driver, and on its way or what the volume
\* was set from last, unless a key was.
Reported ==
  /\ pot \in Positions
  /\ \/ last_out = -1 /\ s_last_stable_vol_raw = -1 /\ ui_vol_events = <<>> /\ volume_by # "pot"
     \/ /\ last_out \in Positions /\ s_last_stable_vol_raw \in Positions
        /\ PotIsNear(s_last_stable_vol_raw)
        /\ \/ ui_vol_events = <<s_last_stable_vol_raw>>
           \/ /\ ui_vol_events = <<>>
              /\ \/ volume_by = "key"
                 \/ volume_by = "pot" /\ s_volume_raw = s_last_stable_vol_raw

\* The overlay shows the volume that is set.
OverlayTells == volume_shown \in {Hidden, volume_display_pct(s_volume_raw)}

VolumeInv == s_volume_raw \in VOL_AXIS_MIN..VOL_AXIS_MAX /\ Reported /\ OverlayTells

\* The limits of the axis are numbers.
LEMMA AxisTypes ==
  /\ VOL_AXIS_MIN \in Nat /\ VOL_AXIS_MAX \in Nat /\ VOL_AXIS_MIN < VOL_AXIS_MAX
  /\ VOLUME_HYSTERESIS \in Nat /\ VOLUME_HYSTERESIS > 0
  /\ \A p \in Positions : p \in VOL_AXIS_MIN..VOL_AXIS_MAX
  BY VolumeAssumption

\* At boot the volume is in the middle and nothing was reported.
LEMMA VolumeInvInit == VolumeInit => VolumeInv
<1> SUFFICES ASSUME VolumeInit PROVE VolumeInv
  OBVIOUS
<1>1. (VOL_AXIS_MIN + VOL_AXIS_MAX) \div 2 \in VOL_AXIS_MIN..VOL_AXIS_MAX
  BY AxisTypes
<1>2. Reported
  BY VolumeAssumption DEF VolumeInit, Reported
<1> QED
  BY <1>1, <1>2 DEF VolumeInit, VolumeInv, OverlayTells

\* The throttle lets pass what matters; what it drops was near.
LEMMA ReportKeeps ==
  ASSUME VolumeInv, PotReported
  PROVE  VolumeInv'
<1>1. /\ UNCHANGED <<pot, s_volume_raw, volume_by, volume_shown>>
      /\ last_out' = pot /\ pot \in Positions
  BY DEF PotReported, VolumeInv, Reported
<1>2. pot \in Int /\ pot \in VOL_AXIS_MIN..VOL_AXIS_MAX
  BY <1>1, AxisTypes
<1>3. CASE Matters(pot)
  <2>1. s_last_stable_vol_raw' = pot /\ ui_vol_events' = <<pot>>
    BY <1>3 DEF PotReported
  <2>2. PotIsNear(s_last_stable_vol_raw)'
    BY <1>1, <1>2, <2>1, AxisTypes DEF PotIsNear
  <2> QED
    BY <1>1, <2>1, <2>2 DEF VolumeInv, Reported, OverlayTells
<1>4. CASE ~Matters(pot)
  <2>1. UNCHANGED <<s_last_stable_vol_raw, ui_vol_events>>
    BY <1>4 DEF PotReported
  <2>2. s_last_stable_vol_raw # -1
    BY <1>4 DEF Matters
  <2>3. /\ s_last_stable_vol_raw \in Positions
        /\ \/ ui_vol_events = <<s_last_stable_vol_raw>>
           \/ /\ ui_vol_events = <<>>
              /\ volume_by = "key" \/ (volume_by = "pot" /\ s_volume_raw = s_last_stable_vol_raw)
    BY <2>2 DEF VolumeInv, Reported
  <2>4. s_last_stable_vol_raw \in VOL_AXIS_MIN..VOL_AXIS_MAX
    BY <2>3, AxisTypes
  <2>5. PotIsNear(s_last_stable_vol_raw)'
    <3> DEFINE x == s_last_stable_vol_raw
    <3>1. /\ ~(pot - x >= VOLUME_HYSTERESIS) /\ ~(-(pot - x) >= VOLUME_HYSTERESIS)
          /\ ~(pot - x > 0 /\ pot >= VOL_AXIS_MAX - VOLUME_HYSTERESIS)
          /\ ~(pot - x < 0 /\ pot <= VOL_AXIS_MIN + VOLUME_HYSTERESIS)
      BY <1>4 DEF Matters
    <3>2. x - pot < VOLUME_HYSTERESIS /\ pot - x < VOLUME_HYSTERESIS
      BY <1>2, <2>4, <3>1, AxisTypes
    <3>3. pot = VOL_AXIS_MIN => x = pot
      BY <1>2, <2>4, <3>1, AxisTypes
    <3>4. pot = VOL_AXIS_MAX => x = pot
      BY <1>2, <2>4, <3>1, AxisTypes
    <3> QED
      BY <1>1, <2>1, <3>2, <3>3, <3>4 DEF PotIsNear
  <2> QED
    BY <1>1, <2>1, <2>3, <2>5 DEF VolumeInv, Reported, OverlayTells
<1> QED
  BY <1>3, <1>4

\* The step of the volume keys is less than the axis.
LEMMA StepFits == VOLUME_STEP_RAW \in Nat /\ VOLUME_STEP_RAW <= VOL_AXIS_MAX - VOL_AXIS_MIN
<1>1. VOL_AXIS_SPAN \in Nat /\ VOL_AXIS_SPAN = VOL_AXIS_MAX - VOL_AXIS_MIN
  BY AxisTypes DEF VOL_AXIS_SPAN
<1> QED
  BY <1>1 DEF VOLUME_STEP_RAW

\* Every step keeps the volume on the axis and where the knob or a key put it.
LEMMA VolumeInvNext == VolumeInv /\ [VolumeNext]_volumeVars => VolumeInv'
<1> SUFFICES ASSUME VolumeInv, [VolumeNext]_volumeVars PROVE VolumeInv'
  OBVIOUS
<1>0. s_volume_raw \in VOL_AXIS_MIN..VOL_AXIS_MAX /\ Reported /\ OverlayTells
  BY DEF VolumeInv
<1>1. CASE PotMoves
  <2>1. UNCHANGED <<last_out, s_last_stable_vol_raw, ui_vol_events, s_volume_raw, volume_by,
                    volume_shown>> /\ pot' \in Positions
    BY <1>1 DEF PotMoves
  <2> QED
    BY <1>0, <2>1 DEF VolumeInv, Reported, PotIsNear, OverlayTells
<1>2. CASE PotReported
  BY <1>2, ReportKeeps
<1>3. CASE VolumeTick
  <2>1. /\ ui_vol_events # <<>> /\ ui_vol_events' = <<>>
        /\ s_volume_raw' = ui_vol_events[1] /\ volume_by' = "pot"
        /\ volume_shown' = volume_display_pct(ui_vol_events[1])
        /\ UNCHANGED <<pot, last_out, s_last_stable_vol_raw>>
    BY <1>3 DEF VolumeTick, apply_volume
  <2>2. /\ pot \in Positions /\ last_out \in Positions /\ s_last_stable_vol_raw \in Positions
        /\ PotIsNear(s_last_stable_vol_raw) /\ ui_vol_events[1] = s_last_stable_vol_raw
    BY <1>0, <2>1 DEF Reported
  <2>3. s_volume_raw' \in VOL_AXIS_MIN..VOL_AXIS_MAX
    BY <2>1, <2>2, AxisTypes
  <2> QED
    BY <2>1, <2>2, <2>3 DEF VolumeInv, Reported, PotIsNear, OverlayTells
<1>4. ASSUME NEW raw \in VOL_AXIS_MIN..VOL_AXIS_MAX, apply_volume(raw, "key"),
             UNCHANGED ui_vol_events
      PROVE  VolumeInv'
  <2>1. /\ UNCHANGED <<pot, last_out, s_last_stable_vol_raw, ui_vol_events>>
        /\ s_volume_raw' = raw /\ volume_by' = "key" /\ volume_shown' = volume_display_pct(raw)
    BY <1>4 DEF apply_volume
  <2>2. Reported'
    BY <1>0, <2>1 DEF Reported, PotIsNear
  <2> QED
    BY <2>1, <2>2 DEF VolumeInv, OverlayTells
<1>5. CASE VolumeUp
  <2> DEFINE raw == IF s_volume_raw <= VOL_AXIS_MAX - VOLUME_STEP_RAW
                    THEN s_volume_raw + VOLUME_STEP_RAW ELSE VOL_AXIS_MAX
  <2>1. raw \in VOL_AXIS_MIN..VOL_AXIS_MAX
    BY <1>0, AxisTypes, StepFits
  <2>2. apply_volume(raw, "key") /\ UNCHANGED ui_vol_events
    BY <1>5 DEF VolumeUp
  <2> HIDE DEF raw
  <2> QED
    BY <1>4, <2>1, <2>2
<1>6. CASE VolumeDown
  <2> DEFINE raw == IF s_volume_raw >= VOL_AXIS_MIN + VOLUME_STEP_RAW
                    THEN s_volume_raw - VOLUME_STEP_RAW ELSE VOL_AXIS_MIN
  <2>1. raw \in VOL_AXIS_MIN..VOL_AXIS_MAX
    BY <1>0, AxisTypes, StepFits
  <2>2. apply_volume(raw, "key") /\ UNCHANGED ui_vol_events
    BY <1>6 DEF VolumeDown
  <2> HIDE DEF raw
  <2> QED
    BY <1>4, <2>1, <2>2
<1>7. CASE VolumeDismissed
  <2>1. /\ UNCHANGED <<pot, last_out, s_last_stable_vol_raw, ui_vol_events, s_volume_raw, volume_by>>
        /\ volume_shown' = Hidden
    BY <1>7 DEF VolumeDismissed
  <2> QED
    BY <1>0, <2>1 DEF VolumeInv, Reported, PotIsNear, OverlayTells
<1>8. CASE UNCHANGED volumeVars
  BY <1>0, <1>8 DEF volumeVars, VolumeInv, Reported, PotIsNear, OverlayTells
<1> QED
  BY <1>1, <1>2, <1>3, <1>5, <1>6, <1>7, <1>8 DEF VolumeNext

\* The types of Volume follow.
LEMMA VolumeInvTypes == VolumeInv => VolumeTypeOK
<1> SUFFICES ASSUME VolumeInv PROVE VolumeTypeOK
  OBVIOUS
<1>1. s_volume_raw \in VOL_AXIS_MIN..VOL_AXIS_MAX
  BY DEF VolumeInv
<1>2. volume_display_pct(s_volume_raw) \in 0..100
  BY <1>1, ShownType
<1>3. Len(ui_vol_events) <= 1
  BY DEF VolumeInv, Reported
<1> QED
  BY <1>1, <1>2, <1>3 DEF VolumeTypeOK, VolumeInv, OverlayTells

\* Where a report has been read the volume is the pot's.
LEMMA VolumeInvFollows == VolumeInv => FollowsPot
<1> SUFFICES ASSUME VolumeInv, pot = last_out, ui_vol_events = <<>>, volume_by # "key"
             PROVE  /\ s_volume_raw - pot < VOLUME_HYSTERESIS /\ pot - s_volume_raw < VOLUME_HYSTERESIS
                    /\ pot \in {VOL_AXIS_MIN, VOL_AXIS_MAX} => s_volume_raw = pot
  BY DEF FollowsPot
<1>1. pot \in Positions
  BY DEF VolumeInv, Reported
<1>2. pot # -1
  BY <1>1, AxisTypes
<1> QED
  BY <1>2 DEF VolumeInv, Reported, PotIsNear

\* app_input.c's throttle, the queue and apply_volume(): the volume stays on the axis, is the
\* pot's within the hysteresis once its report was read, and what the overlay shows moves with it;
\* for every axis, hysteresis and set of positions.
THEOREM VolumeFollowsKnob == VolumeSpec => KnobFollowed
<1>1. VolumeSpec => []VolumeInv
  BY VolumeInvInit, VolumeInvNext, PTL DEF VolumeSpec
<1>2. ASSUME VolumeInv, VolumeInv', volume_shown # Hidden, volume_shown' # Hidden
      PROVE  /\ s_volume_raw' >= s_volume_raw => volume_shown' >= volume_shown
             /\ s_volume_raw' <= s_volume_raw => volume_shown' <= volume_shown
  <2> DEFINE a == s_volume_raw
             b == s_volume_raw'
             u == volume_display_pct(a)
             v == volume_display_pct(b)
  <2>1. a \in VOL_AXIS_MIN..VOL_AXIS_MAX /\ b \in VOL_AXIS_MIN..VOL_AXIS_MAX
    BY <1>2 DEF VolumeInv
  <2>2. volume_shown = u /\ volume_shown' = v
    BY <1>2 DEF VolumeInv, OverlayTells
  <2>3. u \in 0..100 /\ v \in 0..100
    <3> HIDE DEF a, b
    <3> QED
      BY <2>1, ShownType
  <2>4. a <= b => u <= v
    <3> HIDE DEF a, b
    <3> QED
      BY <2>1, ShownMonotone
  <2>5. b <= a => v <= u
    <3> HIDE DEF a, b
    <3> QED
      BY <2>1, ShownMonotone
  <2>6. a \in Int /\ b \in Int
    BY <2>1, AxisTypes
  <2> HIDE DEF a, b, u, v
  <2>7. /\ b >= a => v >= u
        /\ b <= a => v <= u
    BY <2>3, <2>4, <2>5, <2>6
  <2> QED
    BY <2>2, <2>7 DEF a, b
<1>3. VolumeInv /\ VolumeInv' =>
        [volume_shown # Hidden /\ volume_shown' # Hidden =>
           /\ s_volume_raw' >= s_volume_raw => volume_shown' >= volume_shown
           /\ s_volume_raw' <= s_volume_raw => volume_shown' <= volume_shown]_volumeVars
  BY <1>2
<1>4. VolumeSpec => []VolumeTypeOK
  BY <1>1, VolumeInvTypes, PTL
<1>5. VolumeSpec => []FollowsPot
  BY <1>1, VolumeInvFollows, PTL
<1>6. VolumeSpec => ShownRises
  BY <1>1, <1>3, PTL DEF ShownRises
<1> QED
  BY <1>4, <1>5, <1>6 DEF KnobFollowed

-----------------------------------------------------------------------------
(* The codeplug's image: the regions of the map.                            *)

Start(region)  == codeplug_map[region][1]
Extent(region) == codeplug_map[region][2]

\* What the accessors of single structs and of tables may read; a dump may read all of the map.
Owned == {"device_info", "general_settings", "signalling_dtmf", "signalling_dtmf_durations",
          "aprs_configs", "dtmf_contacts", "channels_bank1", "nv_settings", "quickkeys",
          "vfo_channels", "zones_ext", "calibration", "channels_ext", "contacts",
          "rx_group_lists"}

\* The map, a region after the other.
LEMMA MapFacts ==
  /\ Start("device_info") = 128 /\ Extent("device_info") = 96
  /\ Start("general_settings") = 224 /\ Extent("general_settings") = 40
  /\ Start("signalling_dtmf") = 5120 /\ Extent("signalling_dtmf") = 120
  /\ Start("signalling_dtmf_durations") = 5234 /\ Extent("signalling_dtmf_durations") = 5
  /\ Start("aprs_configs") = 5512 /\ Extent("aprs_configs") = 512
  /\ Start("dtmf_contacts") = 12168 /\ Extent("dtmf_contacts") = 2016
  /\ Start("channels_bank1") = 14208 /\ Extent("channels_bank1") = 7184
  /\ Start("nv_settings") = 24651 /\ Extent("nv_settings") = 256
  /\ Start("quickkeys") = 29988 /\ Extent("quickkeys") = 20
  /\ Start("vfo_channels") = 30096 /\ Extent("vfo_channels") = 112
  /\ Start("zones_ext") = 32768 /\ Extent("zones_ext") = 12016
  /\ Start("calibration") = 65536 /\ Extent("calibration") = 512
  /\ Start("channels_ext") = 635312 /\ Extent("channels_ext") = 50288
  /\ Start("contacts") = 685600 /\ Extent("contacts") = 24576
  /\ Start("rx_group_lists") = 710176 /\ Extent("rx_group_lists") = 6208
  BY SMT DEF Start, Extent, codeplug_map

\* No two of these regions have a byte in common, but the durations are in the DTMF settings.
LEMMA RegionsApart ==
  ASSUME NEW a \in Owned, NEW b \in Owned, a # b,
         {a, b} # {"signalling_dtmf", "signalling_dtmf_durations"}
  PROVE  Start(a) + Extent(a) <= Start(b) \/ Start(b) + Extent(b) <= Start(a)
<1> HIDE DEF Start, Extent
<1>1. ~(a = "signalling_dtmf" /\ b = "signalling_dtmf_durations")
      /\ ~(b = "signalling_dtmf" /\ a = "signalling_dtmf_durations")
  OBVIOUS
<1> QED
  BY <1>1, MapFacts, SMT DEF Owned

-----------------------------------------------------------------------------
(* The bytes of a record.                                                   *)

\* A read of bytes at..at + size - 1 of a region.
InBytes(r, region, at, size) ==
  /\ r.region = region /\ r.len \in Nat /\ r.len > 0 /\ r.from \in Int
  /\ Start(region) + at <= r.from /\ r.from + r.len <= Start(region) + at + size

\* A read inside of its region.
Inside(r) == r.from >= Start(r.region) /\ r.len > 0 /\ r.from + r.len <= Start(r.region) + Extent(r.region)

OfSingle(q, r)  == q.kind \in DOMAIN Singles /\ q.index = 0 /\ InBytes(r, q.kind, 0, Singles[q.kind])
OfChannel(q, r) == q.kind = "channel" /\ q.index \in 1..1024 /\ r = ChannelRead(q.index)
OfRecord(q, r) ==
  /\ q.kind \in DOMAIN RecordTables
  /\ LET t == RecordTables[q.kind]
     IN  q.index \in t.first..t.last
         /\ InBytes(r, t.region, t.head + (q.index - t.first) * t.size, t.size)
ZoneOf(q, r, slots, size) ==
  /\ q.value = [channels_per_zone |-> slots]
  /\ InBytes(r, "zones_ext", 48 + q.index * size, size)
OfZone(q, r) ==
  /\ q.kind = "zone" /\ q.index \in 0..67
  /\ ZoneOf(q, r, 80, 176) \/ ZoneOf(q, r, 16, 48)
OfBitmap(q, r)  == q.kind = "zone_bitmap" /\ q.index = 0 /\ InBytes(r, "zones_ext", 16, 32)
OfNv(q, r)      == q.kind = "nv_settings" /\ q.index = 0 /\ InBytes(r, "nv_settings", 0, 256)

\* What a request that was no dump has read: bytes of its record.
Own(q, r) ==
  OfSingle(q, r) \/ OfChannel(q, r) \/ OfRecord(q, r) \/ OfZone(q, r) \/ OfBitmap(q, r) \/ OfNv(q, r)

\* The kinds of requests have their own names, and a struct its region's.
LEMMA KindNames ==
  /\ DOMAIN Singles = {"device_info", "general_settings", "signalling_dtmf",
                       "signalling_dtmf_durations", "calibration"}
  /\ DOMAIN RecordTables = {"contact", "dtmf_contact", "aprs_config", "rx_group", "vfo_channel",
                            "quickkey"}
  BY DEF Singles, RecordTables

\* A struct is as large as its region.
LEMMA SingleFits ==
  ASSUME NEW q, NEW r, OfSingle(q, r)
  PROVE  InBytes(r, q.kind, 0, Extent(q.kind)) /\ q.kind \in Owned
<1>1. /\ Singles["device_info"] = 96 /\ Singles["general_settings"] = 40
      /\ Singles["signalling_dtmf"] = 120 /\ Singles["signalling_dtmf_durations"] = 5
      /\ Singles["calibration"] = 512
  BY DEF Singles
<1>2. Extent(q.kind) = Singles[q.kind] /\ q.kind \in Owned
  BY <1>1, KindNames, MapFacts, SMT DEF OfSingle, Owned
<1> QED
  BY <1>2 DEF OfSingle

\* The tables, and that they end within their regions.
LEMMA TableFacts ==
  ASSUME NEW kind \in DOMAIN RecordTables
  PROVE  LET t == RecordTables[kind]
         IN  /\ t.head \in Nat /\ t.first \in {0, 1} /\ t.last \in Nat
             /\ t.size \in {24, 32, 64, 80, 56, 2}
             /\ t.region \in {"contacts", "dtmf_contacts", "aprs_configs", "rx_group_lists",
                              "vfo_channels", "quickkeys"}
             /\ t.head + (t.last + 1 - t.first) * t.size <= Extent(t.region)
<1>1. CASE kind = "contact"
  BY <1>1, MapFacts, SMT DEF RecordTables, Table
<1>2. CASE kind = "dtmf_contact"
  BY <1>2, MapFacts, SMT DEF RecordTables, Table
<1>3. CASE kind = "aprs_config"
  BY <1>3, MapFacts, SMT DEF RecordTables, Table
<1>4. CASE kind = "rx_group"
  BY <1>4, MapFacts, SMT DEF RecordTables, Table
<1>5. CASE kind = "vfo_channel"
  BY <1>5, MapFacts, SMT DEF RecordTables, Table, CP_CHANNEL_SIZE
<1>6. CASE kind = "quickkey"
  BY <1>6, MapFacts, SMT DEF RecordTables, Table
<1> QED
  BY <1>1, <1>2, <1>3, <1>4, <1>5, <1>6, KindNames

\* Two kinds of records have tables in two regions.
LEMMA TablesApart ==
  ASSUME NEW a \in DOMAIN RecordTables, NEW b \in DOMAIN RecordTables, a # b
  PROVE  RecordTables[a].region # RecordTables[b].region
<1>1. /\ RecordTables["contact"].region = "contacts"
      /\ RecordTables["dtmf_contact"].region = "dtmf_contacts"
      /\ RecordTables["aprs_config"].region = "aprs_configs"
      /\ RecordTables["rx_group"].region = "rx_group_lists"
      /\ RecordTables["vfo_channel"].region = "vfo_channels"
      /\ RecordTables["quickkey"].region = "quickkeys"
  BY DEF RecordTables, Table
<1> QED
  BY <1>1, KindNames, SMT

\* A record lies after the one before it.
LEMMA Strides ==
  ASSUME NEW i \in Int, NEW j \in Int, i < j, NEW d \in Nat
  PROVE  i * d + d <= j * d
<1>1. (i + 1) * d <= j * d
  OBVIOUS
<1>2. (i + 1) * d = i * d + d
  OBVIOUS
<1> QED
  BY <1>1, <1>2

\* A record lies within its table.
LEMMA RecordFits ==
  ASSUME NEW q, NEW r, OfRecord(q, r)
  PROVE  LET t == RecordTables[q.kind] IN InBytes(r, t.region, 0, Extent(t.region))
<1> DEFINE t == RecordTables[q.kind]
           i == q.index - t.first
           n == t.last + 1 - t.first
<1>1. /\ t.head \in Nat /\ t.first \in {0, 1} /\ t.last \in Nat
      /\ t.size \in Nat /\ t.region \in Owned /\ t.head + n * t.size <= Extent(t.region)
  <2>1. q.kind \in DOMAIN RecordTables
    BY DEF OfRecord
  <2>2. /\ t.head \in Nat /\ t.first \in {0, 1} /\ t.last \in Nat
        /\ t.size \in {24, 32, 64, 80, 56, 2}
        /\ t.region \in {"contacts", "dtmf_contacts", "aprs_configs", "rx_group_lists",
                         "vfo_channels", "quickkeys"}
        /\ t.head + n * t.size <= Extent(t.region)
    BY <2>1, TableFacts
  <2> QED
    BY <2>2 DEF Owned
<1>2. i \in Nat /\ n \in Int /\ i < n /\ InBytes(r, t.region, t.head + i * t.size, t.size)
  BY <1>1 DEF OfRecord
<1>3. i * t.size + t.size <= n * t.size
  <2> HIDE DEF t, i, n
  <2> QED
    BY <1>1, <1>2, Strides
<1>4. Start(t.region) \in Nat /\ Extent(t.region) \in Nat
  BY <1>1, MapFacts, SMT DEF Owned
<1>5. i * t.size \in Nat /\ n * t.size \in Int
  <2> HIDE DEF t, i, n
  <2> QED
    BY <1>1, <1>2
<1> DEFINE x == i * t.size
           y == n * t.size
<1>6. InBytes(r, t.region, t.head + x, t.size) /\ x \in Nat /\ y \in Int /\ x + t.size <= y
      /\ t.head + y <= Extent(t.region)
  BY <1>1, <1>2, <1>3, <1>5
<1> HIDE DEF t, x, y
<1> QED
  BY <1>1, <1>4, <1>6 DEF InBytes, t

\* Two records of a table.
LEMMA RecordsApart ==
  ASSUME NEW q, NEW r, OfRecord(q, r), NEW p, NEW s, OfRecord(p, s), q.kind = p.kind,
         q.index < p.index
  PROVE  r.from + r.len <= s.from
<1> DEFINE t == RecordTables[q.kind]
           i == q.index - t.first
           j == p.index - t.first
<1>1. t.head \in Nat /\ t.first \in {0, 1} /\ t.last \in Nat /\ t.size \in Nat
      /\ t.region \in Owned
  <2>1. q.kind \in DOMAIN RecordTables
    BY DEF OfRecord
  <2>2. /\ t.head \in Nat /\ t.first \in {0, 1} /\ t.last \in Nat
        /\ t.size \in {24, 32, 64, 80, 56, 2}
        /\ t.region \in {"contacts", "dtmf_contacts", "aprs_configs", "rx_group_lists",
                         "vfo_channels", "quickkeys"}
    BY <2>1, TableFacts
  <2> QED
    BY <2>2 DEF Owned
<1>2. /\ i \in Int /\ j \in Int /\ i < j
      /\ InBytes(r, t.region, t.head + i * t.size, t.size)
      /\ InBytes(s, t.region, t.head + j * t.size, t.size)
  BY <1>1 DEF OfRecord
<1>3. i * t.size + t.size <= j * t.size
  <2> HIDE DEF t, i, j
  <2> QED
    BY <1>1, <1>2, Strides
<1>4. Start(t.region) \in Nat
  BY <1>1, MapFacts, SMT DEF Owned
<1> DEFINE x == i * t.size
           y == j * t.size
<1>5. x \in Int /\ y \in Int /\ x + t.size <= y
  <2> HIDE DEF t, i, j
  <2> QED
    BY <1>1, <1>2, <1>3
<1>6. InBytes(r, t.region, t.head + x, t.size) /\ InBytes(s, t.region, t.head + y, t.size)
  BY <1>2
<1> HIDE DEF t, x, y
<1> QED
  BY <1>1, <1>4, <1>5, <1>6 DEF InBytes

\* Where a channel lies: in a bank of 128, behind the bank's head; the first bank is apart.
ChannelAt(r, index, bank, slot) ==
  /\ index - 1 = bank * 128 + slot
  /\ r.len = 56 /\ r.from \in Int
  /\ bank = 0 => /\ r.region = "channels_bank1"
                 /\ r.from = Start("channels_bank1") + 16 + slot * 56
  /\ bank # 0 => /\ r.region = "channels_ext"
                 /\ r.from = Start("channels_ext") + (bank - 1) * 7184 + 16 + slot * 56

\* Every channel has its place.
LEMMA ChannelPlace ==
  ASSUME NEW index \in 1..1024
  PROVE  \E bank \in 0..7, slot \in 0..127 : ChannelAt(ChannelRead(index), index, bank, slot)
<1> DEFINE bank == (index - 1) \div 128
           slot == (index - 1) % 128
           r    == ChannelRead(index)
<1>1. bank \in 0..7 /\ slot \in 0..127 /\ index - 1 = bank * 128 + slot
  BY SMT
<1>2. r = IF bank = 0 THEN Read("channels_bank1", 16 + slot * 56, 56)
          ELSE Read("channels_ext", (bank - 1) * 7184 + (16 + slot * 56), 56)
  BY SMT DEF ChannelRead, CP_CHANNELS_PER_BANK, CP_CHANNEL_SIZE, CP_BANK_SIZE, CP_BANK_HEADER_SIZE
<1>3. Start("channels_bank1") \in Nat /\ Start("channels_ext") \in Nat
  BY MapFacts, SMT
<1>4. ASSUME NEW region, NEW at, NEW n
      PROVE  Read(region, at, n) = [region |-> region, from |-> Start(region) + at, len |-> n]
  BY DEF Read, Start
<1> HIDE DEF bank, slot, r
<1>5. CASE bank = 0
  <2>1. r = [region |-> "channels_bank1", from |-> Start("channels_bank1") + (16 + slot * 56),
             len |-> 56]
    BY <1>2, <1>4, <1>5
  <2>2. ChannelAt(r, index, bank, slot)
    BY <1>1, <1>3, <1>5, <2>1, SMT DEF ChannelAt
  <2> QED
    BY <1>1, <2>2 DEF r
<1>6. CASE bank # 0
  <2>1. r = [region |-> "channels_ext",
             from |-> Start("channels_ext") + ((bank - 1) * 7184 + (16 + slot * 56)), len |-> 56]
    BY <1>2, <1>4, <1>6
  <2>2. ChannelAt(r, index, bank, slot)
    BY <1>1, <1>3, <1>6, <2>1, SMT DEF ChannelAt
  <2> QED
    BY <1>1, <2>2 DEF r
<1> QED
  BY <1>5, <1>6

\* Every channel lies within its bank's region.
LEMMA ChannelFits ==
  ASSUME NEW q, NEW r, OfChannel(q, r)
  PROVE  r.region \in {"channels_bank1", "channels_ext"} /\ InBytes(r, r.region, 0, Extent(r.region))
<1>1. PICK bank \in 0..7, slot \in 0..127 : ChannelAt(r, q.index, bank, slot)
  BY ChannelPlace DEF OfChannel
<1>2. CASE bank = 0
  BY <1>1, <1>2, MapFacts, SMT DEF InBytes, ChannelAt
<1>3. CASE bank # 0
  BY <1>1, <1>3, MapFacts, SMT DEF InBytes, ChannelAt
<1> QED
  BY <1>2, <1>3

\* Two channels of one region.
LEMMA ChannelsApart ==
  ASSUME NEW q, NEW r, OfChannel(q, r), NEW p, NEW s, OfChannel(p, s), r.region = s.region,
         q.index < p.index
  PROVE  r.from + r.len <= s.from
<1>1. PICK bank \in 0..7, slot \in 0..127 : ChannelAt(r, q.index, bank, slot)
  BY ChannelPlace DEF OfChannel
<1>2. PICK bank2 \in 0..7, slot2 \in 0..127 : ChannelAt(s, p.index, bank2, slot2)
  BY ChannelPlace DEF OfChannel
<1>3. q.index \in Int /\ p.index \in Int
  <2>1. q.index \in 1..1024 /\ p.index \in 1..1024
    BY Zenon DEF OfChannel
  <2> QED
    BY <2>1
<1>4. CASE bank = 0
  BY <1>1, <1>2, <1>3, <1>4, MapFacts, SMT DEF ChannelAt
<1>5. CASE bank # 0
  BY <1>1, <1>2, <1>3, <1>5, MapFacts, SMT DEF ChannelAt
<1> QED
  BY <1>4, <1>5

\* The zones of either format lie behind their bitmap in their region.
LEMMA ZoneFits ==
  ASSUME NEW q, NEW r, OfZone(q, r)
  PROVE  InBytes(r, "zones_ext", 48, Extent("zones_ext") - 48)
<1>1. q.index \in 0..67
  BY DEF OfZone
<1>2. CASE ZoneOf(q, r, 80, 176)
  BY <1>1, <1>2, MapFacts, SMT DEF ZoneOf, InBytes
<1>3. CASE ZoneOf(q, r, 16, 48)
  BY <1>1, <1>3, MapFacts, SMT DEF ZoneOf, InBytes
<1> QED
  BY <1>2, <1>3 DEF OfZone

\* Two zones of one format.
LEMMA ZonesApart ==
  ASSUME NEW q, NEW r, OfZone(q, r), NEW p, NEW s, OfZone(p, s), q.value = p.value,
         q.index < p.index
  PROVE  r.from + r.len <= s.from
<1>1. q.index \in Int /\ p.index \in Int
  BY DEF OfZone
<1>2. [channels_per_zone |-> 80] # [channels_per_zone |-> 16]
  <2>1. [channels_per_zone |-> 80].channels_per_zone = 80
        /\ [channels_per_zone |-> 16].channels_per_zone = 16
    OBVIOUS
  <2> QED
    BY <2>1
<1>3. CASE ZoneOf(q, r, 80, 176) /\ ZoneOf(p, s, 80, 176)
  BY <1>1, <1>3, MapFacts, SMT DEF ZoneOf, InBytes
<1>4. CASE ZoneOf(q, r, 16, 48) /\ ZoneOf(p, s, 16, 48)
  BY <1>1, <1>4, MapFacts, SMT DEF ZoneOf, InBytes
<1>5. CASE q.value = [channels_per_zone |-> 80] /\ p.value = [channels_per_zone |-> 16]
  BY <1>2, <1>5
<1>6. CASE q.value = [channels_per_zone |-> 16] /\ p.value = [channels_per_zone |-> 80]
  BY <1>2, <1>6
<1> QED
  BY <1>3, <1>4, <1>5, <1>6 DEF OfZone, ZoneOf

-----------------------------------------------------------------------------
(* No record is read out of another's bytes.                                *)

\* The regions a request of a kind may read.
RegionsOf(kind) ==
  IF kind \in DOMAIN Singles THEN {kind}
  ELSE IF kind \in DOMAIN RecordTables THEN {RecordTables[kind].region}
  ELSE IF kind = "channel" THEN {"channels_bank1", "channels_ext"}
  ELSE IF kind = "nv_settings" THEN {"nv_settings"}
  ELSE {"zones_ext"}

\* What is read lies in a region of the kind.
LEMMA OwnInside ==
  ASSUME NEW q, NEW r, Own(q, r)
  PROVE  r.region \in RegionsOf(q.kind) /\ r.region \in Owned /\ InBytes(r, r.region, 0, Extent(r.region))
<1>1. CASE OfSingle(q, r)
  <2>1. InBytes(r, q.kind, 0, Extent(q.kind)) /\ q.kind \in Owned
    BY <1>1, SingleFits
  <2>2. r.region = q.kind
    BY <2>1 DEF InBytes
  <2> QED
    BY <1>1, <2>1, <2>2 DEF RegionsOf, OfSingle
<1>2. CASE OfChannel(q, r)
  <2>1. r.region \in {"channels_bank1", "channels_ext"} /\ InBytes(r, r.region, 0, Extent(r.region))
    BY <1>2, ChannelFits
  <2>2. RegionsOf(q.kind) = {"channels_bank1", "channels_ext"}
    BY <1>2, KindNames DEF OfChannel, RegionsOf
  <2> QED
    BY <2>1, <2>2 DEF Owned
<1>3. CASE OfRecord(q, r)
  <2> DEFINE t == RecordTables[q.kind]
  <2>1. InBytes(r, t.region, 0, Extent(t.region)) /\ q.kind \in DOMAIN RecordTables
    BY <1>3, RecordFits DEF OfRecord
  <2>2. t.region \in {"contacts", "dtmf_contacts", "aprs_configs", "rx_group_lists",
                     "vfo_channels", "quickkeys"}
    BY <2>1, TableFacts
  <2>3. r.region = t.region
    BY <2>1 DEF InBytes
  <2>4. q.kind \notin DOMAIN Singles
    BY <2>1, KindNames
  <2>5. RegionsOf(q.kind) = {t.region}
    BY <2>1, <2>4 DEF RegionsOf
  <2> HIDE DEF t
  <2> QED
    BY <2>1, <2>2, <2>3, <2>5 DEF Owned
<1>4. CASE OfZone(q, r)
  <2>1. InBytes(r, "zones_ext", 48, Extent("zones_ext") - 48) /\ q.kind = "zone"
    BY <1>4, ZoneFits DEF OfZone
  <2>2. InBytes(r, "zones_ext", 0, Extent("zones_ext")) /\ r.region = "zones_ext"
    BY <2>1, MapFacts, SMT DEF InBytes
  <2>3. RegionsOf(q.kind) = {"zones_ext"}
    BY <2>1, KindNames DEF RegionsOf
  <2> QED
    BY <2>2, <2>3 DEF Owned
<1>5. CASE OfBitmap(q, r)
  <2>1. InBytes(r, "zones_ext", 0, Extent("zones_ext")) /\ r.region = "zones_ext"
    BY <1>5, MapFacts, SMT DEF OfBitmap, InBytes
  <2>2. RegionsOf(q.kind) = {"zones_ext"}
    BY <1>5, KindNames DEF OfBitmap, RegionsOf
  <2> QED
    BY <2>1, <2>2 DEF Owned
<1>6. CASE OfNv(q, r)
  <2>1. InBytes(r, "nv_settings", 0, Extent("nv_settings")) /\ r.region = "nv_settings"
    BY <1>6, MapFacts, SMT DEF OfNv, InBytes
  <2>2. RegionsOf(q.kind) = {"nv_settings"}
    BY <1>6, KindNames DEF OfNv, RegionsOf
  <2> QED
    BY <2>1, <2>2 DEF Owned
<1> QED
  BY <1>1, <1>2, <1>3, <1>4, <1>5, <1>6 DEF Own

\* What is in two regions that are apart does not overlap.
LEMMA ApartThenDisjoint ==
  ASSUME NEW r, NEW s, NEW a \in Owned, NEW b \in Owned,
         InBytes(r, a, 0, Extent(a)), InBytes(s, b, 0, Extent(b)),
         Start(a) + Extent(a) <= Start(b) \/ Start(b) + Extent(b) <= Start(a)
  PROVE  ~Overlap(r, s)
<1>1. Start(a) \in Nat /\ Extent(a) \in Nat /\ Start(b) \in Nat /\ Extent(b) \in Nat
  BY MapFacts, SMT DEF Owned
<1> QED
  BY <1>1, SMT DEF InBytes, Overlap

\* Only the zones and their bitmap share a region, and only the two DTMF structs bytes.
LEMMA SharedRegions ==
  ASSUME NEW q, NEW r, Own(q, r), NEW p, NEW s, Own(p, s), r.region = s.region
  PROVE  q.kind = p.kind \/ {q.kind, p.kind} = {"zone", "zone_bitmap"}
<1>1. r.region \in RegionsOf(q.kind) /\ r.region \in RegionsOf(p.kind)
  <2>1. r.region \in RegionsOf(q.kind)
    BY OwnInside
  <2>2. s.region \in RegionsOf(p.kind)
    BY OwnInside
  <2> QED
    BY <2>1, <2>2
<1> DEFINE Others == {"channel", "nv_settings", "zone", "zone_bitmap"}
<1>2. /\ q.kind \in DOMAIN Singles \cup DOMAIN RecordTables \cup Others
      /\ p.kind \in DOMAIN Singles \cup DOMAIN RecordTables \cup Others
  BY DEF Own, OfSingle, OfChannel, OfRecord, OfZone, OfBitmap, OfNv
<1>3. ASSUME NEW kind \in DOMAIN Singles
      PROVE  RegionsOf(kind) = {kind} /\ kind \in {"device_info", "general_settings",
                "signalling_dtmf", "signalling_dtmf_durations", "calibration"}
  BY <1>3, KindNames DEF RegionsOf
<1>4. ASSUME NEW kind \in DOMAIN RecordTables
      PROVE  /\ RegionsOf(kind) = {RecordTables[kind].region}
             /\ RecordTables[kind].region \in {"contacts", "dtmf_contacts", "aprs_configs",
                  "rx_group_lists", "vfo_channels", "quickkeys"}
  <2>1. kind \notin DOMAIN Singles
    BY <1>4, KindNames
  <2>2. RecordTables[kind].region \in {"contacts", "dtmf_contacts", "aprs_configs",
          "rx_group_lists", "vfo_channels", "quickkeys"}
    BY <1>4, TableFacts
  <2> QED
    BY <1>4, <2>1, <2>2 DEF RegionsOf
<1>5. ASSUME NEW kind \in Others
      PROVE  /\ kind = "channel" => RegionsOf(kind) = {"channels_bank1", "channels_ext"}
             /\ kind = "nv_settings" => RegionsOf(kind) = {"nv_settings"}
             /\ kind \in {"zone", "zone_bitmap"} => RegionsOf(kind) = {"zones_ext"}
  BY <1>5, KindNames DEF RegionsOf
<1>6. CASE q.kind \in DOMAIN RecordTables /\ p.kind \in DOMAIN RecordTables
  <2>1. RecordTables[q.kind].region = RecordTables[p.kind].region
    BY <1>1, <1>4, <1>6
  <2> QED
    BY <1>6, <2>1, TablesApart
<1>7. CASE q.kind \in DOMAIN Singles
  BY <1>1, <1>2, <1>3, <1>4, <1>5, <1>7
<1>8. CASE p.kind \in DOMAIN Singles
  BY <1>1, <1>2, <1>3, <1>4, <1>5, <1>8
<1>9. CASE q.kind \in Others
  BY <1>1, <1>2, <1>3, <1>4, <1>5, <1>9
<1>10. CASE p.kind \in Others
  BY <1>1, <1>2, <1>3, <1>4, <1>5, <1>10
<1> QED
  BY <1>2, <1>6, <1>7, <1>8, <1>9, <1>10

\* Two requests of one kind for two records.
LEMMA SameKindApart ==
  ASSUME NEW q, NEW r, Own(q, r), NEW p, NEW s, Own(p, s), r.region = s.region,
         q.kind = p.kind, q.index # p.index, q.kind = "zone" => q.value = p.value
  PROVE  ~Overlap(r, s)
<1>1. r.from \in Int /\ s.from \in Int /\ r.len \in Nat /\ s.len \in Nat
  BY OwnInside DEF InBytes
<1>2. SUFFICES r.from + r.len <= s.from \/ s.from + s.len <= r.from
  BY <1>1 DEF Overlap
<1>3. CASE OfChannel(q, r)
  <2>1. OfChannel(p, s)
    BY <1>3, KindNames DEF Own, OfSingle, OfChannel, OfRecord, OfZone, OfBitmap, OfNv
  <2>2. q.index \in Int /\ p.index \in Int
    BY <1>3, <2>1 DEF OfChannel
  <2>3. q.index < p.index => r.from + r.len <= s.from
    BY <1>3, <2>1, ChannelsApart
  <2>4. p.index < q.index => s.from + s.len <= r.from
    BY <1>3, <2>1, ChannelsApart
  <2> QED
    BY <2>2, <2>3, <2>4
<1>4. CASE OfRecord(q, r)
  <2>1. OfRecord(p, s)
    BY <1>4, KindNames DEF Own, OfSingle, OfChannel, OfRecord, OfZone, OfBitmap, OfNv
  <2>2. q.index \in Int /\ p.index \in Int
    <3> DEFINE t == RecordTables[q.kind]
    <3>1. q.kind \in DOMAIN RecordTables /\ q.index \in t.first..t.last
          /\ p.index \in t.first..t.last
      BY <1>4, <2>1 DEF OfRecord
    <3>2. t.first \in {0, 1} /\ t.last \in Nat
      BY <3>1, TableFacts
    <3> HIDE DEF t
    <3> QED
      BY <3>1, <3>2
  <2>3. q.index < p.index => r.from + r.len <= s.from
    BY <1>4, <2>1, RecordsApart
  <2>4. p.index < q.index => s.from + s.len <= r.from
    BY <1>4, <2>1, RecordsApart
  <2> QED
    BY <2>2, <2>3, <2>4
<1>5. CASE OfZone(q, r)
  <2>1. OfZone(p, s) /\ q.value = p.value
    BY <1>5, KindNames DEF Own, OfSingle, OfChannel, OfRecord, OfZone, OfBitmap, OfNv
  <2>2. q.index \in Int /\ p.index \in Int
    BY <1>5, <2>1 DEF OfZone
  <2>3. q.index < p.index => r.from + r.len <= s.from
    BY <1>5, <2>1, ZonesApart
  <2>4. p.index < q.index => s.from + s.len <= r.from
    BY <1>5, <2>1, ZonesApart
  <2> QED
    BY <2>2, <2>3, <2>4
\* Of the others there is one of a kind.
<1>6. CASE OfSingle(q, r) \/ OfBitmap(q, r) \/ OfNv(q, r)
  BY <1>6, KindNames DEF Own, OfSingle, OfChannel, OfRecord, OfZone, OfBitmap, OfNv
<1> QED
  BY <1>3, <1>4, <1>5, <1>6 DEF Own

\* No two requests read a byte in common, but for those MayOverlap() excepts.
LEMMA OwnDisjoint ==
  ASSUME NEW q, NEW r, Own(q, r), NEW p, NEW s, Own(p, s),
         <<q.kind, q.index>> # <<p.kind, p.index>>, ~MayOverlap(q, p)
  PROVE  ~Overlap(r, s)
<1>1. CASE r.region = s.region
  <2>1. CASE q.kind = p.kind
    <3>1. q.index # p.index /\ (q.kind = "zone" => q.value = p.value)
      BY <2>1 DEF MayOverlap
    <3> QED
      BY <1>1, <2>1, <3>1, SameKindApart
  <2>2. CASE q.kind = "zone" /\ p.kind = "zone_bitmap"
    <3>1. OfZone(q, r) /\ OfBitmap(p, s)
      BY <2>2, KindNames DEF Own, OfSingle, OfChannel, OfRecord, OfZone, OfBitmap, OfNv
    <3>2. InBytes(r, "zones_ext", 48, Extent("zones_ext") - 48)
      BY <3>1, ZoneFits
    <3> QED
      BY <3>1, <3>2, MapFacts, SMT DEF OfBitmap, InBytes, Overlap
  <2>3. CASE p.kind = "zone" /\ q.kind = "zone_bitmap"
    <3>1. OfZone(p, s) /\ OfBitmap(q, r)
      BY <2>3, KindNames DEF Own, OfSingle, OfChannel, OfRecord, OfZone, OfBitmap, OfNv
    <3>2. InBytes(s, "zones_ext", 48, Extent("zones_ext") - 48)
      BY <3>1, ZoneFits
    <3> QED
      BY <3>1, <3>2, MapFacts, SMT DEF OfBitmap, InBytes, Overlap
  <2>4. q.kind = p.kind \/ {q.kind, p.kind} = {"zone", "zone_bitmap"}
    BY <1>1, SharedRegions
  <2> QED
    BY <2>1, <2>2, <2>3, <2>4
<1>2. CASE r.region # s.region
  <2>1. r.region \in RegionsOf(q.kind) /\ r.region \in Owned
        /\ InBytes(r, r.region, 0, Extent(r.region))
    BY OwnInside
  <2>2. s.region \in RegionsOf(p.kind) /\ s.region \in Owned
        /\ InBytes(s, s.region, 0, Extent(s.region))
    BY OwnInside
  <2>3. {r.region, s.region} # {"signalling_dtmf", "signalling_dtmf_durations"}
    <3>1. ASSUME NEW kind, NEW region \in RegionsOf(kind),
                 region \in {"signalling_dtmf", "signalling_dtmf_durations"}
          PROVE  kind = region
      <4>1. CASE kind \in DOMAIN RecordTables
        <5>1. RecordTables[kind].region \in {"contacts", "dtmf_contacts", "aprs_configs",
                "rx_group_lists", "vfo_channels", "quickkeys"}
          BY <4>1, TableFacts
        <5>2. kind \notin DOMAIN Singles
          BY <4>1, KindNames
        <5> QED
          BY <3>1, <4>1, <5>1, <5>2 DEF RegionsOf
      <4>2. CASE kind \notin DOMAIN RecordTables
        BY <3>1, <4>2 DEF RegionsOf
      <4> QED
        BY <4>1, <4>2
    <3>2. ~({q.kind, p.kind} = {"signalling_dtmf", "signalling_dtmf_durations"})
      BY DEF MayOverlap
    <3>3. SUFFICES ASSUME {r.region, s.region} = {"signalling_dtmf", "signalling_dtmf_durations"}
                   PROVE  FALSE
      OBVIOUS
    <3>4. q.kind = r.region
      BY <2>1, <3>1, <3>3
    <3>5. p.kind = s.region
      BY <2>2, <3>1, <3>3
    <3> QED
      BY <3>2, <3>3, <3>4, <3>5
  <2>4. \/ Start(r.region) + Extent(r.region) <= Start(s.region)
        \/ Start(s.region) + Extent(s.region) <= Start(r.region)
    BY <1>2, <2>1, <2>2, <2>3, RegionsApart
  <2> QED
    BY <2>1, <2>2, <2>4, ApartThenDisjoint
<1> QED
  BY <1>1, <1>2

-----------------------------------------------------------------------------
(* What is decoded.                                                         *)

\* The value of four nibbles.
LEMMA ValueOfFour ==
  ASSUME NEW a \in Int, NEW b \in Int, NEW c \in Int, NEW d \in Int, NEW base \in Int
  PROVE Value(<<a, b, c, d>>, base) = a + base * (b + base * (c + base * d))
<1> DEFINE n == <<a, b, c, d>>
           v4 == d + base * 0
           v3 == c + base * v4
           v2 == b + base * v3
           v1 == a + base * v2
           g == <<v1, v2, v3, v4, 0>>
           F(f) == [k \in 1..Len(n) + 1 |-> IF k > Len(n) THEN 0 ELSE n[k] + base * f[k + 1]]
           from == CHOOSE f : f = F(f)
<1>1. Len(n) = 4 /\ n[1] = a /\ n[2] = b /\ n[3] = c /\ n[4] = d
  OBVIOUS
<1>2. g = F(g)
  <2> HIDE DEF v1, v2, v3, v4, n
  <2>1. \A k \in 1..5 : g[k] = (IF k > 4 THEN 0 ELSE n[k] + base * g[k + 1])
    BY <1>1 DEF v1, v2, v3, v4
  <2> QED
    BY <1>1, <2>1
<1>3. from = F(from)
  <2> HIDE DEF F, g
  <2> QED
    BY <1>2
<1>4. from[1] = v1
  <2>1. from = [k \in 1..5 |-> IF k > 4 THEN 0 ELSE n[k] + base * from[k + 1]]
    BY <1>1, <1>3
  <2> HIDE DEF from, n
  <2>2. from[5] = 0
    BY <2>1
  <2>3. from[4] = v4
    BY <1>1, <2>1, <2>2
  <2>4. from[3] = v3
    BY <1>1, <2>1, <2>3
  <2>5. from[2] = v2
    BY <1>1, <2>1, <2>4
  <2> QED
    BY <1>1, <2>1, <2>5
<1>5. Value(n, base) = from[1]
  BY DEF Value
<1> QED
  BY <1>4, <1>5

\* The value of a word's nibbles, by Horner's rule.
LEMMA ValueOfEight ==
  ASSUME NEW n, Len(n) = 8, NEW v \in [1..9 -> Int], NEW base,
         v[9] = 0, \A k \in 1..8 : v[k] = n[k] + base * v[k + 1]
  PROVE Value(n, base) = v[1]
<1> DEFINE F(f) == [k \in 1..Len(n) + 1 |-> IF k > Len(n) THEN 0 ELSE n[k] + base * f[k + 1]]
           from == CHOOSE f : f = F(f)
<1>2. v = F(v)
  <2>1. \A k \in 1..9 : v[k] = (IF k > 8 THEN 0 ELSE n[k] + base * v[k + 1])
    OBVIOUS
  <2> QED
    BY <2>1
<1>3. from = F(from)
  <2> HIDE DEF F
  <2> QED
    BY <1>2
<1>4. from[1] = v[1]
  <2>1. from = [k \in 1..9 |-> IF k > 8 THEN 0 ELSE n[k] + base * from[k + 1]]
    BY <1>3
  <2> HIDE DEF from
  <2>2. \A k \in 1..8 : from[k] = n[k] + base * from[k + 1]
    BY <2>1
  <2>3. from[9] = v[9]
    BY <2>1
  <2>4. \A k \in 1..8 : from[k + 1] = v[k + 1] => from[k] = v[k]
    BY <2>2
  <2>5. from[8] = v[8]
    BY <2>3, <2>4
  <2>6. from[7] = v[7]
    BY <2>5, <2>4
  <2>7. from[6] = v[6]
    BY <2>6, <2>4
  <2>8. from[5] = v[5]
    BY <2>7, <2>4
  <2>9. from[4] = v[4]
    BY <2>8, <2>4
  <2>10. from[3] = v[3]
    BY <2>9, <2>4
  <2>11. from[2] = v[2]
    BY <2>10, <2>4
  <2> QED
    BY <2>11, <2>4
<1>5. Value(n, base) = from[1]
  BY DEF Value
<1> QED
  BY <1>4, <1>5

\* The nibbles of a byte after others.
LEMMA Joined ==
  ASSUME NEW s \in Seq(Int), NEW t \in Seq(Int), Len(t) = 2
  PROVE  /\ s \o t \in Seq(Int) /\ Len(s \o t) = Len(s) + 2
         /\ \A i \in 1..Len(s) : (s \o t)[i] = s[i]
         /\ (s \o t)[Len(s) + 1] = t[1] /\ (s \o t)[Len(s) + 2] = t[2]
<1>1. Len(s) \in Nat
  OBVIOUS
<1> DEFINE u == s \o t
           n == Len(s)
<1>2. /\ u \in Seq(Int) /\ Len(u) = n + Len(t)
      /\ \A i \in 1..n + Len(t) : u[i] = IF i <= n THEN s[i] ELSE t[i - n]
  BY ConcatProperties, Zenon
<1> HIDE DEF u
<1>3. \A i \in 1..n : u[i] = s[i]
  BY <1>1, <1>2
<1>4. ASSUME NEW m \in {1, 2}
      PROVE  u[n + m] = t[m]
  <2> DEFINE i == n + m
  <2>1. i \in 1..n + Len(t) /\ ~(i <= n) /\ i - n = m
    BY <1>1
  <2> HIDE DEF i
  <2>2. u[i] = t[i - n]
    BY <1>2, <2>1, Zenon
  <2>3. u[i] = t[m]
    BY <2>1, <2>2, Zenon
  <2> QED
    BY <2>3 DEF i
<1> QED
  BY <1>2, <1>3, <1>4 DEF u

\* A word's nibbles are its bytes', in turn.
LEMMA WordNibbles ==
  ASSUME NEW w, \A j \in 1..4 : w[j] \in Seq(Int) /\ Len(w[j]) = 2
  PROVE  /\ Len(Word(w)) = 8
         /\ Word(w)[1] = w[1][1] /\ Word(w)[2] = w[1][2] /\ Word(w)[3] = w[2][1] /\ Word(w)[4] = w[2][2]
         /\ Word(w)[5] = w[3][1] /\ Word(w)[6] = w[3][2] /\ Word(w)[7] = w[4][1] /\ Word(w)[8] = w[4][2]
<1> DEFINE p == w[1]
           q == w[2]
           r == w[3]
           s == w[4]
<1>2. /\ p \in Seq(Int) /\ Len(p) = 2 /\ q \in Seq(Int) /\ Len(q) = 2
      /\ r \in Seq(Int) /\ Len(r) = 2 /\ s \in Seq(Int) /\ Len(s) = 2
  OBVIOUS
<1>7. Word(w) = p \o q \o r \o s
  BY Zenon DEF Word
<1> HIDE DEF p, q, r, s
<1> DEFINE pq  == p \o q
           pqr == pq \o r
           all == pqr \o s
<1>4. pq \in Seq(Int) /\ Len(pq) = 4 /\ pq[1] = p[1] /\ pq[2] = p[2] /\ pq[3] = q[1] /\ pq[4] = q[2]
  <2>1. /\ pq \in Seq(Int) /\ Len(pq) = Len(p) + 2 /\ \A i \in 1..Len(p) : pq[i] = p[i]
        /\ pq[Len(p) + 1] = q[1] /\ pq[Len(p) + 2] = q[2]
    BY <1>2, Joined, Zenon
  <2> HIDE DEF pq
  <2> QED
    BY <1>2, <2>1
<1>5. /\ pqr \in Seq(Int) /\ Len(pqr) = 6 /\ pqr[5] = r[1] /\ pqr[6] = r[2]
      /\ \A i \in 1..4 : pqr[i] = pq[i]
  <2> HIDE DEF pq
  <2>1. /\ pqr \in Seq(Int) /\ Len(pqr) = Len(pq) + 2 /\ \A i \in 1..Len(pq) : pqr[i] = pq[i]
        /\ pqr[Len(pq) + 1] = r[1] /\ pqr[Len(pq) + 2] = r[2]
    BY <1>2, <1>4, Joined, Zenon
  <2> HIDE DEF pqr
  <2> QED
    BY <1>2, <1>4, <2>1
<1>6. Len(all) = 8 /\ all[7] = s[1] /\ all[8] = s[2] /\ \A i \in 1..6 : all[i] = pqr[i]
  <2> HIDE DEF pq, pqr
  <2>1. /\ Len(all) = Len(pqr) + 2 /\ \A i \in 1..Len(pqr) : all[i] = pqr[i]
        /\ all[Len(pqr) + 1] = s[1] /\ all[Len(pqr) + 2] = s[2]
    BY <1>2, <1>5, Joined, Zenon
  <2> HIDE DEF all
  <2> QED
    BY <1>2, <1>5, <2>1
<1>8. Word(w) = all
  BY <1>7
<1> HIDE DEF pq, pqr, all
<1> QED
  BY <1>4, <1>5, <1>6, <1>8 DEF p, q, r, s

\* The powers of ten.
LEMMA Powers ==
  /\ 10^0 = 1 /\ 10^1 = 10 /\ 10^2 = 100 /\ 10^3 = 1000 /\ 10^4 = 10000 /\ 10^5 = 100000 
  /\ 10^6 = 1000000 /\ 10^7 = 10000000 
  BY SMT

\* Each digit is what is left of the number before the next.
LEMMA Digits ==
  ASSUME NEW n \in Nat
  PROVE  /\ Digit(n, 0, 10) \in Int /\ n = Digit(n, 0, 10) + 10 * (n \div 10)
         /\ Digit(n, 1, 10) \in Int /\ n \div 10 = Digit(n, 1, 10) + 10 * (n \div 100)
         /\ Digit(n, 2, 10) \in Int /\ n \div 100 = Digit(n, 2, 10) + 10 * (n \div 1000)
         /\ Digit(n, 3, 10) \in Int /\ n \div 1000 = Digit(n, 3, 10) + 10 * (n \div 10000)
         /\ Digit(n, 4, 10) \in Int /\ n \div 10000 = Digit(n, 4, 10) + 10 * (n \div 100000)
         /\ Digit(n, 5, 10) \in Int /\ n \div 100000 = Digit(n, 5, 10) + 10 * (n \div 1000000)
         /\ Digit(n, 6, 10) \in Int /\ n \div 1000000 = Digit(n, 6, 10) + 10 * (n \div 10000000)
         /\ Digit(n, 7, 10) \in Int /\ n \div 10000000 = Digit(n, 7, 10) + 10 * (n \div 100000000)
<1>1. Digit(n, 0, 10) \in Int /\ n = Digit(n, 0, 10) + 10 * (n \div 10)
  <2>1. Digit(n, 0, 10) = n % 10
    BY Powers, SMT DEF Digit
  <2> QED
    BY <2>1, SMT
<1>2. Digit(n, 1, 10) \in Int /\ n \div 10 = Digit(n, 1, 10) + 10 * (n \div 100)
  <2>1. Digit(n, 1, 10) = (n \div 10) % 10
    BY Powers, SMT DEF Digit
  <2> QED
    BY <2>1, SMT
<1>3. Digit(n, 2, 10) \in Int /\ n \div 100 = Digit(n, 2, 10) + 10 * (n \div 1000)
  <2>1. Digit(n, 2, 10) = (n \div 100) % 10
    BY Powers, SMT DEF Digit
  <2> QED
    BY <2>1, SMT
<1>4. Digit(n, 3, 10) \in Int /\ n \div 1000 = Digit(n, 3, 10) + 10 * (n \div 10000)
  <2>1. Digit(n, 3, 10) = (n \div 1000) % 10
    BY Powers, SMT DEF Digit
  <2> QED
    BY <2>1, SMT
<1>5. Digit(n, 4, 10) \in Int /\ n \div 10000 = Digit(n, 4, 10) + 10 * (n \div 100000)
  <2>1. Digit(n, 4, 10) = (n \div 10000) % 10
    BY Powers, SMT DEF Digit
  <2> QED
    BY <2>1, SMT
<1>6. Digit(n, 5, 10) \in Int /\ n \div 100000 = Digit(n, 5, 10) + 10 * (n \div 1000000)
  <2>1. Digit(n, 5, 10) = (n \div 100000) % 10
    BY Powers, SMT DEF Digit
  <2> QED
    BY <2>1, SMT
<1>7. Digit(n, 6, 10) \in Int /\ n \div 1000000 = Digit(n, 6, 10) + 10 * (n \div 10000000)
  <2>1. Digit(n, 6, 10) = (n \div 1000000) % 10
    BY Powers, SMT DEF Digit
  <2> QED
    BY <2>1, SMT
<1>8. Digit(n, 7, 10) \in Int /\ n \div 10000000 = Digit(n, 7, 10) + 10 * (n \div 100000000)
  <2>1. Digit(n, 7, 10) = (n \div 10000000) % 10
    BY Powers, SMT DEF Digit
  <2> QED
    BY <2>1, SMT
<1> QED
  BY <1>1, <1>2, <1>3, <1>4, <1>5, <1>6, <1>7, <1>8, SMT

\* A number comes out of its word as it was stored.
LEMMA NumberBack ==
  ASSUME NEW n \in Numbers
  PROVE  cp_bcd_to_uint32(Word(Stored(n))) = n
<1> DEFINE w == Stored(n)
           v == <<n, n \div 10, n \div 100, n \div 1000, n \div 10000, n \div 100000,
                  n \div 1000000, n \div 10000000, 0>>
           d(k) == Digit(n, k, 10)
           x == Word(w)
<1>1. n \in Nat /\ n < 100000000
  BY SMT DEF Numbers
<1>2. n \div 1 = n /\ n \div 100000000 = 0
  BY <1>1, SMT
<1>3. /\ w[1] = <<d(0), d(1)>> /\ w[2] = <<d(2), d(3)>>
      /\ w[3] = <<d(4), d(5)>> /\ w[4] = <<d(6), d(7)>>
  BY SMT DEF Stored
<1>4. /\ v[1] = n /\ v[2] = n \div 10 /\ v[3] = n \div 100 /\ v[4] = n \div 1000
      /\ v[5] = n \div 10000 /\ v[6] = n \div 100000 /\ v[7] = n \div 1000000
      /\ v[8] = n \div 10000000 /\ v[9] = 0
  BY SMT
<1>5. /\ v[1] = d(0) + 10 * v[2] /\ v[2] = d(1) + 10 * v[3] /\ v[3] = d(2) + 10 * v[4]
      /\ v[4] = d(3) + 10 * v[5] /\ v[5] = d(4) + 10 * v[6] /\ v[6] = d(5) + 10 * v[7]
      /\ v[7] = d(6) + 10 * v[8] /\ v[8] = d(7) + 10 * v[9]
  <2>1. /\ n = d(0) + 10 * (n \div 10)
        /\ n \div 10 = d(1) + 10 * (n \div 100)
        /\ n \div 100 = d(2) + 10 * (n \div 1000)
        /\ n \div 1000 = d(3) + 10 * (n \div 10000)
        /\ n \div 10000 = d(4) + 10 * (n \div 100000)
        /\ n \div 100000 = d(5) + 10 * (n \div 1000000)
        /\ n \div 1000000 = d(6) + 10 * (n \div 10000000)
        /\ n \div 10000000 = d(7) + 10 * (n \div 100000000)
    BY <1>1, Digits, SMT
  <2>2. n \div 100000000 = 0
    BY <1>2
  <2> HIDE DEF v, d
  <2> QED
    BY <1>4, <2>1, <2>2, SMT
<1>6. v \in [1..9 -> Int] /\ v[9] = 0 /\ v[1] = n
  BY <1>1, SMT
<1>7. /\ d(0) \in Int /\ d(1) \in Int /\ d(2) \in Int /\ d(3) \in Int
      /\ d(4) \in Int /\ d(5) \in Int /\ d(6) \in Int /\ d(7) \in Int
  BY <1>1, Digits, SMT
<1> HIDE DEF w, d, v
<1>11. \A j \in 1..4 : w[j] \in Seq(Int) /\ Len(w[j]) = 2
  <2>1. ASSUME NEW a \in Int, NEW b \in Int
        PROVE  <<a, b>> \in Seq(Int) /\ Len(<<a, b>>) = 2
    OBVIOUS
  <2>2. /\ w[1] \in Seq(Int) /\ Len(w[1]) = 2 /\ w[2] \in Seq(Int) /\ Len(w[2]) = 2
        /\ w[3] \in Seq(Int) /\ Len(w[3]) = 2 /\ w[4] \in Seq(Int) /\ Len(w[4]) = 2
    BY <1>3, <1>7, <2>1, Zenon
  <2> QED
    BY <2>2
<1>12. /\ w[1][1] = d(0) /\ w[1][2] = d(1) /\ w[2][1] = d(2) /\ w[2][2] = d(3)
       /\ w[3][1] = d(4) /\ w[3][2] = d(5) /\ w[4][1] = d(6) /\ w[4][2] = d(7)
  BY <1>3
<1>8. /\ Len(x) = 8 /\ x[1] = d(0) /\ x[2] = d(1) /\ x[3] = d(2) /\ x[4] = d(3)
      /\ x[5] = d(4) /\ x[6] = d(5) /\ x[7] = d(6) /\ x[8] = d(7)
  BY <1>11, <1>12, WordNibbles, Zenon
<1> HIDE DEF x
<1>9. \A k \in 1..8 : v[k] = x[k] + 10 * v[k + 1]
  BY <1>5, <1>8, SMT
<1>10. Value(x, 10) = v[1]
  BY <1>6, <1>8, <1>9, ValueOfEight
<1> QED
  BY <1>6, <1>10 DEF cp_bcd_to_uint32, x, w

\* The big-endian word, swapped, is the little-endian one.
LEMMA SwappedBack ==
  ASSUME NEW n
  PROVE  cp_byteswap32(StoredBigEnd(n)) = Stored(n)
<1> DEFINE s == Stored(n)
<1>1. s = [j \in 1..4 |-> s[j]]
  BY SMT DEF Stored
<1> HIDE DEF s
<1>2. cp_byteswap32([j \in 1..4 |-> s[5 - j]]) = s
  BY <1>1, SMT DEF cp_byteswap32
<1> QED
  BY <1>2, SMT DEF s, StoredBigEnd

\* A tone comes back, in digits, in octal digits or as none.
LEMMA ToneBack ==
  ASSUME NEW t \in ToneValues
  PROVE  codeplug_decode_css(StoredTone(t)) = t
<1> DEFINE v == t.value
<1>1. CASE t \in [type : {"none"}, value : {0}, inverted : {FALSE}]
  <2>1. t = Tone("none", 0, FALSE)
    BY <1>1 DEF Tone
  <2>2. StoredTone(t) = <<15, 15, 15, 15>>
    BY <1>1 DEF StoredTone
  <2> QED
    BY <2>1, <2>2 DEF codeplug_decode_css
<1>2. CASE t \in [type : {"CTCSS"}, value : CtcssValues, inverted : {FALSE}]
  <2> DEFINE a == v % 10
             b == (v \div 10) % 10
             c == (v \div 100) % 10
             d == (v \div 1000) % 10
             raw == <<a, b, c, d>>
  <2>8. t.type = "CTCSS" /\ v \in CtcssValues /\ t.inverted = FALSE
    BY <1>2
  <2>9. t = [type |-> t.type, value |-> t.value, inverted |-> t.inverted]
    BY <1>2
  <2>1. v \in Nat /\ v > 0 /\ v < 4000 /\ t.type = "CTCSS" /\ t = Tone("CTCSS", v, t.inverted)
    BY <2>8, <2>9 DEF CtcssValues, Tone
  <2>2. a \in 0..9 /\ b \in 0..9 /\ c \in 0..9 /\ d \in 0..3 /\ v = a + 10 * (b + 10 * (c + 10 * d))
    <3> HIDE DEF v
    <3>1. v = a + 10 * (v \div 10) /\ a \in 0..9
      BY <2>1, SMT
    <3>2. v \div 10 = b + 10 * (v \div 100) /\ b \in 0..9
      BY <2>1, SMT
    <3>3. v \div 100 = c + 10 * (v \div 1000) /\ c \in 0..9
      BY <2>1, SMT
    <3>4. v \div 1000 = d /\ d \in 0..3
      BY <2>1, SMT
    <3> QED
      BY <2>1, <3>1, <3>2, <3>3, <3>4
  <2>3. StoredTone(t) = raw
    <3>1. /\ Digit(v, 0, 10) = a /\ Digit(v, 1, 10) = b /\ Digit(v, 2, 10) = c
          /\ Digit(v, 3, 10) = d
      <4>1. 10 ^ 0 = 1 /\ 10 ^ 1 = 10 /\ 10 ^ 2 = 100 /\ 10 ^ 3 = 1000
        BY SMT
      <4>2. v \div 1 = v
        BY <2>1
      <4> HIDE DEF v
      <4> QED
        BY <4>1, <4>2, SMT DEF Digit
    <3>2. StoredTone(t) = [k \in 1..4 |-> Digit(v, k - 1, 10)]
      BY <2>1 DEF StoredTone
    <3> HIDE DEF a, b, c, d, v
    <3> QED
      BY <3>1, <3>2
  <2> HIDE DEF a, b, c, d, v
  <2>4. raw # <<0, 0, 0, 0>> /\ raw # <<15, 15, 15, 15>> /\ raw[4] = d
    BY <2>1, <2>2
  <2>5. Value(raw, 10) = v
    BY <2>2, ValueOfFour
  <2> HIDE DEF raw
  <2>6. raw \notin {<<0, 0, 0, 0>>, <<15, 15, 15, 15>>} /\ raw[4] < 4
    BY <2>2, <2>4
  <2>7. codeplug_decode_css(raw) = Tone("CTCSS", v, FALSE)
    BY <2>5, <2>6 DEF codeplug_decode_css, cp_bcd_to_uint32
  <2>10. Tone("CTCSS", v, FALSE) = Tone("CTCSS", v, t.inverted)
    BY <2>8 DEF Tone
  <2>11. codeplug_decode_css(StoredTone(t)) = codeplug_decode_css(raw)
    BY <2>3, Zenon
  <2>12. codeplug_decode_css(raw) = Tone("CTCSS", v, t.inverted)
    BY <2>7, <2>10, Zenon
  <2>13. t = Tone("CTCSS", v, t.inverted)
    BY <2>1
  <2> QED
    BY <2>11, <2>12, <2>13, SMT

<1>3. CASE t \in [type : {"DCS"}, value : DcsValues, inverted : BOOLEAN]
  <2> DEFINE a == v % 8
             b == (v \div 8) % 8
             c == (v \div 64) % 8
             d == IF t.inverted THEN 12 ELSE 8
             raw == <<a, b, c, d>>
  <2>0. 8 ^ 0 = 1 /\ 8 ^ 1 = 8 /\ 8 ^ 2 = 64 /\ 8 ^ 3 = 512
    BY SMT
  <2>1. v \in Nat /\ v < 512 /\ t.type = "DCS" /\ t.inverted \in BOOLEAN
        /\ t = Tone("DCS", v, t.inverted)
    BY <1>3, <2>0 DEF Tone, DcsValues
  <2>2. a \in 0..7 /\ b \in 0..7 /\ c \in 0..7 /\ v = a + 8 * (b + 8 * (c + 8 * 0))
    <3> HIDE DEF v
    <3>1. v = a + 8 * (v \div 8) /\ a \in 0..7
      BY <2>1, SMT
    <3>2. v \div 8 = b + 8 * (v \div 64) /\ b \in 0..7
      BY <2>1, SMT
    <3>3. v \div 64 = c /\ c \in 0..7
      BY <2>1, SMT
    <3> QED
      BY <2>1, <3>1, <3>2, <3>3
  <2>3. StoredTone(t) = raw
    <3>1. Digit(v, 0, 8) = a /\ Digit(v, 1, 8) = b /\ Digit(v, 2, 8) = c
      <4>2. v \div 1 = v
        BY <2>1
      <4> HIDE DEF v
      <4> QED
        BY <2>0, <4>2, SMT DEF Digit
    <3>2. StoredTone(t) = [k \in 1..4 |-> IF k = 4 THEN d ELSE Digit(v, k - 1, 8)]
      BY <2>1 DEF StoredTone
    <3> HIDE DEF a, b, c, d, v
    <3> QED
      BY <3>1, <3>2
  <2>4. /\ d \in Int /\ ~(d < 4) /\ d # 15 /\ d # 0 /\ d % 4 = 0
        /\ ((d \div 4) % 2 = 1) <=> t.inverted
    <3>1. CASE t.inverted
      BY <3>1, SMT
    <3>2. CASE ~t.inverted
      BY <3>2, SMT
    <3> QED
      BY <3>1, <3>2
  <2> HIDE DEF a, b, c, d, v
  <2>5. raw # <<0, 0, 0, 0>> /\ raw # <<15, 15, 15, 15>> /\ raw[4] = d
    BY <2>4
  <2>6. [raw EXCEPT ![4] = @ % 4] = <<a, b, c, 0>>
    BY <2>4
  <2>7. Value([raw EXCEPT ![4] = @ % 4], 8) = v
    BY <2>2, <2>6, ValueOfFour
  <2> HIDE DEF raw
  <2>8. codeplug_decode_css(raw) = Tone("DCS", v, (raw[4] \div 4) % 2 = 1)
    BY <2>4, <2>5, <2>7 DEF codeplug_decode_css
  <2>9. Tone("DCS", v, (d \div 4) % 2 = 1) = Tone("DCS", v, t.inverted)
    BY <2>1, <2>4 DEF Tone
  <2> QED
    BY <2>1, <2>3, <2>5, <2>8, <2>9
<1>4. \/ t \in [type : {"none"}, value : {0}, inverted : {FALSE}]
      \/ t \in [type : {"CTCSS"}, value : CtcssValues, inverted : {FALSE}]
      \/ t \in [type : {"DCS"}, value : DcsValues, inverted : BOOLEAN]
  BY Zenon DEF ToneValues
<1> QED
  BY <1>1, <1>2, <1>3, <1>4, Zenon

-----------------------------------------------------------------------------
(* The invariant.                                                           *)

\* What a request is, as far as it has read and how a dump goes on.
Sound(q) ==
  /\ q.ret \in {"0", "EIO", "EINVAL", "ENOTSUP", "ENODEV"}
  /\ q.ret # "0" => q.reads = {}
  /\ \A r \in q.reads : Own(q, r) \/ (q.kind = "dump" /\ Inside(r))
  /\ q.kind = "dump" /\ q.ret = "0" => q.value.region \in Dumped /\ q.index \in Nat

\* The values it has, as they were stored.
Decoded(q) ==
  q.ret = "0" =>
    /\ q.kind \in {"channel", "vfo_channel"} =>
         q.value.freq = image.number * 10 /\ q.value.tone = image.tone
    /\ q.kind = "contact" => q.value = [tgNumber |-> image.number]

ImageInv == image \in Images \cup {NotReady} /\ Sound(request) /\ Sound(earlier) /\ Decoded(request)

\* A request is a record of what was answered.
Request(kind, index, ret, reads, value) ==
  [kind |-> kind, index |-> index, ret |-> ret, reads |-> reads, value |-> value]

\* An answer that is sound keeps the invariant.
LEMMA AnswerKeeps ==
  ASSUME ImageInv, NEW kind, NEW index, NEW ret, NEW reads, NEW value,
         Answer(kind, index, ret, reads, value),
         Sound(Request(kind, index, ret, reads, value)),
         Decoded(Request(kind, index, ret, reads, value))
  PROVE  ImageInv'
<1>1. request' = Request(kind, index, ret, reads, value) /\ image' = image
      /\ (earlier' = request \/ earlier' = earlier)
  BY DEF Answer, Request
<1>2. Sound(request)' /\ Sound(earlier)'
  <2>1. Sound(request') /\ Sound(earlier')
    BY <1>1 DEF ImageInv
  <2> QED
    BY <2>1 DEF Sound
<1>3. Decoded(request)'
  <2> DEFINE q == Request(kind, index, ret, reads, value)
  <2>1. Decoded(q) /\ request' = q /\ image' = image
    BY <1>1
  <2> HIDE DEF q
  <2> QED
    BY <2>1 DEF Decoded
<1> QED
  BY <1>1, <1>2, <1>3 DEF ImageInv

\* So does one that failed.
LEMMA FailsKeeps ==
  ASSUME ImageInv, NEW kind, NEW ret \in {"EIO", "EINVAL", "ENOTSUP", "ENODEV"}, Fails(kind, ret)
  PROVE  ImageInv'
<1> DEFINE q == Request(kind, 0, ret, {}, NoValue)
<1>1. q.ret = ret /\ q.reads = {} /\ ret # "0"
  BY DEF Request
<1>2. Sound(q) /\ Decoded(q)
  BY <1>1 DEF Sound, Decoded
<1> HIDE DEF q
<1> QED
  BY <1>2, AnswerKeeps DEF Fails, q

\* A read of the flash fails, or its bytes are of the record asked for.
LEMMA AnswerReadKeeps ==
  ASSUME ImageInv, NEW kind, NEW index, NEW read, NEW value,
         AnswerRead(kind, index, read, value),
         image \in Images =>
           Sound(Request(kind, index, "0", {read}, value))
           /\ Decoded(Request(kind, index, "0", {read}, value))
  PROVE  ImageInv'
<1>1. CASE FlashFails(kind)
  BY <1>1, FailsKeeps DEF FlashFails
<1>2. CASE image # NotReady /\ Answer(kind, index, "0", {read}, value)
  <2>1. image \in Images
    BY <1>2 DEF ImageInv
  <2> QED
    BY <1>2, <2>1, AnswerKeeps
<1> QED
  BY <1>1, <1>2 DEF AnswerRead

\* The map's regions have bytes.
LEMMA MapTypes ==
  ASSUME NEW region \in DOMAIN codeplug_map
  PROVE  Start(region) \in Nat /\ Extent(region) \in Nat /\ Extent(region) > 0
  BY SMT DEF Start, Extent, codeplug_map

\* A read is of its bytes, and of those around.
LEMMA ReadInBytes ==
  ASSUME NEW region, Start(region) \in Nat, NEW at \in Int, NEW len \in Nat, len > 0
  PROVE  /\ InBytes(Read(region, at, len), region, at, len)
         /\ \A base \in Int, size \in Int :
              base <= at /\ at + len <= base + size => InBytes(Read(region, at, len), region, base, size)
  BY DEF InBytes, Read, Start

\* A single read that is of its record, of a kind that is no dump, is sound.
LEMMA OwnSound ==
  ASSUME NEW kind, NEW index, NEW reads, NEW value, kind # "dump",
         \A r \in reads : Own(Request(kind, index, "0", reads, value), r)
  PROVE  Sound(Request(kind, index, "0", reads, value))
<1> DEFINE q == Request(kind, index, "0", reads, value)
<1>1. q.kind = kind /\ q.ret = "0" /\ q.reads = reads
  BY DEF Request
<1>2. \A r \in reads : Own(q, r)
  OBVIOUS
<1> HIDE DEF q
<1>3. Sound(q)
  BY <1>1, <1>2 DEF Sound
<1> QED
  BY <1>3 DEF q

\* The fields of a request.
LEMMA RequestFields ==
  ASSUME NEW kind, NEW index, NEW ret, NEW reads, NEW value
  PROVE  LET q == Request(kind, index, ret, reads, value)
         IN  q.kind = kind /\ q.index = index /\ q.ret = ret /\ q.reads = reads /\ q.value = value
  BY DEF Request

\* The channel of an image.
LEMMA ChannelBack ==
  ASSUME image \in Images
  PROVE  DecodedChannel.freq = image.number * 10 /\ DecodedChannel.tone = image.tone
<1>1. image.number \in Numbers /\ image.tone \in ToneValues
  BY ImageAssumption
<1>2. /\ cp_bcd_to_uint32(Word(Stored(image.number))) = image.number
      /\ codeplug_decode_css(StoredTone(image.tone)) = image.tone
  BY <1>1, NumberBack, ToneBack, Zenon
<1> QED
  BY <1>2, Zenon DEF DecodedChannel

\* Its contact.
LEMMA ContactBack ==
  ASSUME image \in Images
  PROVE  DecodedContact = [tgNumber |-> image.number]
<1>1. image.number \in Numbers
  BY ImageAssumption
<1>2. cp_bcd_to_uint32(Word(cp_byteswap32(StoredBigEnd(image.number)))) = image.number
  BY <1>1, NumberBack, SwappedBack, Zenon
<1> QED
  BY <1>2, Zenon DEF DecodedContact

\* The structs of one region keep the invariant.
LEMMA SingleKeeps ==
  ASSUME ImageInv, NEW kind \in DOMAIN Singles, GetSingle(kind)
  PROVE  ImageInv'
<1> DEFINE r == Read(kind, 0, Singles[kind])
           q == Request(kind, 0, "0", {r}, NoValue)
<1>1. Singles[kind] \in Nat /\ Singles[kind] > 0 /\ Start(kind) \in Nat
  <2>1. /\ Singles["device_info"] = 96 /\ Singles["general_settings"] = 40
        /\ Singles["signalling_dtmf"] = 120 /\ Singles["signalling_dtmf_durations"] = 5
        /\ Singles["calibration"] = 512
    BY DEF Singles
  <2> QED
    BY <2>1, KindNames, MapFacts, SMT
<1>2. InBytes(r, kind, 0, Singles[kind])
  BY <1>1, ReadInBytes
<1>3. q.kind = kind /\ q.index = 0
  BY RequestFields
<1>4. OfSingle(q, r)
  <2> HIDE DEF q, r
  <2> QED
    BY <1>2, <1>3 DEF OfSingle
<1>5. kind \notin {"dump", "channel", "vfo_channel", "contact"}
  BY KindNames
<1>6. Sound(q)
  BY <1>4, <1>5, OwnSound DEF Own
<1>7. Decoded(q)
  <2> HIDE DEF q
  <2> QED
    BY <1>3, <1>5 DEF Decoded
<1> QED
  BY <1>6, <1>7, AnswerReadKeeps DEF GetSingle

\* So does a channel, which is decoded.
LEMMA ChannelKeeps ==
  ASSUME ImageInv, NEW index, codeplug_get_channel(index)
  PROVE  ImageInv'
<1>1. CASE index \notin 1..1024
  BY <1>1, FailsKeeps DEF codeplug_get_channel
<1>2. CASE index \in 1..1024
  <2> DEFINE r == ChannelRead(index)
             q == Request("channel", index, "0", {r}, DecodedChannel)
  <2>1. q.kind = "channel" /\ q.index = index /\ q.value = DecodedChannel
    BY RequestFields
  <2>2. OfChannel(q, r)
    <3> HIDE DEF q
    <3> QED
      BY <1>2, <2>1 DEF OfChannel
  <2>3. Sound(q)
    BY <2>2, OwnSound DEF Own
  <2>4. image \in Images => Decoded(q)
    <3> HIDE DEF q
    <3> QED
      BY <2>1, ChannelBack DEF Decoded
  <2> QED
    BY <1>2, <2>3, <2>4, AnswerReadKeeps DEF codeplug_get_channel
<1> QED
  BY <1>1, <1>2

\* So does a record of a table; two kinds are decoded.
LEMMA RecordKeeps ==
  ASSUME ImageInv, NEW kind \in DOMAIN RecordTables, NEW index, GetRecord(kind, index)
  PROVE  ImageInv'
<1> DEFINE t == RecordTables[kind]
<1>1. CASE index \notin t.first..t.last
  BY <1>1, FailsKeeps DEF GetRecord
<1>2. CASE index \in t.first..t.last
  <2> DEFINE at == t.head + (index - t.first) * t.size
             r == Read(t.region, at, t.size)
             q == Request(kind, index, "0", {r}, DecodedRecord(kind))
  <2>1. q.kind = kind /\ q.index = index /\ q.value = DecodedRecord(kind)
    BY RequestFields
  <2>2. /\ t.head \in Nat /\ t.first \in Nat /\ t.size \in Nat /\ t.size > 0
        /\ Start(t.region) \in Nat
    <3>1. /\ t.head \in Nat /\ t.first \in {0, 1} /\ t.size \in {24, 32, 64, 80, 56, 2}
          /\ t.region \in {"contacts", "dtmf_contacts", "aprs_configs", "rx_group_lists",
                           "vfo_channels", "quickkeys"}
      BY TableFacts
    <3> HIDE DEF t
    <3> QED
      BY <3>1, MapFacts, SMT
  <2>3. at \in Int
    <3>1. t.last \in Nat
      BY TableFacts
    <3> HIDE DEF t
    <3>2. index - t.first \in Int
      BY <1>2, <2>2, <3>1
    <3> QED
      BY <2>2, <3>2
  <2>4. InBytes(r, t.region, at, t.size)
    <3> HIDE DEF at, t
    <3> QED
      BY <2>2, <2>3, ReadInBytes
  <2>5. OfRecord(q, r)
    <3> HIDE DEF q, r
    <3> QED
      BY <1>2, <2>1, <2>4 DEF OfRecord
  <2>6. Sound(q)
    <3>1. kind # "dump"
      BY KindNames
    <3>2. Own(q, r)
      BY <2>5 DEF Own
    <3> HIDE DEF r, t, at
    <3> QED
      BY <3>1, <3>2, OwnSound
  <2>7. image \in Images => Decoded(q)
    <3>1. kind # "channel"
      BY KindNames
    <3> HIDE DEF q
    <3> QED
      BY <2>1, <3>1, ChannelBack, ContactBack DEF Decoded, DecodedRecord
  <2>8. AnswerRead(kind, index, r, DecodedRecord(kind))
    BY <1>2 DEF GetRecord
  <2> HIDE DEF r
  <2> QED
    BY <2>6, <2>7, <2>8, AnswerReadKeeps
<1> QED
  BY <1>1, <1>2

\* So does a zone, in either format, and with a probe that failed.
LEMMA ZoneKeeps ==
  ASSUME ImageInv, NEW index, codeplug_get_zone(index)
  PROVE  ImageInv'
<1>1. CASE index \notin 0..67
  BY <1>1, FailsKeeps DEF codeplug_get_zone
<1>2. CASE FlashFails("zone")
  BY <1>2, FailsKeeps DEF FlashFails
<1>3. ASSUME index \in 0..67, NEW modern,
             Answer("zone", index, "0", ZoneReads(modern, index),
                    [channels_per_zone |-> IF modern THEN 80 ELSE 16])
      PROVE  ImageInv'
  <2>1. CASE modern
    <3> DEFINE q == Request("zone", index, "0", ZoneReads(modern, index), [channels_per_zone |-> 80])
    <3>1. q.kind = "zone" /\ q.index = index /\ q.value = [channels_per_zone |-> 80]
      BY RequestFields
    <3>2. ZoneReads(modern, index) = {Read("zones_ext", 48 + index * 176, 16),
                                      Read("zones_ext", 48 + index * 176 + 16, 160)}
      BY <2>1, SMT DEF ZoneReads
    <3>3. /\ InBytes(Read("zones_ext", 48 + index * 176, 16), "zones_ext", 48 + index * 176, 176)
          /\ InBytes(Read("zones_ext", 48 + index * 176 + 16, 160), "zones_ext", 48 + index * 176, 176)
      <4> DEFINE at == 48 + index * 176
      <4>1. at \in Int /\ Start("zones_ext") \in Nat
        BY <1>3, MapFacts, SMT
      <4> HIDE DEF at
      <4>2. InBytes(Read("zones_ext", at, 16), "zones_ext", at, 176)
        BY <4>1, ReadInBytes
      <4>3. InBytes(Read("zones_ext", at + 16, 160), "zones_ext", at, 176)
        BY <4>1, ReadInBytes
      <4> QED
        BY <4>2, <4>3 DEF at
    <3>4. \A r \in ZoneReads(modern, index) : Own(q, r)
      <4> HIDE DEF q
      <4> QED
        BY <1>3, <3>1, <3>2, <3>3 DEF Own, OfZone, ZoneOf
    <3>5. Sound(q)
      BY <3>4, OwnSound
    <3>6. Decoded(q)
      <4> HIDE DEF q
      <4> QED
        BY <3>1 DEF Decoded
    <3> QED
      BY <1>3, <2>1, <3>5, <3>6, AnswerKeeps
  <2>2. CASE ~modern
    <3> DEFINE q == Request("zone", index, "0", ZoneReads(modern, index), [channels_per_zone |-> 16])
    <3>1. q.kind = "zone" /\ q.index = index /\ q.value = [channels_per_zone |-> 16]
      BY RequestFields
    <3>2. ZoneReads(modern, index) = {Read("zones_ext", 48 + index * 48, 16),
                                      Read("zones_ext", 48 + index * 48 + 16, 32)}
      BY <2>2, SMT DEF ZoneReads
    <3>3. /\ InBytes(Read("zones_ext", 48 + index * 48, 16), "zones_ext", 48 + index * 48, 48)
          /\ InBytes(Read("zones_ext", 48 + index * 48 + 16, 32), "zones_ext", 48 + index * 48, 48)
      <4> DEFINE at == 48 + index * 48
      <4>1. at \in Int /\ Start("zones_ext") \in Nat
        BY <1>3, MapFacts, SMT
      <4> HIDE DEF at
      <4>2. InBytes(Read("zones_ext", at, 16), "zones_ext", at, 48)
        BY <4>1, ReadInBytes
      <4>3. InBytes(Read("zones_ext", at + 16, 32), "zones_ext", at, 48)
        BY <4>1, ReadInBytes
      <4> QED
        BY <4>2, <4>3 DEF at
    <3>4. \A r \in ZoneReads(modern, index) : Own(q, r)
      <4> HIDE DEF q
      <4> QED
        BY <1>3, <3>1, <3>2, <3>3 DEF Own, OfZone, ZoneOf
    <3>5. Sound(q)
      BY <3>4, OwnSound
    <3>6. Decoded(q)
      <4> HIDE DEF q
      <4> QED
        BY <3>1 DEF Decoded
    <3> QED
      BY <1>3, <2>2, <3>5, <3>6, AnswerKeeps
  <2> QED
    BY <2>1, <2>2
<1> QED
  BY <1>1, <1>2, <1>3 DEF codeplug_get_zone

\* So do the zones' bitmap and the settings, whatever the size of the caller's buffer.
LEMMA BytesKeep ==
  ASSUME ImageInv,
         codeplug_get_zone_inuse_bitmap \/ \E n \in NvLengths : codeplug_get_nv_settings_raw(n)
  PROVE  ImageInv'
<1>1. CASE codeplug_get_zone_inuse_bitmap
  <2> DEFINE r == Read("zones_ext", 16, 32)
             q == Request("zone_bitmap", 0, "0", {r}, NoValue)
  <2>1. q.kind = "zone_bitmap" /\ q.index = 0
    BY RequestFields
  <2>2. InBytes(r, "zones_ext", 16, 32)
    BY MapFacts, ReadInBytes
  <2>3. Own(q, r)
    <3> HIDE DEF q, r
    <3> QED
      BY <2>1, <2>2 DEF Own, OfBitmap
  <2>4. Sound(q)
    BY <2>3, OwnSound
  <2>5. Decoded(q)
    <3> HIDE DEF q
    <3> QED
      BY <2>1 DEF Decoded
  <2>6. AnswerRead("zone_bitmap", 0, r, NoValue)
    BY <1>1 DEF codeplug_get_zone_inuse_bitmap
  <2> QED
    BY <2>4, <2>5, <2>6, AnswerReadKeeps
<1>2. ASSUME NEW len \in NvLengths, codeplug_get_nv_settings_raw(len)
      PROVE  ImageInv'
  <2> DEFINE size == codeplug_map["nv_settings"][2]
             n == IF len < size THEN len ELSE size
             magic == IF n < 4 THEN {Read("nv_settings", 0, 4)} ELSE {}
             reads == {Read("nv_settings", 0, n)} \cup magic
             q == Request("nv_settings", 0, "0", reads, NoValue)
  <2>1. q.kind = "nv_settings" /\ q.index = 0
    BY RequestFields
  <2>2. size = 256 /\ Start("nv_settings") \in Nat
    BY MapFacts DEF Extent
  <2>3. n \in Nat /\ 0 < n /\ n <= 256
    <3>1. len \in Nat /\ len > 0
      BY <1>2, ImageAssumption
    <3> HIDE DEF size
    <3> QED
      BY <2>2, <3>1
  <2> HIDE DEF n, size
  <2>4. /\ InBytes(Read("nv_settings", 0, n), "nv_settings", 0, 256)
        /\ InBytes(Read("nv_settings", 0, 4), "nv_settings", 0, 256)
    BY <2>2, <2>3, ReadInBytes
  <2>5. \A r \in reads : InBytes(r, "nv_settings", 0, 256)
    BY <2>4
  <2> HIDE DEF reads
  <2>6. \A r \in reads : Own(q, r)
    <3> HIDE DEF q
    <3> QED
      BY <2>1, <2>5 DEF Own, OfNv
  <2>7. Sound(q)
    BY <2>6, OwnSound
  <2>8. Decoded(q)
    <3> HIDE DEF q
    <3> QED
      BY <2>1 DEF Decoded
  <2>9. CASE Answer("nv_settings", 0, "0", reads, NoValue)
    BY <2>7, <2>8, <2>9, AnswerKeeps
  <2>10. CASE FlashFails("nv_settings")
    BY <2>10, FailsKeeps DEF FlashFails
  <2> QED
    BY <1>2, <2>9, <2>10 DEF codeplug_get_nv_settings_raw, reads, n, size
<1> QED
  BY <1>1, <1>2

\* So does a chunk of a dump within its region.
LEMMA ChunkKeeps ==
  ASSUME ImageInv, NEW region \in Dumped, NEW at \in Nat, at < Extent(region), DumpChunk(region, at)
  PROVE  ImageInv'
<1> DEFINE left == Extent(region) - at
           n == IF left < 16 THEN left ELSE 16
           r == Read(region, at, n)
           q == Request("dump", at + n, "0", {r}, [region |-> region])
<1>1. Start(region) \in Nat /\ Extent(region) \in Nat
  BY ImageAssumption, MapTypes
<1>2. n \in Nat /\ n > 0 /\ at + n <= Extent(region)
  BY <1>1
<1>3. AnswerRead("dump", at + n, r, [region |-> region])
  BY DEF DumpChunk, Extent
<1> HIDE DEF n
<1>4. InBytes(r, region, at, n)
  BY <1>1, <1>2, ReadInBytes
<1>5. Inside(r)
  <2> HIDE DEF r
  <2> QED
    BY <1>1, <1>2, <1>4 DEF InBytes, Inside
<1>6. q.kind = "dump" /\ q.index = at + n /\ q.ret = "0" /\ q.reads = {r}
      /\ q.value = [region |-> region]
  BY RequestFields
<1>7. q.value.region = region /\ at + n \in Nat
  <2> HIDE DEF q
  <2> QED
    BY <1>2, <1>6
<1> HIDE DEF r
<1>8. Sound(q) /\ Decoded(q)
  <2> HIDE DEF q
  <2> QED
    BY <1>5, <1>6, <1>7 DEF Sound, Decoded
<1> QED
  BY <1>3, <1>8, AnswerReadKeeps

\* Initially nothing was asked for.
LEMMA ImageInvInit == ImageInit => ImageInv
<1> SUFFICES ASSUME ImageInit PROVE ImageInv
  OBVIOUS
<1>1. NoRequest.kind = "none" /\ NoRequest.ret = "0" /\ NoRequest.reads = {}
  BY DEF NoRequest
<1> QED
  BY <1>1 DEF ImageInit, ImageInv, Sound, Decoded

\* Every step keeps the invariant.
LEMMA ImageInvNext == ImageInv /\ [ImageNext]_imageVars => ImageInv'
<1> SUFFICES ASSUME ImageInv, [ImageNext]_imageVars
             PROVE  ImageInv'
  OBVIOUS
<1>1. CASE FlashReady
  <2>1. image' \in Images /\ request' = request /\ earlier' = earlier /\ request.kind = "none"
    BY <1>1 DEF FlashReady, NoRequest
  <2> QED
    BY <2>1 DEF ImageInv, Sound, Decoded
<1>2. ASSUME NEW kind \in DOMAIN Singles, GetSingle(kind)
      PROVE  ImageInv'
  BY <1>2, SingleKeeps
<1>3. ASSUME NEW index \in Indices, codeplug_get_channel(index)
      PROVE  ImageInv'
  BY <1>3, ChannelKeeps
<1>4. ASSUME NEW index \in Indices, NEW kind \in DOMAIN RecordTables, GetRecord(kind, index)
      PROVE  ImageInv'
  BY <1>4, RecordKeeps
<1>5. ASSUME NEW index \in Indices, codeplug_get_zone(index)
      PROVE  ImageInv'
  BY <1>5, ZoneKeeps
<1>6. CASE codeplug_get_zone_inuse_bitmap \/ \E n \in NvLengths : codeplug_get_nv_settings_raw(n)
  BY <1>6, BytesKeep
<1>7. CASE codeplug_set_nv_settings
  BY <1>7, FailsKeeps DEF codeplug_set_nv_settings
<1>8. CASE DumpBegins
  <2>1. PICK region \in Dumped : DumpChunk(region, 0)
    BY <1>8 DEF DumpBegins
  <2>2. 0 < Extent(region)
    BY ImageAssumption, MapTypes
  <2> QED
    BY <2>1, <2>2, ChunkKeeps
<1>9. CASE DumpGoesOn
  <2>1. request.value.region \in Dumped /\ request.index \in Nat
    BY <1>9 DEF DumpGoesOn, ImageInv, Sound
  <2>2. request.index < Extent(request.value.region)
        /\ DumpChunk(request.value.region, request.index)
    BY <1>9 DEF DumpGoesOn, Extent
  <2> QED
    BY <2>1, <2>2, ChunkKeeps
<1>10. CASE UNCHANGED imageVars
  BY <1>10 DEF ImageInv, Sound, Decoded, imageVars
<1> QED
  BY <1>1, <1>2, <1>3, <1>4, <1>5, <1>6, <1>7, <1>8, <1>9, <1>10 DEF ImageNext

\* What the property says of a request follows.
LEMMA ImageInvReads == ImageInv => RecordsRead
<1> SUFFICES ASSUME ImageInv PROVE RecordsRead
  OBVIOUS
<1>1. ImageTypeOK
  BY DEF ImageInv, Sound, ImageTypeOK
<1>2. ReadsStayInside
  <2> SUFFICES ASSUME NEW r \in request.reads
               PROVE  Inside(r)
    BY DEF ReadsStayInside, Inside, Start, Extent
  <2>1. CASE Own(request, r)
    <3>1. r.region \in Owned /\ InBytes(r, r.region, 0, Extent(r.region))
      BY <2>1, OwnInside
    <3>2. Start(r.region) \in Nat /\ Extent(r.region) \in Nat
      BY <3>1, MapFacts, SMT DEF Owned
    <3> QED
      BY <3>1, <3>2 DEF InBytes, Inside
  <2> QED
    BY <2>1 DEF ImageInv, Sound
<1>3. RecordsDisjoint
  <2> SUFFICES ASSUME <<request.kind, request.index>> # <<earlier.kind, earlier.index>>,
                      NEW r \in request.reads, NEW s \in earlier.reads,
                      Overlap(r, s), ~MayOverlap(request, earlier)
               PROVE  FALSE
    BY DEF RecordsDisjoint
  <2>1. Own(request, r) /\ Own(earlier, s)
    BY DEF ImageInv, Sound, MayOverlap
  <2> QED
    BY <2>1, OwnDisjoint
<1>4. DecodesWhatWasStored
  BY DEF ImageInv, Decoded, DecodesWhatWasStored
<1> QED
  BY <1>1, <1>2, <1>3, <1>4 DEF RecordsRead

\* Every accessor of the codeplug reads the record it was asked for, nothing of another's, and
\* the frequency, number and tone that are decoded are what tools/gen_sim_codeplug.py was given:
\* for every codeplug, index and size of a buffer.  Of places it says nothing: the tool
\* stores 32768ths of a degree, the decoder reads ten-thousandths.
THEOREM RecordsAreRead == ImageSpec => []RecordsRead
<1>1. ImageInit => ImageInv
  BY ImageInvInit
<1>2. ImageInv /\ [ImageNext]_imageVars => ImageInv'
  BY ImageInvNext
<1>3. ImageInv => RecordsRead
  BY ImageInvReads
<1> QED
  BY <1>1, <1>2, <1>3, PTL DEF ImageSpec

-----------------------------------------------------------------------------
(* The fades of the backlight.                                             *)

\* A call in progress is counted, and so is where a fade that runs, or is about to, goes.
FadeInv ==
  /\ BacklightTypeOK /\ SettledNearTarget
  /\ \A t \in Threads : call[t].at # "idle" => call[t].raw \in asked
  /\ fading \/ (\E t \in Threads : call[t].at = "timer") => s_fade_target_raw \in asked

\* A percentage is a level.
LEMMA RawIsLevel ==
  ASSUME NEW pct \in Pcts
  PROVE  Raw(pct) \in Raws
<1>1. pct \in 0..100
  BY BacklightAssumption
<1> QED
  BY <1>1 DEF Raw, Raws

\* A fade stays between its ends, and ends a step from its target at most.
LEMMA FadeStaysBetween ==
  ASSUME NEW start \in Raws, NEW target \in Raws
  PROVE  /\ Eased(start, target) \subseteq Raws
         /\ Ended(start, target) \in Raws /\ Near(Ended(start, target), target)
  BY DEF Eased, Ended, Near, Raws

\* What the calls of the other threads are after a step of t's.
LEMMA OneCallMoves ==
  ASSUME BacklightTypeOK, NEW t \in Threads, NEW c \in Calls, call' = [call EXCEPT ![t] = c]
  PROVE  /\ call' \in [Threads -> Calls] /\ call'[t] = c
         /\ \A u \in Threads \ {t} : call'[u] = call[u]
  BY DEF BacklightTypeOK

\* A call begins.
LEMMA CallBegins ==
  ASSUME FadeInv, NEW t \in Threads, NEW pct \in Pcts, backlight_set_pct(t, pct)
  PROVE  FadeInv'
<1> DEFINE raw == Raw(pct)
           c == [at |-> "compare", raw |-> raw]
<1>1. raw \in Raws /\ c \in Calls
  BY RawIsLevel DEF Calls
<1>2. /\ call' \in [Threads -> Calls] /\ call'[t] = c
      /\ \A u \in Threads \ {t} : call'[u] = call[u]
  BY <1>1, OneCallMoves DEF FadeInv, backlight_set_pct
<1>3. /\ raw \in asked' /\ fading' = FALSE
      /\ UNCHANGED <<s_current_raw, s_fade_start_raw, s_fade_target_raw>>
      /\ asked' \subseteq Raws /\ (NoCall \/ asked \subseteq asked')
  BY <1>1 DEF FadeInv, BacklightTypeOK, backlight_set_pct
<1> HIDE DEF raw
<1>4. call'[t].at = "compare" /\ call'[t].raw = raw
  BY <1>2
<1>5. BacklightTypeOK'
  BY <1>2, <1>3 DEF FadeInv, BacklightTypeOK
<1>6. SettledNearTarget'
  BY <1>4 DEF SettledNearTarget, NoCall
<1>7. ASSUME NEW u \in Threads, call'[u].at # "idle" PROVE call'[u].raw \in asked'
  <2>1. CASE u = t
    BY <1>3, <1>4, <2>1
  <2>2. CASE u # t
    BY <1>2, <1>3, <1>7, <2>2 DEF FadeInv, NoCall
  <2> QED
    BY <2>1, <2>2
<1>8. ASSUME NEW u \in Threads, call'[u].at = "timer" PROVE s_fade_target_raw' \in asked'
  BY <1>2, <1>3, <1>4, <1>8 DEF FadeInv, NoCall
<1> QED
  BY <1>3, <1>5, <1>6, <1>7, <1>8 DEF FadeInv

\* A call goes on.
LEMMA CallGoesOn ==
  ASSUME FadeInv, NEW t \in Threads, CallStep(t)
  PROVE  FadeInv'
<1> USE DEF FadeInv
<1>1. PICK c \in Calls : /\ call' = [call EXCEPT ![t] = c]
                         /\ c.at # "idle" => c.raw = call[t].raw
                         /\ \/ Compare(t) /\ c.at # "timer" /\ (c.at = "idle" => call[t].raw = s_current_raw)
                            \/ SetStart(t) /\ c.at = "target"
                            \/ SetTarget(t) /\ c.at = "timer"
                            \/ StartTimer(t) /\ c.at = "idle"
  <2>1. call[t] \in Calls /\ IdleCall \in Calls /\ IdleCall.at = "idle"
    BY DEF BacklightTypeOK, Calls, IdleCall, Raws
  <2>2. ASSUME NEW point \in {"start", "target", "timer"}, Goto(t, point)
        PROVE  /\ [call[t] EXCEPT !.at = point] \in Calls
               /\ [call[t] EXCEPT !.at = point].at = point
               /\ [call[t] EXCEPT !.at = point].raw = call[t].raw
               /\ call' = [call EXCEPT ![t] = [call[t] EXCEPT !.at = point]]
    BY <2>1, <2>2 DEF Calls, Goto
  <2>3. CASE Compare(t)
    BY <2>1, <2>2, <2>3 DEF Compare, Return
  <2>4. CASE SetStart(t)
    BY <2>2, <2>4 DEF SetStart
  <2>5. CASE SetTarget(t)
    BY <2>2, <2>5 DEF SetTarget
  <2>6. CASE StartTimer(t)
    BY <2>1, <2>6 DEF StartTimer, Return
  <2> QED
    BY <2>3, <2>4, <2>5, <2>6 DEF CallStep
<1>2. /\ call' \in [Threads -> Calls] /\ call'[t] = c
      /\ \A u \in Threads \ {t} : call'[u] = call[u]
  BY <1>1, OneCallMoves
<1>3. asked' = asked /\ call[t].raw \in asked /\ call[t].raw \in Raws /\ call[t].at # "idle"
  BY DEF CallStep, Compare, SetStart, SetTarget, StartTimer, CallAt, BacklightTypeOK, Calls
<1>4. /\ BacklightTypeOK'
      /\ \A u \in Threads : call'[u].at # "idle" => call'[u].raw \in asked'
  <2>1. s_current_raw' \in Raws /\ s_fade_start_raw' \in Raws /\ s_fade_target_raw' \in Raws
        /\ fading' \in BOOLEAN
    BY <1>3 DEF CallStep, Compare, SetStart, SetTarget, StartTimer, BacklightTypeOK
  <2> QED
    BY <1>1, <1>2, <1>3, <2>1 DEF BacklightTypeOK
<1>5. CASE Compare(t)
  <2>1. UNCHANGED <<s_current_raw, s_fade_start_raw, s_fade_target_raw, fading>> /\ c.at # "timer"
        /\ (c.at = "idle" => call[t].raw = s_current_raw)
    BY <1>1, <1>5 DEF Compare, SetStart, SetTarget, StartTimer, CallAt
  <2>2. NoCall' => Near(s_current_raw', call[t].raw)
    BY <1>2, <1>3, <2>1 DEF NoCall, Near, Raws
  <2> QED
    BY <1>2, <1>3, <1>4, <2>1, <2>2 DEF SettledNearTarget
<1>6. CASE SetStart(t)
  <2>1. UNCHANGED <<s_current_raw, s_fade_target_raw, fading>> /\ c.at = "target"
    BY <1>1, <1>6 DEF Compare, SetStart, SetTarget, StartTimer, CallAt
  <2> QED
    BY <1>2, <1>3, <1>4, <2>1 DEF SettledNearTarget, NoCall
<1>7. CASE SetTarget(t)
  <2>1. UNCHANGED <<s_current_raw, fading>> /\ s_fade_target_raw' = call[t].raw /\ c.at = "timer"
    BY <1>1, <1>7 DEF Compare, SetStart, SetTarget, StartTimer, CallAt
  <2> QED
    BY <1>2, <1>3, <1>4, <2>1 DEF SettledNearTarget, NoCall
<1>8. CASE StartTimer(t)
  <2>1. fading' = TRUE /\ s_fade_target_raw' = s_fade_target_raw /\ call[t].at = "timer"
    BY <1>8 DEF StartTimer, CallAt
  <2> QED
    BY <1>3, <1>4, <2>1 DEF SettledNearTarget
<1> QED
  BY <1>5, <1>6, <1>7, <1>8 DEF CallStep

\* The interrupt steps the level.
LEMMA FadeMoves ==
  ASSUME FadeInv, FadeStep \/ FadeEnd
  PROVE  FadeInv'
<1> USE DEF FadeInv, BacklightTypeOK
<1>1. CASE FadeStep
  BY <1>1, FadeStaysBetween DEF FadeStep, SettledNearTarget
<1>2. CASE FadeEnd
  BY <1>2, FadeStaysBetween DEF FadeEnd, SettledNearTarget
<1> QED
  BY <1>1, <1>2

\* For any number of threads, whichever of their assignments and the timer's mix: a fade that is
\* over has left the level at what one of the calls asked for that overlapped last.
THEOREM FadesArrive == BacklightSpec => []FadeArrives
<1>1. BacklightInit => FadeInv
  <2> SUFFICES ASSUME BacklightInit PROVE FadeInv
    OBVIOUS
  <2>1. IdleCall \in Calls /\ IdleCall.at = "idle"
    BY DEF IdleCall, Calls, Raws
  <2>2. /\ call \in [Threads -> Calls] /\ asked = {} /\ fading = FALSE
        /\ \A t \in Threads : call[t].at = "idle"
    BY <2>1 DEF BacklightInit
  <2>3. s_current_raw \in Raws /\ s_fade_start_raw \in Raws /\ s_fade_target_raw \in Raws
    BY DEF BacklightInit, Raws
  <2> QED
    BY <2>2, <2>3 DEF FadeInv, BacklightTypeOK, SettledNearTarget
<1>2. FadeInv /\ [BacklightNext]_backlightVars => FadeInv'
  <2> SUFFICES ASSUME FadeInv, [BacklightNext]_backlightVars PROVE FadeInv'
    OBVIOUS
  <2>1. CASE BacklightNext
    BY <2>1, CallBegins, CallGoesOn, FadeMoves DEF BacklightNext
  <2>2. CASE UNCHANGED backlightVars
    BY <2>2 DEF backlightVars, FadeInv, BacklightTypeOK, SettledNearTarget, NoCall
  <2> QED
    BY <2>1, <2>2
<1>3. FadeInv => FadeArrives
  BY DEF FadeInv, FadeArrives
<1> QED
  BY <1>1, <1>2, <1>3, PTL DEF BacklightSpec

-----------------------------------------------------------------------------
(* The settings and their subscriber.                                      *)

\* The kinds of rows there are.
LEMMA RowKinds ==
  /\ Cycles \subseteq Keys /\ OnHw \subseteq Keys /\ Levels \subseteq Keys /\ OneWord \subseteq Keys
  /\ "brightness" \in Keys /\ "off" \in Keys /\ "timeout" \in Keys /\ "css" \in Keys
  /\ \A key \in Keys : \/ key \in Cycles \/ key \in Toggles \/ key \in Switches
                       \/ key = "brightness" \/ key = "off" \/ key = "timeout"
  BY DEF Keys, Cycles, Toggles, Switches, Levels, OnHw, OneWord

\* What the rows' values are.
LEMMA RowValues ==
  /\ Values("css") = 0..(Tones + 2)
  /\ \A key \in Cycles \ {"css"} : Values(key) = 0..4
  /\ Values("brightness") = 10..100 /\ Values("off") = 0..100 /\ Values("timeout") = 0..30
  /\ \A key \in Toggles \cup Switches : Values(key) = {0, 1}
  /\ Values("squelch") = 0..4 /\ Values("step") = 0..4
  /\ \A key \in Cycles : Size(key) \in Nat \ {0} /\ 0..(Size(key) - 1) \subseteq Values(key)
<1>1. Tones \in Nat
  BY SettingsAssumption
<1>2. Values("css") = 0..(Tones + 2)
  <2>1. Values("css") = Css
    BY DEF Values, Cycles, Levels
  <2> QED
    BY <2>1 DEF Css, Dcs
<1>3. \A key \in Cycles \ {"css"} : Values(key) = 0..4
  <2> SUFFICES ASSUME NEW key \in Cycles \ {"css"} PROVE Values(key) = 0..4
    OBVIOUS
  <2>1. Values(key) = 0..(Size(key) - 1)
    BY DEF Values, Cycles, Levels
  <2>2. Size(key) = 5
    BY DEF Size
  <2> QED
    BY <2>1, <2>2
<1>4. Values("brightness") = 10..100 /\ Values("off") = 0..100 /\ Values("timeout") = 0..30
  BY DEF Values, Cycles, Levels, Lowest, Highest
<1>5. \A key \in Toggles \cup Switches : Values(key) = {0, 1}
  BY DEF Values, Cycles, Levels, Toggles, Switches
<1>6. \A key \in Cycles : Size(key) \in Nat \ {0} /\ 0..(Size(key) - 1) \subseteq Values(key)
  BY <1>1, <1>2, <1>3 DEF Size
<1> QED
  BY <1>2, <1>3, <1>4, <1>5, <1>6 DEF Cycles

\* They are numbers.
LEMMA ValuesAreInts ==
  ASSUME NEW key \in Keys
  PROVE  Values(key) \subseteq Int
<1>1. CASE key = "css"
  BY <1>1, RowValues, SettingsAssumption
<1>2. CASE key \in Cycles \ {"css"} \/ key \in Toggles \cup Switches
  BY <1>2, RowValues
<1>3. CASE key \in Levels
  <2>1. \A low, high \in Int : low..high \subseteq Int
    OBVIOUS
  <2>2. Values(key) = Lowest(key)..Highest(key)
    BY <1>3 DEF Values, Cycles, Levels
  <2>3. Lowest(key) \in Int /\ Highest(key) \in Int
    BY DEF Lowest, Highest
  <2> QED
    BY <2>1, <2>2, <2>3
<1> QED
  BY <1>1, <1>2, <1>3, RowKinds DEF Keys

\* A position in a table.
LEMMA InTable ==
  ASSUME NEW n \in Nat \ {0}, NEW i \in 0..(n - 1), NEW dir \in {-1, 1}
  PROVE  (i + dir + n) % n \in 0..(n - 1)
<1>1. i + dir + n \in Int
  OBVIOUS
<1> QED
  BY <1>1

\* Values are kept in range.
LEMMA Clamped ==
  /\ \A v \in Int : clamp_to_range("brightness", v) \in 10..100
  /\ \A v \in Int : clamp_to_range("off", v) \in 0..100
  /\ \A v \in Int : clamp_to_range("timeout", v) \in 0..30
  /\ \A a, b \in Int : Capped(a, b) \in Int /\ Capped(a, b) <= a /\ Capped(a, b) <= b
                       /\ Capped(a, b) \in {a, b}
  BY DEF clamp_to_range, Lowest, Highest, Capped

\* What the values of the settings are.
LEMMA SettingValues ==
  ASSUME SettingsTypeOK
  PROVE  /\ s_settings["brightness"] \in 10..100 /\ s_settings["off"] \in 0..100
         /\ s_settings["timeout"] \in 0..30
         /\ \A key \in Toggles : s_settings[key] \in {0, 1}
  BY RowKinds, RowValues DEF SettingsTypeOK, Toggles, Keys

\* What the hardware may have.
LEMMA HwValues ==
  ASSUME SettingsTypeOK
  PROVE  DOMAIN hw = OnHw /\ \A key \in OnHw : hw[key] \in Values(key) \cup {Unknown, ByChannel}
  BY Zenon DEF SettingsTypeOK

\* The off-level's row.
LEMMA OffTurned ==
  ASSUME SettingsTypeOK, NEW dir \in {-1, 1}
  PROVE  /\ backlight_off_level_cycle(dir) \in 0..100
         /\ backlight_off_level_cycle(dir) <= backlight_off_ceiling(s_settings["brightness"])
<1>1. s_settings["brightness"] \in 10..100 /\ s_settings["off"] \in 0..100
  BY SettingValues
<1>2. backlight_off_ceiling(s_settings["brightness"]) \in 0..90
  BY <1>1 DEF backlight_off_ceiling
<1>3. PICK current \in 0..100 : current = s_settings["off"]
  BY <1>1
<1>4. PICK ceiling \in 0..90 : ceiling = backlight_off_ceiling(s_settings["brightness"])
  BY <1>2
<1> QED
  BY <1>3, <1>4 DEF backlight_off_level_cycle, Capped, Lowest

\* What a row hands to its setter is a value of the row's.
LEMMA RowValueOK ==
  ASSUME SettingsTypeOK, NEW row \in Keys, NEW dir \in {-1, 1}
  PROVE  /\ RowValue(row, dir) \in Values(row)
         /\ row \in Cycles => /\ RowValue(row, dir) = NextIdx(row, dir)
                              /\ NextIdx(row, dir) \in 0..(Size(row) - 1)
         /\ row = "off" => RowValue(row, dir) <= backlight_off_ceiling(s_settings["brightness"])
<1>1. CASE row \in Cycles
  <2>1. RowValue(row, dir) = NextIdx(row, dir)
    BY <1>1 DEF RowValue, Cycles, Toggles, Switches
  <2>2. Size(row) \in Nat \ {0} /\ s_idx[row] \in 0..(Size(row) - 1)
    BY <1>1, RowValues DEF SettingsTypeOK
  <2>3. NextIdx(row, dir) \in 0..(Size(row) - 1)
    BY <2>2, InTable DEF NextIdx
  <2>4. NextIdx(row, dir) \in Values(row) /\ row # "off"
    BY <1>1, <2>3, RowValues DEF Cycles
  <2> QED
    BY <2>1, <2>3, <2>4
<1>2. CASE row \in Toggles
  <2>1. RowValue(row, dir) = 1 - s_settings[row] /\ row \notin Cycles /\ row # "off"
    BY <1>2 DEF RowValue, Cycles, Toggles, Switches
  <2>2. s_settings[row] \in {0, 1} /\ Values(row) = {0, 1}
    BY <1>2, SettingValues, RowValues
  <2> QED
    BY <2>1, <2>2
<1>3. CASE row \in Switches
  <2>1. RowValue(row, dir) \in {0, 1} /\ row \notin Cycles /\ row # "off"
    BY <1>3 DEF RowValue, Cycles, Toggles, Switches
  <2>2. Values(row) = {0, 1}
    BY <1>3, RowValues
  <2> QED
    BY <2>1, <2>2
<1>4. CASE row = "off"
  <2>1. RowValue(row, dir) = backlight_off_level_cycle(dir) /\ row \notin Cycles
    BY <1>4 DEF RowValue, Cycles, Toggles, Switches
  <2> QED
    BY <1>4, <2>1, OffTurned, RowValues
<1>5. CASE row = "timeout"
  <2>1. RowValue(row, dir) = screen_dim_timeout_cycle(dir) /\ row \notin Cycles
    BY <1>5 DEF RowValue, Cycles, Toggles, Switches
  <2>2. s_settings["timeout"] + dir * 5 \in Int
    BY SettingValues
  <2>3. screen_dim_timeout_cycle(dir) \in 0..30
    BY <2>2, Clamped DEF screen_dim_timeout_cycle
  <2> QED
    BY <1>5, <2>1, <2>3, RowValues
<1>6. CASE row = "brightness"
  <2>1. RowValue(row, dir) = brightness_cycle(dir) /\ row \notin Cycles
    BY <1>6 DEF RowValue, Cycles, Toggles, Switches
  <2>2. (s_settings["brightness"] + dir * 10) % 256 \in Int
    BY SettingValues
  <2>3. brightness_cycle(dir) \in 10..100
    BY <2>2, Clamped DEF brightness_cycle
  <2> QED
    BY <1>6, <2>1, <2>3, RowValues
<1> QED
  BY <1>1, <1>2, <1>3, <1>4, <1>5, <1>6, RowKinds

Shows(key) == shown[key] = RowText(key, s_settings[key])
Has(key)   == hw[key] \in {s_settings[key], ByChannel, Unknown}

\* Row t is at one of pcs of a call for the key.
Doing(t, key, pcs) == setter[t].key = key /\ setter[t].pc \in pcs

\* The inductive invariant of a single caller: everything follows the settings but
\* what the call in progress has still to do, and that it does with the setting.
SetterInv(t) ==
  /\ SettingsTypeOK
  /\ idle = 0 => ~s_backlight_dimmed
  /\ \A key \in Cycles \ {"css"} : s_idx[key] = s_settings[key]
  /\ \A key \in Keys : Shows(key) \/ Doing(t, key, {"notify", "apply", "text"})
  /\ \A key \in OnHw : Has(key) \/ Doing(t, key, {"notify", "apply"})
  /\ \/ s_backlight_dimmed \/ backlight = s_settings["brightness"]
     \/ Doing(t, "brightness", {"notify", "apply"})
  /\ setter[t].pc \in {"apply", "text"} => setter[t].value = s_settings[setter[t].key]
  /\ setter[t].pc = "reclamp" => setter[t].key = "brightness"
  /\ setter[t].pc = "idle" => setter[t] = NoSetter
  /\ setter[t].pc # "idle" /\ setter[t].key = "off" => Fits(s_settings)

SetterFrames == [pc : {"idle", "notify", "apply", "text", "reclamp"}, key : Keys, value : Int]

\* Where the caller is after a step.
LEMMA SetterMoves ==
  ASSUME NEW t, Callers = {t}, SettingsTypeOK
  PROVE  /\ t \in Callers /\ setter[t].key \in Keys
         /\ \A pc \in {"text", "reclamp", "apply"}, value \in Int : Step(t, pc, value) =>
              /\ setter' \in [Callers -> SetterFrames]
              /\ setter'[t] = [pc |-> pc, key |-> setter[t].key, value |-> value]
         /\ SetterDone(t) => setter' \in [Callers -> SetterFrames] /\ setter'[t] = NoSetter
         /\ \A key \in Keys : \A value : Set(t, key, value) =>
              /\ setter' \in [Callers -> SetterFrames]
              /\ setter'[t] = [pc |-> "notify", key |-> key, value |-> 0]
<1>1. t \in Callers /\ setter \in [Callers -> SetterFrames] /\ setter[t] \in SetterFrames
  BY DEF SettingsTypeOK, SetterFrames
<1>2. ASSUME NEW pc \in {"text", "reclamp", "apply"}, NEW value \in Int, Step(t, pc, value)
      PROVE  /\ setter' \in [Callers -> SetterFrames]
             /\ setter'[t] = [pc |-> pc, key |-> setter[t].key, value |-> value]
  <2>1. PICK rec : rec = [setter[t] EXCEPT !.pc = pc, !.value = value]
    OBVIOUS
  <2>2. rec = [pc |-> pc, key |-> setter[t].key, value |-> value] /\ rec \in SetterFrames
    BY <1>1, <2>1 DEF SetterFrames
  <2>3. setter' = [setter EXCEPT ![t] = rec]
    BY <1>2, <2>1 DEF Step
  <2> QED
    BY <1>1, <2>2, <2>3
<1>3. NoSetter \in SetterFrames
  BY DEF NoSetter, SetterFrames, Keys, Cycles
<1>4. SetterDone(t) => setter' \in [Callers -> SetterFrames] /\ setter'[t] = NoSetter
  BY <1>1, <1>3 DEF SetterDone
<1>5. ASSUME NEW key \in Keys, NEW value, Set(t, key, value)
      PROVE  /\ setter' \in [Callers -> SetterFrames]
             /\ setter'[t] = [pc |-> "notify", key |-> key, value |-> 0]
  <2>1. [pc |-> "notify", key |-> key, value |-> 0] \in SetterFrames
    BY DEF SetterFrames
  <2> QED
    BY <1>1, <1>5, <2>1 DEF Set
<1> QED
  BY <1>1, <1>2, <1>4, <1>5 DEF SetterFrames

\* A value is stored, by a row, a command or the tail of brightness_cycle().
LEMMA StoreKeeps ==
  ASSUME NEW t, Callers = {t}, SetterInv(t), setter[t].pc \in {"idle", "reclamp"},
         NEW key \in Keys, NEW value \in Values(key), Set(t, key, value),
         UNCHANGED <<shown, hw, green, wdt_tick>>,
         DOMAIN s_idx' = Cycles, \A k \in Cycles : s_idx'[k] \in 0..(Size(k) - 1),
         \A k \in Cycles \ {"css"} : s_idx'[k] = IF k = key THEN value ELSE s_idx[k],
         s_backlight_dimmed' \in BOOLEAN, idle' \in 0..Highest("timeout"),
         idle' = 0 => ~s_backlight_dimmed',
         backlight' \in 0..100,
         s_backlight_dimmed' \/ backlight' = s_settings["brightness"],
         key = "off" => value <= backlight_off_ceiling(s_settings["brightness"])
  PROVE  SetterInv(t)' /\ setter'[t].pc = "notify"
<1>1. /\ SettingsTypeOK /\ key \in Keys
      /\ \A k \in Keys : Shows(k)
      /\ \A k \in OnHw : Has(k)
      /\ \A k \in Cycles \ {"css"} : s_idx[k] = s_settings[k]
  BY DEF SetterInv, Doing
<1>2. /\ setter' \in [Callers -> SetterFrames]
      /\ setter'[t] = [pc |-> "notify", key |-> key, value |-> 0]
  BY <1>1, SetterMoves
<1>3. setter'[t].pc = "notify" /\ setter'[t].key = key
  BY <1>2
<1>4. /\ DOMAIN s_settings' = Keys
      /\ \A k \in Keys : s_settings'[k] = IF k = key THEN value ELSE s_settings[k]
  BY <1>1 DEF Set, SettingsTypeOK
<1>5. \A k \in Keys : s_settings'[k] \in Values(k)
  BY <1>1, <1>4 DEF SettingsTypeOK
<1>6. SettingsTypeOK'
  BY <1>1, <1>2, <1>4, <1>5 DEF SettingsTypeOK, SetterFrames
<1>7. \A k \in Cycles \ {"css"} : s_idx'[k] = s_settings'[k]
  BY <1>1, <1>4, RowKinds
<1>8. \A k \in Keys : Shows(k)' \/ Doing(t, k, {"notify", "apply", "text"})'
  BY <1>1, <1>3, <1>4 DEF Shows, Doing
<1>9. \A k \in OnHw : Has(k)' \/ Doing(t, k, {"notify", "apply"})'
  BY <1>1, <1>3, <1>4, RowKinds DEF Has, Doing
<1>10. \/ s_backlight_dimmed' \/ backlight' = s_settings'["brightness"]
       \/ Doing(t, "brightness", {"notify", "apply"})'
  BY <1>3, <1>4, RowKinds DEF Doing
<1>11. key = "off" => Fits(s_settings')
  BY <1>4, RowKinds DEF Fits
<1> QED
  BY <1>3, <1>6, <1>7, <1>8, <1>9, <1>10, <1>11 DEF SetterInv

\* A row is turned.
LEMMA TurnKeeps ==
  ASSUME NEW t, Callers = {t}, SetterInv(t), NEW row \in Keys, NEW dir \in {-1, 1},
         RowKey(t, row, dir) \/ cmd_settings_set(t, row, dir)
  PROVE  SetterInv(t)' /\ setter'[t].pc = "notify"
<1>1. /\ SettingsTypeOK /\ Turn(t, row, dir) /\ setter[t].pc = "idle"
      /\ UNCHANGED <<shown, hw, green, wdt_tick>>
  BY DEF RowKey, cmd_settings_set, Turn, SetterAt, SetterInv
<1>2. PICK value : value = RowValue(row, dir)
  OBVIOUS
<1>3. /\ value \in Values(row) /\ Set(t, row, value)
      /\ row \in Cycles => value = NextIdx(row, dir) /\ NextIdx(row, dir) \in 0..(Size(row) - 1)
      /\ row = "off" => value <= backlight_off_ceiling(s_settings["brightness"])
  BY <1>1, <1>2, RowValueOK DEF Turn
<1>4. DOMAIN s_idx = Cycles /\ \A k \in Cycles : s_idx[k] \in 0..(Size(k) - 1)
  BY <1>1 DEF SettingsTypeOK
<1>5. /\ DOMAIN s_idx' = Cycles
      /\ \A k \in Cycles : s_idx'[k] = IF k = row THEN value ELSE s_idx[k]
  BY <1>1, <1>3, <1>4 DEF Turn
<1>6. \A k \in Cycles : s_idx'[k] \in 0..(Size(k) - 1)
  BY <1>3, <1>4, <1>5
<1>7. s_backlight_dimmed \/ backlight = s_settings["brightness"]
  BY <1>1 DEF SetterInv, Doing
<1>8. /\ s_backlight_dimmed' \in BOOLEAN /\ idle' \in 0..Highest("timeout")
      /\ idle' = 0 => ~s_backlight_dimmed'
      /\ backlight' \in 0..100
      /\ s_backlight_dimmed' \/ backlight' = s_settings["brightness"]
  <2>1. CASE RowKey(t, row, dir)
    <3>1. s_settings["brightness"] \in 0..100 /\ backlight \in 0..100
      BY <1>1, SettingValues DEF SettingsTypeOK
    <3>2. /\ idle' = 0 /\ s_backlight_dimmed' = FALSE
          /\ backlight' = IF s_backlight_dimmed THEN s_settings["brightness"] ELSE backlight
      BY <2>1 DEF RowKey, ui_note_activity
    <3>3. backlight' \in 0..100
      BY <3>1, <3>2
    <3>4. backlight' = s_settings["brightness"]
      BY <1>7, <3>2
    <3>5. 0 \in 0..Highest("timeout")
      BY DEF Highest
    <3> QED
      BY <3>2, <3>3, <3>4, <3>5
  <2>2. CASE cmd_settings_set(t, row, dir)
    BY <1>1, <1>7, <2>2 DEF cmd_settings_set, SettingsTypeOK, SetterInv
  <2> QED
    BY <2>1, <2>2
<1> QED
  BY <1>1, <1>3, <1>5, <1>6, <1>8, StoreKeeps

\* The console sets a tone or a code.
LEMMA CssKeeps ==
  ASSUME NEW t, Callers = {t}, SetterInv(t), NEW css \in Css, cmd_css(t, css)
  PROVE  SetterInv(t)' /\ setter'[t].pc = "notify"
<1>1. /\ SettingsTypeOK /\ Set(t, "css", css) /\ setter[t].pc = "idle"
      /\ UNCHANGED <<s_idx, shown, hw, backlight, s_backlight_dimmed, idle, green, wdt_tick>>
  BY DEF cmd_css, SetterAt, SetterInv
<1>2. "css" \in Keys /\ css \in Values("css")
  BY RowKinds DEF Values, Cycles, Levels
<1>3. s_backlight_dimmed \/ backlight = s_settings["brightness"]
  BY <1>1 DEF SetterInv, Doing
<1>4. /\ DOMAIN s_idx' = Cycles /\ \A k \in Cycles : s_idx'[k] \in 0..(Size(k) - 1)
      /\ \A k \in Cycles \ {"css"} : s_idx'[k] = IF k = "css" THEN css ELSE s_idx[k]
  BY <1>1 DEF SettingsTypeOK
<1>5. /\ s_backlight_dimmed' \in BOOLEAN /\ idle' \in 0..Highest("timeout")
      /\ backlight' \in 0..100
  BY <1>1 DEF SettingsTypeOK
<1>6. idle' = 0 => ~s_backlight_dimmed'
  BY <1>1 DEF SetterInv
<1> QED
  BY <1>1, <1>2, <1>3, <1>4, <1>5, <1>6, StoreKeeps

\* The subscriber reads the value that was stored.
LEMMA ReadKeeps ==
  ASSUME NEW t, Callers = {t}, SetterInv(t), ReadSetting(t)
  PROVE  SetterInv(t)' /\ setter'[t].pc # "idle"
<1>1. /\ SettingsTypeOK /\ setter[t].pc = "notify" /\ setter[t].key \in Keys
      /\ UNCHANGED <<s_settings, s_idx, shown, hw, backlight, s_backlight_dimmed, idle, green, wdt_tick>>
  BY SetterMoves DEF ReadSetting, SetterAt, SetterInv
<1>2. PICK pc : pc = IF setter[t].key \in Applied THEN "apply" ELSE "text"
  OBVIOUS
<1>3. s_settings[setter[t].key] \in Int
  <2>1. s_settings[setter[t].key] \in Values(setter[t].key)
    BY <1>1 DEF SettingsTypeOK
  <2> QED
    BY <1>1, <2>1, ValuesAreInts
<1>4. /\ setter' \in [Callers -> SetterFrames]
      /\ setter'[t] = [pc |-> pc, key |-> setter[t].key, value |-> s_settings[setter[t].key]]
  BY <1>1, <1>2, <1>3, SetterMoves DEF ReadSetting
<1>5. setter'[t].pc = pc /\ setter'[t].key = setter[t].key /\ setter'[t].value = s_settings[setter[t].key]
  BY <1>4
<1>6. SettingsTypeOK'
  BY <1>1, <1>4 DEF SettingsTypeOK, SetterFrames
<1>7. /\ \A k \in Keys : Shows(k)' \/ Doing(t, k, {"notify", "apply", "text"})'
      /\ \A k \in OnHw : Has(k)' \/ Doing(t, k, {"notify", "apply"})'
  <2>1. OnHw \subseteq Applied
    BY DEF Applied
  <2> QED
    BY <1>1, <1>2, <1>5, <2>1 DEF SetterInv, Shows, Has, Doing
<1>8. \/ s_backlight_dimmed' \/ backlight' = s_settings'["brightness"]
      \/ Doing(t, "brightness", {"notify", "apply"})'
  BY <1>1, <1>2, <1>5 DEF SetterInv, Doing, Applied
<1>9. pc \in {"apply", "text"}
  BY <1>2
<1> QED
  BY <1>1, <1>5, <1>6, <1>7, <1>8, <1>9 DEF SetterInv, Fits

\* The value goes to the hardware, which takes it or not.
LEMMA ApplyKeeps ==
  ASSUME NEW t, Callers = {t}, SetterInv(t), ApplySetting(t)
  PROVE  SetterInv(t)' /\ setter'[t].pc # "idle"
<1>1. /\ SettingsTypeOK /\ setter[t].pc = "apply" /\ setter[t].key \in Keys
      /\ setter[t].value = s_settings[setter[t].key]
      /\ UNCHANGED <<s_settings, s_idx, shown, s_backlight_dimmed, idle, wdt_tick>>
  BY SetterMoves DEF ApplySetting, SetterAt, SetterInv
<1>2. PICK key \in Keys : key = setter[t].key
  BY <1>1
<1>3. PICK value : value = setter[t].value
  OBVIOUS
<1>4. value = s_settings[key] /\ value \in Values(key) /\ value \in Int
  BY <1>1, <1>2, <1>3, ValuesAreInts DEF SettingsTypeOK
<1>5. /\ setter' \in [Callers -> SetterFrames]
      /\ setter'[t] = [pc |-> "text", key |-> key, value |-> value]
  BY <1>1, <1>2, <1>3, <1>4, SetterMoves DEF ApplySetting
<1>6. PICK taken \in Outcomes(key, value) :
        hw' = IF key \in OnHw THEN [hw EXCEPT ![key] = taken] ELSE hw
  BY <1>2, <1>3 DEF ApplySetting
<1>7. taken \in {value, Unknown}
  BY <1>6 DEF Outcomes
<1>8. DOMAIN hw = OnHw /\ \A k \in OnHw : hw[k] \in Values(k) \cup {Unknown, ByChannel}
  BY <1>1, HwValues
<1>9. DOMAIN hw' = OnHw /\ \A k \in OnHw : hw'[k] = IF k = key THEN taken ELSE hw[k]
  BY <1>6, <1>8
<1>10. \A k \in OnHw : hw'[k] \in Values(k) \cup {Unknown, ByChannel}
  BY <1>4, <1>7, <1>8, <1>9
<1>11. \A k \in OnHw : Has(k)'
  BY <1>1, <1>2, <1>4, <1>7, <1>9 DEF Has, SetterInv, Doing
<1>12. backlight' = IF key = "brightness" THEN value ELSE backlight
  BY <1>2, <1>3 DEF ApplySetting
<1>13. backlight' \in 0..100
  <2>1. s_settings["brightness"] \in 0..100 /\ backlight \in 0..100
    BY <1>1, SettingValues DEF SettingsTypeOK
  <2> QED
    BY <1>4, <1>12, <2>1
<1>14. green' \in BOOLEAN
  BY DEF ApplySetting
<1>15. setter'[t].pc = "text" /\ setter'[t].key = key /\ setter'[t].value = value
  BY <1>5
<1>16. SettingsTypeOK'
  <2>1. DOMAIN hw' = OnHw
    BY <1>9
  <2>2. setter' \in [Callers -> [pc : {"idle", "notify", "apply", "text", "reclamp"}, key : Keys, value : Int]]
    BY <1>5 DEF SetterFrames
  <2>3. /\ DOMAIN s_settings' = Keys /\ \A k \in Keys : s_settings'[k] \in Values(k)
        /\ DOMAIN s_idx' = Cycles /\ \A k \in Cycles : s_idx'[k] \in 0..(Size(k) - 1)
        /\ DOMAIN shown' = Keys /\ \A k \in Keys : shown'[k] \in Values(k)
        /\ s_backlight_dimmed' \in BOOLEAN /\ idle' \in 0..Highest("timeout")
        /\ wdt_tick' \in 0..(WDT_LED_TICKS - 1)
    BY <1>1 DEF SettingsTypeOK
  <2> QED
    BY <1>10, <1>13, <1>14, <2>1, <2>2, <2>3, Zenon DEF SettingsTypeOK
<1>17. \A k \in Keys : Shows(k)' \/ Doing(t, k, {"notify", "apply", "text"})'
  BY <1>1, <1>2, <1>15 DEF SetterInv, Shows, Doing
<1>18. s_backlight_dimmed' \/ backlight' = s_settings'["brightness"]
  BY <1>1, <1>2, <1>4, <1>12 DEF SetterInv, Doing
<1> QED
  BY <1>1, <1>2, <1>4, <1>11, <1>15, <1>16, <1>17, <1>18 DEF SetterInv, Fits

\* The row's text is written from what was read.
LEMMA TextKeeps ==
  ASSUME NEW t, Callers = {t}, SetterInv(t), WriteText(t)
  PROVE  /\ SetterInv(t)'
         /\ setter'[t].pc = "idle" /\ setter[t].key \in {"brightness", "off"} => Fits(s_settings')
<1>1. /\ SettingsTypeOK /\ setter[t].pc = "text" /\ setter[t].key \in Keys
      /\ setter[t].value = s_settings[setter[t].key]
      /\ UNCHANGED <<s_settings, s_idx, hw, backlight, s_backlight_dimmed, idle, green, wdt_tick>>
  BY SetterMoves DEF WriteText, SetterAt, SetterInv
<1>2. PICK key \in Keys : key = setter[t].key
  BY <1>1
<1>3. /\ setter' \in [Callers -> SetterFrames]
      /\ \/ setter'[t] = NoSetter /\ key # "brightness"
         \/ setter'[t] = [pc |-> "reclamp", key |-> key, value |-> 0] /\ key = "brightness"
  BY <1>1, <1>2, SetterMoves DEF WriteText
<1>4. PICK text : text = IF key = "step" THEN s_idx["step"] ELSE RowText(key, s_settings[key])
  OBVIOUS
<1>5. shown' = [shown EXCEPT ![key] = text]
  BY <1>1, <1>2, <1>4 DEF WriteText
<1>6. text = RowText(key, s_settings[key])
  <2>1. s_idx["step"] = s_settings["step"]
    BY DEF SetterInv, Cycles
  <2> QED
    BY <1>4, <2>1 DEF RowText
<1>7. text \in Values(key)
  <2>1. s_settings[key] \in Values(key)
    BY <1>1 DEF SettingsTypeOK
  <2>2. 0 \in Values("css")
    BY RowValues, SettingsAssumption
  <2> QED
    BY <1>6, <2>1, <2>2 DEF RowText
<1>8. DOMAIN shown = Keys /\ \A k \in Keys : shown[k] \in Values(k)
  BY <1>1 DEF SettingsTypeOK
<1>9. DOMAIN shown' = Keys /\ \A k \in Keys : shown'[k] = IF k = key THEN text ELSE shown[k]
  BY <1>5, <1>8
<1>10. \A k \in Keys : shown'[k] \in Values(k)
  BY <1>7, <1>8, <1>9
<1>11. \A k \in Keys : Shows(k)'
  BY <1>1, <1>2, <1>6, <1>9 DEF SetterInv, Shows, Doing
<1>12. \A k \in OnHw : Has(k)'
  BY <1>1 DEF SetterInv, Has, Doing
<1>13. SettingsTypeOK'
  BY <1>1, <1>3, <1>9, <1>10 DEF SettingsTypeOK, SetterFrames
<1>14. s_backlight_dimmed' \/ backlight' = s_settings'["brightness"]
  BY <1>1 DEF SetterInv, Doing
<1>15. /\ setter'[t].pc \in {"idle", "reclamp"} /\ setter'[t].key # "off"
       /\ setter'[t].pc = "reclamp" => setter'[t].key = "brightness"
       /\ setter'[t].pc = "idle" => setter'[t] = NoSetter /\ key # "brightness"
  BY <1>3 DEF NoSetter
<1>16. key = "off" => Fits(s_settings')
  BY <1>1, <1>2 DEF SetterInv, Fits
<1> QED
  BY <1>1, <1>2, <1>11, <1>12, <1>13, <1>14, <1>15, <1>16 DEF SetterInv

\* The off-level is brought under the brightness, if it is not.
LEMMA ReclampKeeps ==
  ASSUME NEW t, Callers = {t}, SetterInv(t), Reclamp(t)
  PROVE  SetterInv(t)' /\ (setter'[t].pc = "idle" => Fits(s_settings'))
<1>1. /\ SettingsTypeOK /\ setter[t].pc = "reclamp"
      /\ UNCHANGED <<s_idx, shown, hw, backlight, s_backlight_dimmed, idle, green, wdt_tick>>
  BY DEF Reclamp, SetterAt, SetterInv
<1>2. PICK ceiling : ceiling = backlight_off_ceiling(s_settings["brightness"])
  OBVIOUS
<1>3. ceiling \in 0..90 /\ s_settings["off"] \in 0..100
  BY <1>1, <1>2, SettingValues DEF backlight_off_ceiling
<1>4. s_backlight_dimmed \/ backlight = s_settings["brightness"]
  BY <1>1 DEF SetterInv, Doing
<1>5. CASE s_settings["off"] > ceiling
  <2>1. Set(t, "off", ceiling)
    BY <1>2, <1>5 DEF Reclamp
  <2>2. "off" \in Keys /\ ceiling \in Values("off") /\ ceiling <= backlight_off_ceiling(s_settings["brightness"])
        /\ "off" \notin Cycles
    BY <1>2, <1>3, RowKinds, RowValues DEF Cycles
  <2>3. /\ DOMAIN s_idx' = Cycles /\ \A k \in Cycles : s_idx'[k] \in 0..(Size(k) - 1)
        /\ s_backlight_dimmed' \in BOOLEAN /\ idle' \in 0..Highest("timeout")
        /\ backlight' \in 0..100
    BY <1>1 DEF SettingsTypeOK
  <2>4. idle' = 0 => ~s_backlight_dimmed'
    BY <1>1 DEF SetterInv
  <2>5. \A k \in Cycles \ {"css"} : s_idx'[k] = IF k = "off" THEN ceiling ELSE s_idx[k]
    BY <1>1, <2>2
  <2>6. SetterInv(t)' /\ setter'[t].pc = "notify"
    BY <1>1, <1>4, <2>1, <2>2, <2>3, <2>4, <2>5, StoreKeeps
  <2> QED
    BY <2>6
<1>6. CASE ~(s_settings["off"] > ceiling)
  <2>1. UNCHANGED s_settings /\ SetterDone(t)
    BY <1>2, <1>6 DEF Reclamp
  <2>2. setter' \in [Callers -> SetterFrames] /\ setter'[t] = NoSetter
    BY <1>1, <2>1, SetterMoves
  <2>3. setter'[t].pc = "idle"
    BY <2>2 DEF NoSetter
  <2>4. SettingsTypeOK'
    BY <1>1, <2>1, <2>2 DEF SettingsTypeOK, SetterFrames
  <2>5. /\ \A k \in Keys : Shows(k)'
        /\ \A k \in OnHw : Has(k)'
    BY <1>1, <2>1 DEF SetterInv, Shows, Has, Doing
  <2>6. Fits(s_settings')
    BY <1>2, <1>3, <1>6, <2>1 DEF Fits
  <2> QED
    BY <1>1, <1>4, <2>1, <2>2, <2>3, <2>4, <2>5, <2>6 DEF SetterInv
<1> QED
  BY <1>5, <1>6

\* A key of no row, between calls: the display is lit.
LEMMA OtherKeyKeeps ==
  ASSUME NEW t, Callers = {t}, SetterInv(t), OtherKey(t)
  PROVE  SetterInv(t)'
<1>1. /\ SettingsTypeOK /\ setter[t].pc = "idle"
      /\ UNCHANGED <<s_settings, s_idx, shown, hw, green, wdt_tick, setter>>
      /\ idle' = 0 /\ s_backlight_dimmed' = FALSE
      /\ backlight' = IF s_backlight_dimmed THEN s_settings["brightness"] ELSE backlight
  BY DEF OtherKey, ui_note_activity, SetterAt, SetterInv
<1>2. s_settings["brightness"] \in 0..100 /\ backlight \in 0..100 /\ 0 \in 0..Highest("timeout")
  BY <1>1, SettingValues DEF SettingsTypeOK, Highest
<1>3. backlight' \in 0..100 /\ idle' \in 0..Highest("timeout") /\ s_backlight_dimmed' \in BOOLEAN
  BY <1>1, <1>2
<1>4. SettingsTypeOK'
  BY <1>1, <1>3 DEF SettingsTypeOK
<1>5. backlight' = s_settings'["brightness"]
  BY <1>1 DEF SetterInv, Doing
<1> QED
  BY <1>1, <1>4, <1>5 DEF SetterInv, Shows, Has, Doing, Fits

\* The channel controller programs the radio past the settings.
LEMMA PastSettingsKeeps ==
  ASSUME NEW t, Callers = {t}, SetterInv(t), apply_to_radio(t)
  PROVE  SetterInv(t)'
<1>1. /\ SettingsTypeOK /\ setter[t].pc = "idle"
      /\ UNCHANGED <<s_settings, s_idx, shown, backlight, s_backlight_dimmed, idle, green, wdt_tick, setter>>
  BY DEF apply_to_radio, SetterAt, SetterInv
<1>2. PICK bandwidth \in {ByChannel, Unknown}, css \in {ByChannel, Unknown} :
        hw' = [hw EXCEPT !["bandwidth"] = bandwidth, !["css"] = css]
  BY DEF apply_to_radio
<1>3. DOMAIN hw = OnHw /\ \A key \in OnHw : hw[key] \in Values(key) \cup {Unknown, ByChannel}
  BY <1>1, HwValues
<1>4. DOMAIN hw' = OnHw /\ \A key \in OnHw : hw'[key] \in {hw[key], ByChannel, Unknown}
  BY <1>2, <1>3 DEF OnHw
<1>5. \A key \in OnHw : hw'[key] \in Values(key) \cup {Unknown, ByChannel}
  BY <1>3, <1>4
<1>6. SettingsTypeOK'
  BY <1>1, <1>4, <1>5 DEF SettingsTypeOK
<1>7. \A key \in OnHw : Has(key)'
  BY <1>1, <1>4 DEF SetterInv, Has, Doing
<1> QED
  BY <1>1, <1>6, <1>7 DEF SetterInv, Shows, Doing, Fits

\* The operator's timer, between calls; and the watchdog's, at any time.
LEMMA TimersKeep ==
  ASSUME NEW t, Callers = {t}, SetterInv(t), update_timer_cb(t) \/ wdt_feed_timer_cb
  PROVE  SetterInv(t)'
<1>1. SettingsTypeOK /\ UNCHANGED <<s_settings, s_idx, shown, hw, setter>>
  BY DEF update_timer_cb, wdt_feed_timer_cb, SetterInv
<1>2. CASE update_timer_cb(t)
  <2>1. setter[t].pc = "idle" /\ idle' = Later /\ UNCHANGED <<green, wdt_tick>>
    BY <1>2 DEF update_timer_cb, SetterAt
  <2>2. \/ s_backlight_dimmed' = TRUE /\ backlight' = s_settings["off"]
        \/ UNCHANGED <<s_backlight_dimmed, backlight>>
    BY <1>2 DEF update_timer_cb
  <2>3. idle \in 0..30 /\ Unit \in Nat \ {0}
    BY <1>1, SettingsAssumption DEF SettingsTypeOK, Highest
  <2>4. idle' \in 0..30 /\ idle' # 0
    BY <2>1, <2>3 DEF Later, Capped, Highest
  <2>5. s_settings["off"] \in 0..100 /\ backlight \in 0..100 /\ s_backlight_dimmed \in BOOLEAN
    BY <1>1, SettingValues DEF SettingsTypeOK
  <2>6. backlight' \in 0..100 /\ s_backlight_dimmed' \in BOOLEAN
    BY <2>2, <2>5
  <2>7. SettingsTypeOK'
    BY <1>1, <2>1, <2>4, <2>6 DEF SettingsTypeOK, Highest
  <2>8. s_backlight_dimmed' \/ backlight' = s_settings'["brightness"]
    BY <1>1, <2>1, <2>2 DEF SetterInv, Doing
  <2> QED
    BY <1>1, <2>1, <2>4, <2>7, <2>8 DEF SetterInv, Shows, Has, Doing
<1>3. CASE wdt_feed_timer_cb
  <2>1. UNCHANGED <<backlight, s_backlight_dimmed, idle>>
    BY <1>3 DEF wdt_feed_timer_cb
  <2>2. green' \in BOOLEAN
    BY <1>1, <1>3 DEF wdt_feed_timer_cb, SettingsTypeOK
  <2>3. wdt_tick \in Int /\ WDT_LED_TICKS \in Nat \ {0}
    BY <1>1, SettingsAssumption DEF SettingsTypeOK
  <2>4. wdt_tick' \in 0..(WDT_LED_TICKS - 1)
    BY <1>3, <2>3 DEF wdt_feed_timer_cb
  <2>5. SettingsTypeOK'
    BY <1>1, <2>1, <2>2, <2>4 DEF SettingsTypeOK
  <2> QED
    BY <1>1, <2>1, <2>5 DEF SetterInv, Shows, Has, Doing, Fits
<1> QED
  BY <1>2, <1>3

\* Everything follows the settings at the start.
LEMMA SettingsStart ==
  ASSUME NEW t, Callers = {t}, SettingsInit
  PROVE  SetterInv(t)
<1>1. PICK nv \in Nv \cup {FirmwareDefaults} : s_settings = settings_init(nv)
  BY DEF SettingsInit
<1>2. nv.brightness \in Int /\ nv.off \in Int /\ nv.timeout \in Int
  BY SettingsAssumption DEF FirmwareDefaults
<1>3. /\ DOMAIN s_settings = Keys
      /\ s_settings["brightness"] \in 10..100 /\ s_settings["off"] \in 0..100
      /\ s_settings["timeout"] \in 0..30
      /\ \A key \in Toggles \cup Switches : s_settings[key] \in {0, 1}
      /\ s_settings["squelch"] = 2 /\ s_settings["css"] = 0 /\ s_settings["step"] = 1
  BY <1>1, <1>2, Clamped DEF settings_init, Keys, Levels, Toggles, Switches, Cycles
<1>4. \A key \in Keys : s_settings[key] \in Values(key)
  BY <1>3, RowKinds, RowValues, SettingsAssumption DEF Cycles
<1>5. \A key \in Cycles : s_settings[key] \in 0..(Size(key) - 1)
  BY <1>3, SettingsAssumption DEF Cycles, Size
<1>6. RowText("css", s_settings["css"]) = s_settings["css"]
  BY <1>3, SettingsAssumption DEF RowText
<1>7. /\ s_idx = [key \in Cycles |-> s_settings[key]] /\ shown = s_settings
      /\ hw = [key \in OnHw |-> s_settings[key]] /\ backlight = s_settings["brightness"]
      /\ s_backlight_dimmed = FALSE /\ idle = 0 /\ green = FALSE /\ wdt_tick = 0
  BY DEF SettingsInit
<1>8. setter \in [Callers -> SetterFrames] /\ setter[t] = NoSetter
  <2>1. NoSetter \in SetterFrames
    BY DEF NoSetter, SetterFrames, Keys, Cycles
  <2> QED
    BY <2>1 DEF SettingsInit
<1>9. SettingsTypeOK
  <2>1. \A key \in Cycles : s_idx[key] \in 0..(Size(key) - 1)
    BY <1>5, <1>7
  <2>2. \A key \in OnHw : hw[key] \in Values(key) \cup {Unknown, ByChannel}
    BY <1>4, <1>7, RowKinds
  <2>3. backlight \in 0..100 /\ idle \in 0..Highest("timeout") /\ wdt_tick \in 0..(WDT_LED_TICKS - 1)
    BY <1>3, <1>7, SettingsAssumption DEF Highest
  <2>4. s_backlight_dimmed \in BOOLEAN /\ green \in BOOLEAN
    BY <1>7
  <2> QED
    BY <1>3, <1>4, <1>7, <1>8, <2>1, <2>2, <2>3, <2>4 DEF SettingsTypeOK, SetterFrames
<1>10. (\A key \in Keys : Shows(key)) /\ (\A key \in OnHw : Has(key))
  BY <1>6, <1>7 DEF Shows, Has, RowText
<1>11. \A key \in Cycles \ {"css"} : s_idx[key] = s_settings[key]
  BY <1>7
<1>12. setter[t].pc = "idle"
  BY <1>8 DEF NoSetter
<1> QED
  BY <1>7, <1>8, <1>9, <1>10, <1>11, <1>12 DEF SetterInv

\* Between calls, nothing is left to do.
LEMMA NothingLeft ==
  ASSUME NEW t, Callers = {t}, SetterInv(t)
  PROVE  SettingsTypeOK /\ RowsTell /\ LitInUse
<1>1. SettingsTypeOK /\ (idle = 0 => ~s_backlight_dimmed)
  BY DEF SetterInv
<1>2. NoneSets => setter[t].pc = "idle"
  BY DEF NoneSets, SetterAt
<1>3. RowsTell
  BY <1>2 DEF RowsTell, SetterInv, Shows, Has, Doing
<1>4. NoneSets /\ ~s_backlight_dimmed => backlight = s_settings["brightness"]
  BY <1>2 DEF SetterInv, Doing
<1> QED
  BY <1>1, <1>3, <1>4 DEF LitInUse

\* With one caller, whose calls therefore do not overlap, the rows and the backlight
\* follow the settings between calls, hardware that has neither a channel's value nor a
\* failed transfer's has the setting, and the off-level is left below the brightness:
\* whatever rows, commands, channel controller and timers do, the watchdog's also in
\* the middle of a call.
THEOREM SettingsAreFollowed ==
  ASSUME NEW CONSTANT t, Callers = {t}
  PROVE  SettingsSpec => SettingsFollow
<1>1. SettingsInit => SetterInv(t)
  BY SettingsStart
<1>2. ASSUME SetterInv(t), [SettingsNext]_settingsVars
      PROVE  SetterInv(t)' /\ [OffLevelFits]_settingsVars
  <2>1. setter[t].pc = "idle" => setter[t].key = "step"
    BY <1>2 DEF SetterInv, NoSetter
  <2>2. OffLevelFits <=>
          (setter[t].key \in {"brightness", "off"} /\ setter'[t].pc = "idle" => Fits(s_settings'))
    BY DEF OffLevelFits
  <2>3. ASSUME NEW row \in Keys, NEW dir \in {-1, 1},
               RowKey(t, row, dir) \/ cmd_settings_set(t, row, dir)
        PROVE  SetterInv(t)' /\ OffLevelFits
    BY <1>2, <2>2, <2>3, TurnKeeps
  <2>4. ASSUME NEW css \in Css, cmd_css(t, css)
        PROVE  SetterInv(t)' /\ OffLevelFits
    BY <1>2, <2>2, <2>4, CssKeeps
  <2>5. CASE SetterStep(t)
    <3>1. CASE ReadSetting(t)
      BY <1>2, <2>2, <3>1, ReadKeeps
    <3>2. CASE ApplySetting(t)
      BY <1>2, <2>2, <3>2, ApplyKeeps
    <3>3. CASE WriteText(t)
      BY <1>2, <2>2, <3>3, TextKeeps
    <3>4. CASE Reclamp(t)
      BY <1>2, <2>2, <3>4, ReclampKeeps
    <3> QED
      BY <2>5, <3>1, <3>2, <3>3, <3>4 DEF SetterStep
  <2>6. CASE OtherKey(t) \/ apply_to_radio(t)
    <3>1. setter[t].key = "step"
      BY <2>1, <2>6 DEF OtherKey, apply_to_radio, SetterAt
    <3> QED
      BY <1>2, <2>2, <2>6, <3>1, OtherKeyKeeps, PastSettingsKeeps
  <2>7. CASE update_timer_cb(t) \/ wdt_feed_timer_cb
    <3>1. setter' = setter
      BY <2>7 DEF update_timer_cb, wdt_feed_timer_cb
    <3>2. setter'[t].pc = "idle" => setter[t].key = "step"
      BY <2>1, <3>1
    <3> QED
      BY <1>2, <2>2, <2>7, <3>2, TimersKeep
  <2>8. CASE UNCHANGED settingsVars
    BY <1>2, <2>8 DEF settingsVars, SetterInv, SettingsTypeOK, Shows, Has, Doing, Fits
  <2>9. CASE SettingsCalls(Keys)
    BY <2>3, <2>4, <2>5, <2>6, <2>9 DEF SettingsCalls
  <2>10. CASE \E u \in Operators : update_timer_cb(u)
    <3>1. \A u \in Operators : u = t
      BY DEF Callers
    <3> QED
      BY <2>7, <2>10, <3>1
  <2> QED
    BY <1>2, <2>7, <2>8, <2>9, <2>10 DEF SettingsNext
<1>3. SetterInv(t) => Follows
  BY NothingLeft DEF Follows
<1> QED
  BY <1>1, <1>2, <1>3, PTL DEF SettingsSpec, SettingsFollow
=============================================================================
