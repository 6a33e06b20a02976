-------------------------------- MODULE Battery --------------------------------
(***************************************************************************)
(* src/model/battery.c and the battery label of src/view/status_bar.c:     *)
(* main() initialises the ADC while the LVGL thread's update polls it      *)
(* every 200 ms; the label is drawn again only if the voltage or the unit  *)
(* differ from those it was drawn with.                                    *)
(***************************************************************************)
EXTENDS Integers

CONSTANTS
  PinMv,    \* what the ADC may read, in mV
  Period    \* updates to a sample: BATTERY_SAMPLE_PERIOD_MS in units of 200 ms

ASSUME BatteryAssumption == PinMv \subseteq Nat /\ Period \in Nat \ {0}

VARIABLES
  s_last_mv,   \* -1 before the first reading
  due,         \* updates to come before s_next_sample_uptime_ms
  adc,         \* what became of battery_init()
  is_pct,      \* the unit that is set
  drawn,       \* the label: its text; what it was drawn from, the statics of the status bar
  bar_called   \* the latest step was an update

batteryVars == <<s_last_mv, due, adc, is_pct, drawn, bar_called>>

ocv_table_mv == <<3450, 3680, 3740, 3770, 3790, 3820, 3870, 3920, 3980, 4060, 4200>>
CellCount    == 2

\* Mutant: the charge of the segment above.
Charge_Above(i, cell_mv) ==
  i * 10 + ((cell_mv - ocv_table_mv[i]) * 10) \div (ocv_table_mv[i + 1] - ocv_table_mv[i])

\* Within the segment that ends at the table's entry i + 1; the lowest is 0.
Charge(i, cell_mv) ==
  (i - 1) * 10 + ((cell_mv - ocv_table_mv[i]) * 10) \div (ocv_table_mv[i + 1] - ocv_table_mv[i])

ocv_lookup_percent(cell_mv) ==
  IF cell_mv <= ocv_table_mv[1] THEN 0
  ELSE IF cell_mv >= ocv_table_mv[11] THEN 100
  ELSE Charge(CHOOSE i \in 1..10 : cell_mv <= ocv_table_mv[i + 1]
                                   /\ \A j \in 1..i - 1 : cell_mv > ocv_table_mv[j + 1], cell_mv)

PackMv(pin) == (pin * 33100) \div 10000

battery_get_millivolts == IF s_last_mv < 0 THEN 0 ELSE s_last_mv
Percent(mv) == IF mv < 0 THEN 0 ELSE ocv_lookup_percent(mv \div CellCount)

Text(mv, pct) ==
  IF pct THEN [unit |-> "%", tens |-> Percent(mv)]
  ELSE [unit |-> "V", tens |-> (IF mv < 0 THEN 0 ELSE mv) \div 100]

\* status_bar_create() draws first, before any reading: it does not leave "--".
BatteryInit ==
  /\ s_last_mv = -1 /\ due = 0 /\ adc = "not yet" /\ is_pct = TRUE
  /\ drawn = [mv |-> 0, pct |-> is_pct, text |-> Text(-1, is_pct)]
  /\ bar_called = FALSE

-----------------------------------------------------------------------------
\* battery_sample_once(), or a step of it that fails.
battery_init ==
  /\ adc = "not yet"
  /\ \/ /\ adc' = "failed" /\ UNCHANGED <<s_last_mv, due>>
     \/ \E pin \in PinMv : /\ adc' = "ready" /\ s_last_mv' = PackMv(pin)
                           /\ due' = Period - 1
  /\ bar_called' = FALSE
  /\ UNCHANGED <<is_pct, drawn>>

\* Late updates find more time gone.
battery_poll ==
  IF s_last_mv < 0 THEN UNCHANGED <<s_last_mv, due>>
  ELSE IF due > 0 THEN due' \in 0..due - 1 /\ UNCHANGED s_last_mv
  ELSE /\ due' = Period - 1
       /\ s_last_mv' \in {s_last_mv} \cup {PackMv(pin) : pin \in PinMv}

\* Mutant: only a new voltage is drawn.
SameAsDrawn_Voltage(mv) == drawn.mv = mv

SameAsDrawn(mv) == drawn.mv = mv /\ drawn.pct = is_pct

status_bar_update_battery ==
  LET mv == IF s_last_mv' < 0 THEN 0 ELSE s_last_mv'
  IN  drawn' = IF SameAsDrawn(mv) THEN drawn
               ELSE [mv |-> mv, pct |-> is_pct, text |-> Text(s_last_mv', is_pct)]

\* update_timer_cb().
BatteryUpdate ==
  /\ battery_poll
  /\ status_bar_update_battery
  /\ bar_called' = TRUE
  /\ UNCHANGED <<adc, is_pct>>

\* settings_set_battery_unit_percent(), by a row or a command.
SetBatteryUnit ==
  /\ is_pct' = ~is_pct
  /\ bar_called' = FALSE
  /\ UNCHANGED <<s_last_mv, due, adc, drawn>>

BatteryNext == battery_init \/ BatteryUpdate \/ SetBatteryUnit

BatterySpec == BatteryInit /\ [][BatteryNext]_batteryVars

-----------------------------------------------------------------------------
BatteryTypeOK ==
  /\ s_last_mv \in {-1} \cup {PackMv(pin) : pin \in PinMv}
  /\ due \in 0..Period - 1 /\ adc \in {"not yet", "ready", "failed"}
  /\ drawn.text.tens \in Nat

\* The charge is the curve's: between the two entries around the cell's voltage, and off
\* the straight line between them by less than one percent.
ChargeOnCurve ==
  LET cell == battery_get_millivolts \div CellCount
      p    == Percent(s_last_mv)
  IN  /\ p \in 0..100
      /\ \A i \in 1..10 :
           LET lo == ocv_table_mv[i]  hi == ocv_table_mv[i + 1]
           IN  cell \in lo..hi =>
                 /\ p \in (i - 1) * 10..i * 10
                 /\ (p - (i - 1) * 10) * (hi - lo) <= (cell - lo) * 10
                 /\ (cell - lo) * 10 < (p + 1 - (i - 1) * 10) * (hi - lo)
      /\ cell < ocv_table_mv[1] => p = 0
      /\ cell > ocv_table_mv[11] => p = 100

\* After an update the label shows the latest reading in the unit that is set, whether or not
\* it had to be drawn again.
LabelTells == bar_called => drawn.text = Text(s_last_mv, is_pct)

\* The status bar tells the charge of the latest reading.
BatteryShown == BatteryTypeOK /\ ChargeOnCurve /\ LabelTells
=============================================================================
