------------------------------- MODULE Settings -------------------------------
(***************************************************************************)
(* src/model/radio_settings.c and src/controller/settings_controller.c:    *)
(* the settings, their rows and their one subscriber, which applies each   *)
(* change; the screen-dim timeout of src/app.c, which shares the backlight *)
(* with the Brightness row; the watchdog's blink, which shares the green   *)
(* LED with the LED row; and what channel_controller.c programs into the   *)
(* same radio past the settings.                                           *)
(*                                                                         *)
(* The rows are turned by the LVGL thread and by the console thread,       *)
(* without a lock.  A call runs as several steps of its thread: it stores  *)
(* the value, reads it back in the subscriber, applies it, which sleeps    *)
(* in I2C or SPI, and writes the row's text from what it had read.  The    *)
(* arithmetic of a row and its store are one step, and so are the TX and   *)
(* the RX tone, whose order Radio models.                                  *)
(***************************************************************************)
EXTENDS Integers

CONSTANTS
  Nv,      \* contents of the codeplug's nv-settings block
  Tones,   \* CTCSS tones in the row's table
  Unit,    \* seconds that one step of the idle time stands for
  WDT_LED_TICKS,
  Operators, Consoles   \* the threads that take keys, and commands

ASSUME SettingsAssumption ==
  /\ Nv \subseteq [brightness : Int, off : Int, timeout : Int]
  /\ Tones \in Nat /\ Unit \in Nat \ {0} /\ WDT_LED_TICKS \in Nat /\ WDT_LED_TICKS > 2

VARIABLES
  s_settings,
  s_idx,               \* the positions of the rows that run through a table
  shown,               \* the rows' value_str
  hw,                  \* what the radio and the panel were last told
  backlight,           \* the level last asked of backlight_set_pct(), in percent
  s_backlight_dimmed,
  idle,                \* seconds since s_last_activity_ms, up to the longest timeout
  green,               \* the LED
  wdt_tick,
  setter               \* per thread, the settings_set_*() it is in

settingsVars == <<s_settings, s_idx, shown, hw, backlight, s_backlight_dimmed, idle, green, wdt_tick,
                  setter>>

Callers == Operators \cup Consoles

Cycles    == {"squelch", "css", "step"}
Toggles   == {"bandwidth", "visual", "unit"}
Switches  == {"invert", "leds"}
Levels    == {"brightness", "off", "timeout"}
Keys      == Cycles \cup Toggles \cup Switches \cup Levels
OneWord   == {"squelch", "bandwidth", "step", "css", "brightness"}
OnHw      == {"squelch", "bandwidth", "css", "invert"}

\* A value of a table is its position there; css has two more the console can set.
Size(key)  == IF key = "css" THEN Tones + 1 ELSE 5
OtherTone  == Tones + 1
Dcs        == Tones + 2
Css        == 0..Dcs
Unknown    == -1
ByChannel  == -2   \* the channel controller's

\* What the subscriber does more for than writing the row's text.
Applied == OnHw \cup {"brightness", "leds"}

NoSetter == [pc |-> "idle", key |-> "step", value |-> 0]
SetterAt(t, pc) == setter[t].pc = pc

Lowest(key)  == IF key = "brightness" THEN 10 ELSE 0
Highest(key) == IF key = "timeout" THEN 30 ELSE 100

clamp_to_range(key, value) ==
  IF value < Lowest(key) THEN Lowest(key)
  ELSE IF value > Highest(key) THEN Highest(key) ELSE value

Capped(value, bound) == IF value > bound THEN bound ELSE value

FirmwareDefaults == [brightness |-> 100, off |-> 10, timeout |-> 0]

\* The codeplug's three fields over the defaults; booleans are 0 and 1.
settings_init(nv) ==
  [key \in Keys |->
     IF key \in Levels THEN clamp_to_range(key, nv[key])
     ELSE IF key = "squelch" THEN 2
     ELSE IF key \in {"css", "invert"} THEN 0
     ELSE 1]

\* The row of a key that has a value.  A DCS code has no name there.
RowText(key, value) == IF key = "css" /\ value = Dcs THEN 0 ELSE value

\* What a transfer leaves behind: DCS is refused, any other may fail.
Outcomes(key, value) == IF key = "css" /\ value = Dcs THEN {Unknown} ELSE {value, Unknown}

SettingsInit ==
  /\ \E nv \in Nv \cup {FirmwareDefaults} : s_settings = settings_init(nv)
  /\ s_idx = [key \in Cycles |-> s_settings[key]]
  /\ shown = s_settings
  /\ hw = [key \in OnHw |-> s_settings[key]]
  /\ backlight = s_settings["brightness"]
  /\ s_backlight_dimmed = FALSE
  /\ idle = 0
  /\ green = FALSE
  /\ wdt_tick = 0
  /\ setter = [t \in Callers |-> NoSetter]

-----------------------------------------------------------------------------
(* The rows.                                                                *)

NextIdx(row, dir) == (s_idx[row] + dir + Size(row)) % Size(row)

backlight_off_ceiling(brightness) == IF brightness > 10 THEN brightness - 10 ELSE 0

brightness_cycle(dir) ==
  clamp_to_range("brightness", (s_settings["brightness"] + dir * 10) % 256)

backlight_off_level_cycle(dir) ==
  LET current == s_settings["off"]
      step    == IF current < 10 \/ current > 90 THEN 1 ELSE 10
      new     == IF dir > 0 /\ current = 0 THEN Lowest("brightness")
                 ELSE IF current + dir * step < Lowest("brightness") THEN 0
                 ELSE current + dir * step
  IN  Capped(new, backlight_off_ceiling(s_settings["brightness"]))

screen_dim_timeout_cycle(dir) == clamp_to_range("timeout", s_settings["timeout"] + dir * 5)

\* What a row hands to its setter.
RowValue(row, dir) ==
  CASE row \in Cycles      -> NextIdx(row, dir)
    [] row \in Toggles     -> 1 - s_settings[row]
    [] row \in Switches    -> IF dir > 0 THEN 1 ELSE 0
    [] row = "brightness"  -> brightness_cycle(dir)
    [] row = "off"         -> backlight_off_level_cycle(dir)
    [] row = "timeout"     -> screen_dim_timeout_cycle(dir)

-----------------------------------------------------------------------------
(* The setters, and the subscriber they notify.                             *)

Step(t, pc, value) == setter' = [setter EXCEPT ![t] = [@ EXCEPT !.pc = pc, !.value = value]]
SetterDone(t)      == setter' = [setter EXCEPT ![t] = NoSetter]

\* The value is stored; the subscriber is about to read it.
Set(t, key, value) ==
  /\ s_settings' = [s_settings EXCEPT ![key] = value]
  /\ setter' = [setter EXCEPT ![t] = [pc |-> "notify", key |-> key, value |-> 0]]

Turn(t, row, dir) ==
  /\ SetterAt(t, "idle")
  /\ Set(t, row, RowValue(row, dir))
  /\ s_idx' = IF row \in Cycles THEN [s_idx EXCEPT ![row] = NextIdx(row, dir)] ELSE s_idx

ReadSetting(t) ==
  /\ SetterAt(t, "notify")
  /\ Step(t, IF setter[t].key \in Applied THEN "apply" ELSE "text", s_settings[setter[t].key])
  /\ UNCHANGED <<s_settings, s_idx, shown, hw, backlight, s_backlight_dimmed, idle, green, wdt_tick>>

\* Mutant: the row's text is written only if the hardware took the value.
ApplySetting_ThenTextIfTaken(t) ==
  LET key == setter[t].key  value == setter[t].value
  IN  /\ SetterAt(t, "apply")
      /\ \E taken \in Outcomes(key, value) :
           /\ hw' = IF key \in OnHw THEN [hw EXCEPT ![key] = taken] ELSE hw
           /\ IF key \in OnHw /\ taken = Unknown THEN SetterDone(t) ELSE Step(t, "text", value)
      /\ backlight' = IF key = "brightness" THEN value ELSE backlight
      /\ green' = (green /\ ~(key = "leds" /\ value = 0))
      /\ UNCHANGED <<s_settings, s_idx, shown, s_backlight_dimmed, idle, wdt_tick>>

\* A transfer that fails is logged and forgotten.
ApplySetting(t) ==
  LET key == setter[t].key  value == setter[t].value
  IN  /\ SetterAt(t, "apply")
      /\ \E taken \in Outcomes(key, value) :
           hw' = IF key \in OnHw THEN [hw EXCEPT ![key] = taken] ELSE hw
      /\ backlight' = IF key = "brightness" THEN value ELSE backlight
      /\ green' = (green /\ ~(key = "leds" /\ value = 0))
      /\ Step(t, "text", value)
      /\ UNCHANGED <<s_settings, s_idx, shown, s_backlight_dimmed, idle, wdt_tick>>

\* The Step row's text is looked up by its position.
WriteText(t) ==
  LET key == setter[t].key
  IN  /\ SetterAt(t, "text")
      /\ shown' = [shown EXCEPT ![key] = IF key = "step" THEN s_idx["step"]
                                         ELSE RowText(key, setter[t].value)]
      /\ IF key = "brightness" THEN Step(t, "reclamp", 0) ELSE SetterDone(t)
      /\ UNCHANGED <<s_settings, s_idx, hw, backlight, s_backlight_dimmed, idle, green, wdt_tick>>

\* The tail of brightness_cycle(): the off-level follows a brightness that was
\* lowered past it.
Reclamp(t) ==
  LET ceiling == backlight_off_ceiling(s_settings["brightness"])
  IN  /\ SetterAt(t, "reclamp")
      /\ IF s_settings["off"] > ceiling THEN Set(t, "off", ceiling)
         ELSE SetterDone(t) /\ UNCHANGED s_settings
      /\ UNCHANGED <<s_idx, shown, hw, backlight, s_backlight_dimmed, idle, green, wdt_tick>>

SetterStep(t) == ReadSetting(t) \/ ApplySetting(t) \/ WriteText(t) \/ Reclamp(t)

-----------------------------------------------------------------------------
(* The callers.  A key of the operator counts as activity before it acts,   *)
(* and undims; a command of the console does neither.                       *)

\* Mutant: the idle time is reset, the backlight forgotten.
ui_note_activity_StaysDim ==
  /\ idle' = 0
  /\ UNCHANGED <<s_backlight_dimmed, backlight>>

ui_note_activity ==
  /\ idle' = 0
  /\ s_backlight_dimmed' = FALSE
  /\ backlight' = IF s_backlight_dimmed THEN s_settings["brightness"] ELSE backlight

RowKey(t, row, dir) ==
  /\ t \in Operators
  /\ ui_note_activity
  /\ Turn(t, row, dir)
  /\ UNCHANGED <<shown, hw, green, wdt_tick>>

OtherKey(t) ==
  /\ t \in Operators
  /\ SetterAt(t, "idle")
  /\ ui_note_activity
  /\ UNCHANGED <<s_settings, s_idx, shown, hw, green, wdt_tick, setter>>

\* A label with a space in it cannot be named on a command line.
cmd_settings_set(t, row, dir) ==
  /\ t \in Consoles
  /\ row \in OneWord
  /\ Turn(t, row, dir)
  /\ UNCHANGED <<shown, hw, backlight, s_backlight_dimmed, idle, green, wdt_tick>>

\* Sets the value past the row: its position stays.
cmd_css(t, css) ==
  /\ t \in Consoles
  /\ SetterAt(t, "idle")
  /\ Set(t, "css", css)
  /\ UNCHANGED <<s_idx, shown, hw, backlight, s_backlight_dimmed, idle, green, wdt_tick>>

\* The channel controller's programming of bandwidth and tones, by either
\* thread; the settings are not told.
apply_to_radio(t) ==
  /\ SetterAt(t, "idle")
  /\ \E bandwidth, css \in {ByChannel, Unknown} :
       hw' = [hw EXCEPT !["bandwidth"] = bandwidth, !["css"] = css]
  /\ UNCHANGED <<s_settings, s_idx, shown, backlight, s_backlight_dimmed, idle, green, wdt_tick,
                 setter>>

-----------------------------------------------------------------------------
(* The timers.                                                              *)

Later == Capped(idle + Unit, Highest("timeout"))

\* Mutant: the timeout is compared as if it had not been reached yet.
Expired_Past == Later > s_settings["timeout"]

Expired == Later >= s_settings["timeout"]

\* update_timer_cb(), on the operator's thread, once more time went by.
update_timer_cb(t) ==
  /\ t \in Operators
  /\ SetterAt(t, "idle")
  /\ idle' = Later
  /\ IF s_settings["timeout"] > 0 /\ ~s_backlight_dimmed /\ Expired
     THEN s_backlight_dimmed' = TRUE /\ backlight' = s_settings["off"]
     ELSE UNCHANGED <<s_backlight_dimmed, backlight>>
  /\ UNCHANGED <<s_settings, s_idx, shown, hw, green, wdt_tick, setter>>

\* Mutant: the tick counter does not wrap.
wdt_feed_timer_cb_NoWrap ==
  /\ green' = CASE wdt_tick = 0 -> TRUE [] wdt_tick = 1 -> FALSE [] OTHER -> green
  /\ wdt_tick' = Capped(wdt_tick + 1, WDT_LED_TICKS - 1)
  /\ UNCHANGED <<s_settings, s_idx, shown, hw, backlight, s_backlight_dimmed, idle, setter>>

\* The green LED blinks whether or not the LEDs are enabled.
wdt_feed_timer_cb ==
  /\ green' = CASE wdt_tick = 0 -> TRUE [] wdt_tick = 1 -> FALSE [] OTHER -> green
  /\ wdt_tick' = (wdt_tick + 1) % WDT_LED_TICKS
  /\ UNCHANGED <<s_settings, s_idx, shown, hw, backlight, s_backlight_dimmed, idle, setter>>

SettingsCalls(rows) ==
  \E t \in Callers :
    \/ \E row \in rows, dir \in {-1, 1} : RowKey(t, row, dir) \/ cmd_settings_set(t, row, dir)
    \/ "css" \in rows /\ \E css \in Css : cmd_css(t, css)
    \/ rows \cap {"bandwidth", "css"} # {} /\ apply_to_radio(t)
    \/ SetterStep(t)
    \/ OtherKey(t)

SettingsNext ==
  \/ SettingsCalls(Keys)
  \/ \E t \in Operators : update_timer_cb(t)
  \/ wdt_feed_timer_cb

\* Calls return, the watchdog's timer goes on, and the LVGL loop comes to its
\* timers however often it finds a key, or a command interrupts it.
SettingsFairness ==
  /\ \A t \in Callers : WF_settingsVars(SetterStep(t))
  /\ \A t \in Operators : SF_settingsVars(update_timer_cb(t))
  /\ WF_settingsVars(wdt_feed_timer_cb)

SettingsSpec == SettingsInit /\ [][SettingsNext]_settingsVars /\ SettingsFairness

-----------------------------------------------------------------------------
Values(key) ==
  CASE key = "css" -> Css
    [] key \in Cycles \ {"css"} -> 0..(Size(key) - 1)
    [] key \in Levels -> Lowest(key)..Highest(key)
    [] OTHER -> {0, 1}

SettingsTypeOK ==
  /\ DOMAIN s_settings = Keys /\ \A key \in Keys : s_settings[key] \in Values(key)
  /\ DOMAIN s_idx = Cycles /\ \A key \in Cycles : s_idx[key] \in 0..(Size(key) - 1)
  /\ DOMAIN shown = Keys /\ \A key \in Keys : shown[key] \in Values(key)
  /\ DOMAIN hw = OnHw /\ \A key \in OnHw : hw[key] \in Values(key) \cup {Unknown, ByChannel}
  /\ backlight \in 0..100
  /\ s_backlight_dimmed \in BOOLEAN
  /\ idle \in 0..Highest("timeout")
  /\ green \in BOOLEAN
  /\ wdt_tick \in 0..(WDT_LED_TICKS - 1)
  /\ setter \in [Callers -> [pc : {"idle", "notify", "apply", "text", "reclamp"}, key : Keys, value : Int]]

NoneSets == \A t \in Callers : SetterAt(t, "idle")

\* Between calls a row shows the setting, and what the settings put into the
\* hardware is the current setting: the radio and the panel have that, or what
\* the channel controller programmed later, unless a transfer failed or a DCS
\* code was refused.
RowsTell ==
  NoneSets =>
    /\ \A key \in Keys : shown[key] = RowText(key, s_settings[key])
    /\ \A key \in OnHw : hw[key] \in {s_settings[key], ByChannel, Unknown}
    /\ \A key \in Cycles \ {"css"} : s_idx[key] = s_settings[key]

\* The backlight has the brightness setting whenever the display is not dimmed, and
\* is not dimmed right after a key: what the console sets meanwhile is not lost.
LitInUse ==
  /\ idle = 0 => ~s_backlight_dimmed
  /\ NoneSets /\ ~s_backlight_dimmed => backlight = s_settings["brightness"]

Fits(settings) == settings["off"] <= backlight_off_ceiling(settings["brightness"])

\* A turn of either level leaves the off-level a step below the brightness, or at 0,
\* even if the codeplug's pair was not like that.
OffLevelFits ==
  \A t \in Callers :
    setter[t].key \in {"brightness", "off"} /\ setter'[t].pc = "idle" => Fits(s_settings')

\* Rows, hardware and backlight beside the settings, in one state.
Follows == SettingsTypeOK /\ RowsTell /\ LitInUse

\* With calls that do not overlap, rows, hardware and backlight follow the settings,
\* whoever of operator, console, channel controller and timers acts.
SettingsFollow == Follows /\ [][Follows' /\ OffLevelFits]_settingsVars

\* With a timeout set, a radio nobody touches does not stay undimmed for ever.
DimsWhenIdle == []<>(s_settings["timeout"] = 0 \/ idle = 0 \/ s_backlight_dimmed)
=============================================================================
