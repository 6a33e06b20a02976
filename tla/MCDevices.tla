------------------------------- MODULE MCDevices -------------------------------
(***************************************************************************)
(* The device modules share no state, so one run checks them all: a        *)
(* behaviour is one device's, with the others as they were initialised.    *)
(* For the settings it turns the rows of one group only, next to the timer *)
(* that shares a light with them: dimming with the levels, for which also  *)
(* the codeplug's values are taken, and the watchdog's with the LEDs.      *)
(***************************************************************************)
EXTENDS Backlight, LogBackend, Panel, HrC6000, SpiBitbang, ConsoleLine, Battery, Gps,
        CodeplugImage, Volume, Settings

VARIABLE device

Buffer(n) == [len |-> n, null |-> FALSE]
Unread(n) == [len |-> n, null |-> TRUE]
MCTx == {<<>>, <<Buffer(2), Buffer(1)>>, <<Buffer(1), Buffer(0)>>}
MCRx == {<<>>, <<Buffer(2)>>, <<Unread(1), Buffer(1), Buffer(2)>>}

\* Every third millivolt or so of the cell's range, and both ends of the ADC's.
MCPinMv == {0, 3300} \cup {2083 + 3 * i : i \in 0..153}

Sentence(type, fix, readable) == [type |-> type, fix |-> fix, readable |-> readable]
MCContents ==
  {Sentence("RMC", TRUE, TRUE), Sentence("RMC", FALSE, TRUE), Sentence("RMC", TRUE, FALSE),
   Sentence("GGA", TRUE, TRUE), Sentence("GGA", FALSE, TRUE)}

\* A codeplug of either format of the zones, and the indices next to the ends
\* of the tables.
MCImages ==
  {[modern |-> TRUE,  number |-> 43350125, tone |-> Tone("CTCSS", 670, FALSE), place |-> 515000],
   [modern |-> FALSE, number |-> 99999999, tone |-> Tone("DCS", 492, TRUE), place |-> -1799999]}

MCIndices == {0, 1, 8, 9, 67, 68, 76, 128, 129, 1024, 1025}

RowsOf ==
  [radio    |-> {"squelch", "bandwidth", "css"},
   levels   |-> {"brightness", "off", "timeout"},
   switches |-> {"step", "invert", "visual", "unit", "leds"}]

\* Sensible, an off-level above the brightness, values out of range.
MCNv == {[brightness |-> 100, off |-> 0, timeout |-> 10],
         [brightness |-> 30, off |-> 60, timeout |-> 5],
         [brightness |-> -3, off |-> 120, timeout |-> 90]}

-----------------------------------------------------------------------------
Parts == {"backlight", "log", "panel", "hr", "spi", "line", "battery", "gps", "image", "volume",
          "settings"}

Unchanged(part) ==
  CASE part = "backlight" -> UNCHANGED backlightVars
    [] part = "log"       -> UNCHANGED logVars
    [] part = "panel"     -> UNCHANGED panelVars
    [] part = "hr"        -> UNCHANGED hrVars
    [] part = "spi"       -> UNCHANGED spiVars
    [] part = "line"      -> UNCHANGED lineVars
    [] part = "battery"   -> UNCHANGED batteryVars
    [] part = "gps"       -> UNCHANGED gpsVars
    [] part = "image"     -> UNCHANGED imageVars
    [] part = "volume"    -> UNCHANGED volumeVars
    [] part = "settings"  -> UNCHANGED settingsVars

Alone(part) == UNCHANGED device /\ \A other \in Parts \ {part} : Unchanged(other)

SettingsAct == device \in DOMAIN RowsOf
Dims        == device = "levels" /\ \E t \in Operators : update_timer_cb(t)
Blinks      == device = "switches" /\ wdt_feed_timer_cb

DevicesInit ==
  /\ device \in (Parts \ {"settings"}) \cup DOMAIN RowsOf
  /\ BacklightInit /\ LogInit /\ PanelInit /\ HrInit /\ SpiInit /\ LineInit
  /\ BatteryInit /\ GpsInit /\ ImageInit /\ VolumeInit /\ SettingsInit
  /\ device # "levels" => s_settings = settings_init(FirmwareDefaults)

DevicesNext ==
  \/ device = "backlight" /\ BacklightNext /\ Alone("backlight")
  \/ device = "log"       /\ LogNext       /\ Alone("log")
  \/ device = "panel"     /\ PanelNext     /\ Alone("panel")
  \/ device = "hr"        /\ HrNext        /\ Alone("hr")
  \/ device = "spi"       /\ SpiNext       /\ Alone("spi")
  \/ device = "line"      /\ LineNext      /\ Alone("line")
  \/ device = "battery"   /\ BatteryNext   /\ Alone("battery")
  \/ device = "gps"       /\ GpsNext       /\ Alone("gps")
  \/ device = "image"     /\ ImageNext     /\ Alone("image")
  \/ device = "volume"    /\ VolumeNext    /\ Alone("volume")
  \/ SettingsAct /\ SettingsCalls(RowsOf[device]) /\ Alone("settings")
  \/ Dims /\ Alone("settings")
  \/ Blinks /\ Alone("settings")

\* SettingsFairness where the timers run at all; of the other devices no fair action is
\* enabled at rest.
DevicesFairness ==
  /\ BacklightFairness /\ LogFairness /\ LineFairness /\ GpsFairness
  /\ \A t \in Callers : WF_settingsVars(SetterStep(t))
  /\ SF_settingsVars(Dims)
  /\ WF_settingsVars(Blinks)

DevicesVars == <<device, backlightVars, logVars, panelVars, hrVars, spiVars, lineVars,
                 batteryVars, gpsVars, imageVars, volumeVars, settingsVars>>

DevicesSpec == DevicesInit /\ [][DevicesNext]_DevicesVars /\ DevicesFairness

-----------------------------------------------------------------------------
\* The watchdog's heartbeat: wherever its timer runs the green LED goes on blinking,
\* whatever the LED row does to it (wdt_feed_timer_cb() against settings_set_leds_enabled()).
Heartbeat == []<>(device = "switches" => green) /\ []<>(device = "switches" => ~green)

\* What must come about, whichever interleaving, loss or failure comes first: the log drains,
\* fades end, what was typed is read, a whole sentence is understood, and neither operator nor
\* console stops the timers of dimming and heartbeat.
DevicesGoOn ==
  LogFlows /\ FadeSettles /\ AllRead /\ Resyncs /\ (device = "levels" => DimsWhenIdle) /\ Heartbeat
=============================================================================
