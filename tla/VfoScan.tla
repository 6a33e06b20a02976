------------------------------- MODULE VfoScan --------------------------------
(***************************************************************************)
(* The FM VFO screen over fm_vfo_controller, and scan_controller's VFO     *)
(* scan on top of it.  The LVGL thread runs passes of keys, timers and a   *)
(* sleep; the 200 ms timer updates the screen while it is topmost, and an  *)
(* update ticks the VFO scan and then fm_vfo_controller.  The other        *)
(* screens matter here because channel_controller tunes the same chip.     *)
(* The console starts, stops, reverses and ticks scans and steps channels  *)
(* at any time.                                                            *)
(*                                                                         *)
(* A pass takes no time of its own: only its sleep ages the debounce.      *)
(***************************************************************************)
EXTENDS FmVfoController

CONSTANTS
  UiThreads, ConsoleThreads,
  ScanRange,     \* per VFO, the codeplug's <<vfoScanLow, vfoScanHigh>>; 0 if unset
  DefaultSpan,   \* VFO_SCAN_DEFAULT_SPAN_HZ
  ChannelFreqs,  \* frequencies of the codeplug channels
  Digits,        \* the digit keys pressed, all of 0..9 on the radio
  UpdatePeriod   \* the update timer's 200 ms in passes

ASSUME ScanAssumption ==
  /\ UiThreads \cup ConsoleThreads = Threads
  /\ ScanRange \in [0..1 -> Nat \X Nat]
  /\ ChannelFreqs \subseteq Supported
  /\ Digits \subseteq 0..9
  /\ {DefaultSpan, UpdatePeriod} \subseteq Nat \ {0}

VARIABLES
  s_state, s_target, s_up,
  s_vfo_scan,    \* [low, high]: s_vfo_scan_low_hz and s_vfo_scan_high_hz
  screen,        \* the topmost frame, as far as it matters here
  due            \* passes until the update timer fires again

scanVars == <<s_state, s_target, s_up, s_vfo_scan>>
uiVars   == <<screen, due>>
vars == <<fmVars, entry, current_rx_freq, chip, th, scanVars, uiVars>>

NoBounds == [low |-> 0, high |-> 0]

Init ==
  /\ FmInit
  /\ s_state = "IDLE" /\ s_target = "NONE" /\ s_up = FALSE
  /\ s_vfo_scan = NoBounds
  /\ screen = "BOOT"
  /\ due = 0

-----------------------------------------------------------------------------
(* scan_controller.c, VFO scan.                                             *)

\* From the current frequency one span up; if that is in no band, up to the
\* other band or to the upper end.
compute_default_vfo_bounds ==
  LET rx   == s_vfo[s_current_vfo]
      edge == IF InBand(rx + DefaultSpan) THEN rx + DefaultSpan
              ELSE IF rx <= VhfMax THEN UhfMin ELSE UhfMax
  IN  IF rx < edge THEN [low |-> rx, high |-> edge]
      ELSE [low |-> edge, high |-> rx]

\* The codeplug's bounds if both are set and its settings block is readable.
VfoScanBounds ==
  LET range == ScanRange[s_current_vfo]
  IN  IF range[1] = 0 \/ range[2] = 0 THEN compute_default_vfo_bounds
      ELSE [low |-> range[1], high |-> range[2]]

scan_controller_start_vfo(t, up) ==
  /\ At(t, "idle")
  /\ s_state = "IDLE"
  /\ s_vfo_scan' = VfoScanBounds
  /\ s_target' = "VFO" /\ s_up' = up /\ s_state' = "SCANNING"
  /\ UNCHANGED <<fmVars, entry, current_rx_freq, chip, th, uiVars>>

\* Nothing reads the direction and the bounds until the next start sets them:
\* they are forgotten here.
scan_controller_stop(t) ==
  /\ At(t, "idle")
  /\ s_state # "IDLE"
  /\ s_state' = "IDLE" /\ s_target' = "NONE"
  /\ s_up' = FALSE /\ s_vfo_scan' = NoBounds
  /\ UNCHANGED <<fmVars, entry, current_rx_freq, chip, th, uiVars>>

scan_controller_reverse_direction(t) ==
  /\ At(t, "idle")
  /\ s_state # "IDLE"
  /\ s_up' = ~s_up
  /\ UNCHANGED <<s_state, s_target, s_vfo_scan, fmVars, entry, current_rx_freq,
                 chip, th, uiVars>>

\* Mutant: a downward sweep wraps at zero, not at the lower bound.
SweepNext_DownToZero(freq, up) ==
  LET next == IF up THEN freq + VfoStep
              ELSE IF freq > VfoStep THEN freq - VfoStep ELSE 0
  IN  IF up THEN IF next > s_vfo_scan.high THEN s_vfo_scan.low ELSE next
      ELSE IF next = 0 THEN s_vfo_scan.high ELSE next

\* The next frequency of the sweep, wrapping at its bounds.
SweepNext(freq, up) ==
  LET next == IF up THEN freq + VfoStep
              ELSE IF freq > VfoStep THEN freq - VfoStep ELSE 0
  IN  IF up THEN IF next > s_vfo_scan.high THEN s_vfo_scan.low ELSE next
      ELSE IF next < s_vfo_scan.low THEN s_vfo_scan.high ELSE next

\* scan_controller_tick_vfo() once the RSSI is read.  In a screen update the
\* fm_vfo_controller tick follows.
scan_controller_tick_vfo(t, squelchOpen) ==
  /\ At(t, "scanRssi")
  /\ IF squelchOpen
     THEN s_state' = "PAUSED" /\ UNCHANGED fmVars
     ELSE /\ s_state' = "SCANNING"
          /\ fm_vfo_controller_set_frequency_hz(SweepNext(s_vfo[s_current_vfo], s_up))
  /\ IF th[t].owner = "console" THEN Leave(t)
     ELSE Enter(t, [IdleFrame EXCEPT !.pc = "tickRssi"])
  /\ UNCHANGED <<s_target, s_up, s_vfo_scan, entry, current_rx_freq, chip, uiVars>>

-----------------------------------------------------------------------------
(* The LVGL thread.                                                         *)

\* screen_fm_vfo_update() starts with a look at the scan's target.
BeginUpdate(t) ==
  Enter(t, [IdleFrame EXCEPT !.pc = IF s_target = "VFO" THEN "scanRssi" ELSE "tickRssi"])

UpdateTimer(t) ==
  /\ t \in UiThreads /\ At(t, "idle")
  /\ screen = "VFO"
  /\ due = 0
  /\ due' = UpdatePeriod
  /\ BeginUpdate(t)
  /\ UNCHANGED <<fmVars, entry, current_rx_freq, chip, scanVars, screen>>

\* k_msleep(50) between two passes.
Sleep ==
  /\ \A t \in UiThreads : At(t, "idle")
  /\ age' = IF age = Debounce THEN age ELSE age + 1
  /\ due' = IF due = 0 THEN 0 ELSE due - 1
  /\ UNCHANGED <<s_vfo, s_current_vfo, s_retune_pending, overtaken, entry, current_rx_freq,
                 chip, th, scanVars, screen>>

\* A key that scan_intercept_action() lets through.  Opening the quick menu is
\* one too: its VFO A/B row is only reachable with no scan on.
KeyPasses(t) == t \in UiThreads /\ At(t, "idle") /\ s_state = "IDLE"

VfoKey(t) ==
  /\ KeyPasses(t)
  /\ screen = "VFO"
  /\ \/ \E up \in BOOLEAN : fm_vfo_controller_step(up)
     \/ \E digit \in Digits : fm_vfo_controller_entry_digit(digit)
     \/ fm_vfo_controller_entry_backspace
     \/ fm_vfo_controller_entry_cancel
  /\ UNCHANGED <<current_rx_freq, chip, th, scanVars, uiVars>>

QuickMenuVfo(t) ==
  /\ KeyPasses(t)
  /\ screen # "BOOT"
  /\ fm_vfo_controller_set_current_vfo(1 - s_current_vfo)
  /\ UNCHANGED <<current_rx_freq, chip, th, scanVars, uiVars>>

\* Back to Channel mode or OK to Settings.
LeaveVfoScreen(t) ==
  /\ KeyPasses(t)
  /\ screen = "VFO" /\ screen' = "OTHER"
  /\ UNCHANGED <<fmVars, entry, current_rx_freq, chip, th, scanVars, due>>

\* The boot timer, or Back from Channel mode or Settings: the screen is
\* updated at once.
ShowVfoScreen(t) ==
  /\ KeyPasses(t)
  /\ screen # "VFO" /\ screen' = "VFO"
  /\ BeginUpdate(t)
  /\ UNCHANGED <<fmVars, entry, current_rx_freq, chip, scanVars, due>>

ScanKey(t) ==
  \/ KeyPasses(t) /\ screen = "VFO" /\ scan_controller_start_vfo(t, TRUE)
  \/ t \in UiThreads /\ (scan_controller_stop(t) \/ scan_controller_reverse_direction(t))

-----------------------------------------------------------------------------
(* The console thread, and what both do.                                    *)

Command(t) ==
  /\ t \in ConsoleThreads
  /\ \/ \E up \in BOOLEAN : scan_controller_start_vfo(t, up)
     \/ scan_controller_stop(t)
     \/ scan_controller_reverse_direction(t)
     \/ /\ At(t, "idle") /\ s_target = "VFO"
        /\ Enter(t, [IdleFrame EXCEPT !.pc = "scanRssi", !.owner = "console"])
        /\ UNCHANGED <<fmVars, entry, current_rx_freq, chip, scanVars, uiVars>>

\* channel_controller applies a channel: by keys on its own screen, by console
\* commands on any.
TuneChannel(t) ==
  /\ \/ KeyPasses(t) /\ screen = "OTHER"
     \/ t \in ConsoleThreads /\ At(t, "idle")
  /\ \E hz \in ChannelFreqs : BeginTune(t, hz, "channel")
  /\ UNCHANGED <<fmVars, entry, current_rx_freq, chip, scanVars, uiVars>>

Resume(t) ==
  \/ \E open \in BOOLEAN : scan_controller_tick_vfo(t, open)
  \/ /\ \/ fm_vfo_controller_tick(t) \/ Follow(t)
        \/ Program(t) \/ Tuned(t) \/ TuneFailed(t) \/ ClearPending(t)
     /\ UNCHANGED <<scanVars, uiVars>>

Next ==
  \/ Sleep
  \/ \E t \in Threads :
       \/ UpdateTimer(t) \/ VfoKey(t) \/ QuickMenuVfo(t) \/ LeaveVfoScreen(t)
       \/ ShowVfoScreen(t) \/ ScanKey(t) \/ Command(t) \/ TuneChannel(t)
       \/ Resume(t)

\* The LVGL loop goes round, its timer fires and I2C transfers end.
Fairness ==
  /\ WF_vars(Sleep)
  /\ \A t \in Threads : WF_vars(UpdateTimer(t)) /\ WF_vars(Resume(t))

Spec == Init /\ [][Next]_vars /\ Fairness

-----------------------------------------------------------------------------
(* Properties.                                                              *)

TypeOK ==
  /\ s_vfo \in [0..1 -> Nat]
  /\ s_current_vfo \in 0..1
  /\ s_retune_pending \in BOOLEAN
  /\ age \in 0..Debounce
  /\ overtaken \in BOOLEAN
  /\ entry \in Seq(0..9) /\ Len(entry) < EntryDigits
  /\ current_rx_freq \in Nat
  /\ chip \in Nat
  /\ th \in [Threads -> Frame]
  /\ s_state \in {"IDLE", "SCANNING", "PAUSED"}
  /\ s_target \in {"NONE", "VFO"}
  /\ s_up \in BOOLEAN
  /\ s_vfo_scan \in [low : Nat, high : Nat]
  /\ screen \in {"BOOT", "VFO", "OTHER"}
  /\ due \in 0..UpdatePeriod

UiIdle == \A t \in UiThreads : At(t, "idle")
Quiescent == \A t \in Threads : At(t, "idle")

\* fm_vfo_controller.c:151 of clearing s_retune_pending: "Shadow hasn't moved since target
\* was captured -- now in sync".  With the VFO screen up and no retune to come, what it
\* shows is what is tuned (without console channel commands, which tune behind its back).
InSync ==
  screen = "VFO" /\ UiIdle /\ ~s_retune_pending =>
    s_vfo[s_current_vfo] = current_rx_freq

\* That is so after edits, VFO switches, scans, failed transfers and rollbacks in any order,
\* also when the console's sweep moves the VFO during a transfer; only a sweep's step that
\* preempts the LVGL thread between that comparison and the clearing undoes it, up to the
\* next update.
ShowsWhatIsTuned == overtaken \/ InSync

\* radio_transceiver.h: get_frequency() is the "Last RX frequency set via
\* set_frequency()": between calls the driver's cache names what the chip was
\* programmed to, if its last programming succeeded.
CacheIsChip == Quiescent /\ chip # 0 => current_rx_freq = chip

\* A step that arms a retune; what a call writes back at its end does not.
WritesBack == \E t \in Threads : th[t].pc \in {"follow", "failed"} /\ th'[t] # th[t]
Armed == /\ s_retune_pending' /\ ~WritesBack
         /\ \/ ~s_retune_pending \/ age' < age
            \/ <<s_vfo, s_current_vfo>>' # <<s_vfo, s_current_vfo>>

\* Whatever frequency was shown before -- an unreadable VFO's 0, a channel
\* outside the band limits, the end of a band -- the next one an operator's
\* step or entry asks for is inside a band (a sweep's step ends a tick).
OperatorStaysInBand ==
  [][ Armed /\ s_state = "IDLE" /\ s_vfo' # s_vfo /\ UNCHANGED th => InBand(s_vfo'[s_current_vfo]) ]_vars

\* A sweep that is inside its bounds stays there, in either direction and when
\* reversed at an edge.
InBounds == s_vfo[s_current_vfo] \in s_vfo_scan.low .. s_vfo_scan.high
SweepStaysInBounds ==
  [][ Armed /\ s_state # "IDLE" /\ s_current_vfo' = s_current_vfo /\ InBounds
      => InBounds' ]_vars

\* When the operator stops editing and stays on the VFO screen, the retune
\* happens, or is rolled back, and the screen shows what is tuned for good.
RetuneSettles ==
  /\ <>[](screen = "VFO" /\ s_state = "IDLE")
  /\ <>[][~Armed]_vars
  => <>[](~s_retune_pending /\ (UiIdle => s_vfo[s_current_vfo] = current_rx_freq))

-----------------------------------------------------------------------------
(* What a header says and the code does not do.                             *)

\* fm_vfo_controller.h:59, of fm_vfo_controller_set_frequency_hz(), the sweep's
\* only way to tune: it "arms a debounced retune".  A sweep that finds the
\* squelch closed should therefore keep moving the radio.
SweepRetunes ==
  <>[](screen = "VFO" /\ s_state = "SCANNING") => []<>(\E t \in Threads : At(t, "tune"))
=============================================================================
