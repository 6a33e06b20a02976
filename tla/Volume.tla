--------------------------------- MODULE Volume ---------------------------------
(***************************************************************************)
(* The volume: the pot's reports through the hysteresis of                 *)
(* src/app_input.c and the queue of depth one to the LVGL thread, where    *)
(* src/app.c sets it, from the volume keys as well, and shows it.  The     *)
(* axis driver polls the pot and reports what differs from its last report *)
(* (external); a read of the pot is taken to be exact.                     *)
(***************************************************************************)
EXTENDS Integers, Sequences

CONSTANTS
  VOL_AXIS_MIN, VOL_AXIS_MAX,
  VOLUME_HYSTERESIS,
  Positions                    \* of the pot

ASSUME VolumeAssumption ==
  /\ VOL_AXIS_MIN \in Nat /\ VOL_AXIS_MAX \in Nat /\ VOL_AXIS_MIN < VOL_AXIS_MAX
  /\ VOLUME_HYSTERESIS \in Nat \ {0}
  /\ Positions \subseteq VOL_AXIS_MIN..VOL_AXIS_MAX /\ VOL_AXIS_MIN \in Positions

VARIABLES
  pot, last_out,           \* where the pot is, what its driver reported last
  s_last_stable_vol_raw,   \* -1 before the first report
  ui_vol_events,
  s_volume_raw,
  volume_by,               \* who set it: "boot", "pot" or "key"
  volume_shown             \* the overlay: hidden, or the percentage

volumeVars == <<pot, last_out, s_last_stable_vol_raw, ui_vol_events,
                s_volume_raw, volume_by, volume_shown>>

Hidden == -1

VolumeInit ==
  /\ pot = VOL_AXIS_MIN /\ last_out = -1
  /\ s_last_stable_vol_raw = -1 /\ ui_vol_events = <<>>
  /\ s_volume_raw = (VOL_AXIS_MIN + VOL_AXIS_MAX) \div 2 /\ volume_by = "boot"
  /\ volume_shown = Hidden

-----------------------------------------------------------------------------
(* The input thread.                                                        *)

PotMoves ==
  /\ pot' \in Positions \ {pot}
  /\ UNCHANGED <<last_out, s_last_stable_vol_raw, ui_vol_events,
                 s_volume_raw, volume_by, volume_shown>>

\* Mutant: the ends get no special treatment.
Matters_NoEnds(raw) ==
  LET diff == raw - s_last_stable_vol_raw
  IN  \/ s_last_stable_vol_raw = -1
      \/ diff >= VOLUME_HYSTERESIS \/ -diff >= VOLUME_HYSTERESIS

\* A change is large enough, or goes towards an end near it.
Matters(raw) ==
  LET diff == raw - s_last_stable_vol_raw
  IN  \/ s_last_stable_vol_raw = -1
      \/ diff >= VOLUME_HYSTERESIS \/ -diff >= VOLUME_HYSTERESIS
      \/ diff > 0 /\ raw >= VOL_AXIS_MAX - VOLUME_HYSTERESIS
      \/ diff < 0 /\ raw <= VOL_AXIS_MIN + VOLUME_HYSTERESIS

\* ui_input_event_cb() for the throttle; app_post_volume_abs() replaces what is queued.
PotReported ==
  /\ pot # last_out /\ last_out' = pot
  /\ IF Matters(pot) THEN s_last_stable_vol_raw' = pot /\ ui_vol_events' = <<pot>>
     ELSE UNCHANGED <<s_last_stable_vol_raw, ui_vol_events>>
  /\ UNCHANGED <<pot, s_volume_raw, volume_by, volume_shown>>

-----------------------------------------------------------------------------
(* The LVGL thread.                                                         *)

VOL_AXIS_SPAN   == VOL_AXIS_MAX - VOL_AXIS_MIN
VOLUME_STEP_RAW == (VOL_AXIS_SPAN * 7) \div 100
RoundClosest(n, d) == (n + d \div 2) \div d

taper_lut_audio_a == <<0, 42, 55, 60, 66, 72, 77, 83, 89, 94, 100>>

\* Mutant: the fraction is counted down from the upper checkpoint.
volume_display_pct_Down(raw) ==
  LET pos10 == (raw - VOL_AXIS_MIN) * 10
      lo    == taper_lut_audio_a[pos10 \div VOL_AXIS_SPAN + 1]
      hi    == taper_lut_audio_a[pos10 \div VOL_AXIS_SPAN + 2]
  IN  IF raw >= VOL_AXIS_MAX THEN 100
      ELSE hi - RoundClosest((hi - lo) * (pos10 % VOL_AXIS_SPAN), VOL_AXIS_SPAN)

volume_display_pct(raw) ==
  LET pos10 == (raw - VOL_AXIS_MIN) * 10
      lo    == taper_lut_audio_a[pos10 \div VOL_AXIS_SPAN + 1]
      hi    == taper_lut_audio_a[pos10 \div VOL_AXIS_SPAN + 2]
  IN  IF raw >= VOL_AXIS_MAX THEN 100
      ELSE lo + RoundClosest((hi - lo) * (pos10 % VOL_AXIS_SPAN), VOL_AXIS_SPAN)

\* The chip's level follows, or the write fails, which is only logged.  The overlay is shown
\* with the setting on.
apply_volume(raw, by) ==
  /\ s_volume_raw' = raw /\ volume_by' = by
  /\ volume_shown' = volume_display_pct(raw)
  /\ UNCHANGED <<pot, last_out, s_last_stable_vol_raw>>

\* app_tick().
VolumeTick ==
  /\ ui_vol_events # <<>> /\ ui_vol_events' = <<>>
  /\ apply_volume(ui_vol_events[1], "pot")

\* UI_ACTION_VOL_UP and VOL_DN.
VolumeUp ==
  /\ apply_volume(IF s_volume_raw <= VOL_AXIS_MAX - VOLUME_STEP_RAW
                  THEN s_volume_raw + VOLUME_STEP_RAW ELSE VOL_AXIS_MAX, "key")
  /\ UNCHANGED ui_vol_events

VolumeDown ==
  /\ apply_volume(IF s_volume_raw >= VOL_AXIS_MIN + VOLUME_STEP_RAW
                  THEN s_volume_raw - VOLUME_STEP_RAW ELSE VOL_AXIS_MIN, "key")
  /\ UNCHANGED ui_vol_events

\* dismiss_cb() of the overlay.
VolumeDismissed ==
  /\ volume_shown # Hidden /\ volume_shown' = Hidden
  /\ UNCHANGED <<pot, last_out, s_last_stable_vol_raw, ui_vol_events,
                 s_volume_raw, volume_by>>

VolumeNext ==
  PotMoves \/ PotReported \/ VolumeTick \/ VolumeUp \/ VolumeDown \/ VolumeDismissed

VolumeSpec == VolumeInit /\ [][VolumeNext]_volumeVars

-----------------------------------------------------------------------------
VolumeTypeOK ==
  /\ s_volume_raw \in VOL_AXIS_MIN..VOL_AXIS_MAX
  /\ Len(ui_vol_events) <= 1
  /\ volume_shown \in {Hidden} \cup 0..100

\* Once the pot's position was reported and the queue is read, the volume is the pot's, but for
\* the hysteresis, and at its ends exactly, unless a key came after it: the reports that
\* were dropped or overwritten on the way do not matter.
FollowsPot ==
  pot = last_out /\ ui_vol_events = <<>> /\ volume_by # "key" =>
    /\ s_volume_raw - pot < VOLUME_HYSTERESIS /\ pot - s_volume_raw < VOLUME_HYSTERESIS
    /\ pot \in {VOL_AXIS_MIN, VOL_AXIS_MAX} => s_volume_raw = pot

\* A change shown that makes it louder never shows less than before, nor the other way round,
\* across the segments of the table.
ShownRises ==
  [][volume_shown # Hidden /\ volume_shown' # Hidden =>
       /\ s_volume_raw' >= s_volume_raw => volume_shown' >= volume_shown
       /\ s_volume_raw' <= s_volume_raw => volume_shown' <= volume_shown]_volumeVars

\* The volume goes where the pot goes, and the overlay says so.
KnobFollowed == []VolumeTypeOK /\ []FollowsPot /\ ShownRises
=============================================================================
