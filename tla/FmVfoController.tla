--------------------------- MODULE FmVfoController ----------------------------
(***************************************************************************)
(* fm_vfo_controller.c: the two VFOs, the debounced retune with its        *)
(* rollback, and direct frequency entry; below it the RX tuning of the     *)
(* AT1846S driver, which channel_controller uses as well.                  *)
(*                                                                         *)
(* Frequencies are naturals in the unit of the last entry digit (10 Hz in  *)
(* the firmware); 0 is "never tuned".  A thread that programs the chip     *)
(* sleeps in I2C transfers, and the LVGL thread may be preempted between   *)
(* what it looked at and what it writes: a call is several steps.          *)
(***************************************************************************)
EXTENDS Integers, Sequences, SequencesExt

CONSTANTS
  Threads,
  VhfMin, VhfMax, UhfMin, UhfMax,  \* the band limits read at init
  Supported,     \* frequencies inside the driver's freq-ranges
  CodeplugVfo,   \* the codeplug's frequencies of VFO A and B, 0 if unreadable
  VfoStep,       \* settings_get_vfo_step_hz()
  EntryDigits,   \* FM_VFO_ENTRY_DIGITS_MAX, 8 in the firmware
  Debounce       \* VFO_RETUNE_DEBOUNCE_MS in passes of the LVGL loop

ASSUME BandAssumption ==
  /\ {VhfMin, VhfMax, UhfMin, UhfMax} \subseteq Nat
  /\ VhfMin < VhfMax /\ VhfMax < UhfMin /\ UhfMin < UhfMax

ASSUME VfoAssumption ==
  /\ Supported \subseteq Nat
  /\ CodeplugVfo \in [0..1 -> Nat]
  /\ {VfoStep, EntryDigits, Debounce} \subseteq Nat \ {0}

VARIABLES
  s_vfo,             \* the RX frequency of each VFO
  s_current_vfo,
  s_retune_pending,
  age,               \* passes since s_last_step_uptime, at most Debounce
  overtaken,         \* history: a frequency came up before a clearing already decided
  entry,             \* s_entry_digits up to s_entry_index
  current_rx_freq,   \* the driver's cache of the last RX frequency
  chip,              \* what the chip is tuned to, 0 if unknown
  th                 \* per thread, the call in progress

fmVars == <<s_vfo, s_current_vfo, s_retune_pending, age, overtaken>>

Frame == [ pc     : {"idle", "scanRssi", "tickRssi", "tune", "tuned", "failed",
                            "follow", "clear"},
           target : Nat,                 \* the frequency being programmed
           owner  : {"vfo", "channel", "console"} ]
IdleFrame == [pc |-> "idle", target |-> 0, owner |-> "vfo"]

At(t, pc)       == th[t].pc = pc
Enter(t, frame) == th' = [th EXCEPT ![t] = frame]
Leave(t)        == Enter(t, IdleFrame)

InBand(hz) == hz \in VhfMin..VhfMax \/ hz \in UhfMin..UhfMax

\* fm_vfo_controller_init(): both VFOs from the codeplug, an initial retune.
FmInit ==
  /\ s_vfo = CodeplugVfo
  /\ s_current_vfo \in 0..1
  /\ s_retune_pending = TRUE
  /\ age = 0
  /\ overtaken = FALSE
  /\ entry = << >>
  /\ current_rx_freq = 0
  /\ chip = 0
  /\ th = [t \in Threads |-> IdleFrame]

-----------------------------------------------------------------------------
(* The AT1846S driver: set_frequency(dev, hz, false).                       *)

\* The range check comes before any transfer.
BeginTune(t, hz, owner) ==
  Enter(t, [pc |-> IF hz \in Supported THEN "tune" ELSE "failed",
            target |-> hz, owner |-> owner])

\* The register writes, under the driver's I2C mutex.  A failed one leaves the
\* chip anywhere between the old and the new frequency, with RX off.
Program(t) ==
  /\ At(t, "tune")
  /\ \/ chip' = th[t].target /\ Enter(t, [th[t] EXCEPT !.pc = "tuned"])
     \/ chip' = 0            /\ Enter(t, [th[t] EXCEPT !.pc = "failed"])
  /\ UNCHANGED <<fmVars, entry, current_rx_freq>>

-----------------------------------------------------------------------------
(* fm_vfo_controller.c                                                      *)

\* Mutant: no clamp and no jump over the gap.
band_limited_step_Unlimited(current, step, up) ==
  IF up THEN current + step ELSE IF current > step THEN current - step ELSE current

band_limited_step(current, step, up) ==
  LET next == IF up THEN current + step
              ELSE IF current > step THEN current - step ELSE current
  IN  CASE InBand(next)  -> next
        [] next < VhfMin -> VhfMin
        [] next > UhfMax -> UhfMax
        [] OTHER         -> IF up THEN UhfMin ELSE VhfMax

\* The common tail: a retune to come.
Arm ==
  /\ s_retune_pending' = TRUE
  /\ age' = 0
  /\ overtaken' = (overtaken \/ \E t \in Threads : At(t, "clear"))

\* A new frequency for the active VFO.
SetActive(hz) ==
  /\ s_vfo' = [s_vfo EXCEPT ![s_current_vfo] = hz]
  /\ Arm

fm_vfo_controller_set_frequency_hz(hz) ==
  SetActive(hz) /\ UNCHANGED s_current_vfo

fm_vfo_controller_step(up) ==
  /\ SetActive(band_limited_step(s_vfo[s_current_vfo], VfoStep, up))
  /\ UNCHANGED <<s_current_vfo, entry>>

fm_vfo_controller_set_current_vfo(vfo) ==
  /\ s_current_vfo' = vfo
  /\ Arm
  /\ UNCHANGED <<s_vfo, entry>>

\* The frequency a full entry names.
EntryValue(digits) == FoldLeft(LAMBDA value, d : value * 10 + d, 0, digits)

\* A full in-band entry tunes the active VFO; a full out-of-band one loses its
\* last digit.
fm_vfo_controller_entry_digit(digit) ==
  LET digits == Append(entry, digit)
  IN  /\ entry = << >> => digit # 0
      /\ IF Len(digits) < EntryDigits
         THEN entry' = digits /\ UNCHANGED fmVars
         ELSE IF InBand(EntryValue(digits))
         THEN entry' = << >> /\ fm_vfo_controller_set_frequency_hz(EntryValue(digits))
         ELSE UNCHANGED <<entry, fmVars>>

fm_vfo_controller_entry_backspace ==
  /\ entry # << >>
  /\ entry' = SubSeq(entry, 1, Len(entry) - 1)
  /\ UNCHANGED fmVars

fm_vfo_controller_entry_cancel == entry' = << >> /\ UNCHANGED fmVars

\* fm_vfo_controller_tick() once the RSSI is read: when a retune is due it is
\* started, when none is to come the shadow will follow the hardware.
fm_vfo_controller_tick(t) ==
  /\ At(t, "tickRssi")
  /\ IF s_retune_pending
     THEN IF age = Debounce THEN BeginTune(t, s_vfo[s_current_vfo], "vfo") ELSE Leave(t)
     ELSE Enter(t, [IdleFrame EXCEPT !.pc = "follow"])
  /\ overtaken' = FALSE
  /\ UNCHANGED <<s_vfo, s_current_vfo, s_retune_pending, age, entry, current_rx_freq, chip>>

Follow(t) ==
  /\ At(t, "follow")
  /\ s_vfo' = [s_vfo EXCEPT ![s_current_vfo] = current_rx_freq]
  /\ Leave(t)
  /\ UNCHANGED <<s_current_vfo, s_retune_pending, age, overtaken, entry, current_rx_freq, chip>>

\* Where a call of the VFO goes on to clear s_retune_pending.
Clears(t) == Enter(t, [th[t] EXCEPT !.pc = "clear"])

\* Mutant: the retune in flight answers a frequency that came up meanwhile.
Tuned_ClearsAlways(t) ==
  /\ At(t, "tuned")
  /\ current_rx_freq' = th[t].target
  /\ IF th[t].owner = "vfo" THEN Clears(t) ELSE Leave(t)
  /\ UNCHANGED <<fmVars, entry, chip>>

\* set_frequency() succeeded: the driver caches the frequency after it has
\* released the mutex; the VFO is in sync unless it moved in the meantime.
Tuned(t) ==
  /\ At(t, "tuned")
  /\ current_rx_freq' = th[t].target
  /\ IF th[t].owner = "vfo" /\ s_vfo[s_current_vfo] = th[t].target THEN Clears(t) ELSE Leave(t)
  /\ UNCHANGED <<fmVars, entry, chip>>

\* The rollback.
RollBack(t, hz) ==
  IF th[t].owner = "vfo" THEN s_vfo' = [s_vfo EXCEPT ![s_current_vfo] = hz] ELSE UNCHANGED s_vfo

\* Mutant: the rollback leaves the retune pending.
TuneFailed_Retries(t) ==
  /\ At(t, "failed")
  /\ RollBack(t, current_rx_freq)
  /\ Leave(t)
  /\ UNCHANGED <<s_current_vfo, s_retune_pending, age, overtaken, entry, current_rx_freq, chip>>

\* Mutant: the driver caches the frequency before it looks at the result.
TuneFailed_Caches(t) ==
  /\ At(t, "failed")
  /\ RollBack(t, th[t].target)
  /\ IF th[t].owner = "vfo" THEN Clears(t) ELSE Leave(t)
  /\ current_rx_freq' = th[t].target
  /\ UNCHANGED <<s_current_vfo, s_retune_pending, age, overtaken, entry, chip>>

\* set_frequency() failed: the VFO rolls back to what the driver says is tuned.
TuneFailed(t) ==
  /\ At(t, "failed")
  /\ RollBack(t, current_rx_freq)
  /\ IF th[t].owner = "vfo" THEN Clears(t) ELSE Leave(t)
  /\ UNCHANGED <<s_current_vfo, s_retune_pending, age, overtaken, entry, current_rx_freq, chip>>

ClearPending(t) ==
  /\ At(t, "clear")
  /\ s_retune_pending' = FALSE
  /\ Leave(t)
  /\ UNCHANGED <<s_vfo, s_current_vfo, age, overtaken, entry, current_rx_freq, chip>>
=============================================================================
