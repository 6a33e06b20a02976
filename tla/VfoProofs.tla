------------------------------ MODULE VfoProofs -------------------------------
(***************************************************************************)
(* Proofs about VfoScan, for every band plan, codeplug, step, debounce and *)
(* set of console threads.                                                 *)
(***************************************************************************)
EXTENDS VfoScan, SequenceTheorems, TLAPS

USE DEF At

-----------------------------------------------------------------------------
(* The arithmetic.                                                          *)

\* fm_vfo_controller.c band_limited_step(): from any frequency, inside the bands
\* or not, a step of any width ends inside a band.
THEOREM StepEndsInBand ==
  ASSUME NEW current \in Nat, NEW step \in Nat \ {0}, NEW up \in BOOLEAN
  PROVE  InBand(band_limited_step(current, step, up)) /\ band_limited_step(current, step, up) \in Nat
<1> DEFINE next == IF up THEN current + step
                   ELSE IF current > step THEN current - step ELSE current
<1>1. next \in Nat
  OBVIOUS
<1>2. VhfMin \in Nat /\ VhfMax \in Nat /\ UhfMin \in Nat /\ UhfMax \in Nat
      /\ VhfMin < VhfMax /\ VhfMax < UhfMin /\ UhfMin < UhfMax
  BY BandAssumption
<1>3. InBand(VhfMin) /\ InBand(VhfMax) /\ InBand(UhfMin) /\ InBand(UhfMax)
  BY <1>2 DEF InBand
<1>4. band_limited_step(current, step, up) \in {VhfMin, VhfMax, UhfMin, UhfMax}
      \/ (InBand(next) /\ band_limited_step(current, step, up) = next)
  BY <1>1, <1>2 DEF band_limited_step, InBand
<1> QED
  BY <1>1, <1>2, <1>3, <1>4

\* A frequency of a band is a number.
LEMMA InBandIsNat ==
  ASSUME NEW hz, InBand(hz)
  PROVE  hz \in Nat
BY BandAssumption DEF InBand

\* scan_controller.c 84-160: bounds are frequencies, whatever the codeplug says.
LEMMA BoundsType ==
  ASSUME TypeOK
  PROVE  VfoScanBounds \in [low : Nat, high : Nat]
<1>1. s_vfo[s_current_vfo] \in Nat /\ DefaultSpan \in Nat
      /\ ScanRange[s_current_vfo] \in Nat \X Nat
  BY ScanAssumption DEF TypeOK
<1>2. compute_default_vfo_bounds \in [low : Nat, high : Nat]
  <2> DEFINE rx == s_vfo[s_current_vfo]
             edge == IF InBand(rx + DefaultSpan) THEN rx + DefaultSpan
                     ELSE IF rx <= VhfMax THEN UhfMin ELSE UhfMax
  <2>1. edge \in Nat
    BY <1>1, BandAssumption
  <2> QED
    BY <1>1, <2>1 DEF compute_default_vfo_bounds
<1> QED
  BY <1>1, <1>2 DEF VfoScanBounds

\* A sweep's next frequency: inside the bounds if the last one was.
LEMMA SweepNextInBounds ==
  ASSUME TypeOK, NEW freq \in Nat, NEW up \in BOOLEAN
  PROVE  /\ SweepNext(freq, up) \in Nat
         /\ freq \in s_vfo_scan.low .. s_vfo_scan.high
            => SweepNext(freq, up) \in s_vfo_scan.low .. s_vfo_scan.high
<1>1. s_vfo_scan.low \in Nat /\ s_vfo_scan.high \in Nat /\ VfoStep \in Nat \ {0}
  BY VfoAssumption DEF TypeOK
<1> QED
  BY <1>1 DEF SweepNext

-----------------------------------------------------------------------------
(* Type correctness.                                                        *)

\* The state after boot has its types.
LEMMA InitType == Init => TypeOK
<1> SUFFICES ASSUME Init PROVE TypeOK
  OBVIOUS
<1>1. entry \in Seq(0..9) /\ Len(entry) < EntryDigits
  BY VfoAssumption DEF Init, FmInit
<1>2. th \in [Threads -> Frame]
  BY DEF Init, FmInit, IdleFrame, Frame
<1>3. /\ s_vfo \in [0..1 -> Nat] /\ s_current_vfo \in 0..1 /\ s_retune_pending \in BOOLEAN
      /\ age \in 0..Debounce /\ current_rx_freq \in Nat /\ chip \in Nat
  BY VfoAssumption DEF Init, FmInit
<1>4. /\ s_state \in {"IDLE", "SCANNING", "PAUSED"} /\ s_target \in {"NONE", "VFO"}
      /\ s_up \in BOOLEAN /\ s_vfo_scan \in [low : Nat, high : Nat]
      /\ screen \in {"BOOT", "VFO", "OTHER"}
  BY DEF Init, NoBounds
<1>5. due \in 0..UpdatePeriod
  <2>1. UpdatePeriod \in Nat /\ due = 0
    BY ScanAssumption DEF Init
  <2> QED
    BY <2>1
<1>6. overtaken \in BOOLEAN
  BY DEF Init, FmInit
<1> QED
  BY <1>1, <1>2, <1>3, <1>4, <1>5, <1>6 DEF TypeOK

\* Entering or leaving a call keeps the frames' type.
LEMMA EnterType ==
  ASSUME TypeOK, NEW t \in Threads, NEW f \in Frame, Enter(t, f)
  PROVE  th' \in [Threads -> Frame] /\ th'[t] = f
BY DEF TypeOK, Enter

\* Returning from a call leaves an idle frame.
LEMMA LeaveType ==
  ASSUME TypeOK, NEW t \in Threads, Leave(t)
  PROVE  th' \in [Threads -> Frame] /\ th'[t] = IdleFrame
<1>1. IdleFrame \in Frame
  BY DEF IdleFrame, Frame
<1> QED
  BY <1>1, EnterType DEF Leave

\* The periodic update begins with a read of the RSSI.
LEMMA BeginUpdateType ==
  ASSUME TypeOK, NEW t \in Threads, BeginUpdate(t)
  PROVE  /\ th' \in [Threads -> Frame]
         /\ th'[t].pc \in {"scanRssi", "tickRssi"} /\ th'[t].owner = "vfo"
         /\ th'[t].pc = "scanRssi" => s_target = "VFO"
<1> DEFINE f == [IdleFrame EXCEPT !.pc = IF s_target = "VFO" THEN "scanRssi" ELSE "tickRssi"]
<1>1. f \in Frame /\ f.pc \in {"scanRssi", "tickRssi"} /\ f.owner = "vfo"
      /\ (f.pc = "scanRssi" => s_target = "VFO")
  BY DEF IdleFrame, Frame
<1> QED
  BY <1>1, EnterType DEF BeginUpdate

\* A retune begins with a frame that carries its frequency.
LEMMA BeginTuneType ==
  ASSUME TypeOK, NEW t \in Threads, NEW hz \in Nat, NEW owner \in {"vfo", "channel"},
         BeginTune(t, hz, owner)
  PROVE  /\ th' \in [Threads -> Frame]
         /\ th'[t].pc \in {"tune", "failed"} /\ th'[t].owner = owner
<1> DEFINE f == [pc |-> IF hz \in Supported THEN "tune" ELSE "failed",
                 target |-> hz, owner |-> owner]
<1>1. f \in Frame /\ f.pc \in {"tune", "failed"} /\ f.owner = owner
  BY DEF Frame
<1> QED
  BY <1>1, EnterType DEF BeginTune

\* A new frequency of the active VFO.
LEMMA SetActiveType ==
  ASSUME TypeOK, NEW hz \in Nat, SetActive(hz)
  PROVE  /\ s_vfo' \in [0..1 -> Nat] /\ s_vfo'[s_current_vfo] = hz
         /\ s_retune_pending' = TRUE /\ age' = 0 /\ age' \in 0..Debounce
         /\ overtaken' \in BOOLEAN
<1>1. s_vfo' \in [0..1 -> Nat] /\ s_vfo'[s_current_vfo] = hz
  BY DEF TypeOK, SetActive
<1>2. s_retune_pending' = TRUE /\ age' = 0 /\ age' \in 0..Debounce
  BY VfoAssumption DEF SetActive, Arm
<1>3. overtaken' \in BOOLEAN
  BY DEF TypeOK, SetActive, Arm
<1> QED
  BY <1>1, <1>2, <1>3

\* A step of the LVGL thread's keys, timers and calls, or of a console command.
LEMMA ThreadKeepsType ==
  ASSUME TypeOK, NEW t \in Threads,
         \/ UpdateTimer(t) \/ VfoKey(t) \/ QuickMenuVfo(t) \/ LeaveVfoScreen(t)
         \/ ShowVfoScreen(t) \/ ScanKey(t) \/ Command(t) \/ TuneChannel(t) \/ Resume(t)
  PROVE  TypeOK'
<1> USE DEF fmVars, scanVars, uiVars
<1>0. /\ th \in [Threads -> Frame] /\ th[t] \in Frame
      /\ s_vfo \in [0..1 -> Nat] /\ s_current_vfo \in 0..1 /\ s_vfo[s_current_vfo] \in Nat
      /\ VfoStep \in Nat \ {0} /\ current_rx_freq \in Nat
  BY VfoAssumption DEF TypeOK
<1>1. CASE UpdateTimer(t)
  <2>1. due' \in 0..UpdatePeriod
    <3>1. UpdatePeriod \in Nat /\ due' = UpdatePeriod
      BY <1>1, ScanAssumption DEF UpdateTimer
    <3> QED
      BY <3>1
  <2> QED
    BY <1>1, <2>1, BeginUpdateType DEF UpdateTimer, TypeOK
<1>2. CASE VfoKey(t)
  <2>1. ASSUME NEW up \in BOOLEAN, fm_vfo_controller_step(up)
        PROVE  TypeOK'
    <3> DEFINE hz == band_limited_step(s_vfo[s_current_vfo], VfoStep, up)
    <3>1. hz \in Nat
      BY <1>0, StepEndsInBand
    <3>2. SetActive(hz)
      BY <2>1 DEF fm_vfo_controller_step
    <3>3. /\ s_vfo' \in [0..1 -> Nat] /\ s_retune_pending' = TRUE /\ age' \in 0..Debounce
          /\ overtaken' \in BOOLEAN
      BY <3>1, <3>2, SetActiveType
    <3> QED
      BY <1>2, <2>1, <3>3 DEF fm_vfo_controller_step, VfoKey, TypeOK
  <2>2. ASSUME NEW digit \in Digits, fm_vfo_controller_entry_digit(digit)
        PROVE  TypeOK'
    <3> DEFINE digits == Append(entry, digit)
    <3>1. digits \in Seq(0..9) /\ EntryDigits \in Nat \ {0}
      BY ScanAssumption, VfoAssumption DEF TypeOK
    <3>2. \/ entry' = digits /\ Len(digits) < EntryDigits /\ UNCHANGED fmVars
          \/ UNCHANGED <<entry, fmVars>>
          \/ /\ entry' = << >> /\ InBand(EntryValue(digits))
             /\ fm_vfo_controller_set_frequency_hz(EntryValue(digits))
      BY <2>2 DEF fm_vfo_controller_entry_digit
    <3>3. entry' \in Seq(0..9) /\ Len(entry') < EntryDigits
      <4>1. << >> \in Seq(0..9) /\ Len(<< >>) = 0
        OBVIOUS
      <4>2. entry \in Seq(0..9) /\ Len(entry) < EntryDigits
        BY DEF TypeOK
      <4>3. \/ entry' = digits /\ Len(digits) < EntryDigits
            \/ entry' = entry
            \/ entry' = << >>
        BY <3>2
      <4> HIDE DEF digits
      <4>4. CASE entry' = << >>
        <5>1. 0 < EntryDigits
          BY <3>1
        <5> QED
          BY <4>1, <4>4, <5>1
      <4> QED
        BY <3>1, <4>2, <4>3, <4>4
    <3>4. /\ s_vfo' \in [0..1 -> Nat] /\ s_retune_pending' \in BOOLEAN /\ age' \in 0..Debounce
          /\ s_current_vfo' = s_current_vfo /\ overtaken' \in BOOLEAN
      <4>1. CASE UNCHANGED fmVars
        BY <4>1 DEF TypeOK
      <4>2. CASE InBand(EntryValue(digits)) /\ fm_vfo_controller_set_frequency_hz(EntryValue(digits))
        <5>1. EntryValue(digits) \in Nat
          BY <4>2, InBandIsNat
        <5> QED
          BY <4>2, <5>1, SetActiveType DEF fm_vfo_controller_set_frequency_hz
      <4> QED
        BY <3>2, <4>1, <4>2
    <3> QED
      BY <1>2, <3>3, <3>4 DEF VfoKey, TypeOK
  <2>3. ASSUME fm_vfo_controller_entry_backspace
        PROVE  TypeOK'
    <3>1. entry \in Seq(0..9) /\ Len(entry) < EntryDigits /\ EntryDigits \in Nat /\ Len(entry) \in Nat
          /\ entry' = SubSeq(entry, 1, Len(entry) - 1) /\ Len(entry) # 0
      BY <2>3, VfoAssumption DEF TypeOK, fm_vfo_controller_entry_backspace
    <3> DEFINE n == Len(entry) - 1
    <3>2. n \in Nat /\ n < EntryDigits
      BY <3>1
    <3>3. entry' \in Seq(0..9) /\ Len(entry') = n
      <4>1. /\ SubSeq(entry, 1, n) \in Seq(0..9)
            /\ Len(SubSeq(entry, 1, n)) = IF 1 <= n THEN n - 1 + 1 ELSE 0
        <5>1. \A i \in 1..n : entry[i] \in 0..9
          BY <3>1
        <5>2. 1 \in Int /\ n \in Int
          BY <3>2
        <5> HIDE DEF n
        <5> QED
          BY <5>1, <5>2, SubSeqProperties
      <4>2. entry' = SubSeq(entry, 1, n)
        BY <3>1
      <4> HIDE DEF n
      <4>3. (IF 1 <= n THEN n - 1 + 1 ELSE 0) = n
        BY <3>2
      <4> QED
        BY <4>1, <4>2, <4>3, Zenon
    <3>4. entry' \in Seq(0..9) /\ Len(entry') < EntryDigits
      <4> HIDE DEF n
      <4> QED
        BY <3>2, <3>3
    <3> QED
      BY <1>2, <2>3, <3>4 DEF fm_vfo_controller_entry_backspace, VfoKey, TypeOK
  <2>4. ASSUME fm_vfo_controller_entry_cancel
        PROVE  TypeOK'
    <3>1. entry' \in Seq(0..9) /\ Len(entry') < EntryDigits
      BY <2>4, VfoAssumption DEF TypeOK, fm_vfo_controller_entry_cancel
    <3> QED
      BY <1>2, <2>4, <3>1 DEF fm_vfo_controller_entry_cancel, VfoKey, TypeOK
  <2> QED
    BY <1>2, <2>1, <2>2, <2>3, <2>4 DEF VfoKey
<1>3. CASE QuickMenuVfo(t)
  <2>1. age' \in 0..Debounce /\ s_current_vfo' \in 0..1
    BY <1>3, VfoAssumption DEF QuickMenuVfo, fm_vfo_controller_set_current_vfo, Arm, TypeOK
  <2>2. overtaken' \in BOOLEAN
    BY <1>3 DEF QuickMenuVfo, fm_vfo_controller_set_current_vfo, Arm, TypeOK
  <2> QED
    BY <1>3, <2>1, <2>2 DEF QuickMenuVfo, fm_vfo_controller_set_current_vfo, Arm, TypeOK
<1>4. CASE LeaveVfoScreen(t)
  BY <1>4 DEF LeaveVfoScreen, TypeOK
<1>5. CASE ShowVfoScreen(t)
  BY <1>5, BeginUpdateType DEF ShowVfoScreen, TypeOK
<1>6. ASSUME NEW up \in BOOLEAN, scan_controller_start_vfo(t, up)
      PROVE  TypeOK'
  BY <1>6, BoundsType DEF scan_controller_start_vfo, TypeOK
<1>7. CASE scan_controller_stop(t)
  BY <1>7 DEF scan_controller_stop, NoBounds, TypeOK
<1>8. CASE scan_controller_reverse_direction(t)
  BY <1>8 DEF scan_controller_reverse_direction, TypeOK
<1>9. CASE ScanKey(t)
  BY <1>6, <1>7, <1>8, <1>9 DEF ScanKey
<1>10. CASE Command(t)
  <2>1. ASSUME Enter(t, [IdleFrame EXCEPT !.pc = "scanRssi", !.owner = "console"]),
               UNCHANGED <<fmVars, entry, current_rx_freq, chip, scanVars, uiVars>>
        PROVE  TypeOK'
    <3>1. [IdleFrame EXCEPT !.pc = "scanRssi", !.owner = "console"] \in Frame
      BY DEF IdleFrame, Frame
    <3> QED
      BY <2>1, <3>1, EnterType DEF TypeOK
  <2> QED
    BY <1>6, <1>7, <1>8, <1>10, <2>1 DEF Command
<1>11. CASE TuneChannel(t)
  <2>1. PICK hz \in ChannelFreqs : BeginTune(t, hz, "channel")
    BY <1>11 DEF TuneChannel
  <2>2. hz \in Nat
    BY ScanAssumption, VfoAssumption
  <2> QED
    BY <1>11, <2>1, <2>2, BeginTuneType DEF TuneChannel, TypeOK
<1>12. ASSUME NEW open \in BOOLEAN, scan_controller_tick_vfo(t, open)
       PROVE  TypeOK'
  <2>1. th' \in [Threads -> Frame]
    <3>1. [IdleFrame EXCEPT !.pc = "tickRssi"] \in Frame
      BY DEF IdleFrame, Frame
    <3> QED
      BY <1>12, <3>1, EnterType, LeaveType DEF scan_controller_tick_vfo
  <2>2. /\ s_vfo' \in [0..1 -> Nat] /\ s_retune_pending' \in BOOLEAN /\ age' \in 0..Debounce
        /\ s_current_vfo' = s_current_vfo /\ overtaken' \in BOOLEAN
    <3>1. CASE open
      BY <1>12, <3>1 DEF scan_controller_tick_vfo, TypeOK
    <3>2. CASE ~open
      <4> DEFINE hz == SweepNext(s_vfo[s_current_vfo], s_up)
      <4>1. hz \in Nat
        BY <1>0, SweepNextInBounds DEF TypeOK
      <4>2. SetActive(hz) /\ s_current_vfo' = s_current_vfo
        BY <1>12, <3>2 DEF scan_controller_tick_vfo, fm_vfo_controller_set_frequency_hz
      <4> QED
        BY <4>1, <4>2, SetActiveType
    <3> QED
      BY <3>1, <3>2
  <2>3. s_state' \in {"SCANNING", "PAUSED"}
    BY <1>12 DEF scan_controller_tick_vfo
  <2> QED
    BY <1>12, <2>1, <2>2, <2>3 DEF scan_controller_tick_vfo, TypeOK
<1>13. CASE fm_vfo_controller_tick(t) /\ UNCHANGED <<scanVars, uiVars>>
  <2>1. th' \in [Threads -> Frame]
    <3>1. [IdleFrame EXCEPT !.pc = "follow"] \in Frame
      BY DEF IdleFrame, Frame
    <3> QED
      BY <1>0, <1>13, <3>1, BeginTuneType, LeaveType, EnterType DEF fm_vfo_controller_tick
  <2> QED
    BY <1>13, <2>1 DEF fm_vfo_controller_tick, TypeOK
<1>14. CASE Program(t) /\ UNCHANGED <<scanVars, uiVars>>
  <2>1. th[t].target \in Nat /\ [th[t] EXCEPT !.pc = "tuned"] \in Frame
        /\ [th[t] EXCEPT !.pc = "failed"] \in Frame
    BY <1>0 DEF Frame
  <2> QED
    BY <1>14, <2>1, EnterType DEF Program, TypeOK
<1>15. CASE Tuned(t) /\ UNCHANGED <<scanVars, uiVars>>
  <2>1. th[t].target \in Nat /\ [th[t] EXCEPT !.pc = "clear"] \in Frame
    BY <1>0 DEF Frame
  <2>2. th' \in [Threads -> Frame]
    BY <1>15, <2>1, LeaveType, EnterType DEF Tuned, Clears
  <2> QED
    BY <1>15, <2>1, <2>2 DEF Tuned, TypeOK
<1>16. CASE TuneFailed(t) /\ UNCHANGED <<scanVars, uiVars>>
  <2>1. s_vfo' \in [0..1 -> Nat]
    BY <1>0, <1>16 DEF TuneFailed, RollBack, TypeOK
  <2>2. [th[t] EXCEPT !.pc = "clear"] \in Frame
    BY <1>0 DEF Frame
  <2>3. th' \in [Threads -> Frame]
    BY <1>16, <2>2, LeaveType, EnterType DEF TuneFailed, Clears
  <2> QED
    BY <1>16, <2>1, <2>3 DEF TuneFailed, TypeOK
<1>18. CASE Follow(t) /\ UNCHANGED <<scanVars, uiVars>>
  <2>1. s_vfo' \in [0..1 -> Nat]
    BY <1>0, <1>18 DEF Follow
  <2> QED
    BY <1>18, <2>1, LeaveType DEF Follow, TypeOK
<1>19. CASE ClearPending(t) /\ UNCHANGED <<scanVars, uiVars>>
  BY <1>19, LeaveType DEF ClearPending, TypeOK
<1>17. CASE Resume(t)
  BY <1>12, <1>13, <1>14, <1>15, <1>16, <1>17, <1>18, <1>19 DEF Resume
<1> QED
  BY <1>1, <1>2, <1>3, <1>4, <1>5, <1>9, <1>10, <1>11, <1>17

\* Every step keeps the types.
LEMMA NextType == TypeOK /\ [Next]_vars => TypeOK'
<1> SUFFICES ASSUME TypeOK, [Next]_vars PROVE TypeOK'
  OBVIOUS
<1>1. CASE Sleep
  <2>1. Debounce \in Nat /\ UpdatePeriod \in Nat
    BY ScanAssumption, VfoAssumption
  <2>2. age' \in 0..Debounce /\ due' \in 0..UpdatePeriod
    BY <1>1, <2>1 DEF Sleep, TypeOK
  <2> QED
    BY <1>1, <2>2 DEF Sleep, TypeOK, scanVars
<1>2. CASE UNCHANGED vars
  BY <1>2 DEF vars, fmVars, scanVars, uiVars, TypeOK
<1> QED
  BY <1>1, <1>2, ThreadKeepsType DEF Next

\* The variables of fm_vfo_controller.c, of the VFO scan and of the driver keep their
\* types, whatever the threads do.
THEOREM VfoTypes == Spec => []TypeOK
BY InitType, NextType, PTL DEF Spec

-----------------------------------------------------------------------------
(* The sweep's bounds hold for any number of callers.                       *)

\* Sleep only ages the debounce, a pass of the loop that programs the radio arms nothing:
\* what arms a retune during a scan is the sweep's own step.
LEMMA SweepStep ==
  ASSUME TypeOK, [Next]_vars, Armed, s_state # "IDLE", s_current_vfo' = s_current_vfo
  PROVE  /\ SetActive(SweepNext(s_vfo[s_current_vfo], s_up))
         /\ UNCHANGED s_vfo_scan
<1> USE DEF fmVars, scanVars, uiVars
<1>0. age \in Nat /\ s_retune_pending \in BOOLEAN
  BY VfoAssumption DEF TypeOK
<1>1. ~UNCHANGED <<s_vfo, s_current_vfo, s_retune_pending, age>> /\ s_retune_pending'
  <2>1. age' = age => ~(age' < age)
    BY <1>0
  <2>2. s_retune_pending'
    BY DEF Armed
  <2>3. ASSUME s_vfo' = s_vfo, s_current_vfo' = s_current_vfo, age' = age,
               s_retune_pending' = s_retune_pending
        PROVE  FALSE
    BY <2>1, <2>3, Zenon DEF Armed
  <2> QED
    BY <2>2, <2>3
<1>2. ~UNCHANGED vars
  BY <1>1 DEF vars
<1>3. ~Sleep
  <2>1. age + 1 \in Nat /\ ~(age < age) /\ ~(age + 1 < age)
    BY <1>0
  <2> QED
    BY <2>1, Zenon DEF Sleep, Armed
<1>4. ASSUME NEW t \in Threads
      PROVE  /\ ~UpdateTimer(t) /\ ~VfoKey(t) /\ ~QuickMenuVfo(t) /\ ~LeaveVfoScreen(t)
             /\ ~ShowVfoScreen(t) /\ ~TuneChannel(t)
  BY <1>1 DEF UpdateTimer, VfoKey, QuickMenuVfo, LeaveVfoScreen, ShowVfoScreen, TuneChannel, KeyPasses
<1>5. ASSUME NEW t \in Threads
      PROVE  ~ScanKey(t) /\ ~Command(t)
  BY <1>1 DEF ScanKey, Command, scan_controller_start_vfo, scan_controller_stop,
              scan_controller_reverse_direction
<1>6. ASSUME NEW t \in Threads
      PROVE  /\ ~fm_vfo_controller_tick(t) /\ ~Program(t) /\ ~Tuned(t) /\ ~TuneFailed(t)
             /\ ~Follow(t) /\ ~ClearPending(t)
  <2>1. ~fm_vfo_controller_tick(t) /\ ~Program(t) /\ ~Tuned(t)
    BY <1>1 DEF fm_vfo_controller_tick, Program, Tuned
  <2>2. th[t].pc \in {"follow", "failed"} => th'[t] = th[t]
    BY DEF Armed, WritesBack
  <2>3. ~ClearPending(t)
    BY <1>1 DEF ClearPending
  <2>4. ASSUME Follow(t) \/ TuneFailed(t)
        PROVE  FALSE
    <3>1. th \in [Threads -> Frame] /\ th[t] \in Frame
      BY DEF TypeOK
    <3>2. th[t].pc \in {"follow", "failed"}
      BY <2>4 DEF Follow, TuneFailed, At
    <3>3. CASE Leave(t)
      <4>1. th'[t] = IdleFrame
        BY <3>3, LeaveType
      <4> QED
        BY <2>2, <3>2, <4>1 DEF IdleFrame
    <3>4. CASE Clears(t)
      <4>1. [th[t] EXCEPT !.pc = "clear"] \in Frame /\ [th[t] EXCEPT !.pc = "clear"].pc = "clear"
        BY <3>1 DEF Frame
      <4>2. th'[t].pc = "clear"
        BY <3>4, <4>1, EnterType DEF Clears
      <4> QED
        BY <2>2, <3>2, <4>2
    <3> QED
      BY <2>4, <3>3, <3>4 DEF Follow, TuneFailed
  <2> QED
    BY <2>1, <2>3, <2>4
<1>7. Next
  BY <1>2
<1>8. PICK t \in Threads : Resume(t)
  BY <1>3, <1>4, <1>5, <1>7 DEF Next
<1>9. PICK open \in BOOLEAN : scan_controller_tick_vfo(t, open)
  BY <1>6, <1>8 DEF Resume
<1>10. IF open THEN UNCHANGED fmVars
       ELSE fm_vfo_controller_set_frequency_hz(SweepNext(s_vfo[s_current_vfo], s_up))
  BY <1>9, Zenon DEF scan_controller_tick_vfo
<1>11. UNCHANGED s_vfo_scan
  BY <1>9 DEF scan_controller_tick_vfo
<1>12. fm_vfo_controller_set_frequency_hz(SweepNext(s_vfo[s_current_vfo], s_up))
  BY <1>1, <1>10
<1> QED
  BY <1>11, <1>12 DEF fm_vfo_controller_set_frequency_hz

\* scan_controller_tick_vfo(): while a VFO scan runs, whatever arms a retune keeps a frequency
\* that was inside the bounds inside, up or down, also at an edge and next to zero.
THEOREM SweepInBounds == Spec => SweepStaysInBounds
<1>1. TypeOK /\ [Next]_vars
      => [Armed /\ s_state # "IDLE" /\ s_current_vfo' = s_current_vfo /\ InBounds => InBounds']_vars
  <2> SUFFICES ASSUME TypeOK, [Next]_vars, Armed, s_state # "IDLE",
                      s_current_vfo' = s_current_vfo, InBounds
               PROVE  InBounds'
    OBVIOUS
  <2> DEFINE next == SweepNext(s_vfo[s_current_vfo], s_up)
  <2>1. SetActive(next) /\ UNCHANGED s_vfo_scan
    BY SweepStep
  <2>2. s_vfo[s_current_vfo] \in Nat /\ s_up \in BOOLEAN
    BY DEF TypeOK
  <2>3. next \in Nat /\ next \in s_vfo_scan.low .. s_vfo_scan.high
    BY <2>2, SweepNextInBounds DEF InBounds
  <2>4. s_vfo'[s_current_vfo] = next
    BY <2>1, <2>3, SetActiveType
  <2> QED
    BY <2>1, <2>3, <2>4 DEF InBounds
<1> QED
  BY <1>1, VfoTypes, PTL DEF Spec, SweepStaysInBounds

-----------------------------------------------------------------------------
(* What the screen shows, for one LVGL thread and any number of console     *)
(* threads that do not tune channels.                                       *)

OneUi(ui) == UiThreads = {ui} /\ ui \notin ConsoleThreads
NoChannelCommands == ConsoleThreads = {} \/ ChannelFreqs = {}

\* A console thread only ever waits for the RSSI of its tick.
ConsoleTicks ==
  \A t \in ConsoleThreads : th[t].pc # "idle" => th[t].pc = "scanRssi" /\ th[t].owner = "console"

\* A retune of the VFO's is still pending, a channel's means another screen is up, and
\* between the writes and the cache the chip is on the target.  What is about to clear the
\* flag has found the VFO on the tuned frequency, or was overtaken since.
UiCall(ui) ==
  /\ th[ui].owner # "console"
  /\ th[ui].pc \in {"tune", "tuned", "failed"} =>
       IF th[ui].owner = "vfo" THEN s_retune_pending ELSE screen # "VFO"
  /\ th[ui].pc \in {"scanRssi", "tickRssi", "follow", "clear"} => th[ui].owner = "vfo"
  /\ th[ui].pc = "clear" => overtaken \/ s_vfo[s_current_vfo] = current_rx_freq
  /\ IF th[ui].pc = "tuned" THEN chip = th[ui].target
     ELSE chip # 0 => current_rx_freq = chip

Shown(ui) ==
  screen = "VFO" /\ th[ui].pc = "idle" /\ ~s_retune_pending =>
    overtaken \/ s_vfo[s_current_vfo] = current_rx_freq

\* The inductive invariant: what makes the screen true is that the flag stays up for as
\* long as a frequency is on its way to the chip.
TunedInv(ui) == ConsoleTicks /\ UiCall(ui) /\ Shown(ui)

\* After boot nothing is on its way to the chip but what the flag announces.
LEMMA InitTuned ==
  ASSUME NEW ui, OneUi(ui)
  PROVE  Init => TunedInv(ui)
<1>1. ui \in Threads /\ ConsoleThreads \subseteq Threads
  BY ScanAssumption DEF OneUi
<1> QED
  BY <1>1 DEF Init, FmInit, IdleFrame, TunedInv, ConsoleTicks, UiCall, Shown

\* The facts about the threads that every case starts from.
LEMMA Threading ==
  ASSUME TypeOK, NEW ui, OneUi(ui)
  PROVE  /\ ui \in Threads /\ ConsoleThreads \subseteq Threads
         /\ \A t \in Threads : t = ui \/ t \in ConsoleThreads
         /\ \A t \in Threads : t \in UiThreads => t = ui
         /\ th \in [Threads -> Frame]
BY ScanAssumption DEF OneUi, TypeOK

\* A step of the only LVGL thread leaves the console's calls alone.
LEMMA UiStepFrame ==
  ASSUME TypeOK, NEW ui, OneUi(ui), TunedInv(ui), NEW f, Enter(ui, f)
  PROVE  ConsoleTicks' /\ th'[ui] = f
<1>1. th' = [th EXCEPT ![ui] = f] /\ th \in [Threads -> Frame] /\ ui \in Threads
      /\ ui \notin ConsoleThreads /\ ConsoleThreads \subseteq Threads
  BY Threading DEF OneUi, Enter
<1>2. \A t \in ConsoleThreads : th'[t] = th[t]
  BY <1>1
<1> QED
  BY <1>1, <1>2 DEF TunedInv, ConsoleTicks

\* Between the LVGL thread's calls: keys, timers and the start of a call.
LEMMA UiBetweenCalls ==
  ASSUME TypeOK, NEW ui, OneUi(ui), NoChannelCommands, TunedInv(ui),
         \/ UpdateTimer(ui) \/ VfoKey(ui) \/ QuickMenuVfo(ui) \/ LeaveVfoScreen(ui)
         \/ ShowVfoScreen(ui) \/ ScanKey(ui) \/ TuneChannel(ui)
  PROVE  TunedInv(ui)'
<1> USE DEF fmVars, scanVars, uiVars
<1>0. ui \in Threads /\ ui \notin ConsoleThreads
  BY Threading DEF OneUi
<1>1. CASE UpdateTimer(ui)
  <2>1. /\ th'[ui].pc \in {"scanRssi", "tickRssi"} /\ th'[ui].owner = "vfo"
        /\ At(ui, "idle") /\ UNCHANGED <<chip, current_rx_freq>>
    BY <1>0, <1>1, BeginUpdateType DEF UpdateTimer
  <2>2. ConsoleTicks'
    BY <1>1, UiStepFrame DEF UpdateTimer, BeginUpdate
  <2> QED
    BY <2>1, <2>2 DEF TunedInv, UiCall, Shown
<1>2. CASE VfoKey(ui)
  <2>1. UNCHANGED <<th, chip, current_rx_freq, screen>> /\ At(ui, "idle")
    BY <1>2 DEF VfoKey, KeyPasses
  <2>2. s_retune_pending' = TRUE \/ UNCHANGED fmVars
    BY <1>2 DEF VfoKey, fm_vfo_controller_step, fm_vfo_controller_entry_digit,
                fm_vfo_controller_entry_backspace, fm_vfo_controller_entry_cancel,
                fm_vfo_controller_set_frequency_hz, SetActive, Arm
  <2> QED
    BY <2>1, <2>2 DEF TunedInv, ConsoleTicks, UiCall, Shown
<1>3. CASE QuickMenuVfo(ui)
  BY <1>3 DEF QuickMenuVfo, KeyPasses, fm_vfo_controller_set_current_vfo, Arm,
              TunedInv, ConsoleTicks, UiCall, Shown
<1>4. CASE LeaveVfoScreen(ui)
  BY <1>4 DEF LeaveVfoScreen, KeyPasses, TunedInv, ConsoleTicks, UiCall, Shown
<1>5. CASE ShowVfoScreen(ui)
  <2>1. /\ th'[ui].pc \in {"scanRssi", "tickRssi"} /\ th'[ui].owner = "vfo"
        /\ At(ui, "idle") /\ UNCHANGED <<chip, current_rx_freq>>
    BY <1>0, <1>5, BeginUpdateType DEF ShowVfoScreen, KeyPasses
  <2>2. ConsoleTicks'
    BY <1>5, UiStepFrame DEF ShowVfoScreen, BeginUpdate
  <2> QED
    BY <2>1, <2>2 DEF TunedInv, UiCall, Shown
<1>6. CASE ScanKey(ui)
  <2>1. UNCHANGED <<s_vfo, s_current_vfo, s_retune_pending, overtaken, th, chip, current_rx_freq, screen>>
    BY <1>6 DEF ScanKey, scan_controller_start_vfo, scan_controller_stop,
                scan_controller_reverse_direction
  <2> QED
    BY <2>1 DEF TunedInv, ConsoleTicks, UiCall, Shown
<1>7. CASE TuneChannel(ui)
  <2>1. PICK hz \in ChannelFreqs : BeginTune(ui, hz, "channel")
    BY <1>7 DEF TuneChannel
  <2>2. hz \in Nat
    BY ScanAssumption, VfoAssumption
  <2>3. th'[ui].pc \in {"tune", "failed"} /\ th'[ui].owner = "channel"
    BY <1>0, <2>1, <2>2, BeginTuneType
  <2>4. At(ui, "idle") /\ screen # "VFO" /\ UNCHANGED <<chip, current_rx_freq, screen>>
    BY <1>0, <1>7 DEF TuneChannel, KeyPasses
  <2>5. ConsoleTicks'
    BY <2>1, UiStepFrame DEF BeginTune
  <2> QED
    BY <2>3, <2>4, <2>5 DEF TunedInv, UiCall, Shown
<1> QED
  BY <1>1, <1>2, <1>3, <1>4, <1>5, <1>6, <1>7

\* The steps of a call of the LVGL thread.
LEMMA UiCallStep ==
  ASSUME TypeOK, NEW ui, OneUi(ui), TunedInv(ui), Resume(ui)
  PROVE  TunedInv(ui)'
<1> USE DEF fmVars, scanVars, uiVars
<1>0. /\ ui \in Threads /\ th[ui] \in Frame /\ s_vfo \in [0..1 -> Nat] /\ s_current_vfo \in 0..1
      /\ current_rx_freq \in Nat
  BY Threading DEF TypeOK
<1>1. ASSUME NEW open \in BOOLEAN, scan_controller_tick_vfo(ui, open)
      PROVE  TunedInv(ui)'
  <2>1. At(ui, "scanRssi") /\ th[ui].owner # "console"
        /\ UNCHANGED <<chip, current_rx_freq, screen>>
    BY <1>1 DEF scan_controller_tick_vfo, TunedInv, UiCall
  <2>2. Enter(ui, [IdleFrame EXCEPT !.pc = "tickRssi"])
    BY <1>1, <2>1 DEF scan_controller_tick_vfo
  <2>3. ConsoleTicks' /\ th'[ui] = [IdleFrame EXCEPT !.pc = "tickRssi"]
    BY <2>2, UiStepFrame
  <2>4. th'[ui].pc = "tickRssi" /\ th'[ui].owner = "vfo"
    BY <2>3 DEF IdleFrame
  <2> QED
    BY <2>1, <2>3, <2>4 DEF TunedInv, UiCall, Shown
<1>2. CASE fm_vfo_controller_tick(ui) /\ UNCHANGED <<scanVars, uiVars>>
  <2>1. At(ui, "tickRssi") /\ UNCHANGED <<chip, current_rx_freq, screen, s_current_vfo>>
        /\ s_retune_pending' = s_retune_pending
    BY <1>2 DEF fm_vfo_controller_tick
  <2>2. CASE s_retune_pending /\ BeginTune(ui, s_vfo[s_current_vfo], "vfo")
    <3>1. th'[ui].pc \in {"tune", "failed"} /\ th'[ui].owner = "vfo"
      BY <1>0, <2>2, BeginTuneType
    <3>2. ConsoleTicks'
      BY <2>2, UiStepFrame DEF BeginTune
    <3> QED
      BY <2>1, <2>2, <3>1, <3>2 DEF TunedInv, UiCall, Shown
  <2>3. CASE s_retune_pending /\ Leave(ui)
    <3>1. ConsoleTicks' /\ th'[ui] = IdleFrame
      BY <2>3, UiStepFrame DEF Leave
    <3> QED
      BY <2>1, <2>3, <3>1 DEF TunedInv, UiCall, Shown, IdleFrame
  <2>4. CASE ~s_retune_pending
    <3>1. Enter(ui, [IdleFrame EXCEPT !.pc = "follow"])
      BY <1>2, <2>4 DEF fm_vfo_controller_tick
    <3>2. ConsoleTicks' /\ th'[ui] = [IdleFrame EXCEPT !.pc = "follow"]
      BY <3>1, UiStepFrame
    <3>3. th'[ui].pc = "follow" /\ th'[ui].owner = "vfo"
      BY <3>2 DEF IdleFrame
    <3> QED
      BY <2>1, <3>2, <3>3 DEF TunedInv, UiCall, Shown
  <2> QED
    BY <1>2, <2>2, <2>3, <2>4 DEF fm_vfo_controller_tick
<1>3. CASE Program(ui) /\ UNCHANGED <<scanVars, uiVars>>
  <2>1. At(ui, "tune") /\ UNCHANGED <<s_retune_pending, screen, current_rx_freq>>
    BY <1>3 DEF Program
  <2>2. CASE chip' = th[ui].target /\ Enter(ui, [th[ui] EXCEPT !.pc = "tuned"])
    <3>1. ConsoleTicks' /\ th'[ui] = [th[ui] EXCEPT !.pc = "tuned"]
      BY <2>2, UiStepFrame
    <3>2. th'[ui].pc = "tuned" /\ th'[ui].owner = th[ui].owner /\ th'[ui].target = th[ui].target
      BY <1>0, <3>1 DEF Frame
    <3> QED
      BY <2>1, <2>2, <3>1, <3>2 DEF TunedInv, UiCall, Shown
  <2>3. CASE chip' = 0 /\ Enter(ui, [th[ui] EXCEPT !.pc = "failed"])
    <3>1. ConsoleTicks' /\ th'[ui] = [th[ui] EXCEPT !.pc = "failed"]
      BY <2>3, UiStepFrame
    <3>2. th'[ui].pc = "failed" /\ th'[ui].owner = th[ui].owner
      BY <1>0, <3>1 DEF Frame
    <3> QED
      BY <2>1, <2>3, <3>1, <3>2 DEF TunedInv, UiCall, Shown
  <2> QED
    BY <1>3, <2>2, <2>3 DEF Program
<1>6. ASSUME Clears(ui)
      PROVE  ConsoleTicks' /\ th'[ui].pc = "clear" /\ th'[ui].owner = th[ui].owner
  <2>1. ConsoleTicks' /\ th'[ui] = [th[ui] EXCEPT !.pc = "clear"]
    BY <1>6, UiStepFrame DEF Clears
  <2>2. th'[ui].pc = "clear" /\ th'[ui].owner = th[ui].owner
    BY <1>0, <2>1 DEF Frame
  <2> QED
    BY <2>1, <2>2
<1>7. ASSUME Leave(ui)
      PROVE  ConsoleTicks' /\ th'[ui].pc = "idle" /\ th'[ui].owner = "vfo"
  BY <1>7, UiStepFrame DEF Leave, IdleFrame
<1>4. CASE Tuned(ui) /\ UNCHANGED <<scanVars, uiVars>>
  <2>1. At(ui, "tuned") /\ current_rx_freq' = th[ui].target /\ chip' = chip /\ chip = th[ui].target
        /\ UNCHANGED <<s_vfo, s_current_vfo, s_retune_pending, overtaken, screen>>
    BY <1>4 DEF Tuned, TunedInv, UiCall
  <2>2. CASE Clears(ui) /\ th[ui].owner = "vfo" /\ s_vfo[s_current_vfo] = th[ui].target
    BY <1>6, <2>1, <2>2 DEF TunedInv, UiCall, Shown
  <2>3. CASE Leave(ui)
    <3>1. screen = "VFO" => s_retune_pending
      BY <2>1 DEF TunedInv, UiCall
    <3> QED
      BY <1>7, <2>1, <2>3, <3>1 DEF TunedInv, UiCall, Shown
  <2> QED
    BY <1>4, <2>2, <2>3 DEF Tuned
<1>5. CASE TuneFailed(ui) /\ UNCHANGED <<scanVars, uiVars>>
  <2>1. At(ui, "failed") /\ UNCHANGED <<s_current_vfo, s_retune_pending, overtaken, screen, chip, current_rx_freq>>
    BY <1>5 DEF TuneFailed
  <2>2. CASE th[ui].owner = "vfo"
    <3>1. s_vfo'[s_current_vfo'] = current_rx_freq' /\ Clears(ui)
      BY <1>0, <1>5, <2>1, <2>2 DEF TuneFailed, RollBack
    <3> QED
      BY <1>6, <2>1, <2>2, <3>1 DEF TunedInv, UiCall, Shown
  <2>3. CASE th[ui].owner # "vfo"
    <3>1. screen # "VFO" /\ Leave(ui)
      BY <1>5, <2>1, <2>3 DEF TuneFailed, TunedInv, UiCall
    <3> QED
      BY <1>7, <2>1, <3>1 DEF TunedInv, UiCall, Shown
  <2> QED
    BY <2>2, <2>3
<1>8. CASE Follow(ui) /\ UNCHANGED <<scanVars, uiVars>>
  <2>1. /\ At(ui, "follow") /\ Leave(ui) /\ s_vfo'[s_current_vfo'] = current_rx_freq'
        /\ UNCHANGED <<chip, current_rx_freq, screen>>
    BY <1>0, <1>8 DEF Follow
  <2> QED
    BY <1>7, <2>1 DEF TunedInv, UiCall, Shown
<1>9. CASE ClearPending(ui) /\ UNCHANGED <<scanVars, uiVars>>
  <2>1. /\ At(ui, "clear") /\ Leave(ui)
        /\ UNCHANGED <<s_vfo, s_current_vfo, overtaken, chip, current_rx_freq, screen>>
    BY <1>9 DEF ClearPending
  <2> QED
    BY <1>7, <2>1 DEF TunedInv, UiCall, Shown
<1> QED
  BY <1>1, <1>2, <1>3, <1>4, <1>5, <1>8, <1>9 DEF Resume

\* A console thread starts, stops, reverses and ticks scans; a tick only ever raises the flag.
LEMMA ConsoleStep ==
  ASSUME TypeOK, NEW ui, OneUi(ui), NoChannelCommands, TunedInv(ui), NEW t \in ConsoleThreads,
         Command(t) \/ TuneChannel(t) \/ Resume(t)
  PROVE  TunedInv(ui)'
<1> USE DEF fmVars, scanVars, uiVars
<1>0. /\ t \in Threads /\ ui \in Threads /\ t # ui /\ th \in [Threads -> Frame]
      /\ ConsoleThreads \subseteq Threads /\ (At(t, "idle") \/ At(t, "scanRssi"))
      /\ (At(t, "scanRssi") => th[t].owner = "console")
  BY Threading DEF OneUi, TunedInv, ConsoleTicks
<1>1. ~TuneChannel(t)
  BY <1>0 DEF TuneChannel, NoChannelCommands, KeyPasses, OneUi
<1>2. CASE Command(t)
  <2>1. UNCHANGED <<s_vfo, s_current_vfo, s_retune_pending, overtaken, chip, current_rx_freq, screen>>
    BY <1>2 DEF Command, scan_controller_start_vfo, scan_controller_stop,
                scan_controller_reverse_direction
  <2>2. th' = th \/ th' = [th EXCEPT ![t] = [IdleFrame EXCEPT !.pc = "scanRssi", !.owner = "console"]]
    BY <1>2 DEF Command, scan_controller_start_vfo, scan_controller_stop,
                scan_controller_reverse_direction, Enter
  <2>3. th'[ui] = th[ui] /\ ConsoleTicks'
    BY <1>0, <2>2 DEF IdleFrame, TunedInv, ConsoleTicks
  <2> QED
    BY <2>1, <2>3 DEF TunedInv, UiCall, Shown
<1>3. ASSUME NEW open \in BOOLEAN, scan_controller_tick_vfo(t, open)
      PROVE  TunedInv(ui)'
  <2>1. At(t, "scanRssi") /\ UNCHANGED <<chip, current_rx_freq, screen>>
    BY <1>3 DEF scan_controller_tick_vfo
  <2>2. th' = [th EXCEPT ![t] = IdleFrame]
    BY <1>0, <1>3, <2>1 DEF scan_controller_tick_vfo, Leave, Enter
  <2>3. th'[ui] = th[ui] /\ ConsoleTicks'
    BY <1>0, <2>2 DEF IdleFrame, TunedInv, ConsoleTicks
  <2>4. \/ s_retune_pending' = TRUE /\ (At(ui, "clear") => overtaken')
        \/ UNCHANGED <<s_vfo, s_current_vfo, s_retune_pending, overtaken>>
    <3>1. IF open THEN UNCHANGED fmVars
          ELSE fm_vfo_controller_set_frequency_hz(SweepNext(s_vfo[s_current_vfo], s_up))
      BY <1>3, Zenon DEF scan_controller_tick_vfo
    <3> QED
      BY <1>0, <3>1 DEF fm_vfo_controller_set_frequency_hz, SetActive, Arm
  <2> QED
    BY <2>1, <2>3, <2>4 DEF TunedInv, UiCall, Shown
<1>4. /\ ~fm_vfo_controller_tick(t) /\ ~Program(t) /\ ~Tuned(t) /\ ~TuneFailed(t)
      /\ ~Follow(t) /\ ~ClearPending(t)
  BY <1>0 DEF fm_vfo_controller_tick, Program, Tuned, TuneFailed, Follow, ClearPending
<1> QED
  BY <1>1, <1>2, <1>3, <1>4 DEF Resume

\* Every step keeps that, with one display thread and no channel commands.
LEMMA NextTuned ==
  ASSUME NEW ui, OneUi(ui), NoChannelCommands
  PROVE  TypeOK /\ TunedInv(ui) /\ [Next]_vars => TunedInv(ui)'
<1> SUFFICES ASSUME TypeOK, TunedInv(ui), [Next]_vars PROVE TunedInv(ui)'
  OBVIOUS
<1>0. ui \notin ConsoleThreads /\ UiThreads = {ui}
  BY DEF OneUi
<1>1. CASE Sleep
  BY <1>1 DEF Sleep, scanVars, TunedInv, ConsoleTicks, UiCall, Shown
<1>2. CASE UNCHANGED vars
  BY <1>2 DEF vars, fmVars, uiVars, TunedInv, ConsoleTicks, UiCall, Shown
<1>3. ASSUME NEW t \in Threads,
             \/ UpdateTimer(t) \/ VfoKey(t) \/ QuickMenuVfo(t) \/ LeaveVfoScreen(t)
             \/ ShowVfoScreen(t) \/ ScanKey(t)
      PROVE  t = ui
  BY <1>0, <1>3 DEF UpdateTimer, VfoKey, QuickMenuVfo, LeaveVfoScreen, ShowVfoScreen, ScanKey, KeyPasses
<1>4. ASSUME NEW t \in Threads, Command(t)
      PROVE  t \in ConsoleThreads
  BY <1>4 DEF Command
<1>5. \A t \in Threads : t = ui \/ t \in ConsoleThreads
  BY Threading
<1> QED
  BY <1>1, <1>2, <1>3, <1>4, <1>5, UiBetweenCalls, UiCallStep, ConsoleStep DEF Next

\* With one LVGL thread, and any number of consoles that start, stop, reverse and tick scans
\* at any point of its calls, the flag, the caches and the frames agree.
THEOREM Tuning ==
  ASSUME NEW CONSTANT ui, OneUi(ui), NoChannelCommands
  PROVE  Spec => [](TypeOK /\ TunedInv(ui))
<1>1. Init => TunedInv(ui)
  BY InitTuned
<1>2. TypeOK /\ TunedInv(ui) /\ [Next]_vars => TunedInv(ui)'
  BY NextTuned
<1> QED
  BY <1>1, <1>2, VfoTypes, PTL DEF Spec

\* screen_fm_vfo.c shows what the radio is tuned to once no retune is pending
\* (fm_vfo_controller_tick()'s flag, its rollback and its comparison after the transfer),
\* unless a console's sweep overtook the clearing of the flag since the last update.
THEOREM ShownIsTuned ==
  ASSUME NEW CONSTANT ui, OneUi(ui), NoChannelCommands
  PROVE  Spec => []ShowsWhatIsTuned
<1>1. TunedInv(ui) => ShowsWhatIsTuned
  BY DEF OneUi, TunedInv, Shown, ShowsWhatIsTuned, InSync, UiIdle
<1> QED
  BY <1>1, Tuning, PTL

\* Between calls at1846s_api_get_frequency() answers what the chip is programmed to.
THEOREM CachedIsChip ==
  ASSUME NEW CONSTANT ui, OneUi(ui), NoChannelCommands
  PROVE  Spec => []CacheIsChip
<1>1. ui \in Threads
  BY ScanAssumption DEF OneUi
<1>2. TunedInv(ui) => CacheIsChip
  BY <1>1 DEF TunedInv, UiCall, CacheIsChip, Quiescent
<1> QED
  BY <1>2, Tuning, PTL

-----------------------------------------------------------------------------
(* The operator's frequencies.                                              *)

\* What changes a frequency and arms a retune outside of a scan's tick is a step or a full entry.
LEMMA OperatorStep ==
  ASSUME TypeOK, [Next]_vars, s_retune_pending', s_vfo' # s_vfo, UNCHANGED th
  PROVE  \E hz \in Nat : InBand(hz) /\ SetActive(hz) /\ s_current_vfo' = s_current_vfo
<1> USE DEF fmVars, scanVars, uiVars
<1>0. s_vfo[s_current_vfo] \in Nat /\ VfoStep \in Nat \ {0} /\ th \in [Threads -> Frame]
  BY VfoAssumption DEF TypeOK
<1>1. ~Sleep /\ ~UNCHANGED vars
  BY DEF Sleep, vars
<1>2. \A t \in Threads :
        /\ ~UpdateTimer(t) /\ ~QuickMenuVfo(t) /\ ~LeaveVfoScreen(t) /\ ~ShowVfoScreen(t)
        /\ ~TuneChannel(t) /\ ~ScanKey(t) /\ ~Command(t)
  BY DEF UpdateTimer, QuickMenuVfo, LeaveVfoScreen, ShowVfoScreen, TuneChannel, ScanKey, Command,
         fm_vfo_controller_set_current_vfo, scan_controller_start_vfo, scan_controller_stop,
         scan_controller_reverse_direction
<1>3. ASSUME NEW t \in Threads, NEW open \in BOOLEAN
      PROVE  ~scan_controller_tick_vfo(t, open)
  <2>1. SUFFICES ASSUME scan_controller_tick_vfo(t, open) PROVE FALSE
    OBVIOUS
  <2> DEFINE next == [IdleFrame EXCEPT !.pc = "tickRssi"]
  <2>2. th[t].pc = "scanRssi" /\ (Leave(t) \/ Enter(t, next))
    BY <2>1, Zenon DEF scan_controller_tick_vfo
  <2>3. th'[t].pc \in {"idle", "tickRssi"}
    BY <1>0, <2>2 DEF IdleFrame, Leave, Enter
  <2> QED
    BY <2>2, <2>3
<1>4. \A t \in Threads : ~Program(t) /\ ~Tuned(t) /\ ~fm_vfo_controller_tick(t)
  BY DEF Program, Tuned, fm_vfo_controller_tick
<1>5. \A t \in Threads : ~TuneFailed(t) /\ ~Follow(t) /\ ~ClearPending(t)
  <2> SUFFICES ASSUME NEW t \in Threads, TuneFailed(t) \/ Follow(t) \/ ClearPending(t) PROVE FALSE
    OBVIOUS
  <2>1. th[t] \in Frame /\ th'[t] = th[t] /\ th[t].pc \in {"failed", "follow", "clear"}
    BY <1>0 DEF TuneFailed, Follow, ClearPending, At
  <2>2. ~ClearPending(t)
    BY DEF ClearPending
  <2>3. ~Leave(t)
    BY <1>0, <2>1 DEF Leave, Enter, IdleFrame
  <2>4. Clears(t) /\ th[t].pc = "failed"
    BY <2>2, <2>3 DEF TuneFailed, Follow, At
  <2>5. [th[t] EXCEPT !.pc = "clear"].pc = "clear"
    BY <2>1 DEF Frame
  <2> QED
    BY <1>0, <2>1, <2>4, <2>5 DEF Clears, Enter
<1>6. PICK t \in Threads : VfoKey(t)
  BY <1>1, <1>2, <1>3, <1>4, <1>5 DEF Next, Resume
<1>7. ASSUME NEW up \in BOOLEAN, fm_vfo_controller_step(up)
      PROVE  \E hz \in Nat : InBand(hz) /\ SetActive(hz) /\ s_current_vfo' = s_current_vfo
  BY <1>0, <1>7, StepEndsInBand DEF fm_vfo_controller_step
<1>8. ASSUME NEW digit \in Digits, fm_vfo_controller_entry_digit(digit)
      PROVE  \E hz \in Nat : InBand(hz) /\ SetActive(hz) /\ s_current_vfo' = s_current_vfo
  <2> DEFINE hz == EntryValue(Append(entry, digit))
  <2>1. InBand(hz) /\ SetActive(hz) /\ s_current_vfo' = s_current_vfo
    BY <1>8 DEF fm_vfo_controller_entry_digit, fm_vfo_controller_set_frequency_hz
  <2>2. hz \in Nat
    BY <2>1, InBandIsNat
  <2> QED
    BY <2>1, <2>2
<1>9. ~fm_vfo_controller_entry_backspace /\ ~fm_vfo_controller_entry_cancel
  BY DEF fm_vfo_controller_entry_backspace, fm_vfo_controller_entry_cancel
<1> QED
  BY <1>6, <1>7, <1>8, <1>9 DEF VfoKey

\* fm_vfo_controller_step() and a full entry: whatever the codeplug or a channel left in the
\* VFO, a frequency the operator asks for is inside a band.
THEOREM OperatorInBand == Spec => OperatorStaysInBand
<1>1. TypeOK /\ [Next]_vars
      => [Armed /\ s_state = "IDLE" /\ s_vfo' # s_vfo /\ UNCHANGED th
          => InBand(s_vfo'[s_current_vfo])]_vars
  <2> SUFFICES ASSUME TypeOK, [Next]_vars, Armed, s_vfo' # s_vfo, UNCHANGED th
               PROVE  InBand(s_vfo'[s_current_vfo])
    OBVIOUS
  <2>1. s_retune_pending'
    BY DEF Armed
  <2>2. PICK hz \in Nat : InBand(hz) /\ SetActive(hz)
    BY <2>1, OperatorStep
  <2>3. s_vfo' = [s_vfo EXCEPT ![s_current_vfo] = hz]
    BY <2>2 DEF SetActive
  <2>4. s_vfo'[s_current_vfo] = hz
    BY <2>3 DEF TypeOK
  <2> QED
    BY <2>2, <2>4
<1> QED
  BY <1>1, VfoTypes, PTL DEF Spec, OperatorStaysInBand
=============================================================================
