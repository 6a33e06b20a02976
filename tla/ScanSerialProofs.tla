---------------------------- MODULE ScanSerialProofs ----------------------------
(***************************************************************************)
(* Proofs about ScanController for calls that never overlap: one thread    *)
(* takes the keys, the commands and the screen update.  The invariants     *)
(* proved here fail as soon as a second thread calls the controllers.      *)
(***************************************************************************)
EXTENDS ScanProofs

\* The channel settings that are in the radio are the cached channel's, unless
\* a transfer failed.
Settled == radio.fault \/ {radio.freq, radio.shape} \subseteq {FOREIGN, s_channel}

\* What the frame of the only thread remembers is still true.
Local(t) ==
  /\ At(t, "rssi") => s_target = "CHANNEL"
  /\ At(t, "rssiVfo") => s_target = "VFO"
  /\ At(t, "commit") => FromZone(th[t], s_zone_scoped)
  /\ At(t, "freq") => th[t].cand = s_channel
  /\ At(t, "shape") => radio.fault \/ radio.freq = s_channel
  /\ ~At(t, "freq") /\ ~At(t, "shape") => Settled

\* The inductive invariant: a call keeps the promises it makes to itself
\* between two of its steps.
SerialInv == /\ StateMatchesTarget
             /\ CurrentChannelIsReal
             /\ PositionNeedsScope
             /\ \A t \in Threads : Local(t)

\* After boot the invariant of non-overlapping calls holds.
LEMMA SerialInit == Init => SerialInv
<1> SUFFICES ASSUME Init PROVE SerialInv
  OBVIOUS
<1>1. StateMatchesTarget /\ PositionNeedsScope
  BY DEF Init, ChannelInit, StateMatchesTarget, PositionNeedsScope
<1>2. CurrentChannelIsReal
  <2>1. 0 \in Int /\ TRUE \in BOOLEAN
    OBVIOUS
  <2>2. NextInUseChannel(0, TRUE) \in ChannelInUse \cup {0}
    BY <2>1, NextInUseChannelType
  <2> QED
    BY <2>2 DEF Init, ChannelInit, CurrentChannelIsReal
<1>3. ASSUME NEW t \in Threads PROVE Local(t)
  BY DEF Init, ChannelInit, IdleFrame, Local, At, Settled
<1> QED
  BY <1>1, <1>2, <1>3 DEF SerialInv

\* The search of a call that starts, or goes on to its next step, leaves a
\* frame whose promises hold.
LEMMA SearchedLocal ==
  ASSUME InUseInv, NEW t \in Threads, Settled,
         NEW cont \in Conts, NEW scoped, s_zone_scoped' = scoped,
         UNCHANGED <<s_channel, radio, s_current_slot>>,
         NEW f, Searched(f, cont, scoped), th' = [th EXCEPT ![t] = f]
  PROVE  Local(t)'
<1>1. th'[t] = f
  BY DEF InUseInv, FramesOK
<1>2. f.pc \in {"commit", "idle", "entryDone", "armScan", "loopTest"}
  BY DEF Searched, Conts
<1>3. f.pc = "commit" => FromZone(f, scoped)
  BY DEF Searched, Conts
<1>4. Settled'
  BY DEF Settled
<1> QED
  BY <1>1, <1>2, <1>3, <1>4 DEF Local, At, FromZone

\* A call that returns, or moves on without touching the channel.
LEMMA GotoLocal ==
  ASSUME InUseInv, NEW t \in Threads, Settled, UNCHANGED <<s_channel, radio>>,
         NEW pc \in {"idle", "rssi", "rssiVfo", "entryDone", "armScan", "loopTest"},
         Goto(t, pc),
         pc = "rssi" => s_target' = "CHANNEL",
         pc = "rssiVfo" => s_target' = "VFO"
  PROVE  Local(t)'
<1>1. th'[t].pc = pc
  BY DEF InUseInv, FramesOK, Goto, IdleFrame, Frame
<1>2. Settled'
  BY DEF Settled
<1> QED
  BY <1>1, <1>2 DEF Local, At

-----------------------------------------------------------------------------

\* Every step of a navigation call keeps it.
LEMMA NavigateKeepsSerial ==
  ASSUME NEW t, Threads = {t}, InUseInv, SerialInv, NavigateStep(t), UNCHANGED scanVars
  PROVE  SerialInv'
<1>1. ControllersOK /\ t \in Threads /\ th[t] \in Frame /\ FrameOK(th[t]) /\ Local(t)
  BY InUseInvTypeOK DEF InUseInv, FramesOK, SerialInv
<1>2. At(t, "idle") => Settled
  BY <1>1 DEF Local, At
<1>3. StateMatchesTarget'
  BY DEF SerialInv, StateMatchesTarget, scanVars
<1>4. ASSUME CurrentChannelIsReal', PositionNeedsScope', Local(t)'
      PROVE  SerialInv'
  BY <1>3, <1>4 DEF SerialInv
<1>5. ASSUME UNCHANGED channelVars
      PROVE  CurrentChannelIsReal' /\ PositionNeedsScope'
  BY <1>5 DEF SerialInv, channelVars, CurrentChannelIsReal, PositionNeedsScope
<1>6. ASSUME NEW up \in BOOLEAN, channel_controller_step(t, up)
      PROVE  SerialInv'
  <2>1. BeginStep(t, up, "idle", 0) /\ "idle" \in Conts /\ "idle" # "loopTest" /\ 0 \in Nat
    BY <1>6 DEF channel_controller_step, Conts
  <2>2. /\ UNCHANGED channelVars
        /\ \E f : Searched(f, "idle", s_zone_scoped) /\ th' = [th EXCEPT ![t] = f]
    BY <1>1, <2>1, BeginStepFrame
  <2>3. PICK f : Searched(f, "idle", s_zone_scoped) /\ th' = [th EXCEPT ![t] = f]
    BY <2>2
  <2>4. Settled /\ UNCHANGED <<s_channel, radio, s_current_slot, s_zone_scoped>>
    BY <1>2, <1>6, <2>2 DEF channel_controller_step, channelVars
  <2>5. Local(t)'
    BY <1>1, <2>1, <2>3, <2>4, SearchedLocal
  <2> QED
    BY <1>4, <1>5, <2>2, <2>5
<1>7. ASSUME NEW on \in BOOLEAN, channel_controller_set_zone_scoped(t, on)
      PROVE  SerialInv'
  <2>1. BeginSetZoneScoped(t, on, "idle", TRUE) /\ "idle" \in Conts
        /\ "idle" \in Conts \ {"loopTest"} /\ TRUE \in BOOLEAN
    BY <1>7 DEF channel_controller_set_zone_scoped, Conts
  <2>2. /\ s_zone_scoped' = on
        /\ UNCHANGED <<s_channel, s_entry_value, radio>>
        /\ \/ UNCHANGED <<s_index_1based, s_zone_pos>> /\ on
           \/ s_zone_pos' = -1 /\ s_index_1based' \in {0, s_index_1based}
        /\ \E f : Searched(f, "idle", on) /\ th' = [th EXCEPT ![t] = f]
    BY <1>1, <2>1, BeginSetZoneScopedFrame
  <2>3. PICK f : Searched(f, "idle", on) /\ th' = [th EXCEPT ![t] = f]
    BY <2>2
  <2>4. Settled /\ UNCHANGED <<s_channel, radio, s_current_slot>>
    BY <1>2, <1>7, <2>2 DEF channel_controller_set_zone_scoped
  <2>5. Local(t)'
    BY <1>1, <2>1, <2>2, <2>3, <2>4, SearchedLocal
  <2>6. CurrentChannelIsReal' /\ PositionNeedsScope'
    BY <2>2 DEF SerialInv, CurrentChannelIsReal, PositionNeedsScope
  <2> QED
    BY <1>4, <2>5, <2>6
<1>8. ASSUME At(t, "idle"), UNCHANGED <<channelVars, th>>
      PROVE  SerialInv'
  <2>1. Local(t)'
    BY <1>2, <1>8 DEF channelVars, Local, At, Settled
  <2> QED
    BY <1>4, <1>5, <1>8, <2>1
<1>9. ASSUME At(t, "idle"), UNCHANGED <<s_channel, s_index_1based, s_zone_scoped, s_zone_pos, radio, th>>
      PROVE  SerialInv'
  BY <1>2, <1>3, <1>9
     DEF SerialInv, Local, At, Settled, CurrentChannelIsReal, PositionNeedsScope
<1>10. CASE channel_controller_entry_commit(t)
  <2>1. CASE s_entry_value \in ChannelInUse
    <3> DEFINE f == [pc |-> "commit", cont |-> "entryDone", kind |-> "entry", pos |-> -1,
                     cand |-> s_entry_value, up |-> TRUE, left |-> 0]
    <3>1. UNCHANGED channelVars /\ th' = [th EXCEPT ![t] = f]
      BY <1>10, <2>1 DEF channel_controller_entry_commit, Found
    <3>2. th'[t] = f
      BY <1>1, <3>1 DEF InUseInv, FramesOK
    <3>3. Local(t)'
      BY <1>2, <1>10, <3>1, <3>2
         DEF channel_controller_entry_commit, channelVars, Local, At, FromZone, Settled
    <3> QED
      BY <1>4, <1>5, <3>1, <3>3
  <2>2. CASE s_entry_value \notin ChannelInUse
    BY <1>9, <1>10, <2>2 DEF channel_controller_entry_commit
  <2> QED
    BY <2>1, <2>2
<1>11. CASE Commit(t)
  <2>1. th[t].cand \in ChannelInUse /\ FromZone(th[t], s_zone_scoped)
    BY <1>1, <1>11 DEF Commit, Local, At, FrameOK
  <2>2. s_index_1based' = th[t].cand /\ s_channel' = th[t].cand
    BY <1>11, <2>1 DEF Commit, FromZone, zone_controller_get_channel_at
  <2>3. PositionNeedsScope'
    BY <1>11, <2>1 DEF Commit, FromZone, SerialInv, PositionNeedsScope
  <2>4. th'[t].pc = "freq" /\ th'[t].cand = s_channel'
    BY <1>1, <1>11, <2>2 DEF Commit, Goto, InUseInv, FramesOK, Frame
  <2> QED
    BY <1>4, <2>1, <2>2, <2>3, <2>4 DEF CurrentChannelIsReal, Local, At
<1>12. CASE ProgramFreq(t)
  <2>1. th[t].cand = s_channel
    BY <1>1, <1>12 DEF ProgramFreq, Local, At
  <2>2. th'[t].pc = "shape"
    BY <1>1, <1>12 DEF ProgramFreq, Goto, InUseInv, FramesOK, Frame
  <2>3. radio'.fault \/ radio'.freq = s_channel'
    BY <1>12, <2>1 DEF ProgramFreq, InUseInv, DataOK
  <2>4. CurrentChannelIsReal' /\ PositionNeedsScope'
    BY <1>12 DEF ProgramFreq, SerialInv, CurrentChannelIsReal, PositionNeedsScope
  <2> QED
    BY <1>4, <2>2, <2>3, <2>4 DEF Local, At
<1>13. CASE ProgramShape(t)
  <2>1. radio.fault \/ radio.freq = s_channel
    BY <1>1, <1>13 DEF ProgramShape, Local, At
  <2>2. th'[t].pc \in Conts
    BY <1>1, <1>13 DEF ProgramShape, Goto, InUseInv, FramesOK, Frame, IdleFrame, Conts
  <2>3. Settled'
    BY <1>13, <2>1 DEF ProgramShape, InUseInv, DataOK, Settled
  <2>4. CurrentChannelIsReal' /\ PositionNeedsScope'
    BY <1>13 DEF ProgramShape, SerialInv, CurrentChannelIsReal, PositionNeedsScope
  <2> QED
    BY <1>4, <2>2, <2>3, <2>4 DEF Local, At, Conts
<1>14. CASE EntryDone(t)
  <2>1. Settled /\ Goto(t, "idle") /\ UNCHANGED <<s_channel, radio>>
    BY <1>1, <1>14 DEF EntryDone, Local, At
  <2>2. Local(t)'
    BY <1>1, <2>1, GotoLocal
  <2>3. CurrentChannelIsReal' /\ PositionNeedsScope'
    BY <1>14 DEF EntryDone, SerialInv, CurrentChannelIsReal, PositionNeedsScope
  <2> QED
    BY <1>4, <2>2, <2>3
<1>15. ASSUME NEW digit \in 0..9, channel_controller_entry_digit(t, digit)
       PROVE  SerialInv'
  BY <1>9, <1>15 DEF channel_controller_entry_digit
<1>16. CASE channel_controller_entry_cancel(t)
  BY <1>9, <1>16 DEF channel_controller_entry_cancel
<1> QED
  BY <1>6, <1>7, <1>8, <1>10, <1>11, <1>12, <1>13, <1>14, <1>15, <1>16 DEF NavigateStep

\* Every step of a scan call or tick keeps it.
LEMMA ScanKeepsSerial ==
  ASSUME NEW t, Threads = {t}, InUseInv, SerialInv, ScanStep(t)
  PROVE  SerialInv'
<1>1. ControllersOK /\ t \in Threads /\ th[t] \in Frame /\ FrameOK(th[t]) /\ Local(t)
  BY InUseInvTypeOK DEF InUseInv, FramesOK, SerialInv
<1>2. ~At(t, "freq") /\ ~At(t, "shape") => Settled
  BY <1>1 DEF Local
<1>3. ASSUME StateMatchesTarget', CurrentChannelIsReal', PositionNeedsScope', Local(t)'
      PROVE  SerialInv'
  BY <1>3 DEF SerialInv
<1>4. ASSUME UNCHANGED channelVars
      PROVE  CurrentChannelIsReal' /\ PositionNeedsScope'
  BY <1>4 DEF SerialInv, channelVars, CurrentChannelIsReal, PositionNeedsScope
<1>5. ASSUME At(t, "idle"), UNCHANGED <<channelVars, th>>
      PROVE  Local(t)'
  BY <1>2, <1>5 DEF channelVars, Local, At, Settled
\* Turning the zone scope on or off, from scan_controller_start() or _stop().
<1>6. ASSUME At(t, "idle"), NEW on \in BOOLEAN, NEW up \in BOOLEAN,
             NEW cont \in {"idle", "armScan"}, BeginSetZoneScoped(t, on, cont, up),
             UNCHANGED s_current_slot
      PROVE  CurrentChannelIsReal' /\ PositionNeedsScope' /\ Local(t)'
  <2>1. cont \in Conts /\ cont \in Conts \ {"loopTest"}
    BY DEF Conts
  <2>2. /\ s_zone_scoped' = on
        /\ UNCHANGED <<s_channel, s_entry_value, radio>>
        /\ \/ UNCHANGED <<s_index_1based, s_zone_pos>> /\ on
           \/ s_zone_pos' = -1 /\ s_index_1based' \in {0, s_index_1based}
        /\ \E f : Searched(f, cont, on) /\ th' = [th EXCEPT ![t] = f]
    BY <1>1, <1>6, <2>1, BeginSetZoneScopedFrame
  <2>3. PICK f : Searched(f, cont, on) /\ th' = [th EXCEPT ![t] = f]
    BY <2>2
  <2>4. Settled /\ UNCHANGED <<s_channel, radio, s_current_slot>>
    BY <1>2, <1>6, <2>2 DEF At
  <2>5. Local(t)'
    BY <1>1, <2>1, <2>2, <2>3, <2>4, SearchedLocal
  <2> QED
    BY <2>2, <2>5 DEF SerialInv, CurrentChannelIsReal, PositionNeedsScope
\* The next step of the scan loop, from scan_controller_tick().
<1>7. ASSUME At(t, "idle") \/ At(t, "rssi"), BeginStepToNextEligible(t),
             UNCHANGED s_current_slot
      PROVE  UNCHANGED channelVars /\ Local(t)'
  <2>1. /\ UNCHANGED channelVars
        /\ \E f : /\ Searched(f, "loopTest", s_zone_scoped) \/ f = IdleFrame
                 /\ th' = [th EXCEPT ![t] = f]
    BY <1>1, <1>7, BeginStepToNextEligibleFrame
  <2>2. PICK f : /\ Searched(f, "loopTest", s_zone_scoped) \/ f = IdleFrame
                 /\ th' = [th EXCEPT ![t] = f]
    BY <2>1
  <2>3. /\ Settled /\ "loopTest" \in Conts
        /\ UNCHANGED <<s_channel, radio, s_current_slot, s_zone_scoped>>
    BY <1>2, <1>7, <2>1 DEF At, channelVars, Conts
  <2>4. CASE Searched(f, "loopTest", s_zone_scoped)
    BY <1>1, <2>1, <2>2, <2>3, <2>4, SearchedLocal
  <2>5. CASE f = IdleFrame
    <3>1. th'[t] = IdleFrame
      BY <2>2, <2>5 DEF InUseInv, FramesOK
    <3> QED
      BY <2>1, <2>3, <3>1 DEF Local, At, IdleFrame, Settled
  <2> QED
    BY <2>1, <2>2, <2>4, <2>5
<1>8. ASSUME ~At(t, "freq"), ~At(t, "shape"), UNCHANGED channelVars,
             NEW pc \in {"idle", "rssi", "rssiVfo"}, Goto(t, pc),
             pc = "rssi" => s_target' = "CHANNEL", pc = "rssiVfo" => s_target' = "VFO"
      PROVE  Local(t)'
  <2>1. Settled /\ UNCHANGED <<s_channel, radio>>
    BY <1>2, <1>8 DEF channelVars
  <2> QED
    BY <1>1, <1>8, <2>1, GotoLocal
<1>9. ASSUME NEW up \in BOOLEAN, scan_controller_start(t, up)
      PROVE  SerialInv'
  <2>1. CASE s_zone_scoped
    <3>1. UNCHANGED <<channelVars, th>> /\ At(t, "idle") /\ StateMatchesTarget'
      BY <1>9, <2>1 DEF scan_controller_start, StateMatchesTarget
    <3> QED
      BY <1>3, <1>4, <1>5, <3>1
  <2>2. CASE ~s_zone_scoped
    <3>1. BeginSetZoneScoped(t, TRUE, "armScan", up) /\ At(t, "idle") /\ UNCHANGED s_current_slot
          /\ TRUE \in BOOLEAN
      BY <1>9, <2>2 DEF scan_controller_start
    <3>2. StateMatchesTarget'
      BY <1>9, <2>2 DEF scan_controller_start, SerialInv, StateMatchesTarget
    <3> QED
      BY <1>3, <1>6, <3>1, <3>2
  <2> QED
    BY <2>1, <2>2
<1>10. ASSUME NEW up \in BOOLEAN, scan_controller_start_vfo(t, up)
       PROVE  SerialInv'
  <2>1. UNCHANGED <<channelVars, th>> /\ At(t, "idle") /\ StateMatchesTarget'
    BY <1>10 DEF scan_controller_start_vfo, StateMatchesTarget
  <2> QED
    BY <1>3, <1>4, <1>5, <2>1
<1>11. CASE scan_controller_stop(t)
  <2>1. StateMatchesTarget' /\ At(t, "idle") /\ UNCHANGED s_current_slot
    BY <1>11 DEF scan_controller_stop, StateMatchesTarget
  <2>2. CASE s_target = "CHANNEL" /\ ~s_prior_zone_scoped
    <3>1. BeginSetZoneScoped(t, FALSE, "idle", TRUE) /\ FALSE \in BOOLEAN /\ TRUE \in BOOLEAN
      BY <1>11, <2>2 DEF scan_controller_stop
    <3> QED
      BY <1>3, <1>6, <2>1, <3>1
  <2>3. CASE ~(s_target = "CHANNEL" /\ ~s_prior_zone_scoped)
    <3>1. UNCHANGED <<channelVars, th>>
      BY <1>11, <2>3 DEF scan_controller_stop
    <3> QED
      BY <1>3, <1>4, <1>5, <2>1, <3>1
  <2> QED
    BY <2>2, <2>3
<1>12. CASE scan_controller_reverse_direction(t)
  <2>1. UNCHANGED <<channelVars, th>> /\ At(t, "idle") /\ StateMatchesTarget'
    BY <1>12 DEF scan_controller_reverse_direction, SerialInv, StateMatchesTarget
  <2> QED
    BY <1>3, <1>4, <1>5, <2>1
<1>13. CASE scan_controller_tick(t)
  <2>1. /\ StateMatchesTarget' /\ At(t, "idle") /\ UNCHANGED s_current_slot
        /\ s_target' = "CHANNEL"
    BY <1>13 DEF scan_controller_tick, SerialInv, StateMatchesTarget
  <2>2. CASE is_zone_skip(s_channel)
    <3>1. BeginStepToNextEligible(t)
      BY <1>13, <2>2 DEF scan_controller_tick
    <3> QED
      BY <1>3, <1>4, <1>7, <2>1, <3>1
  <2>3. CASE ~is_zone_skip(s_channel)
    <3>1. Goto(t, "rssi") /\ UNCHANGED channelVars /\ ~At(t, "freq") /\ ~At(t, "shape")
      BY <1>13, <2>1, <2>3 DEF scan_controller_tick, At
    <3> QED
      BY <1>3, <1>4, <1>8, <2>1, <3>1
  <2> QED
    BY <2>2, <2>3
<1>14. CASE scan_controller_tick_vfo(t)
  <2>1. /\ StateMatchesTarget' /\ s_target' = "VFO" /\ UNCHANGED channelVars
        /\ Goto(t, "rssiVfo") /\ ~At(t, "freq") /\ ~At(t, "shape")
    BY <1>14 DEF scan_controller_tick_vfo, SerialInv, StateMatchesTarget, scanVars, At
  <2> QED
    BY <1>3, <1>4, <1>8, <2>1
<1>15. CASE ArmScan(t)
  <2>1. /\ StateMatchesTarget' /\ UNCHANGED channelVars
        /\ Goto(t, "idle") /\ ~At(t, "freq") /\ ~At(t, "shape")
    BY <1>15 DEF ArmScan, StateMatchesTarget, At
  <2> QED
    BY <1>3, <1>4, <1>8, <2>1
<1>16. CASE LoopTest(t)
  <2> DEFINE done == s_index_1based = 0 \/ ~is_zone_skip(s_channel) \/ th[t].left = 1
  <2>1. /\ StateMatchesTarget' /\ UNCHANGED s_current_slot
        /\ ~At(t, "freq") /\ ~At(t, "shape")
    BY <1>16 DEF LoopTest, SerialInv, StateMatchesTarget, scanVars, At
  <2>2. CASE done
    <3>1. Goto(t, "idle") /\ UNCHANGED channelVars
      BY <1>16, <2>2 DEF LoopTest
    <3> QED
      BY <1>3, <1>4, <1>8, <2>1, <3>1
  <2>3. CASE ~done
    <3>1. BeginStep(t, th[t].up, "loopTest", th[t].left - 1)
      BY <1>16, <2>3 DEF LoopTest
    <3>2. th[t].up \in BOOLEAN /\ "loopTest" \in Conts /\ th[t].left \in Nat
      BY <1>1 DEF Frame, Conts
    <3>3. th[t].left > 0 /\ th[t].left # 1
      BY <1>1, <1>16, <2>3 DEF LoopTest, At, FrameOK
    <3>4. th[t].left - 1 \in Nat /\ th[t].left - 1 > 0
      BY <3>2, <3>3
    <3>5. /\ UNCHANGED channelVars
          /\ \E f : Searched(f, "loopTest", s_zone_scoped) /\ th' = [th EXCEPT ![t] = f]
      BY <1>1, <3>1, <3>2, <3>4, BeginStepFrame
    <3>6. PICK f : Searched(f, "loopTest", s_zone_scoped) /\ th' = [th EXCEPT ![t] = f]
      BY <3>5
    <3>7. Settled /\ UNCHANGED <<s_channel, radio, s_current_slot, s_zone_scoped>>
      BY <1>2, <2>1, <3>5 DEF channelVars
    <3>8. Local(t)'
      BY <1>1, <3>2, <3>6, <3>7, SearchedLocal
    <3> QED
      BY <1>3, <1>4, <2>1, <3>5, <3>8
  <2> QED
    BY <2>2, <2>3
<1>17. ASSUME NEW open \in BOOLEAN, TickRead(t, open)
       PROVE  SerialInv'
  <2>1. s_target = "CHANNEL" /\ At(t, "rssi")
    BY <1>1, <1>17 DEF TickRead, Local
  <2>2. StateMatchesTarget' /\ UNCHANGED s_current_slot /\ ~At(t, "freq") /\ ~At(t, "shape")
    BY <1>17, <2>1 DEF TickRead, StateMatchesTarget, At
  <2>3. CASE open
    <3>1. Goto(t, "idle") /\ UNCHANGED channelVars
      BY <1>17, <2>3 DEF TickRead
    <3> QED
      BY <1>3, <1>4, <1>8, <2>2, <3>1
  <2>4. CASE ~open
    <3>1. BeginStepToNextEligible(t)
      BY <1>17, <2>4 DEF TickRead
    <3> QED
      BY <1>3, <1>4, <1>7, <2>1, <2>2, <3>1
  <2> QED
    BY <2>3, <2>4
<1>18. ASSUME NEW open \in BOOLEAN, TickVfoRead(t, open)
       PROVE  SerialInv'
  <2>1. s_target = "VFO" /\ Goto(t, "idle") /\ UNCHANGED channelVars
        /\ ~At(t, "freq") /\ ~At(t, "shape")
    BY <1>1, <1>18 DEF TickVfoRead, Local, At
  <2>2. StateMatchesTarget'
    BY <1>18, <2>1 DEF TickVfoRead, StateMatchesTarget
  <2> QED
    BY <1>3, <1>4, <1>8, <2>1, <2>2
<1> QED
  BY <1>9, <1>10, <1>11, <1>12, <1>13, <1>14, <1>15, <1>16, <1>17, <1>18 DEF ScanStep

\* The VFO and the settings only take the channel's settings out of the radio.
LEMMA OtherWritersKeepSerial ==
  ASSUME NEW t, Threads = {t}, InUseInv, SerialInv, OtherWriters(t)
  PROVE  SerialInv'
<1>1. /\ t \in Threads /\ Local(t) /\ At(t, "idle")
      /\ UNCHANGED <<th, s_channel, s_index_1based, s_zone_scoped, s_zone_pos, scanVars>>
  BY DEF SerialInv, OtherWriters
<1>2. radio \in [freq : 0..ChannelMax, shape : 0..ChannelMax, fault : BOOLEAN]
  BY DEF InUseInv, DataOK
<1>3. Settled'
  <2>1. Settled
    BY <1>1 DEF Local, At
  <2>2. CASE radio' = [radio EXCEPT !.freq = FOREIGN]
    BY <1>1, <1>2, <2>1, <2>2 DEF Settled
  <2>3. CASE radio' = [radio EXCEPT !.shape = FOREIGN]
    BY <1>1, <1>2, <2>1, <2>3 DEF Settled
  <2> QED
    BY <2>2, <2>3 DEF OtherWriters
<1>4. Local(t)'
  BY <1>1, <1>3 DEF Local, At
<1> QED
  BY <1>1, <1>4 DEF SerialInv, StateMatchesTarget, CurrentChannelIsReal, PositionNeedsScope, scanVars

\* Every step keeps it.
LEMMA SerialNext ==
  ASSUME NEW t, Threads = {t}
  PROVE  InUseInv /\ SerialInv /\ [Next]_vars => SerialInv'
<1>1. ASSUME InUseInv, SerialInv, Next PROVE SerialInv'
  <2>1. \/ NavigateStep(t) /\ UNCHANGED scanVars
        \/ ScanStep(t)
        \/ ChangeScreen(t)
        \/ OtherWriters(t)
    BY <1>1, NextSteps
  <2>2. ASSUME ChangeScreen(t) PROVE SerialInv'
    BY <1>1, <2>2 DEF ChangeScreen, SerialInv, channelVars, scanVars, StateMatchesTarget,
       CurrentChannelIsReal, PositionNeedsScope, Local, At, FromZone, Settled
  <2>3. ASSUME OtherWriters(t) PROVE SerialInv'
    BY <1>1, <2>3, OtherWritersKeepSerial
  <2> QED
    BY <1>1, <2>1, <2>2, <2>3, NavigateKeepsSerial, ScanKeepsSerial
<1>2. ASSUME SerialInv, UNCHANGED vars PROVE SerialInv'
  BY <1>2 DEF SerialInv, vars, channelVars, scanVars, StateMatchesTarget,
     CurrentChannelIsReal, PositionNeedsScope, Local, At, FromZone, Settled
<1> QED
  BY <1>1, <1>2

-----------------------------------------------------------------------------
(* What makes the scan hold.                                                *)

\* While the squelch is being read the channel is the one it is read on: there
\* is one, and it is not skip-flagged.
Listening == \A t \in Threads :
  At(t, "rssi") => s_index_1based # 0 /\ ~is_zone_skip(s_channel)

\* A call that found no candidate goes where it was told to.
LEMMA ReturnPc ==
  ASSUME th \in [Threads -> Frame], NEW t \in Threads, NEW pc, NEW up, NEW left,
         Return(t, pc, up, left)
  PROVE  th'[t].pc = pc
<1>1. CASE pc = "idle"
  BY <1>1 DEF Return, IdleFrame
<1>2. CASE pc # "idle"
  <2>1. th'[t] = [IdleFrame EXCEPT !.pc = pc, !.up = up, !.left = left]
    BY <1>2 DEF Return
  <2> QED
    BY <2>1 DEF IdleFrame
<1> QED
  BY <1>1, <1>2

\* Only a tick starts to read the squelch.
LEMMA OnlyTickListens ==
  ASSUME NEW t, Threads = {t}, InUseInv, ThreadNext(t), th'[t].pc = "rssi"
  PROVE  scan_controller_tick(t)
<1>1. t \in Threads /\ th[t] \in Frame /\ th \in [Threads -> Frame]
  BY DEF InUseInv, FramesOK
<1>2. ASSUME NEW pc \in Pcs \ {"rssi"}, Goto(t, pc) PROVE FALSE
  BY <1>1, <1>2 DEF Goto, IdleFrame, Frame
<1>3. ASSUME th' = th, At(t, "idle") PROVE FALSE
  BY <1>3 DEF At
<1>4. ASSUME NEW up, NEW cont \in Conts, NEW left, BeginStep(t, up, cont, left) PROVE FALSE
  <2>1. th'[t].pc \in {"commit", "idle", cont}
    <3>1. CASE Return(t, cont, up, left)
      BY <1>1, <3>1, ReturnPc
    <3>2. CASE ~Return(t, cont, up, left)
      <4>1. \E kind, pos, cand : Found(t, kind, pos, cand, cont, up, left)
        BY <1>4, <3>2 DEF BeginStep
      <4> QED
        BY <1>1, <4>1 DEF Found
    <3> QED
      BY <3>1, <3>2
  <2> QED
    BY <2>1 DEF Conts
<1>5. ASSUME NEW on, NEW up, NEW cont \in Conts, BeginSetZoneScoped(t, on, cont, up) PROVE FALSE
  <2>1. th'[t].pc \in {"commit", "idle", cont}
    <3>1. CASE Return(t, cont, up, 0)
      BY <1>1, <3>1, ReturnPc
    <3>2. CASE ~Return(t, cont, up, 0)
      <4>1. \E kind, pos, cand : Found(t, kind, pos, cand, cont, up, 0)
        BY <1>5, <3>2 DEF BeginSetZoneScoped
      <4> QED
        BY <1>1, <4>1 DEF Found
    <3> QED
      BY <3>1, <3>2
  <2> QED
    BY <2>1 DEF Conts
<1>6. ASSUME BeginStepToNextEligible(t) PROVE FALSE
  BY <1>2, <1>4, <1>6 DEF BeginStepToNextEligible, Pcs, Conts
<1>7. ASSUME Navigate(t) PROVE FALSE
  <2>1. ~channel_controller_entry_commit(t)
    BY <1>1, <1>3 DEF channel_controller_entry_commit, Found
  <2>2. \A up \in BOOLEAN : ~channel_controller_step(t, up)
    BY <1>4 DEF channel_controller_step, Conts
  <2>3. \A on \in BOOLEAN : ~channel_controller_set_zone_scoped(t, on)
    BY <1>5 DEF channel_controller_set_zone_scoped, Conts
  <2> QED
    BY <1>3, <1>7, <2>1, <2>2, <2>3 DEF Navigate, channel_controller_entry_digit, channel_controller_entry_cancel
<1>8. ASSUME ControlScan(t) PROVE FALSE
  <2>1. \A up \in BOOLEAN : ~scan_controller_start(t, up)
    BY <1>3, <1>5 DEF scan_controller_start, Conts
  <2>2. ~scan_controller_stop(t)
    BY <1>3, <1>5 DEF scan_controller_stop, Conts
  <2>3. \A up \in BOOLEAN : ~scan_controller_start_vfo(t, up)
    BY <1>3 DEF scan_controller_start_vfo
  <2>4. ~scan_controller_reverse_direction(t)
    BY <1>3 DEF scan_controller_reverse_direction
  <2> QED
    BY <1>8, <2>1, <2>2, <2>3, <2>4 DEF ControlScan
<1>9. ASSUME Resume(t) PROVE FALSE
  <2>1. ~ApplySteps(t)
    BY <1>1, <1>2 DEF ApplySteps, Commit, ProgramFreq, ProgramShape, Pcs, Conts, Frame
  <2>2. ~EntryDone(t) /\ ~ArmScan(t)
    BY <1>2 DEF EntryDone, ArmScan, Pcs
  <2>3. ~LoopTest(t)
    BY <1>2, <1>4 DEF LoopTest, Pcs, Conts
  <2>4. \A open \in BOOLEAN : ~TickRead(t, open) /\ ~TickVfoRead(t, open)
    BY <1>2, <1>6 DEF TickRead, TickVfoRead, Pcs
  <2> QED
    BY <1>9, <2>1, <2>2, <2>3, <2>4 DEF Resume
<1>10. ~scan_controller_tick_vfo(t)
  BY <1>2 DEF scan_controller_tick_vfo, Pcs
<1>11. ~ChangeScreen(t) /\ ~OtherWriters(t)
  BY <1>3 DEF ChangeScreen, OtherWriters
<1> QED
  BY <1>7, <1>8, <1>9, <1>10, <1>11 DEF ThreadNext, Tick, UpdateTick

\* The squelch is never read on a channel the scan leaves out.
LEMMA ListeningNext ==
  ASSUME NEW t, Threads = {t}
  PROVE  InUseInv /\ Listening /\ [Next]_vars => Listening'
<1>1. ASSUME InUseInv, ThreadNext(t), th'[t].pc = "rssi"
      PROVE  s_index_1based' # 0 /\ ~is_zone_skip(s_channel')
  <2>1. scan_controller_tick(t)
    BY <1>1, OnlyTickListens
  <2>2. CASE is_zone_skip(s_channel)
    <3>1. BeginStepToNextEligible(t) /\ At(t, "idle") /\ s_index_1based # 0
      BY <2>1, <2>2 DEF scan_controller_tick
    <3>2. ControllersOK /\ t \in Threads /\ th \in [Threads -> Frame]
      BY <1>1, InUseInvTypeOK DEF InUseInv, FramesOK
    <3>3. PICK f : /\ Searched(f, "loopTest", s_zone_scoped) \/ f = IdleFrame
                   /\ th' = [th EXCEPT ![t] = f]
      BY <3>1, <3>2, BeginStepToNextEligibleFrame
    <3>4. f.pc # "rssi"
      BY <3>3 DEF Searched, IdleFrame
    <3> QED
      BY <1>1, <3>2, <3>3, <3>4
  <2>3. CASE ~is_zone_skip(s_channel)
    BY <2>1, <2>3 DEF scan_controller_tick, channelVars
  <2> QED
    BY <2>2, <2>3
<1>2. ASSUME InUseInv, Next PROVE Listening'
  BY <1>1, <1>2 DEF Next, Listening, At, is_zone_skip
<1>3. ASSUME Listening, UNCHANGED vars PROVE Listening'
  BY <1>3 DEF vars, channelVars, Listening, At, is_zone_skip
<1> QED
  BY <1>2, <1>3

\* A step that makes the channel scan hold is the answer of the squelch, and
\* leaves the channel it was read on.
LEMMA HoldStep ==
  ASSUME NEW t, Threads = {t}, InUseInv, SerialInv, Listening, [Next]_vars
  PROVE  [ s_state' = "PAUSED" /\ s_state # "PAUSED" /\ s_target = "CHANNEL" =>
             /\ s_index_1based # 0
             /\ ~is_zone_skip(s_channel)
             /\ s_channel' = s_channel ]_vars
<1> SUFFICES ASSUME s_state' = "PAUSED", s_state # "PAUSED", s_target = "CHANNEL"
             PROVE  /\ s_index_1based # 0
                    /\ ~is_zone_skip(s_channel)
                    /\ s_channel' = s_channel
  OBVIOUS
<1>1. \/ NavigateStep(t) /\ UNCHANGED scanVars
      \/ ScanStep(t)
      \/ ChangeScreen(t)
      \/ OtherWriters(t)
  <2>1. Next
    BY DEF vars, scanVars
  <2> QED
    BY <2>1, NextSteps
<1>2. ScanStep(t)
  BY <1>1 DEF scanVars, ChangeScreen, OtherWriters
<1>3. Local(t) /\ t \in Threads
  BY DEF SerialInv
<1>4. \E open \in BOOLEAN : TickRead(t, open)
  <2>1. \A open \in BOOLEAN : ~TickVfoRead(t, open)
    BY <1>3 DEF TickVfoRead, Local
  <2> QED
    BY <1>2, <2>1 DEF ScanStep, scan_controller_start, scan_controller_start_vfo,
       scan_controller_stop, scan_controller_reverse_direction, scan_controller_tick,
       scan_controller_tick_vfo, ArmScan, LoopTest, scanVars
<1>5. PICK open \in BOOLEAN : TickRead(t, open)
  BY <1>4
<1>6. open /\ UNCHANGED channelVars /\ At(t, "rssi")
  BY <1>5 DEF TickRead
<1> QED
  BY <1>3, <1>6 DEF Listening, channelVars

-----------------------------------------------------------------------------
(* The session the operator sees: no console.                               *)

\* The frame of a scan_controller_start() that waits for the zone-scoped mode.
ArmingFrame(f) == f.cont = "armScan" \/ f.pc = "armScan"

\* A start that waits has already turned the zone-scoped mode on and armed
\* nothing yet; only applying the first channel makes it wait.
KeysInv ==
  /\ ScanIsZoneScoped
  /\ Arming => s_target = "NONE" /\ s_zone_scoped
  /\ \A t \in Threads : th[t].cont = "armScan" => th[t].pc \in {"commit", "freq", "shape", "armScan"}

SessionStep == Session!Next \/ UNCHANGED Session!vars

\* With one thread, whether a start waits is written in its frame.
LEMMA ArmingIs ==
  ASSUME NEW t, Threads = {t}
  PROVE  (Arming <=> ArmingFrame(th[t])) /\ (Arming' <=> ArmingFrame(th'[t]))
BY DEF Arming, ArmingFrame, At

\* A step that leaves the target and the scoping alone is a step of no session,
\* or of a session that holds or goes on.
LEMMA SteadyStep ==
  ASSUME NEW t, Threads = {t}, KeysInv,
         UNCHANGED <<s_target, s_zone_scoped, s_prior_zone_scoped>>,
         ArmingFrame(th'[t]) <=> ArmingFrame(th[t]),
         th'[t].cont = "armScan" => th'[t].pc \in {"commit", "freq", "shape", "armScan"},
         s_target = "NONE" => UNCHANGED s_state
  PROVE  KeysInv' /\ SessionStep
<1>1. (Arming <=> ArmingFrame(th[t])) /\ (Arming' <=> ArmingFrame(th'[t]))
  BY ArmingIs
<1>2. KeysInv'
  BY <1>1 DEF KeysInv, ScanIsZoneScoped
<1>3. UserScope' = UserScope
  BY <1>1 DEF UserScope
<1>4. CASE s_target = "NONE"
  BY <1>2, <1>3, <1>4 DEF SessionStep, Session!vars
<1>5. CASE s_target # "NONE"
  BY <1>2, <1>3, <1>5 DEF SessionStep, Session!Next, Session!HoldOrGoOn
<1> QED
  BY <1>4, <1>5

\* A frame that was just searched for waits to arm only if the scan asked.
LEMMA SearchedArms ==
  ASSUME InUseInv, NEW t \in Threads, NEW cont \in Conts, NEW scoped,
         NEW f, Searched(f, cont, scoped), th' = [th EXCEPT ![t] = f]
  PROVE  /\ ArmingFrame(th'[t]) <=> cont = "armScan"
         /\ th'[t].cont = "armScan" => th'[t].pc \in {"commit", "armScan"}
<1>1. th'[t] = f
  BY DEF InUseInv, FramesOK
<1> QED
  BY <1>1 DEF Searched, ArmingFrame, Conts

\* After boot no start waits.
LEMMA KeysInit == Init => KeysInv /\ Session!Init
<1> SUFFICES ASSUME Init PROVE KeysInv /\ Session!Init
  OBVIOUS
<1>1. \A t \in Threads : th[t].cont = "idle" /\ th[t].pc = "idle"
  BY DEF Init, ChannelInit, IdleFrame
<1>2. ~Arming /\ s_target = "NONE" /\ s_state = "IDLE" /\ s_zone_scoped = FALSE
  BY <1>1 DEF Init, ChannelInit, Arming, At
<1> QED
  BY <1>1, <1>2 DEF KeysInv, ScanIsZoneScoped, Session!Init, UserScope

\* Channel and zone calls: with the keys of an idle screen they choose the
\* scope outside a session, and what else they do no session sees.
LEMMA NavigateKeepsSession ==
  ASSUME NEW t, Threads = {t}, ConsoleThreads = {}, InUseInv, SerialInv, KeysInv,
         Navigate(t)
  PROVE  KeysInv' /\ SessionStep
<1>1. ControllersOK /\ t \in Threads /\ th[t] \in Frame
  BY InUseInvTypeOK DEF InUseInv, FramesOK
<1>2. ~Command(t) /\ (KeyOn(t, "channel") \/ KeyOn(t, "zones"))
  BY DEF Command, Navigate
<1>3. UNCHANGED scanVars /\ s_state = "IDLE" /\ s_target = "NONE"
  BY <1>2 DEF Navigate, KeyOn, SerialInv, StateMatchesTarget
<1>4. At(t, "idle") => ~ArmingFrame(th[t])
  BY <1>1 DEF KeysInv, At, ArmingFrame
<1>5. ASSUME At(t, "idle"), UNCHANGED <<s_zone_scoped, th>>
      PROVE  KeysInv' /\ SessionStep
  BY <1>1, <1>3, <1>4, <1>5, SteadyStep DEF scanVars, ArmingFrame
<1>6. ASSUME NEW up \in BOOLEAN, channel_controller_step(t, up)
      PROVE  KeysInv' /\ SessionStep
  <2>1. BeginStep(t, up, "idle", 0) /\ "idle" \in Conts /\ "idle" # "loopTest" /\ 0 \in Nat
        /\ At(t, "idle")
    BY <1>6 DEF channel_controller_step, Conts
  <2>2. /\ UNCHANGED channelVars
        /\ \E f : Searched(f, "idle", s_zone_scoped) /\ th' = [th EXCEPT ![t] = f]
    BY <1>1, <2>1, BeginStepFrame
  <2>3. PICK f : Searched(f, "idle", s_zone_scoped) /\ th' = [th EXCEPT ![t] = f]
    BY <2>2
  <2>4. ~ArmingFrame(th'[t]) /\ th'[t].cont # "armScan"
    BY <1>1, <2>1, <2>3, SearchedArms DEF ArmingFrame
  <2> QED
    BY <1>3, <1>4, <2>1, <2>2, <2>4, SteadyStep DEF scanVars, channelVars
<1>7. ASSUME channel_controller_set_zone_scoped(t, TRUE)
      PROVE  KeysInv' /\ SessionStep
  <2>1. BeginSetZoneScoped(t, TRUE, "idle", TRUE) /\ "idle" \in Conts
        /\ "idle" \in Conts \ {"loopTest"} /\ TRUE \in BOOLEAN /\ At(t, "idle")
    BY <1>7 DEF channel_controller_set_zone_scoped, Conts
  <2>2. s_zone_scoped' = TRUE /\ \E f : Searched(f, "idle", TRUE) /\ th' = [th EXCEPT ![t] = f]
    BY <1>1, <2>1, BeginSetZoneScopedFrame
  <2>3. PICK f : Searched(f, "idle", TRUE) /\ th' = [th EXCEPT ![t] = f]
    BY <2>2
  <2>4. ~ArmingFrame(th'[t]) /\ th'[t].cont # "armScan"
    BY <1>1, <2>1, <2>3, SearchedArms DEF ArmingFrame
  <2>5. ~Arming' /\ s_target' = "NONE" /\ s_state' = "IDLE"
    BY <1>3, <2>4, ArmingIs DEF scanVars
  <2>6. KeysInv'
    BY <2>2, <2>4, <2>5 DEF KeysInv, ScanIsZoneScoped
  <2>7. UserScope' \in BOOLEAN
    BY <2>2, <2>5 DEF UserScope
  <2>8. Session!ChooseScope
    BY <1>3, <2>5, <2>7 DEF Session!ChooseScope
  <2> QED
    BY <2>6, <2>8 DEF SessionStep, Session!Next
<1>8. CASE channel_controller_entry_commit(t)
  <2>1. CASE s_entry_value \in ChannelInUse
    <3>1. UNCHANGED s_zone_scoped /\ At(t, "idle")
      BY <1>8, <2>1 DEF channel_controller_entry_commit, channelVars
    <3>2. th'[t].cont = "entryDone" /\ th'[t].pc = "commit"
      BY <1>1, <1>8, <2>1 DEF channel_controller_entry_commit, Found, InUseInv, FramesOK
    <3> QED
      BY <1>3, <1>4, <3>1, <3>2, SteadyStep DEF scanVars, ArmingFrame
  <2>2. CASE s_entry_value \notin ChannelInUse
    BY <1>5, <1>8, <2>2 DEF channel_controller_entry_commit
  <2> QED
    BY <2>1, <2>2
<1>9. ASSUME NEW digit \in 0..9, channel_controller_entry_digit(t, digit)
      PROVE  KeysInv' /\ SessionStep
  BY <1>5, <1>9 DEF channel_controller_entry_digit
<1>10. CASE channel_controller_entry_cancel(t)
  BY <1>5, <1>10 DEF channel_controller_entry_cancel
<1>11. ASSUME At(t, "idle"), UNCHANGED <<channelVars, th>>
       PROVE  KeysInv' /\ SessionStep
  BY <1>5, <1>11 DEF channelVars
<1> QED
  BY <1>2, <1>6, <1>7, <1>8, <1>9, <1>10, <1>11 DEF Navigate

\* The steps inside a channel call are steps of no session.
LEMMA ApplyKeepsSession ==
  ASSUME NEW t, Threads = {t}, InUseInv, KeysInv, ApplySteps(t) \/ EntryDone(t),
         UNCHANGED scanVars
  PROVE  KeysInv' /\ SessionStep
<1>1. t \in Threads /\ th[t] \in Frame /\ th \in [Threads -> Frame]
  BY DEF InUseInv, FramesOK
<1>2. UNCHANGED s_zone_scoped
  BY DEF ApplySteps, Commit, ProgramFreq, ProgramShape, EntryDone
<1>3. ASSUME NEW pc \in {"freq", "shape"}, Goto(t, pc), th[t].pc \in {"commit", "freq"}
      PROVE  KeysInv' /\ SessionStep
  <2>1. th'[t].pc = pc /\ th'[t].cont = th[t].cont
    BY <1>1, <1>3 DEF Goto, Frame
  <2> QED
    BY <1>2, <1>3, <2>1, SteadyStep DEF scanVars, ArmingFrame
<1>4. CASE Commit(t) \/ ProgramFreq(t)
  BY <1>3, <1>4 DEF Commit, ProgramFreq, At
<1>5. CASE ProgramShape(t)
  <2>1. CASE th[t].cont = "idle"
    <3>1. th'[t] = IdleFrame
      BY <1>1, <1>5, <2>1 DEF ProgramShape, Goto
    <3> QED
      BY <1>2, <1>5, <2>1, <3>1, SteadyStep DEF scanVars, ArmingFrame, IdleFrame, ProgramShape, At
  <2>2. CASE th[t].cont # "idle"
    <3>1. th'[t].pc = th[t].cont /\ th'[t].cont = th[t].cont
      BY <1>1, <1>5, <2>2 DEF ProgramShape, Goto, Frame
    <3> QED
      BY <1>2, <1>5, <3>1, SteadyStep DEF scanVars, ArmingFrame, ProgramShape, At
  <2> QED
    BY <2>1, <2>2
<1>6. CASE EntryDone(t)
  <2>1. th'[t] = IdleFrame
    BY <1>1, <1>6 DEF EntryDone, Goto
  <2>2. ~ArmingFrame(th[t])
    BY <1>1, <1>6 DEF EntryDone, At, ArmingFrame, KeysInv
  <2> QED
    BY <1>2, <2>1, <2>2, SteadyStep DEF scanVars, ArmingFrame, IdleFrame
<1> QED
  BY <1>4, <1>5, <1>6 DEF ApplySteps

\* Starting and stopping a scan are the steps that open and close a session; a
\* start that first turns the zone-scoped mode on opens it when it arms.
LEMMA ControlKeepsSession ==
  ASSUME NEW t, Threads = {t}, InUseInv, SerialInv, KeysInv,
         ControlScan(t) \/ ArmScan(t)
  PROVE  KeysInv' /\ SessionStep
<1>1. ControllersOK /\ t \in Threads /\ th[t] \in Frame /\ th \in [Threads -> Frame] /\ DataOK
  BY InUseInvTypeOK DEF InUseInv, FramesOK
<1>2. (Arming <=> ArmingFrame(th[t])) /\ (Arming' <=> ArmingFrame(th'[t]))
  BY ArmingIs
<1>3. At(t, "idle") => ~ArmingFrame(th[t])
  BY <1>1 DEF KeysInv, At, ArmingFrame
<1>4. s_state = "IDLE" <=> s_target = "NONE"
  BY DEF SerialInv, StateMatchesTarget
<1>5. ASSUME NEW up \in BOOLEAN, scan_controller_start(t, up)
      PROVE  KeysInv' /\ SessionStep
  <2>1. At(t, "idle") /\ ~Arming /\ s_target = "NONE" /\ s_state = "IDLE"
        /\ s_prior_zone_scoped' = s_zone_scoped
    BY <1>2, <1>3, <1>4, <1>5 DEF scan_controller_start
  <2>2. CASE s_zone_scoped
    <3>1. s_target' = "CHANNEL" /\ s_state' = "SCANNING" /\ UNCHANGED <<channelVars, th>>
      BY <1>5, <2>2 DEF scan_controller_start
    <3>2. ~Arming' /\ s_zone_scoped' = s_zone_scoped
      BY <1>2, <2>1, <3>1 DEF channelVars, ArmingFrame
    <3>3. KeysInv'
      BY <2>2, <3>1, <3>2 DEF KeysInv, ScanIsZoneScoped
    <3>4. UserScope' = UserScope
      BY <2>1, <3>1, <3>2 DEF UserScope
    <3>5. Session!Start
      BY <2>1, <3>1, <3>4 DEF Session!Start
    <3> QED
      BY <3>3, <3>5 DEF SessionStep, Session!Next
  <2>3. CASE ~s_zone_scoped
    <3>1. /\ BeginSetZoneScoped(t, TRUE, "armScan", up) /\ UNCHANGED <<s_state, s_target>>
          /\ TRUE \in BOOLEAN /\ "armScan" \in Conts /\ "armScan" \in Conts \ {"loopTest"}
      BY <1>5, <2>3 DEF scan_controller_start, Conts
    <3>2. s_zone_scoped' = TRUE /\ \E f : Searched(f, "armScan", TRUE) /\ th' = [th EXCEPT ![t] = f]
      BY <1>1, <3>1, BeginSetZoneScopedFrame
    <3>3. PICK f : Searched(f, "armScan", TRUE) /\ th' = [th EXCEPT ![t] = f]
      BY <3>2
    <3>4. ArmingFrame(th'[t]) /\ th'[t].pc \in {"commit", "armScan"}
      <4>1. th'[t] = f
        BY <1>1, <3>3
      <4> QED
        BY <3>3, <4>1 DEF Searched, ArmingFrame
    <3>5. Arming'
      BY <1>2, <3>4
    <3>6. KeysInv'
      BY <2>1, <3>1, <3>2, <3>4 DEF KeysInv, ScanIsZoneScoped
    <3>7. UserScope' = UserScope
      BY <2>1, <3>1, <3>5 DEF UserScope
    <3> QED
      BY <2>1, <3>1, <3>6, <3>7 DEF SessionStep, Session!vars
  <2> QED
    BY <2>2, <2>3
<1>6. CASE ArmScan(t)
  <2>1. Arming /\ s_target = "NONE" /\ s_zone_scoped /\ s_state = "IDLE"
    BY <1>2, <1>4, <1>6 DEF ArmScan, At, ArmingFrame, KeysInv
  <2>2. s_target' = "CHANNEL" /\ s_state' = "SCANNING"
        /\ UNCHANGED <<s_zone_scoped, s_prior_zone_scoped>>
    BY <1>6 DEF ArmScan, channelVars
  <2>3. th'[t] = IdleFrame
    BY <1>1, <1>6 DEF ArmScan, Goto
  <2>4. ~Arming' /\ th'[t].cont # "armScan"
    BY <1>2, <2>3 DEF ArmingFrame, IdleFrame
  <2>5. KeysInv'
    BY <2>1, <2>2, <2>4 DEF KeysInv, ScanIsZoneScoped
  <2>6. UserScope' = UserScope
    BY <2>1, <2>2 DEF UserScope
  <2>7. Session!Start
    BY <2>1, <2>2, <2>6 DEF Session!Start
  <2> QED
    BY <2>5, <2>7 DEF SessionStep, Session!Next
<1>7. ASSUME NEW up \in BOOLEAN, scan_controller_start_vfo(t, up)
      PROVE  KeysInv' /\ SessionStep
  <2>1. At(t, "idle") /\ ~Arming /\ s_target = "NONE" /\ s_state = "IDLE"
    BY <1>2, <1>3, <1>4, <1>7 DEF scan_controller_start_vfo
  <2>2. s_target' = "VFO" /\ s_state' = "SCANNING" /\ UNCHANGED <<s_zone_scoped, th>>
    BY <1>7 DEF scan_controller_start_vfo, channelVars
  <2>3. ~Arming'
    BY <1>2, <2>1, <2>2 DEF ArmingFrame
  <2>4. KeysInv'
    BY <2>2, <2>3 DEF KeysInv, ScanIsZoneScoped
  <2>5. UserScope' = UserScope
    BY <2>1, <2>2, <2>3 DEF UserScope
  <2>6. Session!Start
    BY <2>1, <2>2, <2>5 DEF Session!Start
  <2> QED
    BY <2>4, <2>6 DEF SessionStep, Session!Next
<1>8. CASE scan_controller_stop(t)
  <2>1. At(t, "idle") /\ ~Arming /\ s_target # "NONE" /\ s_target' = "NONE" /\ s_state' = "IDLE"
        /\ UNCHANGED s_prior_zone_scoped
    BY <1>2, <1>3, <1>4, <1>8 DEF scan_controller_stop
  <2>2. ASSUME ~Arming', th'[t].cont # "armScan", UserScope' = UserScope
        PROVE  KeysInv' /\ SessionStep
    <3>1. KeysInv'
      BY <2>1, <2>2 DEF KeysInv, ScanIsZoneScoped
    <3>2. Session!Stop
      BY <2>1, <2>2 DEF Session!Stop
    <3> QED
      BY <3>1, <3>2 DEF SessionStep, Session!Next
  <2>3. CASE s_target = "CHANNEL" /\ ~s_prior_zone_scoped
    <3>1. /\ BeginSetZoneScoped(t, FALSE, "idle", TRUE) /\ FALSE \in BOOLEAN /\ TRUE \in BOOLEAN
          /\ "idle" \in Conts /\ "idle" \in Conts \ {"loopTest"}
      BY <1>8, <2>3 DEF scan_controller_stop, Conts
    <3>2. s_zone_scoped' = FALSE /\ \E f : Searched(f, "idle", FALSE) /\ th' = [th EXCEPT ![t] = f]
      BY <1>1, <3>1, BeginSetZoneScopedFrame
    <3>3. PICK f : Searched(f, "idle", FALSE) /\ th' = [th EXCEPT ![t] = f]
      BY <3>2
    <3>4. ~ArmingFrame(th'[t]) /\ th'[t].cont # "armScan"
      BY <1>1, <3>1, <3>3, SearchedArms DEF ArmingFrame
    <3>5. UserScope' = FALSE /\ UserScope = FALSE
      BY <1>1, <1>2, <2>1, <2>3, <3>2, <3>4 DEF UserScope, DataOK
    <3> QED
      BY <1>2, <2>2, <3>4, <3>5
  <2>4. CASE ~(s_target = "CHANNEL" /\ ~s_prior_zone_scoped)
    <3>1. UNCHANGED <<channelVars, th>>
      BY <1>8, <2>4 DEF scan_controller_stop
    <3>2. ~Arming' /\ th'[t].cont # "armScan" /\ s_zone_scoped' = s_zone_scoped
      BY <1>2, <2>1, <3>1 DEF channelVars, ArmingFrame
    <3>3. UserScope' = UserScope
      <4>1. UserScope' = s_zone_scoped
        BY <2>1, <3>2 DEF UserScope
      <4>2. CASE s_target = "CHANNEL"
        BY <1>1, <2>4, <4>1, <4>2 DEF UserScope, KeysInv, ScanIsZoneScoped, DataOK
      <4>3. CASE s_target # "CHANNEL"
        BY <2>1, <4>1, <4>3 DEF UserScope
      <4> QED
        BY <4>2, <4>3
    <3> QED
      BY <2>2, <3>2, <3>3
  <2> QED
    BY <2>3, <2>4
<1>9. CASE scan_controller_reverse_direction(t)
  <2>1. UNCHANGED <<s_target, s_zone_scoped, s_prior_zone_scoped, s_state, th>>
    BY <1>9 DEF scan_controller_reverse_direction, channelVars
  <2> QED
    BY <1>1, <2>1, SteadyStep DEF ArmingFrame, KeysInv
<1> QED
  BY <1>5, <1>6, <1>7, <1>8, <1>9 DEF ControlScan

\* Ticks and their scan loops let a session hold or go on, or do nothing to it.
LEMMA TickKeepsSession ==
  ASSUME NEW t, Threads = {t}, InUseInv, SerialInv, KeysInv,
         \/ Tick(t) \/ LoopTest(t)
         \/ \E open \in BOOLEAN : TickRead(t, open) \/ TickVfoRead(t, open)
  PROVE  KeysInv' /\ SessionStep
<1>1. ControllersOK /\ t \in Threads /\ th[t] \in Frame /\ th \in [Threads -> Frame] /\ FrameOK(th[t])
  BY InUseInvTypeOK DEF InUseInv, FramesOK
<1>2. th[t].pc \in {"idle", "rssi", "rssiVfo", "loopTest"}
  BY DEF Tick, UpdateTick, scan_controller_tick, scan_controller_tick_vfo, LoopTest, TickRead, TickVfoRead, At
<1>3. ~ArmingFrame(th[t]) /\ th[t].cont # "armScan"
  BY <1>1, <1>2 DEF ArmingFrame, KeysInv
<1>4. UNCHANGED <<s_target, s_prior_zone_scoped>>
  BY DEF Tick, UpdateTick, scan_controller_tick, scan_controller_tick_vfo, LoopTest, TickRead, TickVfoRead, scanVars
<1>5. s_target = "NONE" => UNCHANGED s_state
  <2>1. /\ At(t, "rssi") => s_target = "CHANNEL"
        /\ At(t, "rssiVfo") => s_target = "VFO"
    BY <1>1 DEF SerialInv, Local
  <2> QED
    BY <2>1 DEF Tick, UpdateTick, scan_controller_tick, scan_controller_tick_vfo, LoopTest, TickRead,
       TickVfoRead, scanVars
<1>6. ASSUME UNCHANGED s_zone_scoped, ~ArmingFrame(th'[t])
      PROVE  KeysInv' /\ SessionStep
  BY <1>3, <1>4, <1>5, <1>6, SteadyStep DEF ArmingFrame
<1>7. ASSUME NEW pc \in {"idle", "rssi", "rssiVfo"}, Goto(t, pc), UNCHANGED channelVars
      PROVE  KeysInv' /\ SessionStep
  <2>1. th'[t].pc = pc /\ th'[t].cont # "armScan"
    BY <1>1, <1>3, <1>7 DEF Goto, IdleFrame, Frame
  <2> QED
    BY <1>6, <1>7, <2>1 DEF channelVars, ArmingFrame
<1>8. ASSUME UNCHANGED channelVars,
             NEW f, Searched(f, "loopTest", s_zone_scoped) \/ f = IdleFrame,
             th' = [th EXCEPT ![t] = f]
      PROVE  KeysInv' /\ SessionStep
  <2>1. th'[t] = f
    BY <1>1, <1>8
  <2>2. ~ArmingFrame(f)
    BY <1>8 DEF Searched, ArmingFrame, IdleFrame
  <2> QED
    BY <1>6, <1>8, <2>1, <2>2 DEF channelVars
<1>9. ASSUME BeginStepToNextEligible(t)
      PROVE  KeysInv' /\ SessionStep
  <2>1. /\ UNCHANGED channelVars
        /\ \E f : /\ Searched(f, "loopTest", s_zone_scoped) \/ f = IdleFrame
                 /\ th' = [th EXCEPT ![t] = f]
    BY <1>1, <1>9, BeginStepToNextEligibleFrame
  <2> QED
    BY <1>8, <2>1
<1>10. CASE Tick(t)
  BY <1>7, <1>9, <1>10 DEF Tick, UpdateTick, scan_controller_tick, scan_controller_tick_vfo
<1>11. ASSUME NEW open \in BOOLEAN, TickRead(t, open) \/ TickVfoRead(t, open)
       PROVE  KeysInv' /\ SessionStep
  <2>1. CASE TickRead(t, open)
    BY <1>7, <1>9, <2>1 DEF TickRead
  <2>2. CASE TickVfoRead(t, open)
    <3>1. Goto(t, "idle") /\ UNCHANGED channelVars
      BY <2>2 DEF TickVfoRead, channelVars
    <3> QED
      BY <1>7, <3>1
  <2> QED
    BY <1>11, <2>1, <2>2
<1>12. CASE LoopTest(t)
  <2>1. CASE Goto(t, "idle") /\ UNCHANGED channelVars
    BY <1>7, <2>1
  <2>2. CASE ~(Goto(t, "idle") /\ UNCHANGED channelVars)
    <3>1. BeginStep(t, th[t].up, "loopTest", th[t].left - 1) /\ th[t].left # 1
      BY <1>12, <2>2 DEF LoopTest
    <3>2. th[t].up \in BOOLEAN /\ "loopTest" \in Conts /\ th[t].left \in Nat /\ th[t].left > 0
      BY <1>1, <1>12 DEF Frame, Conts, LoopTest, At, FrameOK
    <3>3. th[t].left - 1 \in Nat /\ th[t].left - 1 > 0
      BY <3>1, <3>2
    <3>4. /\ UNCHANGED channelVars
          /\ \E f : Searched(f, "loopTest", s_zone_scoped) /\ th' = [th EXCEPT ![t] = f]
      BY <1>1, <3>1, <3>2, <3>3, BeginStepFrame
    <3> QED
      BY <1>8, <3>4
  <2> QED
    BY <2>1, <2>2
<1> QED
  BY <1>10, <1>11, <1>12

\* The screens, and what else programs the radio, do nothing to a session.
LEMMA OthersKeepSession ==
  ASSUME NEW t, Threads = {t}, KeysInv, ChangeScreen(t) \/ OtherWriters(t)
  PROVE  KeysInv' /\ SessionStep
<1>1. UNCHANGED <<s_target, s_zone_scoped, s_prior_zone_scoped, s_state, th>>
  BY DEF ChangeScreen, OtherWriters, channelVars, scanVars
<1> QED
  BY <1>1, SteadyStep DEF ArmingFrame, KeysInv

\* Every step is a step of the session, or leaves it alone.
LEMMA KeysNext ==
  ASSUME NEW t, Threads = {t}, ConsoleThreads = {}
  PROVE  InUseInv /\ SerialInv /\ KeysInv /\ [Next]_vars
           => KeysInv' /\ [Session!Next]_Session!vars
<1>1. ASSUME InUseInv, SerialInv, KeysInv, Next PROVE KeysInv' /\ SessionStep
  <2>1. ThreadNext(t)
    BY <1>1 DEF Next
  <2> QED
    BY <1>1, <2>1, NavigateKeepsSession, ApplyKeepsSession, ControlKeepsSession, TickKeepsSession,
       OthersKeepSession DEF ThreadNext, Resume
<1>2. ASSUME KeysInv, UNCHANGED vars PROVE KeysInv' /\ SessionStep
  BY <1>2 DEF vars, channelVars, scanVars, KeysInv, ScanIsZoneScoped, Arming, At, UserScope,
     SessionStep, Session!vars
<1> QED
  BY <1>1, <1>2 DEF SessionStep

-----------------------------------------------------------------------------
(* The last step of apply_to_radio().                                       *)

\* Only ProgramShape() leaves it, and then both parts are the cached channel's.
LEMMA ShapeStep ==
  ASSUME NEW t, Threads = {t}, InUseInv, SerialInv, Next, At(t, "shape"), ~radio'.fault
  PROVE  radio'.freq = s_channel' /\ radio'.shape = s_channel'
<1>1. t \in Threads /\ Local(t) /\ ThreadNext(t)
  BY DEF SerialInv, Next
<1>2. radio \in [freq : 0..ChannelMax, shape : 0..ChannelMax, fault : BOOLEAN]
  BY DEF InUseInv, DataOK
<1>3. ~ChangeScreen(t) /\ ~OtherWriters(t)
  BY DEF ChangeScreen, OtherWriters, At
<1>4. ~Navigate(t)
  BY DEF Navigate, At, channel_controller_step, channel_controller_entry_digit,
     channel_controller_entry_commit, channel_controller_entry_cancel,
     channel_controller_set_zone_scoped
<1>5. ~ControlScan(t)
  BY DEF ControlScan, At, scan_controller_start, scan_controller_start_vfo,
     scan_controller_stop, scan_controller_reverse_direction
<1>6. ~Tick(t)
  BY DEF Tick, UpdateTick, At, scan_controller_tick, scan_controller_tick_vfo
<1>7. ProgramShape(t)
  BY <1>1, <1>3, <1>4, <1>5, <1>6 DEF ThreadNext, Resume, At, ApplySteps, Commit, ProgramFreq,
     EntryDone, ArmScan, LoopTest, TickRead, TickVfoRead
<1>8. CASE radio' = [radio EXCEPT !.shape = s_channel]
  BY <1>1, <1>2, <1>7, <1>8 DEF ProgramShape, Local
<1>9. CASE radio' = [radio EXCEPT !.fault = TRUE]
  BY <1>2, <1>9
<1> QED
  BY <1>7, <1>8, <1>9 DEF ProgramShape

-----------------------------------------------------------------------------
(* The theorems.                                                            *)

\* A caller that waits for each call to return finds the scan state, the
\* cached channel and the zone position consistent at every step.
THEOREM SerialInvariant ==
  ASSUME NEW CONSTANT t, Threads = {t}
  PROVE  Spec => [](InUseInv /\ SerialInv)
<1>1. Init => InUseInv /\ SerialInv
  BY InUseInit, SerialInit
<1>2. InUseInv /\ SerialInv /\ [Next]_vars => (InUseInv /\ SerialInv)'
  BY InUseNext, SerialNext
<1> QED
  BY <1>1, <1>2, PTL DEF Spec

\* scan_controller_get_state() says IDLE exactly when no scan is armed.
THEOREM ScanStateTrue ==
  ASSUME NEW CONSTANT t, Threads = {t}
  PROVE  Spec => []StateMatchesTarget
<1>1. SerialInv => StateMatchesTarget
  BY DEF SerialInv
<1> QED
  BY <1>1, SerialInvariant, PTL

\* channel_controller_get_current() is the record of
\* channel_controller_get_current_index(), that slot is populated, and the zone
\* position is forgotten whenever the zone-scoped mode ends.
THEOREM CurrentChannelTrue ==
  ASSUME NEW CONSTANT t, Threads = {t}
  PROVE  Spec => []CacheConsistent
<1>1. SerialInv => CacheConsistent
  BY DEF SerialInv, CacheConsistent
<1> QED
  BY <1>1, SerialInvariant, PTL

\* A channel controller call returns with the radio set up for the channel the
\* screen shows, and whatever the VFO and the settings take out of it again, no
\* settings of another channel are left in it, unless a transfer failed.
THEOREM RadioFollows ==
  ASSUME NEW CONSTANT t, Threads = {t}
  PROVE  Spec => RadioHasChannel
<1>1. SerialInv => OnlyOfTheChannel
  BY DEF SerialInv, Local, Settled, Quiescent, At, OnlyOfTheChannel
<1>2. InUseInv /\ SerialInv /\ [Next]_vars => [AppliesTheChannel]_vars
  <2> SUFFICES ASSUME InUseInv, SerialInv, Next PROVE AppliesTheChannel
    BY DEF vars
  <2> QED
    BY ShapeStep DEF AppliesTheChannel
<1> QED
  BY <1>1, <1>2, SerialInvariant, PTL DEF Spec, RadioHasChannel

\* While the operator's keys are all there is, a channel scan walks the zone's
\* list and never the flat table.
THEOREM ScanStaysScoped ==
  ASSUME NEW CONSTANT t, Threads = {t}, ConsoleThreads = {}
  PROVE  Spec => []ScanIsZoneScoped
<1>1. Init => KeysInv
  BY KeysInit
<1>2. InUseInv /\ SerialInv /\ KeysInv /\ [Next]_vars => KeysInv'
  BY KeysNext
<1>3. KeysInv => ScanIsZoneScoped
  BY DEF KeysInv
<1> QED
  BY <1>1, <1>2, <1>3, SerialInvariant, PTL DEF Spec

\* The scan, channel and zone controllers implement the session: one scan of
\* one kind at a time, and the operator's zone scoping outlives it, although
\* scan_controller_start() forces the mode on and scan_controller_stop() puts
\* it back from s_prior_zone_scoped.
THEOREM SessionImplemented ==
  ASSUME NEW CONSTANT t, Threads = {t}, ConsoleThreads = {}
  PROVE  Spec => ImplementsSession
<1>1. Init => KeysInv /\ Session!Init
  BY KeysInit
<1>2. InUseInv /\ SerialInv /\ KeysInv /\ [Next]_vars
        => KeysInv' /\ [Session!Next]_Session!vars
  BY KeysNext
<1> QED
  BY <1>1, <1>2, SerialInvariant, PTL DEF Spec, ImplementsSession, Session!Spec

\* A channel scan holds only on a channel whose squelch was read, that is there
\* and is not skip-flagged, and does not leave it by holding.
THEOREM ScanHolds ==
  ASSUME NEW CONSTANT t, Threads = {t}
  PROVE  Spec => HoldsOnEligible
<1>1. Init => Listening
  BY DEF Init, ChannelInit, IdleFrame, Listening, At
<1>2. InUseInv /\ Listening /\ [Next]_vars => Listening'
  BY ListeningNext
<1>3. InUseInv /\ SerialInv /\ Listening /\ [Next]_vars
        => [ s_state' = "PAUSED" /\ s_state # "PAUSED" /\ s_target = "CHANNEL" =>
               /\ s_index_1based # 0
               /\ ~is_zone_skip(s_channel)
               /\ s_channel' = s_channel ]_vars
  BY HoldStep
<1> QED
  BY <1>1, <1>2, <1>3, SerialInvariant, PTL DEF Spec, HoldsOnEligible
=============================================================================
