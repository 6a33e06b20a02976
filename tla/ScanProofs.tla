------------------------------ MODULE ScanProofs ------------------------------
(***************************************************************************)
(* Proofs about ScanController, for every codeplug and set of threads.     *)
(***************************************************************************)
EXTENDS ScanController, WellFoundedInduction, TLAPS

-----------------------------------------------------------------------------
(* The navigation operators return what they are asked for.                 *)

\* Walking a ring meets a member of a non-empty set of its positions: the
\* CHOOSE of NextOnRing is never of an empty set of candidates.
LEMMA NextOnRingMember ==
  ASSUME NEW n \in Nat \ {0}, NEW from \in Int, NEW up \in BOOLEAN,
         NEW S, S \subseteq Int, S # {}
  PROVE  NextOnRing(n, from, up, S) \in S
<1> DEFINE D == { RingDistance(n, from, p, up) : p \in S }
<1>1. \A p \in S : RingDistance(n, from, p, up) \in Nat
  BY DEF RingDistance
<1>2. D \subseteq Nat /\ D # {}
  BY <1>1
<1>3. PICK d \in D : \A e \in D : d <= e
  <2>1. PICK d \in D : \A e \in D : <<e, d>> \notin OpToRel(<, Nat)
    BY <1>2, WFMin, NatLessThanWellFounded
  <2>2. \A e \in D : ~(e < d)
    BY <1>2, <2>1 DEF OpToRel
  <2> QED
    BY <1>2, <2>2
<1>4. PICK p \in S : \A q \in S :
        RingDistance(n, from, p, up) <= RingDistance(n, from, q, up)
  BY <1>3
<1> QED
  BY <1>4 DEF NextOnRing

\* The flat search names a populated channel, or 0.
LEMMA NextInUseChannelType ==
  ASSUME NEW start \in Int, NEW up \in BOOLEAN
  PROVE  NextInUseChannel(start, up) \in ChannelInUse \cup {0}
<1>1. ChannelInUse \subseteq Int /\ ChannelMax \in Nat \ {0}
  BY CodeplugAssumption
<1>2. ChannelInUse # {} => NextOnRing(ChannelMax, start, up, ChannelInUse) \in ChannelInUse
  BY <1>1, NextOnRingMember
<1> QED
  BY <1>2 DEF NextInUseChannel

\* The zone search names a slot of the bitmap, or -1.
LEMMA NextInUseZoneType ==
  ASSUME NEW start \in Int, NEW up \in BOOLEAN
  PROVE  NextInUseZone(start, up) \in {-1} \cup 0..(ZoneSlotMax - 1)
<1>1. ZoneInUse \subseteq Int /\ ZoneSlotMax \in Nat \ {0}
  BY CodeplugAssumption
<1>2. ZoneInUse # {} => NextOnRing(ZoneSlotMax, start, up, ZoneInUse) \in ZoneInUse
  BY <1>1, NextOnRingMember
<1> QED
  BY <1>2, CodeplugAssumption DEF NextInUseZone

\* Every list has a populated prefix: the CHOOSE of CountChannels finds it.
LEMMA CountChannelsType ==
  ASSUME NEW list \in Seq(Nat)
  PROVE  CountChannels(list) \in 0..Len(list)
<1> DEFINE Zeros == { i \in 1..Len(list) : list[i] = 0 }
           P(n) == /\ \A i \in 1..n : list[i] # 0
                   /\ n < Len(list) => list[n + 1] = 0
<1>1. \E n \in 0..Len(list) : P(n)
  <2>1. CASE Zeros = {}
    <3>1. Len(list) \in 0..Len(list) /\ P(Len(list))
      BY <2>1
    <3> QED
      BY <3>1
  <2>2. CASE Zeros # {}
    <3>1. Zeros \subseteq Nat
      OBVIOUS
    <3>2. PICK z \in Zeros : \A i \in Zeros : <<i, z>> \notin OpToRel(<, Nat)
      BY <2>2, <3>1, WFMin, NatLessThanWellFounded
    <3>3. \A i \in Zeros : ~(i < z)
      BY <3>1, <3>2 DEF OpToRel
    <3>4. P(z - 1) /\ z - 1 \in 0..Len(list)
      BY <3>3
    <3> QED
      BY <3>4
  <2> QED
    BY <2>1, <2>2
<1> QED
  BY <1>1 DEF CountChannels

Slots == {-1} \cup 0..(ZoneSlotMax - 1)

\* A zone has a number of channels, no more than its slots.
LEMMA ZoneChannelCountType ==
  ASSUME NEW slot \in Slots
  PROVE  /\ ZoneChannelCount(slot) \in Nat
         /\ slot # -1 => ZoneChannelCount(slot) \in 0..Len(ZoneChannels[slot])
BY CountChannelsType, CodeplugAssumption DEF ZoneChannelCount, Slots

\* Looking a channel up never leaves the zone's list.
LEMMA ZoneChannelAtType ==
  ASSUME NEW slot \in Slots, NEW pos \in Int
  PROVE  ZoneChannelAt(slot, pos) \in Nat
BY ZoneChannelCountType, CodeplugAssumption DEF ZoneChannelAt, Slots

\* The search in a zone's list stops at a populated channel, or returns -1.
LEMMA NextInUseZonePosType ==
  ASSUME NEW slot \in Slots, NEW start \in Int, NEW up \in BOOLEAN
  PROVE  LET pos == NextInUseZonePos(slot, start, up)
         IN  \/ pos = -1
             \/ pos \in Nat /\ ZoneChannelAt(slot, pos) \in ChannelInUse
<1> DEFINE n    == ZoneChannelCount(slot)
           from == IF start \in 0..(n - 1) THEN start ELSE IF up THEN -1 ELSE n
           S    == ZoneInUsePositions(slot)
<1>1. n \in Nat
  BY ZoneChannelCountType
<1>2. S \subseteq 0..(n - 1) /\ \A p \in S : ZoneChannelAt(slot, p) \in ChannelInUse
  BY DEF ZoneInUsePositions
<1>3. S # {} => n \in Nat \ {0} /\ from \in Int /\ S \subseteq Int
  BY <1>1, <1>2
<1>4. S # {} => NextOnRing(n, from, up, S) \in S
  <2> HIDE DEF n, from, S
  <2> QED BY <1>3, NextOnRingMember
<1> QED
  BY <1>1, <1>2, <1>4 DEF NextInUseZonePos
-----------------------------------------------------------------------------
(* What the shared building blocks do to the calling thread's frame.        *)

\* A frame in the scan loop has iterations left, and a candidate about to be
\* committed or programmed is a populated channel.
FrameOK(f) ==
  /\ f.pc = "loopTest" \/ f.cont = "loopTest" => f.left > 0
  /\ f.pc \in {"commit", "freq"} => f.cand \in ChannelInUse

\* A frame that waits to commit: for a zone channel, scoped, and with the
\* candidate that is at its position.
FromZone(f, scoped) ==
  f.kind = "zone" => scoped /\ f.cand = ZoneChannelAt(s_current_slot, f.pos)

\* A call that found a candidate waits to commit it, else it has returned.
Searched(f, cont, scoped) ==
  /\ f \in Frame
  /\ FrameOK(f)
  /\ \/ f.pc = "commit" /\ f.cont = cont /\ FromZone(f, scoped)
     \/ f.pc = cont /\ f.cont = "idle"

\* The frame of a thread outside of a call.
LEMMA IdleFrameType == IdleFrame \in Frame /\ FrameOK(IdleFrame)
BY CodeplugAssumption DEF IdleFrame, Frame, Pcs, Conts, FrameOK

\* channel_controller_step() touches nothing but the frame before its commit.
LEMMA BeginStepFrame ==
  ASSUME ControllersOK, NEW t \in Threads, NEW up \in BOOLEAN, NEW cont \in Conts,
         NEW left \in Nat, cont = "loopTest" => left > 0,
         BeginStep(t, up, cont, left)
  PROVE  /\ UNCHANGED channelVars
         /\ \E f : Searched(f, cont, s_zone_scoped) /\ th' = [th EXCEPT ![t] = f]
<1> DEFINE pos == NextInUseZonePos(s_current_slot, s_zone_pos, up)
           idx == NextInUseChannel(s_index_1based, up)
           noStep == s_index_1based = 0 \/ (IF s_zone_scoped THEN pos < 0 ELSE idx = 0)
           back == IF cont = "idle" THEN IdleFrame
                   ELSE [IdleFrame EXCEPT !.pc = cont, !.up = up, !.left = left]
           zoneF == [pc |-> "commit", cont |-> cont, kind |-> "zone", pos |-> pos,
                     cand |-> ZoneChannelAt(s_current_slot, pos), up |-> up, left |-> left]
           flatF == [pc |-> "commit", cont |-> cont, kind |-> "flat", pos |-> -1,
                     cand |-> idx, up |-> up, left |-> left]
<1>1. s_current_slot \in Slots /\ s_zone_pos \in Int /\ s_index_1based \in Int
  BY DEF ControllersOK, Slots
<1>2. \/ pos = -1
      \/ pos \in Nat /\ ZoneChannelAt(s_current_slot, pos) \in ChannelInUse
  BY <1>1, NextInUseZonePosType
<1>3. idx \in ChannelInUse \cup {0}
  BY <1>1, NextInUseChannelType
<1>4. ChannelInUse \subseteq 0..ChannelMax
  BY CodeplugAssumption
<1>5. UNCHANGED channelVars
  BY DEF BeginStep
<1>6. CASE noStep
  <2>1. th' = [th EXCEPT ![t] = back]
    BY <1>6 DEF BeginStep, Return
  <2>2. Searched(back, cont, s_zone_scoped)
    BY IdleFrameType DEF Searched, Frame, Pcs, Conts, IdleFrame, FrameOK
  <2> QED
    BY <1>5, <2>1, <2>2
<1>7. CASE ~noStep /\ s_zone_scoped
  <2>1. th' = [th EXCEPT ![t] = zoneF]
    BY <1>7 DEF BeginStep, Found, zone_controller_get_channel_at
  <2>2. Searched(zoneF, cont, s_zone_scoped)
    <3>1. pos \in Int /\ ZoneChannelAt(s_current_slot, pos) \in ChannelInUse
      BY <1>2, <1>7
    <3> HIDE DEF pos
    <3> QED
      BY <3>1, <1>4, <1>7 DEF Searched, Frame, Pcs, Conts, FrameOK, FromZone
  <2> QED
    BY <1>5, <2>1, <2>2
<1>8. CASE ~noStep /\ ~s_zone_scoped
  <2>1. th' = [th EXCEPT ![t] = flatF]
    BY <1>8 DEF BeginStep, Found
  <2>2. Searched(flatF, cont, s_zone_scoped)
    <3>1. idx \in ChannelInUse
      BY <1>3, <1>8
    <3> HIDE DEF idx
    <3> QED
      BY <3>1, <1>4 DEF Searched, Frame, Pcs, Conts, FrameOK, FromZone
  <2> QED
    BY <1>5, <2>1, <2>2
<1> QED
  BY <1>6, <1>7, <1>8

\* Turning the zone-scoped mode on or off: either a first channel of the zone
\* was found, or there is no position, and no current channel if it was on.
LEMMA BeginSetZoneScopedFrame ==
  ASSUME ControllersOK, NEW t \in Threads, NEW enabled \in BOOLEAN, NEW up \in BOOLEAN,
         NEW cont \in Conts \ {"loopTest"},
         BeginSetZoneScoped(t, enabled, cont, up)
  PROVE  /\ s_zone_scoped' = enabled
         /\ UNCHANGED <<s_channel, s_entry_value, radio>>
         /\ \/ UNCHANGED <<s_index_1based, s_zone_pos>> /\ enabled
            \/ s_zone_pos' = -1 /\ s_index_1based' \in {0, s_index_1based}
         /\ \E f : Searched(f, cont, enabled) /\ th' = [th EXCEPT ![t] = f]
<1> DEFINE pos == NextInUseZonePos(s_current_slot, -1, TRUE)
           back == IF cont = "idle" THEN IdleFrame
                   ELSE [IdleFrame EXCEPT !.pc = cont, !.up = up, !.left = 0]
           zoneF == [pc |-> "commit", cont |-> cont, kind |-> "zone", pos |-> pos,
                     cand |-> ZoneChannelAt(s_current_slot, pos), up |-> up, left |-> 0]
<1>1. \/ pos = -1
      \/ pos \in Nat /\ ZoneChannelAt(s_current_slot, pos) \in ChannelInUse
  <2>1. s_current_slot \in Slots
    BY DEF ControllersOK, Slots
  <2>2. -1 \in Int
    OBVIOUS
  <2> QED
    BY <2>1, <2>2, NextInUseZonePosType
<1>2. ChannelInUse \subseteq 0..ChannelMax
  BY CodeplugAssumption
<1>3. CASE enabled /\ pos >= 0
  <2>1. th' = [th EXCEPT ![t] = zoneF]
    BY <1>3 DEF BeginSetZoneScoped, Found, zone_controller_get_channel_at
  <2>2. Searched(zoneF, cont, enabled)
    <3>1. pos \in Int /\ ZoneChannelAt(s_current_slot, pos) \in ChannelInUse
      <4> HIDE DEF pos
      <4> QED BY <1>1, <1>3
    <3> HIDE DEF pos
    <3> QED
      BY <3>1, <1>2, <1>3 DEF Searched, Frame, Pcs, Conts, FrameOK, FromZone
  <2> QED
    BY <1>3, <2>1, <2>2 DEF BeginSetZoneScoped
<1>4. CASE ~(enabled /\ pos >= 0)
  <2>1. th' = [th EXCEPT ![t] = back]
    BY <1>4 DEF BeginSetZoneScoped, Return
  <2>2. Searched(back, cont, enabled)
    BY IdleFrameType DEF Searched, Frame, Pcs, Conts, IdleFrame, FrameOK
  <2> QED
    BY <1>4, <2>1, <2>2 DEF BeginSetZoneScoped
<1> QED
  BY <1>3, <1>4

\* The scan loop: nothing in an empty zone, else a first step.
LEMMA BeginStepToNextEligibleFrame ==
  ASSUME ControllersOK, NEW t \in Threads, BeginStepToNextEligible(t)
  PROVE  /\ UNCHANGED channelVars
         /\ \E f : /\ Searched(f, "loopTest", s_zone_scoped) \/ f = IdleFrame
                  /\ th' = [th EXCEPT ![t] = f]
<1> DEFINE count == ZoneChannelCount(s_current_slot)
<1>1. count \in Nat
  BY ZoneChannelCountType DEF ControllersOK, Slots
<1>2. CASE count <= 0
  BY <1>2 DEF BeginStepToNextEligible, zone_controller_get_channel_count, Goto
<1>3. CASE ~(count <= 0)
  <2>1. BeginStep(t, s_up, "loopTest", count)
    BY <1>3 DEF BeginStepToNextEligible, zone_controller_get_channel_count
  <2>2. count > 0 /\ s_up \in BOOLEAN /\ "loopTest" \in Conts
    BY <1>1, <1>3 DEF ControllersOK, Conts
  <2> HIDE DEF count
  <2> QED
    BY <1>1, <2>1, <2>2, BeginStepFrame
<1> QED
  BY <1>2, <1>3

-----------------------------------------------------------------------------
(* The steps of the system, one disjunct per operation.                     *)

NavigateStep(t) ==
  \/ \E up \in BOOLEAN : channel_controller_step(t, up)
  \/ \E on \in BOOLEAN : channel_controller_set_zone_scoped(t, on)
  \/ At(t, "idle") /\ UNCHANGED <<channelVars, th>> /\ \E up \in BOOLEAN : zone_controller_step(up)
  \/ \E digit \in 0..9 : channel_controller_entry_digit(t, digit)
  \/ channel_controller_entry_commit(t)
  \/ channel_controller_entry_cancel(t)
  \/ Commit(t)
  \/ ProgramFreq(t)
  \/ ProgramShape(t)
  \/ EntryDone(t)

ScanStep(t) ==
  \/ \E up \in BOOLEAN : scan_controller_start(t, up)
  \/ \E up \in BOOLEAN : scan_controller_start_vfo(t, up)
  \/ scan_controller_stop(t)
  \/ scan_controller_reverse_direction(t)
  \/ scan_controller_tick(t)
  \/ scan_controller_tick_vfo(t)
  \/ ArmScan(t)
  \/ LoopTest(t)
  \/ \E open \in BOOLEAN : TickRead(t, open)
  \/ \E open \in BOOLEAN : TickVfoRead(t, open)

\* Every step is a step of one thread's call, a change of the screen or a
\* programming of the radio from elsewhere.
LEMMA NextSteps ==
  ASSUME Next
  PROVE  \E t \in Threads : \/ NavigateStep(t) /\ UNCHANGED scanVars
                            \/ ScanStep(t)
                            \/ ChangeScreen(t)
                            \/ OtherWriters(t)
<1>1. PICK t \in Threads : ThreadNext(t)
  BY DEF Next
<1>2. CASE Navigate(t)
  BY <1>2 DEF Navigate, NavigateStep
<1>3. CASE ControlScan(t)
  BY <1>3 DEF ControlScan, ScanStep
<1>4. CASE Tick(t)
  BY <1>4 DEF Tick, UpdateTick, ScanStep
<1>5. CASE Resume(t)
  BY <1>5 DEF Resume, ApplySteps, NavigateStep, ScanStep
<1> QED
  BY <1>1, <1>2, <1>3, <1>4, <1>5 DEF ThreadNext

\* Keys stack no other screens than those of Stacks.
LEMMA StackKept ==
  ASSUME s_frame_stack \in Stacks, [Next]_vars
  PROVE  s_frame_stack' \in Stacks
<1>1. CASE UNCHANGED vars
  BY <1>1 DEF vars
<1>2. CASE Next
  <2>1. PICK t \in Threads : ThreadNext(t)
    BY <1>2 DEF Next
  <2>2. CASE UNCHANGED s_frame_stack
    BY <2>2
  <2>3. CASE app_pop_screen
    BY <2>3 DEF app_pop_screen, Stacks
  <2>4. ASSUME app_push_screen("zones"), Top = "channel"
        PROVE  s_frame_stack' \in Stacks
    BY <2>4 DEF app_push_screen, Top, Stacks
  <2>5. CASE app_push_screen("settings")
    BY <2>5 DEF app_push_screen, Stacks
  <2>6. CASE app_switch_screen("vfo") \/ app_switch_screen("channel")
    BY <2>6 DEF app_switch_screen, Stacks
  <2>7. CASE ChangeScreen(t)
    BY <2>3, <2>4, <2>5, <2>6, <2>7 DEF ChangeScreen, KeyOn
  <2> QED
    BY <2>1, <2>2, <2>3, <2>7 DEF ThreadNext, Navigate, OtherWriters, KeyOn
<1> QED
  BY <1>1, <1>2

-----------------------------------------------------------------------------
(* Any threads, any interleaving: the types hold and only populated channels *)
(* reach the radio.                                                          *)

\* ControllersOK without the frames.
DataOK ==
  /\ s_current_slot \in Slots
  /\ s_channel \in 0..ChannelMax
  /\ s_index_1based \in Nat
  /\ s_entry_value \in 0..ChannelMax
  /\ s_zone_scoped \in BOOLEAN
  /\ s_zone_pos \in Int
  /\ radio \in [freq : 0..ChannelMax, shape : 0..ChannelMax, fault : BOOLEAN]
  /\ s_state \in {"IDLE", "SCANNING", "PAUSED"}
  /\ s_target \in {"NONE", "CHANNEL", "VFO"}
  /\ s_up \in BOOLEAN
  /\ s_prior_zone_scoped \in BOOLEAN

FramesOK == th \in [Threads -> Frame] /\ \A t \in Threads : FrameOK(th[t])

\* The inductive invariant: a channel in a frame about to be programmed and
\* the cached channel are populated, or nothing was cached yet.
InUseInv == /\ DataOK
            /\ FramesOK
            /\ s_channel \in ChannelInUse \cup {0}
            /\ RadioOnlyInUse

\* The invariant gives every variable its type.
LEMMA InUseInvTypeOK == InUseInv => ControllersOK
BY DEF InUseInv, DataOK, FramesOK, ControllersOK, Slots

\* One thread's frame changes, to a frame that is fine.
FrameStep(t) == \E f \in Frame : FrameOK(f) /\ th' = [th EXCEPT ![t] = f]

\* A step that only moves one thread's frame keeps all frames fine.
LEMMA FrameStepKeeps ==
  ASSUME FramesOK, NEW t \in Threads, FrameStep(t)
  PROVE  FramesOK'
BY DEF FramesOK, FrameStep

\* A search that ends leaves such a frame.
LEMMA SearchedFrameStep ==
  ASSUME NEW t \in Threads, NEW cont, NEW scoped,
         \E f : Searched(f, cont, scoped) /\ th' = [th EXCEPT ![t] = f]
  PROVE  FrameStep(t)
BY DEF Searched, FrameStep

\* A return or a move to the next step keeps the locals of the frame.
LEMMA GotoFrameStep ==
  ASSUME NEW t \in Threads, th[t] \in Frame, FrameOK(th[t]), NEW pc \in Pcs,
         pc = "loopTest" => th[t].left > 0,
         pc \in {"commit", "freq"} => th[t].cand \in ChannelInUse,
         Goto(t, pc)
  PROVE  FrameStep(t)
<1>1. CASE pc = "idle"
  BY <1>1, IdleFrameType DEF Goto, IdleFrame, FrameStep
<1>2. CASE pc # "idle"
  <2> DEFINE f == [th[t] EXCEPT !.pc = pc]
  <2>1. th' = [th EXCEPT ![t] = f]
    BY <1>2 DEF Goto
  <2>2. f \in Frame /\ FrameOK(f)
    BY DEF Frame, FrameOK
  <2> QED
    BY <2>1, <2>2 DEF FrameStep
<1> QED
  BY <1>1, <1>2

\* After boot the invariant holds.
LEMMA InUseInit == Init => InUseInv
<1> SUFFICES ASSUME Init PROVE InUseInv
  OBVIOUS
<1>1. NextInUseZone(-1, TRUE) \in Slots
  <2>1. -1 \in Int
    OBVIOUS
  <2> QED
    BY <2>1, NextInUseZoneType DEF Slots
<1>2. NextInUseChannel(0, TRUE) \in ChannelInUse \cup {0}
  <2>1. 0 \in Int /\ TRUE \in BOOLEAN
    OBVIOUS
  <2> QED
    BY <2>1, NextInUseChannelType
<1>3. ChannelInUse \subseteq 0..ChannelMax /\ 0 \in 0..ChannelMax /\ -1 \in Slots
  BY CodeplugAssumption DEF Slots
<1>4. s_current_slot \in Slots
  BY <1>1, <1>3 DEF Init, ZoneInit
<1>5. FramesOK
  BY IdleFrameType DEF Init, ChannelInit, FramesOK
<1>6. RadioOnlyInUse
  BY DEF Init, ChannelInit, FOREIGN, RadioOnlyInUse
<1>7. s_channel \in ChannelInUse \cup {0} /\ s_index_1based \in ChannelInUse \cup {0}
  BY <1>2 DEF Init, ChannelInit
<1>8. DataOK
  <2>1. s_channel \in 0..ChannelMax /\ s_index_1based \in Nat /\ s_zone_pos \in Int
    <3>1. s_channel \in 0..ChannelMax /\ s_index_1based \in 0..ChannelMax
      BY <1>3, <1>7
    <3>2. s_zone_pos = -1 /\ -1 \in Int
      BY DEF Init, ChannelInit
    <3> QED
      BY <3>1, <3>2
  <2> QED
    BY <1>3, <1>4, <2>1 DEF Init, ChannelInit, FOREIGN, DataOK
<1> QED
  BY <1>5, <1>6, <1>7, <1>8 DEF InUseInv

\* Every step of a navigation call.
LEMMA NavigateKeepsInUse ==
  ASSUME InUseInv, NEW t \in Threads, NavigateStep(t), UNCHANGED scanVars
  PROVE  InUseInv'
<1>1. ControllersOK /\ th[t] \in Frame /\ FrameOK(th[t])
  BY InUseInvTypeOK DEF InUseInv, FramesOK
<1>2. ChannelInUse \subseteq 0..ChannelMax /\ 0 \in 0..ChannelMax /\ 0 \in Nat
  BY CodeplugAssumption
<1> USE DEF InUseInv
<1>3. ASSUME NEW up \in BOOLEAN, channel_controller_step(t, up)
      PROVE  InUseInv'
  <2>1. BeginStep(t, up, "idle", 0) /\ "idle" \in Conts
    BY <1>3 DEF channel_controller_step, Conts
  <2>2. FrameStep(t) /\ UNCHANGED channelVars
    BY <1>1, <1>2, <2>1, BeginStepFrame, SearchedFrameStep
  <2> QED
    BY <1>3, <2>2, FrameStepKeeps
       DEF channel_controller_step, channelVars, scanVars, DataOK, RadioOnlyInUse
<1>4. ASSUME NEW on \in BOOLEAN, channel_controller_set_zone_scoped(t, on)
      PROVE  InUseInv'
  <2>1. BeginSetZoneScoped(t, on, "idle", TRUE) /\ "idle" \in Conts \ {"loopTest"} /\ TRUE \in BOOLEAN
    BY <1>4 DEF channel_controller_set_zone_scoped, Conts
  <2>2. /\ s_zone_scoped' = on
        /\ UNCHANGED <<s_channel, s_entry_value, radio>>
        /\ \/ UNCHANGED <<s_index_1based, s_zone_pos>> /\ on
           \/ s_zone_pos' = -1 /\ s_index_1based' \in {0, s_index_1based}
        /\ \E f : Searched(f, "idle", on) /\ th' = [th EXCEPT ![t] = f]
    BY <1>1, <2>1, BeginSetZoneScopedFrame
  <2>4. FrameStep(t)
    BY <2>2, SearchedFrameStep
  <2>3. s_zone_pos' \in Int
    BY <2>2 DEF DataOK
  <2> QED
    BY <1>2, <1>4, <2>2, <2>3, <2>4, FrameStepKeeps
       DEF channel_controller_set_zone_scoped, scanVars, DataOK, RadioOnlyInUse
<1>5. ASSUME UNCHANGED <<channelVars, th>>, NEW up \in BOOLEAN, zone_controller_step(up)
      PROVE  InUseInv'
  <2>1. s_current_slot' \in Slots
    <3>1. s_current_slot \in Int /\ s_current_slot \in Slots
      BY DEF DataOK, Slots
    <3> QED
      BY <1>5, <3>1, NextInUseZoneType DEF zone_controller_step, Slots
  <2> QED
    BY <1>5, <2>1 DEF channelVars, scanVars, DataOK, FramesOK, RadioOnlyInUse
<1>6. ASSUME NEW digit \in 0..9, channel_controller_entry_digit(t, digit)
      PROVE  InUseInv'
  <2>1. s_entry_value' \in 0..ChannelMax
    BY <1>2, <1>6, CodeplugAssumption DEF channel_controller_entry_digit, DataOK
  <2> QED
    BY <1>6, <2>1 DEF channel_controller_entry_digit, scanVars, DataOK, FramesOK,
                      RadioOnlyInUse
<1>7. CASE channel_controller_entry_commit(t)
  <2> DEFINE f == [pc |-> "commit", cont |-> "entryDone", kind |-> "entry", pos |-> -1,
                   cand |-> s_entry_value, up |-> TRUE, left |-> 0]
  <2>1. CASE s_entry_value \in ChannelInUse
    <3>1. f \in Frame /\ FrameOK(f)
      BY <1>2, <2>1 DEF Frame, Pcs, Conts, FrameOK
    <3>2. FrameStep(t) /\ UNCHANGED channelVars
      BY <1>7, <2>1, <3>1 DEF channel_controller_entry_commit, Found, FrameStep
    <3> QED
      BY <1>7, <3>2, FrameStepKeeps
         DEF channel_controller_entry_commit, channelVars, scanVars, DataOK, RadioOnlyInUse
  <2>2. CASE s_entry_value \notin ChannelInUse
    BY <1>2, <1>7, <2>2
       DEF channel_controller_entry_commit, scanVars, DataOK, FramesOK, RadioOnlyInUse
  <2> QED
    BY <2>1, <2>2
<1>8. CASE channel_controller_entry_cancel(t)
  BY <1>2, <1>8 DEF channel_controller_entry_cancel, scanVars, DataOK, FramesOK, RadioOnlyInUse
<1>9. CASE Commit(t)
  <2>1. th[t].cand \in ChannelInUse /\ th[t].pos \in Int
    BY <1>1, <1>9 DEF Commit, At, FrameOK, Frame
  <2>2. FrameStep(t)
    <3>1. Goto(t, "freq") /\ "freq" \in Pcs
      BY <1>9 DEF Commit, Pcs
    <3> QED
      BY <1>1, <2>1, <3>1, GotoFrameStep
  <2>3. zone_controller_get_channel_at(th[t].pos) \in Nat
    BY <2>1, ZoneChannelAtType DEF zone_controller_get_channel_at, DataOK
  <2>4. s_index_1based' \in Nat /\ s_zone_pos' \in Int
    BY <1>2, <1>9, <2>1, <2>3 DEF Commit, DataOK
  <2> QED
    BY <1>2, <1>9, <2>1, <2>2, <2>4, FrameStepKeeps DEF Commit, scanVars, DataOK, RadioOnlyInUse
<1>10. CASE ProgramFreq(t)
  <2>1. th[t].cand \in ChannelInUse
    BY <1>1, <1>10 DEF ProgramFreq, At, FrameOK
  <2>2. FrameStep(t)
    <3>1. Goto(t, "shape") /\ "shape" \in Pcs
      BY <1>10 DEF ProgramFreq, Pcs
    <3> QED
      BY <1>1, <3>1, GotoFrameStep
  <2>3. /\ radio' \in [freq : 0..ChannelMax, shape : 0..ChannelMax, fault : BOOLEAN]
        /\ RadioOnlyInUse'
    BY <1>2, <1>10, <2>1 DEF ProgramFreq, DataOK, RadioOnlyInUse
  <2> QED
    BY <1>10, <2>2, <2>3, FrameStepKeeps DEF ProgramFreq, scanVars, DataOK
<1>11. CASE ProgramShape(t)
  <2>1. th[t].cont \in Pcs /\ (th[t].cont = "loopTest" => th[t].left > 0)
        /\ th[t].cont \notin {"commit", "freq"}
    BY <1>1 DEF Frame, FrameOK, Pcs, Conts
  <2>2. FrameStep(t)
    <3>1. Goto(t, th[t].cont)
      BY <1>11 DEF ProgramShape
    <3> QED
      BY <1>1, <2>1, <3>1, GotoFrameStep
  <2>3. /\ radio' \in [freq : 0..ChannelMax, shape : 0..ChannelMax, fault : BOOLEAN]
        /\ RadioOnlyInUse'
    BY <1>11 DEF ProgramShape, FOREIGN, DataOK, RadioOnlyInUse
  <2> QED
    BY <1>11, <2>2, <2>3, FrameStepKeeps DEF ProgramShape, scanVars, DataOK
<1>12. CASE EntryDone(t)
  <2>1. FrameStep(t)
    <3>1. Goto(t, "idle") /\ "idle" \in Pcs
      BY <1>12 DEF EntryDone, Pcs
    <3> QED
      BY <1>1, <3>1, GotoFrameStep
  <2> QED
    BY <1>2, <1>12, <2>1, FrameStepKeeps DEF EntryDone, scanVars, DataOK, RadioOnlyInUse
<1> QED
  BY <1>3, <1>4, <1>5, <1>6, <1>7, <1>8, <1>9, <1>10, <1>11, <1>12 DEF NavigateStep

\* Every step of a scan call.
LEMMA ScanKeepsInUse ==
  ASSUME InUseInv, NEW t \in Threads, ScanStep(t)
  PROVE  InUseInv'
<1>1. ControllersOK /\ th[t] \in Frame /\ FrameOK(th[t])
  BY InUseInvTypeOK DEF InUseInv, FramesOK
<1>2. ChannelInUse \subseteq 0..ChannelMax /\ 0 \in 0..ChannelMax /\ 0 \in Nat
  BY CodeplugAssumption
<1> USE DEF InUseInv
<1>3. ASSUME NEW enabled \in BOOLEAN, NEW up \in BOOLEAN, NEW cont \in Conts \ {"loopTest"},
             BeginSetZoneScoped(t, enabled, cont, up)
      PROVE  /\ s_zone_scoped' \in BOOLEAN
             /\ UNCHANGED <<s_channel, s_entry_value, radio>>
             /\ s_zone_pos' \in Int /\ s_index_1based' \in Nat
             /\ FrameStep(t)
  <2>1. /\ s_zone_scoped' = enabled
        /\ UNCHANGED <<s_channel, s_entry_value, radio>>
        /\ \/ UNCHANGED <<s_index_1based, s_zone_pos>> /\ enabled
           \/ s_zone_pos' = -1 /\ s_index_1based' \in {0, s_index_1based}
        /\ \E f : Searched(f, cont, enabled) /\ th' = [th EXCEPT ![t] = f]
    BY <1>1, <1>3, BeginSetZoneScopedFrame
  <2>2. FrameStep(t)
    BY <2>1, SearchedFrameStep
  <2> QED
    BY <1>2, <2>1, <2>2 DEF DataOK
<1>4. ASSUME BeginStepToNextEligible(t)
      PROVE  FrameStep(t) /\ UNCHANGED channelVars
  <2>1. /\ UNCHANGED channelVars
        /\ \E f : /\ Searched(f, "loopTest", s_zone_scoped) \/ f = IdleFrame
                 /\ th' = [th EXCEPT ![t] = f]
    BY <1>1, <1>4, BeginStepToNextEligibleFrame
  <2> QED
    BY <2>1, IdleFrameType DEF Searched, FrameStep
<1>5. ASSUME NEW pc \in Pcs \ {"loopTest", "commit", "freq"}, Goto(t, pc)
      PROVE  FrameStep(t)
  BY <1>1, <1>5, GotoFrameStep
<1>6. ASSUME NEW up \in BOOLEAN, scan_controller_start(t, up)
      PROVE  InUseInv'
  <2>1. CASE s_zone_scoped
    BY <1>6, <2>1 DEF scan_controller_start, channelVars, DataOK, FramesOK, RadioOnlyInUse
  <2>2. CASE ~s_zone_scoped
    <3>1. /\ BeginSetZoneScoped(t, TRUE, "armScan", up)
          /\ TRUE \in BOOLEAN /\ "armScan" \in Conts \ {"loopTest"}
      BY <1>6, <2>2 DEF scan_controller_start, Conts
    <3>2. /\ s_zone_scoped' \in BOOLEAN
          /\ UNCHANGED <<s_channel, s_entry_value, radio>>
          /\ s_zone_pos' \in Int /\ s_index_1based' \in Nat
          /\ FrameStep(t)
      BY <1>3, <3>1
    <3> QED
      BY <1>6, <2>2, <3>2, FrameStepKeeps DEF scan_controller_start, DataOK, RadioOnlyInUse
  <2> QED
    BY <2>1, <2>2
<1>7. ASSUME NEW up \in BOOLEAN, scan_controller_start_vfo(t, up)
      PROVE  InUseInv'
  BY <1>7 DEF scan_controller_start_vfo, channelVars, DataOK, FramesOK, RadioOnlyInUse
<1>8. CASE scan_controller_stop(t)
  <2>1. CASE s_target = "CHANNEL" /\ ~s_prior_zone_scoped
    <3>1. /\ BeginSetZoneScoped(t, FALSE, "idle", TRUE)
          /\ TRUE \in BOOLEAN /\ FALSE \in BOOLEAN /\ "idle" \in Conts \ {"loopTest"}
      BY <1>8, <2>1 DEF scan_controller_stop, Conts
    <3>2. /\ s_zone_scoped' \in BOOLEAN
          /\ UNCHANGED <<s_channel, s_entry_value, radio>>
          /\ s_zone_pos' \in Int /\ s_index_1based' \in Nat
          /\ FrameStep(t)
      BY <1>3, <3>1
    <3> QED
      BY <1>8, <3>2, FrameStepKeeps DEF scan_controller_stop, DataOK, RadioOnlyInUse
  <2>2. CASE ~(s_target = "CHANNEL" /\ ~s_prior_zone_scoped)
    BY <1>8, <2>2 DEF scan_controller_stop, channelVars, DataOK, FramesOK, RadioOnlyInUse
  <2> QED
    BY <2>1, <2>2
<1>9. CASE scan_controller_reverse_direction(t)
  BY <1>9 DEF scan_controller_reverse_direction, channelVars, DataOK, FramesOK, RadioOnlyInUse
<1>10. CASE scan_controller_tick(t)
  <2>1. FrameStep(t) /\ UNCHANGED channelVars
    <3>1. CASE is_zone_skip(s_channel)
      BY <1>4, <1>10, <3>1 DEF scan_controller_tick
    <3>2. CASE ~is_zone_skip(s_channel)
      <4>1. Goto(t, "rssi") /\ "rssi" \in Pcs \ {"loopTest", "commit", "freq"}
        BY <1>10, <3>2 DEF scan_controller_tick, Pcs
      <4> QED
        BY <1>5, <1>10, <3>2, <4>1 DEF scan_controller_tick
    <3> QED
      BY <3>1, <3>2
  <2> QED
    BY <1>10, <2>1, FrameStepKeeps DEF scan_controller_tick, channelVars, DataOK, RadioOnlyInUse
<1>11. CASE scan_controller_tick_vfo(t)
  <2>1. Goto(t, "rssiVfo") /\ "rssiVfo" \in Pcs \ {"loopTest", "commit", "freq"}
    BY <1>11 DEF scan_controller_tick_vfo, Pcs
  <2>2. FrameStep(t)
    BY <1>5, <2>1
  <2> QED
    BY <1>11, <2>2, FrameStepKeeps
       DEF scan_controller_tick_vfo, channelVars, scanVars, DataOK, RadioOnlyInUse
<1>12. CASE ArmScan(t)
  <2>1. Goto(t, "idle") /\ "idle" \in Pcs \ {"loopTest", "commit", "freq"}
    BY <1>12 DEF ArmScan, Pcs
  <2>2. FrameStep(t)
    BY <1>5, <2>1
  <2>3. th[t].up \in BOOLEAN
    BY <1>1 DEF Frame
  <2> QED
    BY <1>12, <2>2, <2>3, FrameStepKeeps DEF ArmScan, channelVars, DataOK, RadioOnlyInUse
<1>13. CASE LoopTest(t)
  <2> DEFINE done == s_index_1based = 0 \/ ~is_zone_skip(s_channel) \/ th[t].left = 1
  <2>1. FrameStep(t) /\ UNCHANGED channelVars
    <3>1. CASE done
      <4>1. Goto(t, "idle") /\ "idle" \in Pcs \ {"loopTest", "commit", "freq"}
        BY <1>13, <3>1 DEF LoopTest, Pcs
      <4> QED
        BY <1>5, <1>13, <3>1, <4>1 DEF LoopTest
    <3>2. CASE ~done
      <4>1. BeginStep(t, th[t].up, "loopTest", th[t].left - 1)
        BY <1>13, <3>2 DEF LoopTest
      <4>2. th[t].up \in BOOLEAN /\ "loopTest" \in Conts /\ th[t].left \in Nat
        BY <1>1 DEF Frame, Conts
      <4>3. th[t].left > 0 /\ th[t].left # 1
        BY <1>1, <1>13, <3>2 DEF LoopTest, At, FrameOK
      <4>4. th[t].left - 1 \in Nat /\ th[t].left - 1 > 0
        BY <4>2, <4>3
      <4>5. /\ UNCHANGED channelVars
            /\ \E f : Searched(f, "loopTest", s_zone_scoped) /\ th' = [th EXCEPT ![t] = f]
        BY <1>1, <4>1, <4>2, <4>4, BeginStepFrame
      <4> QED
        BY <4>5, SearchedFrameStep
    <3> QED
      BY <3>1, <3>2
  <2> QED
    BY <1>13, <2>1, FrameStepKeeps DEF LoopTest, channelVars, scanVars, DataOK, RadioOnlyInUse
<1>14. ASSUME NEW open \in BOOLEAN, TickRead(t, open)
       PROVE  InUseInv'
  <2>1. FrameStep(t) /\ UNCHANGED channelVars
    <3>1. CASE open
      <4>1. Goto(t, "idle") /\ "idle" \in Pcs \ {"loopTest", "commit", "freq"}
        BY <1>14, <3>1 DEF TickRead, Pcs
      <4> QED
        BY <1>5, <1>14, <3>1, <4>1 DEF TickRead
    <3>2. CASE ~open
      BY <1>4, <1>14, <3>2 DEF TickRead
    <3> QED
      BY <3>1, <3>2
  <2> QED
    BY <1>14, <2>1, FrameStepKeeps DEF TickRead, channelVars, DataOK, RadioOnlyInUse
<1>15. ASSUME NEW open \in BOOLEAN, TickVfoRead(t, open)
       PROVE  InUseInv'
  <2>1. Goto(t, "idle") /\ "idle" \in Pcs \ {"loopTest", "commit", "freq"}
    BY <1>15 DEF TickVfoRead, Pcs
  <2>2. FrameStep(t)
    BY <1>5, <2>1
  <2> QED
    BY <1>15, <2>2, FrameStepKeeps DEF TickVfoRead, channelVars, DataOK, RadioOnlyInUse
<1> QED
  BY <1>6, <1>7, <1>8, <1>9, <1>10, <1>11, <1>12, <1>13, <1>14, <1>15 DEF ScanStep

\* Every step keeps it.
LEMMA InUseNext == InUseInv /\ [Next]_vars => InUseInv'
<1>1. ASSUME InUseInv, Next PROVE InUseInv'
  <2>1. PICK t \in Threads : \/ NavigateStep(t) /\ UNCHANGED scanVars
                             \/ ScanStep(t)
                             \/ ChangeScreen(t)
                             \/ OtherWriters(t)
    BY <1>1, NextSteps
  <2>2. CASE ChangeScreen(t)
    BY <1>1, <2>2
       DEF ChangeScreen, InUseInv, channelVars, scanVars, DataOK, FramesOK, RadioOnlyInUse
  <2>3. CASE OtherWriters(t)
    <3>1. /\ radio' \in [freq : 0..ChannelMax, shape : 0..ChannelMax, fault : BOOLEAN]
          /\ RadioOnlyInUse'
      <4>1. /\ radio \in [freq : 0..ChannelMax, shape : 0..ChannelMax, fault : BOOLEAN]
            /\ RadioOnlyInUse
            /\ 0 \in 0..ChannelMax
        BY <1>1, CodeplugAssumption DEF InUseInv, DataOK
      <4>2. \/ radio' = [radio EXCEPT !.freq = FOREIGN]
            \/ radio' = [radio EXCEPT !.shape = FOREIGN]
        BY <2>3 DEF OtherWriters
      <4> QED
        BY <4>1, <4>2 DEF FOREIGN, RadioOnlyInUse
    <3> QED
      BY <1>1, <2>3, <3>1 DEF OtherWriters, InUseInv, scanVars, DataOK, FramesOK
  <2> QED
    BY <1>1, <2>1, <2>2, <2>3, NavigateKeepsInUse, ScanKeepsInUse
<1>2. ASSUME InUseInv, UNCHANGED vars PROVE InUseInv'
  BY <1>2 DEF InUseInv, vars, channelVars, scanVars, DataOK, FramesOK, RadioOnlyInUse
<1> QED
  BY <1>1, <1>2

\* Whatever the threads do and however their steps interleave, every variable
\* of the controllers keeps its type.
THEOREM TypeCorrect == Spec => []TypeOK
<1>1. Init => InUseInv
  BY InUseInit
<1>2. InUseInv /\ [Next]_vars => InUseInv'
  BY InUseNext
<1>3. InUseInv /\ s_frame_stack \in Stacks => TypeOK
  BY InUseInvTypeOK DEF TypeOK
<1>4. Init => s_frame_stack \in Stacks
  BY DEF Init, Stacks
<1>5. s_frame_stack \in Stacks /\ [Next]_vars => (s_frame_stack \in Stacks)'
  BY StackKept
<1> QED
  BY <1>1, <1>2, <1>3, <1>4, <1>5, PTL DEF Spec

\* However keys, commands and scan ticks of different threads interleave, the
\* channel controller only ever gives the hardware the frequency, the bandwidth
\* and the CSS tones of a populated channel of the codeplug.
THEOREM OnlyInUse == Spec => []RadioOnlyInUse
<1>1. Init => InUseInv
  BY InUseInit
<1>2. InUseInv /\ [Next]_vars => InUseInv'
  BY InUseNext
<1>3. InUseInv => RadioOnlyInUse
  BY DEF InUseInv
<1> QED
  BY <1>1, <1>2, <1>3, PTL DEF Spec
=============================================================================
