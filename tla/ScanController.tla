---------------------------- MODULE ScanController ----------------------------
(***************************************************************************)
(* scan_controller.c on top of the channel and zone controllers, driven by *)
(* the threads that call them: the LVGL thread, which runs key actions and *)
(* the 200 ms screen update, and the console thread.  A key reaches the    *)
(* top screen only through app.c's scan_intercept_action(): while a scan   *)
(* is on, Down reverses it, Up does nothing, SK2 opens the Zones screen    *)
(* and every other key stops it.  Only the top screen is updated, and only *)
(* the channel and the VFO screen's update ticks a scan.  A console        *)
(* command, "scan tick" among them, reaches its controller at any time.    *)
(*                                                                         *)
(* The transceiver has other writers than the channel controller: the VFO  *)
(* while its screen is on top, and the settings menu.  They are here as    *)
(* what they do to it; FmVfoController and Settings model them.            *)
(*                                                                         *)
(* The frequencies a VFO scan sweeps over belong to fm_vfo_controller; of  *)
(* a VFO scan this module has the state machine.                           *)
(***************************************************************************)
EXTENDS ChannelController

CONSTANTS UiThreads, ConsoleThreads

ASSUME ThreadAssumption == UiThreads \cup ConsoleThreads = Threads

VARIABLES s_state, s_target, s_up, s_prior_zone_scoped,
          s_frame_stack   \* app.c's root screen and the one over it, if any

scanVars == <<s_state, s_target, s_up, s_prior_zone_scoped>>
vars == <<s_current_slot, channelVars, th, scanVars, s_frame_stack>>

\* What keys can stack: Settings on either root, and Zones on the channel screen.
Stacks == { f \in [root : {"vfo", "channel"}, over : {"none", "settings", "zones"}] :
              f.over = "zones" => f.root = "channel" }
Top == IF s_frame_stack.over = "none" THEN s_frame_stack.root ELSE s_frame_stack.over

Init ==
  /\ ZoneInit
  /\ ChannelInit
  /\ s_state = "IDLE"
  /\ s_target = "NONE"
  /\ s_up = FALSE
  /\ s_prior_zone_scoped = FALSE
  /\ s_frame_stack = [root |-> "vfo", over |-> "none"]

-----------------------------------------------------------------------------
(* scan_controller.c                                                        *)

\* Mutant: the scan starts without asking for the zone-scoped mode.
scan_controller_start_Unscoped(t, up) ==
  /\ At(t, "idle")
  /\ s_state = "IDLE"
  /\ s_prior_zone_scoped' = s_zone_scoped
  /\ s_target' = "CHANNEL" /\ s_up' = up /\ s_state' = "SCANNING"
  /\ UNCHANGED <<channelVars, th, s_current_slot>>

\* Channel scan needs the zone-scoped mode and remembers what it was.
scan_controller_start(t, up) ==
  /\ At(t, "idle")
  /\ s_state = "IDLE"
  /\ s_prior_zone_scoped' = s_zone_scoped
  /\ IF s_zone_scoped
     THEN /\ s_target' = "CHANNEL" /\ s_up' = up /\ s_state' = "SCANNING"
          /\ UNCHANGED <<channelVars, th>>
     ELSE /\ BeginSetZoneScoped(t, TRUE, "armScan", up)
          /\ UNCHANGED <<s_state, s_target, s_up>>
  /\ UNCHANGED s_current_slot

\* The tail of scan_controller_start(), after set_zone_scoped() returned.
ArmScan(t) ==
  /\ At(t, "armScan")
  /\ s_target' = "CHANNEL" /\ s_up' = th[t].up /\ s_state' = "SCANNING"
  /\ Goto(t, "idle")
  /\ UNCHANGED <<channelVars, s_current_slot, s_prior_zone_scoped>>

scan_controller_start_vfo(t, up) ==
  /\ At(t, "idle")
  /\ s_state = "IDLE"
  /\ s_target' = "VFO" /\ s_up' = up /\ s_state' = "SCANNING"
  /\ UNCHANGED <<channelVars, th, s_current_slot, s_prior_zone_scoped>>

\* Mutant: the target is not reset.
scan_controller_stop_KeepsTarget(t) ==
  /\ At(t, "idle")
  /\ s_state # "IDLE"
  /\ s_state' = "IDLE"
  /\ IF s_target = "CHANNEL" /\ ~s_prior_zone_scoped
     THEN BeginSetZoneScoped(t, FALSE, "idle", TRUE)
     ELSE UNCHANGED <<channelVars, th>>
  /\ UNCHANGED <<s_target, s_current_slot, s_up, s_prior_zone_scoped>>

\* Mutant: the zone-scoped mode is not given back.
scan_controller_stop_KeepsScope(t) ==
  /\ At(t, "idle")
  /\ s_state # "IDLE"
  /\ s_state' = "IDLE"
  /\ s_target' = "NONE"
  /\ UNCHANGED <<channelVars, th, s_current_slot, s_up, s_prior_zone_scoped>>

scan_controller_stop(t) ==
  /\ At(t, "idle")
  /\ s_state # "IDLE"
  /\ s_state' = "IDLE"
  /\ s_target' = "NONE"
  /\ IF s_target = "CHANNEL" /\ ~s_prior_zone_scoped
     THEN BeginSetZoneScoped(t, FALSE, "idle", TRUE)
     ELSE UNCHANGED <<channelVars, th>>
  /\ UNCHANGED <<s_current_slot, s_up, s_prior_zone_scoped>>

scan_controller_reverse_direction(t) ==
  /\ At(t, "idle")
  /\ s_state # "IDLE"
  /\ s_up' = ~s_up
  /\ UNCHANGED <<channelVars, th, s_current_slot, s_state, s_target,
                 s_prior_zone_scoped>>

is_zone_skip(ch) == ch \in ZoneSkip

\* Entry of step_to_next_eligible(): nothing in an empty zone, else the first
\* of at most as many steps as the zone has channels.
BeginStepToNextEligible(t) ==
  LET count == zone_controller_get_channel_count
  IN  IF count <= 0 THEN Goto(t, "idle") /\ UNCHANGED channelVars
      ELSE BeginStep(t, s_up, "loopTest", count)

\* Mutant: the loop is not limited to one turn round the zone.
LoopTest_Unlimited(t) ==
  /\ At(t, "loopTest")
  /\ IF s_index_1based = 0 \/ ~is_zone_skip(s_channel)
     THEN Goto(t, "idle") /\ UNCHANGED channelVars
     ELSE BeginStep(t, th[t].up, "loopTest", th[t].left)
  /\ UNCHANGED <<scanVars, s_current_slot>>

\* The test after each step, and the next step.
LoopTest(t) ==
  /\ At(t, "loopTest")
  /\ IF \/ s_index_1based = 0
        \/ ~is_zone_skip(s_channel)
        \/ th[t].left = 1
     THEN Goto(t, "idle") /\ UNCHANGED channelVars
     ELSE BeginStep(t, th[t].up, "loopTest", th[t].left - 1)
  /\ UNCHANGED <<scanVars, s_current_slot>>

\* Mutant: the squelch is read on every channel.
scan_controller_tick_NoSkip(t) ==
  /\ At(t, "idle")
  /\ s_target = "CHANNEL"
  /\ s_index_1based # 0
  /\ Goto(t, "rssi")
  /\ UNCHANGED <<scanVars, channelVars, s_current_slot>>

\* A skip-flagged channel is left at once; on another one the squelch is read.
scan_controller_tick(t) ==
  /\ At(t, "idle")
  /\ s_target = "CHANNEL"
  /\ s_index_1based # 0
  /\ IF is_zone_skip(s_channel)
     THEN /\ s_state' = "SCANNING"
          /\ BeginStepToNextEligible(t)
     ELSE /\ Goto(t, "rssi")
          /\ UNCHANGED <<s_state, channelVars>>
  /\ UNCHANGED <<s_target, s_up, s_prior_zone_scoped, s_current_slot>>

\* radio_state_get_rssi() has returned.
TickRead(t, squelchOpen) ==
  /\ At(t, "rssi")
  /\ IF squelchOpen
     THEN /\ s_state' = "PAUSED"
          /\ Goto(t, "idle")
          /\ UNCHANGED channelVars
     ELSE /\ s_state' = "SCANNING"
          /\ BeginStepToNextEligible(t)
  /\ UNCHANGED <<s_target, s_up, s_prior_zone_scoped, s_current_slot>>

scan_controller_tick_vfo(t) ==
  /\ At(t, "idle")
  /\ s_target = "VFO"
  /\ Goto(t, "rssiVfo")
  /\ UNCHANGED <<scanVars, channelVars, s_current_slot>>

TickVfoRead(t, squelchOpen) ==
  /\ At(t, "rssiVfo")
  /\ s_state' = IF squelchOpen THEN "PAUSED" ELSE "SCANNING"
  /\ Goto(t, "idle")
  /\ UNCHANGED <<s_target, s_up, s_prior_zone_scoped, channelVars, s_current_slot>>

-----------------------------------------------------------------------------
(* Who calls what.                                                          *)

app_push_screen(screen) == s_frame_stack' = [s_frame_stack EXCEPT !.over = screen]
app_pop_screen          == s_frame_stack' = [s_frame_stack EXCEPT !.over = "none"]
app_switch_screen(root) == s_frame_stack' = [root |-> root, over |-> "none"]

\* No scan is on, and a key is forwarded to the screen on top.
KeyOn(t, screen) == t \in UiThreads /\ s_state = "IDLE" /\ Top = screen

\* A console command.
Command(t) == t \in ConsoleThreads

\* The 200 ms update of the screen on top, the only one that is updated.
UpdateTick(t) ==
  /\ t \in UiThreads
  /\ \/ Top = "channel" /\ scan_controller_tick(t)
     \/ Top = "vfo" /\ scan_controller_tick_vfo(t)

Tick(t) ==
  \/ UpdateTick(t)
  \/ Command(t) /\ (scan_controller_tick(t) \/ scan_controller_tick_vfo(t))

\* The steps of a thread inside a call.
Resume(t) ==
  \/ ApplySteps(t) /\ UNCHANGED scanVars
  \/ EntryDone(t) /\ UNCHANGED scanVars
  \/ ArmScan(t)
  \/ LoopTest(t)
  \/ \E open \in BOOLEAN : TickRead(t, open) \/ TickVfoRead(t, open)

\* Calls of the channel and zone controllers.  OK on the Zones screen leaves it
\* when the call has returned; until then the LVGL thread takes no key.
Navigate(t) ==
  /\ UNCHANGED scanVars
  /\ \/ /\ KeyOn(t, "channel") \/ Command(t)
        /\ \E up \in BOOLEAN : channel_controller_step(t, up)
        /\ UNCHANGED s_frame_stack
     \/ /\ KeyOn(t, "channel")
        /\ \/ \E digit \in 0..9 : channel_controller_entry_digit(t, digit)
           \/ channel_controller_entry_commit(t)
           \/ channel_controller_entry_cancel(t)
        /\ UNCHANGED s_frame_stack
     \/ /\ KeyOn(t, "zones") \/ Command(t)
        /\ At(t, "idle")
        /\ \E up \in BOOLEAN : zone_controller_step(up)
        /\ UNCHANGED <<channelVars, th, s_frame_stack>>
     \/ /\ KeyOn(t, "zones")
        /\ channel_controller_set_zone_scoped(t, TRUE)
        /\ app_pop_screen
     \/ /\ Command(t)
        /\ \E on \in BOOLEAN : channel_controller_set_zone_scoped(t, on)
        /\ UNCHANGED s_frame_stack

\* Calls of the scan controller; for keys this is scan_intercept_action() and
\* the long press of Up.
ControlScan(t) ==
  \/ KeyOn(t, "channel") /\ scan_controller_start(t, TRUE)
  \/ KeyOn(t, "vfo") /\ scan_controller_start_vfo(t, TRUE)
  \/ Command(t) /\ \E up \in BOOLEAN :
       scan_controller_start(t, up) \/ scan_controller_start_vfo(t, up)
  \/ scan_controller_stop(t)
  \/ scan_controller_reverse_direction(t)

\* Keys that only change the screen.  SK2 passes while a scan is on and leaves
\* the channel screen, and with it the ticks of the scan.
ChangeScreen(t) ==
  /\ At(t, "idle")
  /\ \/ t \in UiThreads /\ Top = "channel" /\ app_push_screen("zones")
     \/ KeyOn(t, "channel") /\ s_entry_value = 0 /\ app_push_screen("settings")
     \/ KeyOn(t, "channel") /\ s_entry_value = 0 /\ app_switch_screen("vfo")
     \/ KeyOn(t, "vfo") /\ (app_push_screen("settings") \/ app_switch_screen("channel"))
     \/ (KeyOn(t, "zones") \/ KeyOn(t, "settings")) /\ app_pop_screen
  /\ UNCHANGED <<s_current_slot, channelVars, th, scanVars>>

\* The VFO's retune, from its screen's update, and a setting that is changed in
\* a row or by a command: the transceiver loses what the channel had put there.
OtherWriters(t) ==
  /\ At(t, "idle")
  /\ \/ /\ t \in UiThreads /\ Top = "vfo"
        /\ radio' = [radio EXCEPT !.freq = FOREIGN]
     \/ radio' = [radio EXCEPT !.shape = FOREIGN]
  /\ UNCHANGED <<s_channel, s_index_1based, s_entry_value, s_zone_scoped, s_zone_pos,
                 th, s_current_slot, scanVars, s_frame_stack>>

ThreadNext(t) ==
  \/ Navigate(t)
  \/ ChangeScreen(t)
  \/ OtherWriters(t)
  \/ (ControlScan(t) \/ Tick(t) \/ Resume(t)) /\ UNCHANGED s_frame_stack

Next == \E t \in Threads : ThreadNext(t)

\* Calls return: every I2C transfer and flash read ends, with or without an
\* error, and both threads are scheduled.
CallsReturn == \A t \in Threads : WF_vars(Resume(t) /\ UNCHANGED s_frame_stack)

\* app.c's 200 ms timer updates the screen on top as long as the LVGL thread
\* runs.  Nothing ticks a scan whose screen is not on top.
UpdateRuns == \A t \in UiThreads : WF_vars(UpdateTick(t) /\ UNCHANGED s_frame_stack)

Spec == Init /\ [][Next]_vars /\ CallsReturn
FairSpec == Spec /\ UpdateRuns

-----------------------------------------------------------------------------
(* Properties.  The first group is for threads that never overlap: a single *)
(* thread (UiThreads = ConsoleThreads = {t}) that takes both keys and       *)
(* commands.                                                                *)

\* The types of the controllers.  The index is only known to be a natural: it
\* is read from a zone list that may have changed since it was searched.
ControllersOK ==
  /\ s_current_slot \in {-1} \cup 0..(ZoneSlotMax - 1)
  /\ s_channel \in 0..ChannelMax
  /\ s_index_1based \in Nat
  /\ s_entry_value \in 0..ChannelMax
  /\ s_zone_scoped \in BOOLEAN
  /\ s_zone_pos \in Int
  /\ radio \in [freq : 0..ChannelMax, shape : 0..ChannelMax, fault : BOOLEAN]
  /\ th \in [Threads -> Frame]
  /\ s_state \in {"IDLE", "SCANNING", "PAUSED"}
  /\ s_target \in {"NONE", "CHANNEL", "VFO"}
  /\ s_up \in BOOLEAN
  /\ s_prior_zone_scoped \in BOOLEAN

\* Every variable has its type.
TypeOK == ControllersOK /\ s_frame_stack \in Stacks

Quiescent == \A t \in Threads : At(t, "idle")

\* scan_controller_get_state() reports IDLE exactly when no scan is armed,
\* whatever calls ran in whatever order: keys are swallowed or forwarded by it.
StateMatchesTarget == (s_state = "IDLE") <=> (s_target = "NONE")

\* There is a current channel only if it is a populated slot of the table and
\* the cached record is the one the index names (get_current() and
\* get_current_index() agree, so the screen and the radio do).
CurrentChannelIsReal ==
  s_index_1based # 0 => /\ s_index_1based \in ChannelInUse
                        /\ s_channel = s_index_1based

\* A position is tracked only in zone-scoped mode.
PositionNeedsScope == s_zone_pos # -1 => s_zone_scoped

\* The cached channel, its index and its position in the zone belong together,
\* whatever keys, commands and scan steps come in between.
CacheConsistent == CurrentChannelIsReal /\ PositionNeedsScope

\* The channel settings that are in the radio are those of the cached channel.
OnlyOfTheChannel == Quiescent /\ ~radio.fault =>
                      {radio.freq, radio.shape} \subseteq {FOREIGN, s_channel}

\* What the step that ends apply_to_radio() leaves in the radio.
AppliesTheChannel ==
  \A t \in Threads : At(t, "shape") /\ th[t] # th'[t] =>
    \/ radio'.fault
    \/ radio'.freq = s_channel' /\ radio'.shape = s_channel'

\* A call that programs the radio returns with the frequency and the bandwidth
\* and CSS of the cached channel in it, unless a transfer failed; and between
\* calls each of the two is the cached channel's for as long as the VFO and the
\* settings leave it alone: a step, a zone, an entry or a scan never leaves
\* settings of a channel that is no longer the current one behind.
RadioHasChannel == OnlyOfTheChannel /\ [][OnlyOfTheChannel' /\ AppliesTheChannel]_vars

\* No channel controller call programs the radio with anything but a codeplug
\* channel in use.
RadioOnlyInUse == {radio.freq, radio.shape} \subseteq ChannelInUse \cup {FOREIGN}

\* Only a channel whose squelch was read, and that is not skip-flagged, makes
\* the scan hold; holding does not move the channel.
HoldsOnEligible ==
  [][ s_state' = "PAUSED" /\ s_state # "PAUSED" /\ s_target = "CHANNEL" =>
        /\ s_index_1based # 0
        /\ ~is_zone_skip(s_channel)
        /\ s_channel' = s_channel ]_vars

-----------------------------------------------------------------------------
(* For keys only (ConsoleThreads = {}): the console can change the zone     *)
(* scope behind a running scan.                                             *)

\* A channel scan walks the zone's list, never the flat table.
ScanIsZoneScoped == s_target = "CHANNEL" => s_zone_scoped

\* The zone scoping the operator chose: what stopping the scan goes back to.
Arming == \E t \in Threads : th[t].cont = "armScan" \/ At(t, "armScan")
UserScope == IF s_target = "CHANNEL" \/ Arming THEN s_prior_zone_scoped
             ELSE s_zone_scoped

\* The controllers implement ScanSession: every step starts, holds, continues
\* or stops one session, or leaves it alone, and only a choice made outside a
\* session changes the operator's scoping, although a channel scan forces the
\* zone-scoped mode on while it runs.
Session == INSTANCE ScanSession WITH
  mode    <- s_target,
  holding <- s_state = "PAUSED",
  scope   <- UserScope
ImplementsSession == Session!Spec

-----------------------------------------------------------------------------
(* Liveness.                                                                *)

\* Every call returns to its caller, also over a zone of skip-flagged channels.
CallsEnd == \A t \in Threads : ~At(t, "idle") ~> At(t, "idle")

\* A scan that keeps running in one direction with the squelch closed comes
\* back to every eligible channel of the zone again and again, provided there
\* is a current channel to step from and the channel screen stays on top: under
\* Zones, where SK2 leads without stopping the scan, it is parked.
Eligible(slot) == { ZoneChannelAt(slot, p) : p \in ZoneInUsePositions(slot) } \ ZoneSkip
Scanning(z, up) == /\ s_target = "CHANNEL" /\ s_state = "SCANNING"
                   /\ s_current_slot = z /\ s_up = up
ScanVisits ==
  \A z \in ZoneInUse, up \in BOOLEAN : \A c \in Eligible(z) :
    <>[](Scanning(z, up) /\ s_index_1based # 0 /\ Top = "channel")
      => []<>(s_channel = c)

=============================================================================
