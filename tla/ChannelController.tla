-------------------------- MODULE ChannelController ---------------------------
(***************************************************************************)
(* channel_controller.c: the current FM channel, stepping over the flat    *)
(* table or over the current zone's list, direct number entry, and the     *)
(* programming of the radio.                                               *)
(*                                                                         *)
(* The functions are called by the LVGL thread (keys and the 200 ms screen *)
(* update) and by the console thread, without a lock.  A call runs as      *)
(* several steps of its thread: it looks for a candidate, commits it to    *)
(* the module's statics, programs the frequency and then the bandwidth and *)
(* the CSS tones.  Between two steps the thread may sleep (the I2C         *)
(* transfers of radio_state, the flash reads of the search) or be          *)
(* preempted by the console thread, which has the higher priority, and     *)
(* another thread's steps come in between.                                 *)
(***************************************************************************)
EXTENDS ZoneController

CONSTANT Threads

VARIABLES
  s_channel,      \* table index of the cached record; 0: never loaded
  s_index_1based, \* 0: no in-use channel
  s_entry_value,  \* direct entry; 0: none in progress
  s_zone_scoped,
  s_zone_pos,     \* -1: untracked
  radio,          \* whose frequency, and whose bandwidth and CSS, the
                  \* transceiver has: a channel's, or FOREIGN
  th              \* per thread, the call in progress

\* Programmed by another controller: the VFO, the settings menu or the boot.
FOREIGN == 0

channelVars == <<s_channel, s_index_1based, s_entry_value, s_zone_scoped,
                 s_zone_pos, radio>>

(* The stack frame of a thread.  cont is where the thread goes when the     *)
(* channel_controller call it is in returns.                                *)
Pcs   == {"idle", "commit", "freq", "shape", "entryDone", "armScan", "rssi",
          "rssiVfo", "loopTest"}
Conts == {"idle", "entryDone", "armScan", "loopTest"}
Frame ==
  [ pc   : Pcs,
    cont : Conts,
    kind : {"zone", "flat", "entry"},  \* where the candidate came from
    pos  : Int,                        \* its zone position, for kind "zone"
    cand : 0..ChannelMax,              \* the candidate record
    up   : BOOLEAN,                    \* direction of the scan this call drives
    left : Nat ]                       \* iterations left in the scan loop

IdleFrame == [ pc |-> "idle", cont |-> "idle", kind |-> "flat", pos |-> -1,
               cand |-> 0, up |-> TRUE, left |-> 0 ]

At(t, pc)   == th[t].pc = pc
Goto(t, pc) == th' = [th EXCEPT ![t] = IF pc = "idle" THEN IdleFrame
                                       ELSE [@ EXCEPT !.pc = pc]]

\* Go to pc with the locals of the scan code set.
Return(t, pc, up, left) ==
  th' = [th EXCEPT ![t] = IF pc = "idle" THEN IdleFrame
                          ELSE [IdleFrame EXCEPT !.pc = pc, !.up = up,
                                                 !.left = left]]

\* channel_controller_init(): caches the first in-use channel and leaves the
\* radio alone.
ChannelInit ==
  /\ s_index_1based = NextInUseChannel(0, TRUE)
  /\ s_channel = NextInUseChannel(0, TRUE)
  /\ s_entry_value = 0
  /\ s_zone_scoped = FALSE
  /\ s_zone_pos = -1
  /\ radio = [freq |-> FOREIGN, shape |-> FOREIGN, fault |-> FALSE]
  /\ th = [t \in Threads |-> IdleFrame]

-----------------------------------------------------------------------------
(* Building blocks of the calls.                                            *)

\* The candidate is found; the record read from flash is on the stack.
Found(t, kind, pos, cand, cont, up, left) ==
  th' = [th EXCEPT ![t] = [pc |-> "commit", cont |-> cont, kind |-> kind,
                           pos |-> pos, cand |-> cand, up |-> up, left |-> left]]

\* Mutant: a step in the zone's list starts over at its beginning.
BeginStep_StartsOver(t, up, cont, left) ==
  LET pos    == NextInUseZonePos(s_current_slot, -1, up)
      idx    == NextInUseChannel(s_index_1based, up)
      noStep == s_index_1based = 0 \/ (IF s_zone_scoped THEN pos < 0 ELSE idx = 0)
  IN  /\ UNCHANGED channelVars
      /\ IF noStep THEN Return(t, cont, up, left)
         ELSE IF s_zone_scoped
         THEN Found(t, "zone", pos, zone_controller_get_channel_at(pos), cont,
                    up, left)
         ELSE Found(t, "flat", -1, idx, cont, up, left)

\* channel_controller_step() up to the commit: nothing to do without a current
\* channel, else the next candidate of the zone's list or of the flat table.
BeginStep(t, up, cont, left) ==
  LET pos    == NextInUseZonePos(s_current_slot, s_zone_pos, up)
      idx    == NextInUseChannel(s_index_1based, up)
      noStep == s_index_1based = 0 \/ (IF s_zone_scoped THEN pos < 0 ELSE idx = 0)
  IN  /\ UNCHANGED channelVars
      /\ IF noStep THEN Return(t, cont, up, left)
         ELSE IF s_zone_scoped
         THEN Found(t, "zone", pos, zone_controller_get_channel_at(pos), cont,
                    up, left)
         ELSE Found(t, "flat", -1, idx, cont, up, left)

\* Mutant: entry_commit() loads the channel and does not apply it.
Commit_EntryNotApplied(t) ==
  /\ At(t, "commit")
  /\ s_index_1based' = IF th[t].kind = "zone"
                       THEN zone_controller_get_channel_at(th[t].pos)
                       ELSE th[t].cand
  /\ s_zone_pos' = CASE th[t].kind = "zone"  -> th[t].pos
                     [] th[t].kind = "entry" -> -1
                     [] OTHER                -> s_zone_pos
  /\ s_channel' = th[t].cand
  /\ Goto(t, IF th[t].kind = "entry" THEN th[t].cont ELSE "freq")
  /\ UNCHANGED <<s_entry_value, s_zone_scoped, radio, s_current_slot>>

\* The statics take the candidate, and apply_to_radio() reads the frequency to
\* program from s_channel.  The zone's channel index is looked up again here,
\* in whatever zone is current by now.
Commit(t) ==
  /\ At(t, "commit")
  /\ s_index_1based' = IF th[t].kind = "zone"
                       THEN zone_controller_get_channel_at(th[t].pos)
                       ELSE th[t].cand
  /\ s_zone_pos' = CASE th[t].kind = "zone"  -> th[t].pos
                     [] th[t].kind = "entry" -> -1
                     [] OTHER                -> s_zone_pos
  /\ s_channel' = th[t].cand
  /\ Goto(t, "freq")
  /\ UNCHANGED <<s_entry_value, s_zone_scoped, radio, s_current_slot>>

\* radio_state_set_frequency() of the frequency read at the commit; a failure
\* is logged and apply_to_radio() goes on.
ProgramFreq(t) ==
  /\ At(t, "freq")
  /\ \/ radio' = [radio EXCEPT !.freq = th[t].cand, !.fault = FALSE]
     \/ radio' = [radio EXCEPT !.fault = TRUE]
  /\ Goto(t, "shape")
  /\ UNCHANGED <<s_channel, s_index_1based, s_entry_value, s_zone_scoped,
                 s_zone_pos, s_current_slot>>

\* Bandwidth, TX and RX CSS, read through the pointer to s_channel: they are
\* those of the record it holds now.
ProgramShape(t) ==
  /\ At(t, "shape")
  /\ \/ radio' = [radio EXCEPT !.shape = s_channel]
     \/ radio' = [radio EXCEPT !.fault = TRUE]
  /\ Goto(t, th[t].cont)
  /\ UNCHANGED <<s_channel, s_index_1based, s_entry_value, s_zone_scoped,
                 s_zone_pos, s_current_slot>>

ApplySteps(t) == Commit(t) \/ ProgramFreq(t) \/ ProgramShape(t)

-----------------------------------------------------------------------------
(* The public functions, called by a thread that is in no other call.       *)

channel_controller_step(t, up) ==
  /\ At(t, "idle")
  /\ BeginStep(t, up, "idle", 0)
  /\ UNCHANGED s_current_slot

\* Mutant: turning the mode off keeps the position.
BeginSetZoneScoped_KeepsPos(t, enabled, cont, up) ==
  LET pos == NextInUseZonePos(s_current_slot, -1, TRUE)
  IN  /\ s_zone_scoped' = enabled
      /\ UNCHANGED <<s_channel, s_entry_value, radio, s_zone_pos>>
      /\ IF enabled /\ pos >= 0
         THEN /\ Found(t, "zone", pos, zone_controller_get_channel_at(pos),
                       cont, up, 0)
              /\ UNCHANGED s_index_1based
         ELSE /\ s_index_1based' = IF enabled THEN 0 ELSE s_index_1based
              /\ Return(t, cont, up, 0)

\* Enabling resolves the current channel in the zone's list, or leaves none.
BeginSetZoneScoped(t, enabled, cont, up) ==
  LET pos == NextInUseZonePos(s_current_slot, -1, TRUE)
  IN  /\ s_zone_scoped' = enabled
      /\ UNCHANGED <<s_channel, s_entry_value, radio>>
      /\ IF enabled /\ pos >= 0
         THEN /\ Found(t, "zone", pos, zone_controller_get_channel_at(pos),
                       cont, up, 0)
              /\ UNCHANGED <<s_index_1based, s_zone_pos>>
         ELSE /\ s_zone_pos' = -1
              /\ s_index_1based' = IF enabled THEN 0 ELSE s_index_1based
              /\ Return(t, cont, up, 0)

channel_controller_set_zone_scoped(t, enabled) ==
  /\ At(t, "idle")
  /\ BeginSetZoneScoped(t, enabled, "idle", TRUE)
  /\ UNCHANGED s_current_slot

\* A value past the table resets the whole entry.
channel_controller_entry_digit(t, digit) ==
  /\ At(t, "idle")
  /\ LET candidate == s_entry_value * 10 + digit
     IN  s_entry_value' = IF candidate > ChannelMax THEN 0 ELSE candidate
  /\ UNCHANGED <<s_channel, s_index_1based, s_zone_scoped, s_zone_pos, radio,
                 th, s_current_slot>>

\* Mutant: any number entered is loaded.
channel_controller_entry_commit_Unchecked(t) ==
  /\ At(t, "idle")
  /\ s_entry_value # 0
  /\ Found(t, "entry", -1, s_entry_value, "entryDone", TRUE, 0)
  /\ UNCHANGED <<channelVars, s_current_slot>>

\* An entry that names no in-use channel is only cleared.
channel_controller_entry_commit(t) ==
  /\ At(t, "idle")
  /\ s_entry_value # 0
  /\ IF s_entry_value \in ChannelInUse
     THEN /\ Found(t, "entry", -1, s_entry_value, "entryDone", TRUE, 0)
          /\ UNCHANGED channelVars
     ELSE /\ s_entry_value' = 0
          /\ UNCHANGED <<s_channel, s_index_1based, s_zone_scoped, s_zone_pos,
                         radio, th>>
  /\ UNCHANGED s_current_slot

\* The last statement of entry_commit(), reached once the radio is programmed.
EntryDone(t) ==
  /\ At(t, "entryDone")
  /\ s_entry_value' = 0
  /\ Goto(t, "idle")
  /\ UNCHANGED <<s_channel, s_index_1based, s_zone_scoped, s_zone_pos, radio,
                 s_current_slot>>

channel_controller_entry_cancel(t) ==
  /\ At(t, "idle")
  /\ s_entry_value' = 0
  /\ UNCHANGED <<s_channel, s_index_1based, s_zone_scoped, s_zone_pos, radio,
                 th, s_current_slot>>
=============================================================================
