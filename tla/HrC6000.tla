-------------------------------- MODULE HrC6000 --------------------------------
(***************************************************************************)
(* drivers/radio/hr_c6000/hr_c6000.c: powering the baseband, its           *)
(* initialisation sequence, of which any transfer may fail, and the calls  *)
(* that need it.  One call after the other, as main() makes them; the raw  *)
(* accesses of the debug console are left out.                             *)
(***************************************************************************)
EXTENDS Integers, Sequences

CONSTANT IfOverride   \* the devicetree asks for another IF than the tables have

ASSUME HrC6000Assumption == IfOverride \in BOOLEAN

VARIABLES
  hr_ready,     \* what became of hr_c6000_init()
  powered,   \* data->powered
  pin,       \* power_down_gpio
  hr_regs,      \* the tables the chip has got since it has power
  said       \* the latest call and whether it returned 0

hrVars == <<hr_ready, powered, pin, hr_regs, said>>

Sections ==
  <<"pll", "setup", "ctrl_0x11", "vocoder", "post_flush", "aux_0x10", "aux_0x30", "aux_0x40",
    "aux_0x50", "aux_more", "late", "aux_cleanup", "rxprep", "ms_sync">>
  \o (IF IfOverride THEN <<"if_word">> ELSE <<>>) \o <<"final">>

Tables == {Sections[i] : i \in 1..Len(Sections)}

Refused ==
  {"init_digital", "terminate_digital", "set_fm_tx", "set_dmr", "set_mic", "mute_audio",
   "send_tone", "set_dtmf", "dtmf_off", "get_rx_ids", "get_rx_color_code", "set_dmr_ids",
   "set_talker_alias", "set_talker_alias_location", "set_rx_gain", "set_agc_gain",
   "inject_ambe_frame", "flush_audio"}
Ignored == {"clear_rx_ids", "reset_sync", "get_sync_state", "register_callbacks"}

Said(call, ok) == said' = [call |-> call, ok |-> ok]

HrInit ==
  /\ hr_ready = "not yet" /\ powered = FALSE /\ pin = FALSE /\ hr_regs = {}
  /\ said = [call |-> "none", ok |-> TRUE]

-----------------------------------------------------------------------------
\* Mutant: the flag is set before the pin.
hr_c6000_power_on_Early(ok) == powered' = TRUE /\ pin' = (powered \/ ok)

\* ok: the pin could be set.
hr_c6000_power_on(ok) ==
  /\ powered' = (powered \/ ok)
  /\ pin' = (pin \/ powered')

\* The first n tables; a chip that is powered already keeps what it has got.
hr_c6000_run_init_sequence(n) == hr_regs' = hr_regs \cup {Sections[i] : i \in 1..n}

\* Power on, then the tables up to the first that fails.
BringUp(call) ==
  \E ok \in BOOLEAN, n \in 0..Len(Sections) :
    /\ hr_c6000_power_on(ok)
    /\ ~powered' => n = 0
    /\ hr_c6000_run_init_sequence(n)
    /\ Said(call, n = Len(Sections))

\* At boot; the rest of the firmware leaves a device alone that is not ready.
hr_c6000_init ==
  /\ hr_ready = "not yet"
  /\ BringUp("init")
  /\ hr_ready' = IF said'.ok THEN "yes" ELSE "no"

\* hr_c6000_api_power_down(false).
hr_c6000_power_up ==
  /\ hr_ready = "yes"
  /\ BringUp("power_up")
  /\ UNCHANGED hr_ready

\* hr_c6000_api_power_down(true): without power the registers are lost.
hr_c6000_power_off ==
  /\ hr_ready = "yes"
  /\ \E ok \in BOOLEAN :
       /\ powered' = (powered /\ ~ok) /\ pin' = (pin /\ powered')
       /\ hr_regs' = IF pin' THEN hr_regs ELSE {}
       /\ Said("power_off", ok \/ ~powered)
  /\ UNCHANGED hr_ready

\* Mutant: the table is sent whether or not the chip is powered.
Transfer_Unpowered(call) ==
  \E ok \in BOOLEAN :
    /\ hr_regs' = IF ok /\ pin THEN hr_regs \cup {call} ELSE hr_regs
    /\ Said(call, ok)

Transfer(call) ==
  \E ok \in BOOLEAN :
    /\ ok => powered
    /\ hr_regs' = IF ok /\ pin THEN hr_regs \cup {call} ELSE hr_regs
    /\ Said(call, ok)

hr_c6000_api_set_fm_rx ==
  hr_ready = "yes" /\ Transfer("set_fm_rx") /\ UNCHANGED <<hr_ready, powered, pin>>

hr_c6000_api_set_audio_path ==
  hr_ready = "yes" /\ Transfer("set_audio_path") /\ UNCHANGED <<hr_ready, powered, pin>>

Stub ==
  /\ hr_ready = "yes"
  /\ \/ \E call \in Refused : Said(call, FALSE)
     \/ \E call \in Ignored : Said(call, TRUE)
  /\ UNCHANGED <<hr_ready, powered, pin, hr_regs>>

HrNext ==
  \/ hr_c6000_init \/ hr_c6000_power_up \/ hr_c6000_power_off
  \/ hr_c6000_api_set_fm_rx \/ hr_c6000_api_set_audio_path \/ Stub

HrSpec == HrInit /\ [][HrNext]_hrVars

-----------------------------------------------------------------------------
HrTypeOK ==
  /\ hr_ready \in {"not yet", "yes", "no"}
  /\ powered \in BOOLEAN /\ pin \in BOOLEAN
  /\ hr_regs \subseteq Tables \cup {"set_fm_rx", "set_audio_path"}
  /\ said.ok \in BOOLEAN

\* The flag is the pin, whichever of power on and off failed, and a chip without
\* power has no registers.
PowerAgrees == powered = pin /\ (~pin => hr_regs = {})

\* A call that returned 0 took: set_fm_rx() and set_audio_path() are only accepted by a
\* chip with power, and powering up leaves every table in it, also on the retry
\* after an initialisation that failed in the middle with the power left on.
AcceptedTook ==
  /\ said.call \in {"set_fm_rx", "set_audio_path"} /\ said.ok => said.call \in hr_regs
  /\ said.call \in {"init", "power_up"} /\ said.ok => Tables \subseteq hr_regs

\* What the driver says of the baseband's power and configuration is so.
ChipAgrees == HrTypeOK /\ PowerAgrees /\ AcceptedTook
=============================================================================
