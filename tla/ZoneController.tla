---------------------------- MODULE ZoneController ----------------------------
(***************************************************************************)
(* zone_controller.c: the cursor over the codeplug's in-use zone slots.    *)
(* s_zone, s_channels_per_zone and s_channel_count are the cached contents *)
(* of slot s_current_slot and change only with it, so the slot stands for  *)
(* all of them.                                                            *)
(***************************************************************************)
EXTENDS Codeplug

VARIABLE s_current_slot     \* -1: no in-use zone

\* zone_controller_init(): the first in-use slot, or -1 if there is none or
\* reading it fails.
ZoneInit == s_current_slot \in { -1, NextInUseZone(-1, TRUE) }

\* zone_controller_step(): without a current zone, or when the read of the
\* next slot fails, nothing changes.
zone_controller_step(up) ==
  \/ UNCHANGED s_current_slot
  \/ /\ s_current_slot # -1
     /\ s_current_slot' = NextInUseZone(s_current_slot, up)

zone_controller_get_channel_count == ZoneChannelCount(s_current_slot)

zone_controller_get_channel_at(pos) == ZoneChannelAt(s_current_slot, pos)
=============================================================================
