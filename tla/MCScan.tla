-------------------------------- MODULE MCScan --------------------------------
(***************************************************************************)
(* A small codeplug for ScanController.  Channel 2 is skip-flagged and     *)
(* slot 3 of the table is cleared.  Zone slot 0 mixes all three kinds,     *)
(* slot 2 has only a skip-flagged channel, slot 3 only the cleared one and *)
(* slot 1 is not in use.                                                   *)
(***************************************************************************)
EXTENDS ScanController, TLC

MCChannelMax   == 4
MCChannelInUse == {1, 2, 4}
MCZoneSkip     == {2}
MCZoneSlotMax  == 4
MCZoneInUse    == {0, 2, 3}
MCZoneChannels == 0 :> <<2, 1, 3, 4>> @@ 1 :> <<0>> @@ 2 :> <<2, 0, 1>> @@ 3 :> <<3, 0, 0>>
=============================================================================
