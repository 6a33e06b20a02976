-------------------------------- MODULE MCVfo ---------------------------------
(***************************************************************************)
(* Two narrow bands, 10..11 and 13..14, with a gap between them that steps *)
(* and typos reach.  VFO A starts in the lower band and has scan bounds;   *)
(* VFO B could not be read and has none.                                   *)
(***************************************************************************)
EXTENDS VfoScan, TLC

MCSupported     == {10, 11, 13, 14}
MCCodeplugVfo   == 0 :> 10 @@ 1 :> 0
MCScanRange     == 0 :> <<10, 11>> @@ 1 :> <<0, 0>>
MCBothScanRange == 0 :> <<10, 11>> @@ 1 :> <<10, 11>>
=============================================================================
