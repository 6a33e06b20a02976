----------------------------- MODULE ScanSession ------------------------------
(***************************************************************************)
(* What scanning promises the operator, without channels, zones and        *)
(* squelch: at most one scan at a time, of one kind from its start to its  *)
(* end; it holds and goes on while it lasts; the zone scoping is the       *)
(* operator's, chosen outside a scan and untouched by one.                 *)
(***************************************************************************)

VARIABLES
  mode,      \* "NONE", "CHANNEL" or "VFO"
  holding,   \* the scan rests on a busy channel
  scope      \* the operator's choice of zone-scoped stepping

vars == <<mode, holding, scope>>

Init ==
  /\ mode = "NONE"
  /\ holding = FALSE
  /\ scope = FALSE

ChooseScope ==
  /\ mode = "NONE"
  /\ scope' \in BOOLEAN
  /\ UNCHANGED <<mode, holding>>

Start ==
  /\ mode = "NONE"
  /\ mode' \in {"CHANNEL", "VFO"}
  /\ UNCHANGED <<holding, scope>>

HoldOrGoOn ==
  /\ mode # "NONE"
  /\ holding' \in BOOLEAN
  /\ UNCHANGED <<mode, scope>>

Stop ==
  /\ mode # "NONE"
  /\ mode' = "NONE"
  /\ holding' = FALSE
  /\ UNCHANGED scope

Next == ChooseScope \/ Start \/ HoldOrGoOn \/ Stop

Spec == Init /\ [][Next]_vars
=============================================================================
