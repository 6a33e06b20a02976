------------------------------- MODULE MCRadio --------------------------------
(* Instances of At1846s: tones with and without a DCS code.                  *)
EXTENDS At1846s

NoDcs   == {0, 1}
WithDcs == {0, 1, Dcs}
=============================================================================
