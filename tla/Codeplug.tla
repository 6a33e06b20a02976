------------------------------- MODULE Codeplug -------------------------------
(***************************************************************************)
(* The part of the codeplug (the radio's flash configuration) that channel *)
(* and zone navigation reads: which channel slots and zone slots are in    *)
(* use, which channels carry the zone-skip flag, and each zone's channel   *)
(* list.  codeplug_write() is a no-op in this firmware, so all of it is    *)
(* constant while the program runs.                                        *)
(*                                                                         *)
(* A channel record is named by its 1-based table index: its frequency,    *)
(* bandwidth and CSS tones are functions of that index.                    *)
(***************************************************************************)
EXTENDS Integers, Sequences

CONSTANTS
  ChannelMax,      \* CP_CHANNEL_INDEX_MAX, 1024 in the firmware
  ChannelInUse,    \* indexes whose slot reads back and is populated
  ZoneSkip,        \* indexes flagged CP_CHANNEL_FLAG4_ZONE_SKIP
  ZoneSlotMax,     \* ZONE_SLOT_MAX, 68 in the firmware
  ZoneInUse,       \* slots set in the in-use bitmap
  ZoneChannels     \* slot -> the raw channels[] array, channels_per_zone long

ASSUME CodeplugAssumption ==
  /\ ChannelMax \in Nat \ {0}
  /\ ChannelInUse \subseteq 1..ChannelMax
  /\ ZoneSkip \subseteq 1..ChannelMax
  /\ ZoneSlotMax \in Nat \ {0}
  /\ ZoneInUse \subseteq 0..(ZoneSlotMax - 1)
  /\ ZoneChannels \in [0..(ZoneSlotMax - 1) -> Seq(Nat)]

-----------------------------------------------------------------------------
(* Walking a ring of n positions 0..n-1.                                    *)

\* Steps from `from' to `to', not counting the first: the neighbour is at 0
\* and the start itself, met again after a whole turn, at n-1.
RingDistance(n, from, to, up) ==
  IF up THEN (to - from - 1) % n ELSE (from - to - 1) % n

\* The member of S met first when walking from `from' (exclusive).
NextOnRing(n, from, up, S) ==
  CHOOSE p \in S :
    \A q \in S : RingDistance(n, from, p, up) <= RingDistance(n, from, q, up)

-----------------------------------------------------------------------------
(* The queries the controllers make.                                        *)

\* find_next_in_use(): the next in-use index of the flat table, 0 if there is
\* none.  A start one below the range (boot) makes index 1 the first candidate.
NextInUseChannel(start, up) ==
  IF ChannelInUse = {} THEN 0
  ELSE NextOnRing(ChannelMax, start, up, ChannelInUse)

\* count_channels(): the populated prefix of a zone's list, up to the first 0.
CountChannels(list) ==
  CHOOSE n \in 0..Len(list) :
    /\ \A i \in 1..n : list[i] # 0
    /\ n < Len(list) => list[n + 1] = 0

\* zone_controller_get_channel_count(); slot -1 is "no current zone".
ZoneChannelCount(slot) ==
  IF slot = -1 THEN 0 ELSE CountChannels(ZoneChannels[slot])

\* zone_controller_get_channel_at(): 0 outside the list.
ZoneChannelAt(slot, pos) ==
  IF slot = -1 \/ pos \notin 0..(ZoneChannelCount(slot) - 1) THEN 0
  ELSE ZoneChannels[slot][pos + 1]

\* Mutant: load_zone_channel() does not look whether the slot is in use.
ZoneInUsePositions_Unchecked(slot) == 0..(ZoneChannelCount(slot) - 1)

\* The list positions load_zone_channel() accepts.
ZoneInUsePositions(slot) ==
  { p \in 0..(ZoneChannelCount(slot) - 1) :
      ZoneChannelAt(slot, p) \in ChannelInUse }

\* find_next_in_use_zone_pos(): a start outside the list is normalised so that
\* the walk begins at the first (up) or the last (down) position.
NextInUseZonePos(slot, start, up) ==
  LET n    == ZoneChannelCount(slot)
      from == IF start \in 0..(n - 1) THEN start ELSE IF up THEN -1 ELSE n
  IN  IF ZoneInUsePositions(slot) = {} THEN -1
      ELSE NextOnRing(n, from, up, ZoneInUsePositions(slot))

\* zone_controller.c's find_next_in_use() over the slot bitmap.
NextInUseZone(start, up) ==
  IF ZoneInUse = {} THEN -1
  ELSE NextOnRing(ZoneSlotMax, start, up, ZoneInUse)
=============================================================================
