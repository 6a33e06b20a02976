----------------------------- MODULE CodeplugImage -----------------------------
(***************************************************************************)
(* src/model/codeplug.c over the flash: where each accessor reads, and how *)
(* it decodes numbers, tones and places.  Codeplug.tla is what the         *)
(* controllers see of it.  What is decoded is what                         *)
(* tools/gen_sim_codeplug.py encodes; other editors are external, and so   *)
(* is the flash.  A field is its nibbles, the lowest first.                *)
(***************************************************************************)
EXTENDS Integers, Sequences

CONSTANTS
  Images,    \* modern: the zones' format; number, tone, place: what a record says
  Indices,   \* that callers ask for
  NvLengths,  \* sizes of the buffer for the settings
  Dumped,    \* the regions the console dumps
  NotReady, NoValue

VARIABLES
  image,      \* the codeplug in the flash, once its driver is ready
  request,    \* the latest call: its record, its return, its reads, its value
  earlier     \* the latest before it that read

imageVars == <<image, request, earlier>>

\* Eight digits; ten-thousandths of a degree.
Numbers == {n \in Nat : n < 100000000}
LatLons  == {p \in Int : -1800000 <= p /\ p <= 1800000}

\* The tones a channel has: four digits below 4000, or three octal ones.
CtcssValues == {v \in Nat : 0 < v /\ v < 4000}
DcsValues   == {v \in Nat : v < 8 ^ 3}
ToneValues  == [type : {"none"},  value : {0},         inverted : {FALSE}]
          \cup [type : {"CTCSS"}, value : CtcssValues, inverted : {FALSE}]
          \cup [type : {"DCS"},   value : DcsValues,   inverted : BOOLEAN]

NoRequest == [kind |-> "none", index |-> 0, ret |-> "0", reads |-> {}, value |-> NoValue]

ImageInit == image = NotReady /\ request = NoRequest /\ earlier = NoRequest

\* The codeplug-map node of the board, as codeplug_list_regions() lists it.
codeplug_map ==
  [device_info      |-> <<\h80, \h60>>,        general_settings |-> <<\he0, \h28>>,
   signalling_dtmf  |-> <<\h1400, \h78>>,      signalling_dtmf_durations |-> <<\h1472, 5>>,
   aprs_configs     |-> <<\h1588, \h200>>,     dtmf_contacts    |-> <<\h2f88, \h7e0>>,
   channels_bank1   |-> <<\h3780, \h1c10>>,    last_used_channel |-> <<\h6000, \h4a>>,
   nv_settings      |-> <<\h604b, \h100>>,     boot_password    |-> <<\h7518, \hc>>,
   quickkeys        |-> <<\h7524, \h14>>,      boot_lines       |-> <<\h7540, \h20>>,
   vfo_channels     |-> <<\h7590, \h70>>,      zones_ext        |-> <<\h8000, \h2ef0>>,
   calibration      |-> <<\h10000, \h200>>,    custom_data      |-> <<\h20000, \h10000>>,
   channels_ext     |-> <<\h9b1b0, \hc470>>,   contacts         |-> <<\ha7620, \h6000>>,
   rx_group_lists   |-> <<\had620, \h1840>>]

ASSUME ImageAssumption ==
  /\ Images \subseteq [modern : BOOLEAN, number : Numbers, tone : ToneValues, place : LatLons]
  /\ NotReady \notin Images
  /\ NvLengths \subseteq Nat \ {0}
  /\ Dumped \subseteq DOMAIN codeplug_map

\* codeplug_raw_read(): len bytes from offset, meant to be of that region.
Read(region, at, len) == [region |-> region, from |-> codeplug_map[region][1] + at, len |-> len]

-----------------------------------------------------------------------------
(* Decoding, and how gen_sim_codeplug.py stores.                            *)

Digit(n, k, base) == (n \div base ^ k) % base

\* A 32-bit word's bytes, of eight decimal digits.
Stored(n)         == [j \in 1..4 |-> <<Digit(n, 2 * j - 2, 10), Digit(n, 2 * j - 1, 10)>>]
StoredBigEnd(n)   == [j \in 1..4 |-> Stored(n)[5 - j]]
StoredTone(t) ==
  IF t.type = "none" THEN <<15, 15, 15, 15>>
  ELSE IF t.type = "CTCSS" THEN [k \in 1..4 |-> Digit(t.value, k - 1, 10)]
  ELSE [k \in 1..4 |-> IF k = 4 THEN IF t.inverted THEN 12 ELSE 8 ELSE Digit(t.value, k - 1, 8)]

\* The fraction of the degree is rounded to 32768ths.
StoredPlace(p) ==
  LET size   == IF p < 0 THEN -p ELSE p
      parts  == ((size % 10000) * 2 ^ 15 + 5000) \div 10000
  IN  (IF p < 0 THEN 2 ^ 23 ELSE 0) + (size \div 10000) * 2 ^ 15
      + IF parts > 2 ^ 15 - 1 THEN 2 ^ 15 - 1 ELSE parts

Word(bytes) == bytes[1] \o bytes[2] \o bytes[3] \o bytes[4]

\* The value of nibbles that are digits to a base.
Value(nibbles, base) ==
  LET from[k \in 1..Len(nibbles) + 1] ==
        IF k > Len(nibbles) THEN 0 ELSE nibbles[k] + base * from[k + 1]
  IN  from[1]

cp_bcd_to_uint32(nibbles) == Value(nibbles, 10)

\* Mutant: the word is taken as it is.
cp_byteswap32_Not(bytes) == bytes

cp_byteswap32(bytes) == [j \in 1..4 |-> bytes[5 - j]]

Tone(type, value, inverted) == [type |-> type, value |-> value, inverted |-> inverted]

codeplug_decode_css(raw) ==
  IF raw \in {<<0, 0, 0, 0>>, <<15, 15, 15, 15>>} THEN Tone("none", 0, FALSE)
  ELSE IF raw[4] < 4 THEN Tone("CTCSS", cp_bcd_to_uint32(raw), FALSE)
  ELSE Tone("DCS", Value([raw EXCEPT ![4] = @ % 4], 8), (raw[4] \div 4) % 2 = 1)

codeplug_decode_latlon(raw24) ==
  LET value == ((raw24 % 2 ^ 23) \div 2 ^ 15) * 10000 + (raw24 % 2 ^ 15)
  IN  IF raw24 >= 2 ^ 23 THEN -value ELSE value

\* cp_decode_channel_freqs(), and the fields the callers decode.
DecodedChannel ==
  [freq |-> cp_bcd_to_uint32(Word(Stored(image.number))) * 10,
   tone |-> codeplug_decode_css(StoredTone(image.tone)),
   place |-> codeplug_decode_latlon(StoredPlace(image.place))]

DecodedContact == [tgNumber |-> cp_bcd_to_uint32(Word(cp_byteswap32(StoredBigEnd(image.number))))]

-----------------------------------------------------------------------------
(* The accessors.                                                           *)

Answer(kind, index, ret, reads, value) ==
  /\ request' = [kind |-> kind, index |-> index, ret |-> ret, reads |-> reads, value |-> value]
  /\ earlier' = IF request.ret = "0" THEN request ELSE earlier
  /\ UNCHANGED image

\* Of a call that failed only its return is kept.
Fails(kind, ret) == Answer(kind, 0, ret, {}, NoValue)
FlashFails(kind) == Fails(kind, IF image = NotReady THEN "ENODEV" ELSE "EIO")

\* codeplug_raw_read(), and what is decoded.
AnswerRead(kind, index, read, value) ==
  \/ image # NotReady /\ Answer(kind, index, "0", {read}, value)
  \/ FlashFails(kind)

\* Structs, each a region of its own, by their size.
Singles == [device_info |-> 96, general_settings |-> 40, signalling_dtmf |-> 120,
            signalling_dtmf_durations |-> 5, calibration |-> 512]

GetSingle(kind) == AnswerRead(kind, 0, Read(kind, 0, Singles[kind]), NoValue)

CP_CHANNEL_SIZE      == 56
CP_CHANNELS_PER_BANK == 128
CP_BANK_HEADER_SIZE  == 16
CP_BANK_SIZE         == CP_BANK_HEADER_SIZE + CP_CHANNELS_PER_BANK * CP_CHANNEL_SIZE

ChannelRead(index) ==
  LET bank == (index - 1) \div CP_CHANNELS_PER_BANK
      at   == CP_BANK_HEADER_SIZE + ((index - 1) % CP_CHANNELS_PER_BANK) * CP_CHANNEL_SIZE
  IN  IF bank = 0 THEN Read("channels_bank1", at, CP_CHANNEL_SIZE)
      ELSE Read("channels_ext", (bank - 1) * CP_BANK_SIZE + at, CP_CHANNEL_SIZE)

codeplug_get_channel(index) ==
  IF index \in 1..1024 THEN AnswerRead("channel", index, ChannelRead(index), DecodedChannel)
  ELSE Fails("channel", "EINVAL")

\* Tables of records: in a region after a head, from the first index to the last.
Table(region, head, first, last, size) ==
  [region |-> region, head |-> head, first |-> first, last |-> last, size |-> size]

\* Mutant: one record too many.
RecordTables_Nine ==
  [contact      |-> Table("contacts", 0, 1, 1024, 24),
   dtmf_contact |-> Table("dtmf_contacts", 0, 1, 63, 32),
   aprs_config  |-> Table("aprs_configs", 0, 1, 9, 64),
   rx_group     |-> Table("rx_group_lists", 128, 1, 76, 80),
   vfo_channel  |-> Table("vfo_channels", 0, 0, 1, CP_CHANNEL_SIZE),
   quickkey     |-> Table("quickkeys", 0, 0, 9, 2)]

RecordTables ==
  [contact      |-> Table("contacts", 0, 1, 1024, 24),
   dtmf_contact |-> Table("dtmf_contacts", 0, 1, 63, 32),
   aprs_config  |-> Table("aprs_configs", 0, 1, 8, 64),
   rx_group     |-> Table("rx_group_lists", 128, 1, 76, 80),
   vfo_channel  |-> Table("vfo_channels", 0, 0, 1, CP_CHANNEL_SIZE),
   quickkey     |-> Table("quickkeys", 0, 0, 9, 2)]

DecodedRecord(kind) ==
  IF kind = "vfo_channel" THEN DecodedChannel
  ELSE IF kind = "contact" THEN DecodedContact ELSE NoValue

GetRecord(kind, index) ==
  LET t == RecordTables[kind]
  IN  IF index \notin t.first..t.last THEN Fails(kind, "EINVAL")
      ELSE AnswerRead(kind, index, Read(t.region, t.head + (index - t.first) * t.size, t.size),
                      DecodedRecord(kind))

\* The magic number is read again if the caller's buffer is too small for it.
codeplug_get_nv_settings_raw(buf_len) ==
  LET size  == codeplug_map["nv_settings"][2]
      n     == IF buf_len < size THEN buf_len ELSE size
      magic == IF n < 4 THEN {Read("nv_settings", 0, 4)} ELSE {}
  IN  \/ image # NotReady /\ Answer("nv_settings", 0, "0", {Read("nv_settings", 0, n)} \cup magic, NoValue)
      \/ FlashFails("nv_settings")

codeplug_get_zone_inuse_bitmap ==
  AnswerRead("zone_bitmap", 0, Read("zones_ext", \h10, 32), NoValue)

\* codeplug_write() does nothing yet.
codeplug_set_nv_settings == Fails("set_nv_settings", "ENOTSUP")

\* Mutant: the records are taken to lie as in the old format.
ZoneReads_Packed(modern, index) ==
  LET at == \h30 + index * 48
  IN  {Read("zones_ext", at, 16), Read("zones_ext", at + 16, IF modern THEN 160 ELSE 32)}

ZoneReads(modern, index) ==
  LET at == \h30 + index * IF modern THEN 176 ELSE 48
  IN  {Read("zones_ext", at, 16), Read("zones_ext", at + 16, IF modern THEN 160 ELSE 32)}

\* cp_zone_is_modern_format(): modern as well if the probe cannot be read.
codeplug_get_zone(index) ==
  IF index \notin 0..67 THEN Fails("zone", "EINVAL")
  ELSE \/ /\ image # NotReady
          /\ \E modern \in {image.modern, TRUE} :
               Answer("zone", index, "0", ZoneReads(modern, index),
                      [channels_per_zone |-> IF modern THEN 80 ELSE 16])
       \/ FlashFails("zone")

-----------------------------------------------------------------------------
(* cp_dump_named_region(), sixteen bytes at a time, to the first error.     *)

DumpChunk(region, at) ==
  LET left == codeplug_map[region][2] - at
      n    == IF left < 16 THEN left ELSE 16
  IN  AnswerRead("dump", at + n, Read(region, at, n), [region |-> region])

DumpBegins == \E region \in Dumped : DumpChunk(region, 0)

DumpGoesOn ==
  /\ request.kind = "dump" /\ request.ret = "0"
  /\ request.index < codeplug_map[request.value.region][2]
  /\ DumpChunk(request.value.region, request.index)

\* The flash driver's initialisation, before any request or never.
FlashReady ==
  /\ request = NoRequest /\ image = NotReady /\ image' \in Images
  /\ UNCHANGED <<request, earlier>>

ImageNext ==
  \/ FlashReady
  \/ \E kind \in DOMAIN Singles : GetSingle(kind)
  \/ \E index \in Indices :
       \/ codeplug_get_channel(index)
       \/ \E kind \in DOMAIN RecordTables : GetRecord(kind, index)
       \/ codeplug_get_zone(index)
  \/ \E n \in NvLengths : codeplug_get_nv_settings_raw(n)
  \/ codeplug_get_zone_inuse_bitmap
  \/ codeplug_set_nv_settings
  \/ DumpBegins
  \/ DumpGoesOn

ImageSpec == ImageInit /\ [][ImageNext]_imageVars

-----------------------------------------------------------------------------
ImageTypeOK ==
  /\ image \in Images \cup {NotReady}
  /\ request.ret \in {"0", "EIO", "EINVAL", "ENOTSUP", "ENODEV"}
  /\ request.ret # "0" => request.reads = {}

\* No accessor reads outside of the region it is for, at no index, in neither format of the
\* zones and with no chunk of a dump, whatever the callers ask for.
ReadsStayInside ==
  \A r \in request.reads :
    LET region == codeplug_map[r.region]
    IN  r.from >= region[1] /\ r.len > 0 /\ r.from + r.len <= region[1] + region[2]

Overlap(r, s) == r.from < s.from + s.len /\ s.from < r.from + r.len

\* Records of which the map or a failed probe makes one a part of another.
MayOverlap(a, b) ==
  \/ a.kind = "dump" \/ b.kind = "dump"
  \/ {a.kind, b.kind} = {"signalling_dtmf", "signalling_dtmf_durations"}
  \/ a.kind = "zone" /\ b.kind = "zone" /\ a.value # b.value

\* Two different records have no byte in common, so that none is decoded from another's
\* bytes: neither neighbours in a table, across two banks, nor of two tables.
RecordsDisjoint ==
  <<request.kind, request.index>> # <<earlier.kind, earlier.index>> =>
    \A r \in request.reads, s \in earlier.reads : Overlap(r, s) => MayOverlap(request, earlier)

\* Frequencies, numbers and tones come out as they were put in.  Places do not: the tool stores
\* 32768ths of a degree, the decoder reads ten-thousandths.
DecodesWhatWasStored ==
  request.ret = "0" =>
    /\ request.kind \in {"channel", "vfo_channel"} =>
         request.value.freq = image.number * 10 /\ request.value.tone = image.tone
    /\ request.kind = "contact" => request.value = [tgNumber |-> image.number]

\* The accessors of codeplug.c read the record they were asked for, and the frequencies,
\* numbers and tones that were stored in it.
RecordsRead == ImageTypeOK /\ ReadsStayInside /\ RecordsDisjoint /\ DecodesWhatWasStored
=============================================================================
