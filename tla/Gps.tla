---------------------------------- MODULE Gps ----------------------------------
(***************************************************************************)
(* src/model/gps.c: the receiver's bytes through the interrupt's ring into *)
(* lines, and what RMC and GGA sentences make of the fix.  The receiver is *)
(* external.  A byte of a sentence stands for its "$", one of its fields,  *)
(* the "*" with the checksum, or the line's end, and knows its sentence;   *)
(* the checksum is taken to tell any two different contents apart.         *)
(***************************************************************************)
EXTENDS Integers, Sequences

CONSTANTS
  Contents,          \* what a sentence says; readable: its time and its position parse
  Sentences,         \* bound on the sentences sent
  GPS_RX_BUF_SIZE,
  GpsBatch,          \* sizeof(buf) of the interrupt
  GPS_LINE_MAX

ASSUME GpsAssumption ==
  /\ Contents \subseteq [type : {"RMC", "GGA", "other"}, fix : BOOLEAN, readable : BOOLEAN]
  /\ {Sentences, GPS_RX_BUF_SIZE, GpsBatch} \subseteq Nat \ {0}
  /\ GPS_LINE_MAX \in Nat /\ GPS_LINE_MAX > 1

VARIABLES
  sky,            \* the contents of the sentences sent
  wire,           \* bytes of the latest that are still to come
  s_rx_ringbuf,
  cut,            \* sentences that lost a byte to a full ring
  s_line,
  s_fix_state,
  s_time,         \* the sentences whose time and
  s_position      \*   position are held, 0 without

gpsVars == <<sky, wire, s_rx_ringbuf, cut, s_line, s_fix_state, s_time, s_position>>

Fields   == {"type", "time", "fix", "position"}
ByteOf(s, is) == [of |-> s, is |-> is]

\* RMC has the status before the position, GGA the quality after it.
Sent(s, type) ==
  LET fields == IF type = "GGA" THEN <<"type", "time", "position", "fix">>
                ELSE <<"type", "time", "fix", "position">>
  IN  <<ByteOf(s, "$")>> \o [i \in 1..4 |-> ByteOf(s, fields[i])] \o <<ByteOf(s, "*")>>

GpsInit ==
  /\ sky = <<>> /\ wire = <<>> /\ s_rx_ringbuf = <<>> /\ cut = {}
  /\ s_line = <<>> /\ s_fix_state = "NONE" /\ s_time = 0 /\ s_position = 0

GpsSends(content) ==
  /\ wire = <<>> /\ Len(sky) < Sentences
  /\ sky' = Append(sky, content)
  /\ wire' = Append(Sent(Len(sky'), content.type), ByteOf(Len(sky'), "\n"))
  /\ UNCHANGED <<s_rx_ringbuf, cut, s_line, s_fix_state, s_time, s_position>>

\* uart_irq_cb(): of n bytes the ring takes what it can.
gps_irq_cb ==
  LET room == GPS_RX_BUF_SIZE - Len(s_rx_ringbuf)
      n    == IF Len(wire) < GpsBatch THEN Len(wire) ELSE GpsBatch
      fit  == IF n < room THEN n ELSE room
  IN  /\ wire # <<>>
      /\ s_rx_ringbuf' = s_rx_ringbuf \o SubSeq(wire, 1, fit)
      /\ wire' = SubSeq(wire, n + 1, Len(wire))
      /\ cut' = cut \cup {wire[i].of : i \in fit + 1..n}
      /\ UNCHANGED <<sky, s_line, s_fix_state, s_time, s_position>>

-----------------------------------------------------------------------------
(* parse_sentence().                                                        *)

Is(line, is) == {i \in 1..Len(line) : line[i].is = is}

\* Mutant: a checksum that does not fit is let through.
checksum_ok_Always(line) == TRUE

\* Without a "*" a line is accepted; else what is before it must be its sentence's.
checksum_ok(line) ==
  \A i \in Is(line, "*") :
    (\A j \in Is(line, "*") : i <= j) =>
      SubSeq(line, 1, i) = Sent(line[i].of, sky[line[i].of].type)

\* The k-th field, which is what it should be unless bytes are missing before it.
FieldIs(line, k, name) == Len(line) > k /\ line[k + 1].is = name
Field(line, k) == sky[line[k + 1].of]

\* A field in another's place does not parse as a time or a position, and no position
\* reads as "A"; but any reads as a quality that is not "0".
FixValid(line, type) ==
  IF type = "RMC" THEN FieldIs(line, 3, "fix") /\ Field(line, 3).fix
  ELSE FieldIs(line, 4, "fix") => Field(line, 4).fix

TimeReads(line) == FieldIs(line, 2, "time") /\ Field(line, 2).readable

PositionAt(type) == IF type = "RMC" THEN 4 ELSE 3
PositionReads(line, type) ==
  FieldIs(line, PositionAt(type), "position") /\ Field(line, PositionAt(type)).readable

Fix(valid) == IF valid THEN "ACQUIRED" ELSE "SEARCHING"

HeldPosition(line, type) ==
  IF FixValid(line, type) /\ PositionReads(line, type)
  THEN line[PositionAt(type) + 1].of ELSE s_position

\* parse_rmc(), parse_gga(): a GGA does not end a fix.
Evaluate(line, type) ==
  /\ s_fix_state' = IF type = "GGA" /\ s_fix_state = "ACQUIRED" THEN s_fix_state
                    ELSE Fix(FixValid(line, type))
  /\ s_time' = IF TimeReads(line) THEN line[3].of ELSE s_time
  /\ s_position' = HeldPosition(line, type)

\* All fields must be there, and the first say what it is.
Evaluated(line) ==
  /\ checksum_ok(line)
  /\ FieldIs(line, 1, "type") /\ Field(line, 1).type # "other"
  /\ Len(line) >= 5 /\ \A k \in 1..4 : line[k + 1].is \in Fields

parse_sentence(line) ==
  IF Evaluated(line) THEN Evaluate(line, Field(line, 1).type)
  ELSE UNCHANGED <<s_fix_state, s_time, s_position>>

-----------------------------------------------------------------------------
\* Mutant: "$" is a character like any other within a line.
LineWith_KeepsOn(byte) ==
  IF s_line = <<>> /\ byte.is # "$" THEN <<>>
  ELSE IF Len(s_line) < GPS_LINE_MAX - 1 THEN Append(s_line, byte) ELSE <<>>

\* Mutant: the line's buffer is taken to be long enough.
LineWith_Unbounded(byte) ==
  IF byte.is = "$" THEN <<byte>>
  ELSE IF s_line = <<>> THEN <<>> ELSE Append(s_line, byte)

\* "$" begins a line whatever came before; other bytes need one, and too many end it.
LineWith(byte) ==
  IF byte.is = "$" THEN <<byte>>
  ELSE IF s_line = <<>> THEN <<>>
  ELSE IF Len(s_line) < GPS_LINE_MAX - 1 THEN Append(s_line, byte) ELSE <<>>

\* One round of gps_poll(); the interrupt may come before the next.
gps_poll ==
  LET byte == Head(s_rx_ringbuf)
  IN  /\ s_rx_ringbuf # <<>> /\ s_rx_ringbuf' = Tail(s_rx_ringbuf)
      /\ s_line' = IF byte.is = "\n" THEN <<>> ELSE LineWith(byte)
      /\ IF byte.is = "\n" /\ s_line # <<>> THEN parse_sentence(s_line)
         ELSE UNCHANGED <<s_fix_state, s_time, s_position>>
      /\ UNCHANGED <<sky, wire, cut>>

GpsNext ==
  \/ \E content \in Contents : GpsSends(content)
  \/ gps_irq_cb
  \/ gps_poll

\* The update drains the ring again and again.
GpsFairness == WF_gpsVars(gps_poll)

GpsSpec == GpsInit /\ [][GpsNext]_gpsVars /\ GpsFairness

-----------------------------------------------------------------------------
GpsTypeOK ==
  /\ sky \in Seq(Contents) /\ Len(sky) <= Sentences
  /\ Len(s_rx_ringbuf) <= GPS_RX_BUF_SIZE
  /\ cut \subseteq 1..Sentences
  /\ Len(s_line) <= GPS_LINE_MAX - 1 /\ (s_line # <<>> => s_line[1].is = "$")
  /\ s_fix_state \in {"NONE", "SEARCHING", "ACQUIRED"}
  /\ s_time \in 0..Sentences /\ s_position \in 0..Sentences

\* The held position only moves to one the receiver vouched for: not by a void sentence, and
\* not by what the ring made of two, unless that lost its checksum as well.
PositionIsValid ==
  [][s_position' # s_position =>
       \/ sky[s_position'].fix /\ sky[s_position'].readable
       \/ Is(s_line, "*") = {}]_gpsVars

CameThrough(s) ==
  /\ Len(sky) = s /\ wire = <<>> /\ s \notin cut
  /\ sky[s].type # "other" /\ sky[s].readable

\* A sentence that lost no byte is understood whatever became of the one before it: its
\* time is the one that is held in the end.
Resyncs == []<>(CameThrough(Sentences) => s_time = Sentences)

\* gps_poll() takes positions from whole, valid sentences only, and its line stays in s_line.
GpsTrue == []GpsTypeOK /\ PositionIsValid
=============================================================================
