------------------------------ MODULE SpiBitbang ------------------------------
(***************************************************************************)
(* drivers/spi/spi_bitbang_irq/spi_bitbang_irq.c: the SPI bus of the       *)
(* baseband, clocked by setting pins, and a slave in the mode of the call  *)
(* (the chip, external).  A call holds a spin lock, so that none begins    *)
(* before the last one ended.  A byte is its bits by significance.         *)
(***************************************************************************)
EXTENDS Integers, FiniteSets, Sequences

CONSTANTS
  Bits,      \* of a byte, eight in the firmware
  TxLists,   \* the lists of buffers a call may send from,
  RxLists    \* and receive into: sequences of [len, null]

ASSUME SpiAssumption ==
  /\ Bits \in Nat \ {0}
  /\ TxLists \cup RxLists \subseteq Seq([len : Nat, null : BOOLEAN])

VARIABLES
  spi_init,   \* what became of spi_bitbang_irq_init()
  wires,      \* clk, mosi, miso, cs
  spi_call,     \* spi_cfg and the lists of the call
  xfer,       \* how far it is: the loop of the bytes and of a byte's bits
  slave       \* what it gives, the bits it has put out, those it has taken

spiVars == <<spi_init, wires, spi_call, xfer, slave>>

Octets == [0..Bits - 1 -> {0, 1}]
Zero == [b \in 0..Bits - 1 |-> 0]
SpiCalls == [cpol : {0, 1}, cpha : BOOLEAN, lsb_first : BOOLEAN, tx : TxLists, rx : RxLists]

SpiInit ==
  /\ spi_init = "not yet"
  /\ wires = [clk |-> 0, mosi |-> 0, miso |-> 0, cs |-> 0]
  /\ spi_call = [cpol |-> 0, cpha |-> FALSE, lsb_first |-> FALSE, tx |-> <<>>, rx |-> <<>>]
  /\ xfer = [at |-> "idle", tx |-> <<1, 0>>, rx |-> <<1, 0>>, done |-> 0,
             i |-> 0, out |-> Zero, in |-> Zero]
  /\ slave = [gives |-> Zero, put |-> 0, taken |-> <<>>]

\* Clock, data and chip select pins are configured one after the other; one may fail.
spi_bitbang_irq_init ==
  /\ spi_init = "not yet" /\ spi_init' \in {"ready", "failed"}
  /\ UNCHANGED <<wires, spi_call, xfer, slave>>

-----------------------------------------------------------------------------
(* The slave.  While selected it counts the edges of the clock.             *)

Order(i) == IF spi_call.lsb_first THEN i ELSE Bits - 1 - i
Idle   == spi_call.cpol
Active == 1 - spi_call.cpol

PutsOut(s) == [s EXCEPT !.put = @ + 1]
Takes(s)   == [s EXCEPT !.taken = Append(@, wires.mosi)]

\* CPHA 0: the first bit is there before the clock, taken at the leading edge, and the
\* next put out at the trailing one.  CPHA 1: put out at the leading, taken at the trailing.
AfterEdge(clk) ==
  IF wires.cs = 0 \/ clk = wires.clk THEN slave
  ELSE IF (clk = Active) # spi_call.cpha THEN Takes(slave) ELSE PutsOut(slave)

\* Put out 1 is the first bit; what follows the last is not looked at.
OnMiso(s) == IF s.put \in 1..Bits THEN s.gives[Order(s.put - 1)] ELSE 0

Clock(clk) ==
  /\ slave' = AfterEdge(clk)
  /\ wires' = [wires EXCEPT !.clk = clk, !.miso = OnMiso(slave')]

-----------------------------------------------------------------------------
(* spi_bitbang_irq_transceive().  Slave mode, several lines and other word  *)
(* sizes are refused before anything happens.                               *)

Start(c) ==
  /\ spi_init = "ready" /\ xfer.at = "idle"
  /\ spi_call' = c
  /\ xfer' = [xfer EXCEPT !.at = "clock", !.tx = <<1, 0>>, !.rx = <<1, 0>>, !.done = 0]
  /\ UNCHANGED <<spi_init, wires, slave>>

\* Mutant: the clock is left as the call before had it.
IdleClock_Left ==
  /\ xfer.at = "clock"
  /\ xfer' = [xfer EXCEPT !.at = "select"]
  /\ UNCHANGED <<spi_init, wires, spi_call, slave>>

IdleClock ==
  /\ xfer.at = "clock" /\ Clock(Idle)
  /\ xfer' = [xfer EXCEPT !.at = "select"]
  /\ UNCHANGED <<spi_init, spi_call>>

Select ==
  /\ xfer.at = "select"
  /\ wires' = [wires EXCEPT !.cs = 1]
  /\ xfer' = [xfer EXCEPT !.at = "byte"]
  /\ UNCHANGED <<spi_init, spi_call, slave>>

Left(list, at) == at[1] <= Len(list)
Holds(list, at) == Left(list, at) /\ at[2] < list[at[1]].len /\ ~list[at[1]].null

\* A byte from the buffer, or zero; the slave has one of its own ready.
LoadByte ==
  /\ xfer.at = "byte" /\ (Left(spi_call.tx, xfer.tx) \/ Left(spi_call.rx, xfer.rx))
  /\ \E out, gives \in Octets :
       /\ ~Holds(spi_call.tx, xfer.tx) => out = Zero
       /\ xfer' = [xfer EXCEPT !.at = "data", !.i = 0, !.out = out, !.in = Zero]
       /\ slave' = [slave EXCEPT !.gives = gives, !.put = IF spi_call.cpha THEN @ ELSE @ + 1]
  /\ wires' = [wires EXCEPT !.miso = OnMiso(slave')]
  /\ UNCHANGED <<spi_init, spi_call>>

Deselect ==
  /\ xfer.at = "byte" /\ ~Left(spi_call.tx, xfer.tx) /\ ~Left(spi_call.rx, xfer.rx)
  /\ wires' = [wires EXCEPT !.cs = 0]
  /\ xfer' = [xfer EXCEPT !.at = "idle"]
  /\ UNCHANGED <<spi_init, spi_call, slave>>

Sampled == [xfer EXCEPT !.in[Order(xfer.i)] = wires.miso]

\* spi_bitbang_irq_xfer_byte(), one bit after the other.
SetData ==
  /\ xfer.at = "data"
  /\ wires' = [wires EXCEPT !.mosi = xfer.out[Order(xfer.i)]]
  /\ xfer' = [(IF spi_call.cpha THEN xfer ELSE Sampled) EXCEPT !.at = "lead"]
  /\ UNCHANGED <<spi_init, spi_call, slave>>

LeadingEdge ==
  /\ xfer.at = "lead" /\ Clock(Active)
  /\ xfer' = [xfer EXCEPT !.at = IF spi_call.cpha THEN "sample" ELSE "trail"]
  /\ UNCHANGED <<spi_init, spi_call>>

SampleBit ==
  /\ xfer.at = "sample"
  /\ xfer' = [Sampled EXCEPT !.at = "trail"]
  /\ UNCHANGED <<spi_init, wires, spi_call, slave>>

TrailingEdge ==
  /\ xfer.at = "trail" /\ Clock(Idle)
  /\ xfer' = [xfer EXCEPT !.i = @ + 1, !.at = IF xfer.i + 1 = Bits THEN "store" ELSE "data"]
  /\ UNCHANGED <<spi_init, spi_call>>

\* Mutant: a buffer is left one byte early.
NextPlace_Early(list, at) ==
  IF ~Left(list, at) THEN at
  ELSE IF at[2] + 2 >= list[at[1]].len THEN <<at[1] + 1, 0>>
  ELSE <<at[1], at[2] + 1>>

\* An empty buffer takes a byte's time nevertheless.
NextPlace(list, at) ==
  IF ~Left(list, at) THEN at
  ELSE IF at[2] + 1 >= list[at[1]].len THEN <<at[1] + 1, 0>>
  ELSE <<at[1], at[2] + 1>>

\* in goes to its place, if the buffer has one; both lists go on.
StoreByte ==
  /\ xfer.at = "store"
  /\ xfer' = [xfer EXCEPT !.at = "byte", !.done = @ + 1,
                          !.tx = NextPlace(spi_call.tx, @), !.rx = NextPlace(spi_call.rx, @)]
  /\ slave' = [slave EXCEPT !.put = 0, !.taken = <<>>]
  /\ UNCHANGED <<spi_init, wires, spi_call>>

BitStep == SetData \/ LeadingEdge \/ SampleBit \/ TrailingEdge

SpiNext ==
  \/ spi_bitbang_irq_init
  \/ \E c \in SpiCalls : Start(c)
  \/ IdleClock \/ Select \/ LoadByte \/ BitStep \/ StoreByte \/ Deselect

SpiSpec == SpiInit /\ [][SpiNext]_spiVars

-----------------------------------------------------------------------------
SpiTypeOK ==
  /\ spi_init \in {"not yet", "ready", "failed"}
  /\ wires \in [clk : {0, 1}, mosi : {0, 1}, miso : {0, 1}, cs : {0, 1}]
  /\ spi_call.tx \in TxLists \cup {<<>>} /\ spi_call.rx \in RxLists \cup {<<>>}
  /\ xfer.i \in 0..Bits /\ xfer.out \in Octets /\ xfer.in \in Octets
  /\ Len(slave.taken) <= Bits

\* In every mode, whatever mode the call before it had, the slave takes exactly the byte
\* that was sent, the driver samples exactly the one the slave gives, and between
\* two bytes no edge was one too many.
BytesExchanged ==
  /\ xfer.at = "store" =>
       /\ xfer.in = slave.gives
       /\ slave.taken = [k \in 1..Bits |-> xfer.out[Order(k - 1)]]
  /\ xfer.at = "byte" => slave.taken = <<>> /\ slave.put = 0

Bytes(buffer) == IF buffer.len = 0 THEN 1 ELSE buffer.len
Places(list)  == UNION {{b} \X (0..Bytes(list[b]) - 1) : b \in 1..Len(list)}
Before(p, q)  == p[1] < q[1] \/ (p[1] = q[1] /\ p[2] < q[2])
Rank(list, p) == Cardinality({q \in Places(list) : Before(q, p)})

\* Each byte comes from, and goes to, the place that follows in the concatenation of the
\* buffers, independently in the two lists; the shorter stays exhausted; and the chip is
\* deselected when both are.
BuffersWalked ==
  LET Follows(list, at) ==
        Rank(list, at) = IF xfer.done < Cardinality(Places(list)) THEN xfer.done
                         ELSE Cardinality(Places(list))
  IN  /\ Follows(spi_call.tx, xfer.tx) /\ Follows(spi_call.rx, xfer.rx)
      /\ xfer.at = "idle" =>
           wires.cs = 0 /\ ~Left(spi_call.tx, xfer.tx) /\ ~Left(spi_call.rx, xfer.rx)

\* A transfer of spi_bitbang_irq_transceive() moves every byte of both lists over the wires.
Exchanged == SpiTypeOK /\ BytesExchanged /\ BuffersWalked
=============================================================================
