------------------------------ MODULE ConsoleLine ------------------------------
(***************************************************************************)
(* The way of a command line: the receive interrupt and getc() of          *)
(* src/console/console_transport.c, the line editor and the dispatch of    *)
(* src/console/console_dispatch.c.  A character is its line and its place  *)
(* in it, or a control; what a command does is left to the other modules.  *)
(***************************************************************************)
EXTENDS Integers, Sequences

CONSTANTS
  RX_BUF_SIZE,   \* of the receive ring
  Batch,         \* sizeof(buf) of the interrupt
  LineMax,       \* LINE_BUF - 1
  Lines,         \* bound on the lines the host sends,
  MaxTyped,      \* on the characters it types in each,
  Fifo           \* and on those the UART holds back

ASSUME ConsoleLineAssumption ==
  /\ {RX_BUF_SIZE, Batch, LineMax, Lines} \subseteq Nat \ {0}
  /\ {MaxTyped, Fifo} \subseteq Nat

VARIABLES
  host,         \* the line it is in; per line, how much it typed and whether it erased some
  fifo,         \* characters the UART has
  rx_ringbuf,
  rx_sem,
  console,      \* the console thread: about to get, to wait, or running a command
  line_buf,     \* the first pos characters of buf
  lost          \* the ring was ever too full for a batch

lineVars == <<host, fifo, rx_ringbuf, rx_sem, console, line_buf, lost>>

CR == [control |-> "CR"]
BS == [control |-> "BS"]
Char(l, k) == [line |-> l, place |-> k]
Chars == [line : 1..Lines, place : 1..MaxTyped]
Sendable == Chars \cup {CR, BS}

\* The thread has found the ring empty.
LineInit ==
  /\ host = [line |-> 1, typed |-> [l \in 1..Lines |-> 0], erased |-> [l \in 1..Lines |-> FALSE]]
  /\ fifo = <<>> /\ rx_ringbuf = <<>> /\ rx_sem = 0
  /\ console = "sem" /\ line_buf = <<>> /\ lost = FALSE

Shorter(a, b) == IF a < b THEN a ELSE b

-----------------------------------------------------------------------------
(* The host.  The UART takes no more while it is full.                      *)

HostSends(c) ==
  /\ host.line <= Lines /\ Len(fifo) < Fifo
  /\ fifo' = Append(fifo, c)
  /\ UNCHANGED <<rx_ringbuf, rx_sem, console, line_buf, lost>>

HostTypes ==
  /\ host.line <= Lines /\ host.typed[host.line] < MaxTyped
  /\ HostSends(Char(host.line, host.typed[host.line] + 1))
  /\ host' = [host EXCEPT !.typed[host.line] = @ + 1]

HostErases ==
  /\ HostSends(BS) /\ ~host.erased[host.line]
  /\ host' = [host EXCEPT !.erased[host.line] = TRUE]

HostEnds == HostSends(CR) /\ host' = [host EXCEPT !.line = @ + 1]

-----------------------------------------------------------------------------
\* uart_irq_cb(): one batch.  What does not fit in the ring is gone without a word.
uart_irq_cb ==
  LET n   == Shorter(Len(fifo), Batch)
      fit == Shorter(n, RX_BUF_SIZE - Len(rx_ringbuf))
  IN  /\ n > 0
      /\ rx_ringbuf' = rx_ringbuf \o SubSeq(fifo, 1, fit)
      /\ fifo' = SubSeq(fifo, n + 1, Len(fifo))
      /\ lost' = (lost \/ fit < n)
      /\ rx_sem' = 1
      /\ UNCHANGED <<host, console, line_buf>>

\* Mutant: each character waits for a give of its own.
AfterChar_Waits == "sem"

AfterChar == "get"

\* Backspace and DEL.
Erased == IF line_buf = <<>> THEN <<>> ELSE SubSeq(line_buf, 1, Len(line_buf) - 1)

\* console_transport_getc() and what console_dispatch_thread_fn() does with the character.
Receive ==
  LET c == Head(rx_ringbuf)
  IN  /\ console = "get" /\ rx_ringbuf # <<>>
      /\ rx_ringbuf' = Tail(rx_ringbuf)
      /\ line_buf' = IF c = CR THEN line_buf
                     ELSE IF c = BS THEN Erased
                     ELSE IF Len(line_buf) < LineMax THEN Append(line_buf, c) ELSE line_buf
      /\ console' = IF c = CR /\ line_buf # <<>> THEN "dispatch" ELSE AfterChar
      /\ UNCHANGED <<host, fifo, rx_sem, lost>>

FoundEmpty ==
  /\ console = "get" /\ rx_ringbuf = <<>>
  /\ console' = "sem"
  /\ UNCHANGED <<host, fifo, rx_ringbuf, rx_sem, line_buf, lost>>

\* k_sem_take(), for ever.
WakeUp ==
  /\ console = "sem" /\ rx_sem = 1
  /\ rx_sem' = 0 /\ console' = "get"
  /\ UNCHANGED <<host, fifo, rx_ringbuf, line_buf, lost>>

\* Mutant: pos is kept, as if the command had not been run.
dispatch_KeepsPos ==
  /\ console = "dispatch" /\ console' = "get"
  /\ UNCHANGED <<host, fifo, rx_ringbuf, rx_sem, lost, line_buf>>

\* The command is over, with pos 0.  Characters came in all the time.
dispatch ==
  /\ console = "dispatch" /\ console' = "get"
  /\ line_buf' = <<>>
  /\ UNCHANGED <<host, fifo, rx_ringbuf, rx_sem, lost>>

ConsoleStep == Receive \/ FoundEmpty \/ WakeUp \/ dispatch

LineNext == HostTypes \/ HostErases \/ HostEnds \/ uart_irq_cb \/ ConsoleStep

\* Interrupts are served, the thread gets to run and commands end.
LineFairness == WF_lineVars(uart_irq_cb) /\ WF_lineVars(ConsoleStep)

LineSpec == LineInit /\ [][LineNext]_lineVars /\ LineFairness

-----------------------------------------------------------------------------
LineTypeOK ==
  /\ host.line \in 1..Lines + 1
  /\ fifo \in Seq(Sendable) /\ Len(fifo) <= Fifo
  /\ rx_ringbuf \in Seq(Sendable) /\ Len(rx_ringbuf) <= RX_BUF_SIZE
  /\ line_buf \in Seq(Chars) /\ Len(line_buf) <= LineMax
  /\ rx_sem \in {0, 1} /\ console \in {"get", "sem", "dispatch"}
  /\ lost \in BOOLEAN

\* While the ring never ran full, a command that runs is one line of the host's: nothing of
\* another line, each character once and in order, and all of it up to the buffer's end
\* where nothing was erased.  After a loss two lines may run as one.
RunsWhatWasTyped ==
  console = "dispatch" /\ ~lost =>
    \E l \in 1..Lines :
      /\ \A i \in 1..Len(line_buf) : line_buf[i].line = l
      /\ \A i, j \in 1..Len(line_buf) : i < j => line_buf[i].place < line_buf[j].place
      /\ ~host.erased[l] =>
           line_buf = [i \in 1..Shorter(host.typed[l], LineMax) |-> Char(l, i)]

\* No wake-up is missed, though one give may stand for many characters and a batch come
\* in between the thread's look at the ring and its wait: all that was sent is read.
AllRead == <>[](fifo = <<>> /\ rx_ringbuf = <<>>)

\* What console_dispatch_thread_fn() runs was typed, line by line, and neither the ring nor the
\* line buffer goes over its size.
LinesRun == LineTypeOK /\ RunsWhatWasTyped
=============================================================================
