------------------------------ MODULE LogBackend ------------------------------
(***************************************************************************)
(* src/console/console_log_backend.c with the transmitter and the USB      *)
(* thread of console_transport.c.  The log thread, of the lowest priority, *)
(* puts lines in a ring and makes room by taking from it what the drain    *)
(* thread, of a higher priority, takes as well.  A byte is the number of   *)
(* its place in the stream of all bytes put, and so are the ring's indexes *)
(* (Zephyr's ring_buffer.c: a get claims bytes, moving the head, and       *)
(* finishes, moving the tail, unless others finished more meanwhile).      *)
(***************************************************************************)
EXTENDS Integers

CONSTANTS
  CDC_LOG_BUF_SIZE,
  Discard,    \* sizeof(discard)
  Chunk,      \* sizeof(buf) of the drain thread
  Lengths,    \* of what the log output flushes
  MaxPut      \* bound on the bytes ever put

ASSUME LogBackendAssumption ==
  /\ Discard \in Nat \ {0} /\ Chunk \in Nat \ {0} /\ MaxPut \in Nat
  /\ Discard <= Chunk
  /\ Lengths \subseteq Nat \ {0}
  /\ CDC_LOG_BUF_SIZE \in Nat /\ \A n \in Lengths : n + Chunk <= CDC_LOG_BUF_SIZE

VARIABLES
  put, head, tail,   \* cdc_log_ringbuf
  producer,          \* cdc_log_out_func(): its point, what is to be put, dropped, is claimed
  drain,             \* the drain thread: its point and its buf
  sentTo,            \* one past the last byte sent
  tx_mutex,          \* who has it
  cdc_log_ready,
  usb,               \* usb_cdc_thread_fn(): its point
  dtr_sem,
  usbEnabled,        \* usbd_enable() since the last usbd_disable()
  opened             \* the host raised DTR

ring == <<put, head, tail, producer>>
sender == <<drain, sentTo, tx_mutex>>
link == <<cdc_log_ready, usb, dtr_sem, usbEnabled, opened>>
logVars == <<ring, sender, link>>

NoLine == [at |-> "out", length |-> 0, to_drop |-> 0, claimed |-> 0]
NoChunk == [at |-> "poll", from |-> 0, n |-> 0]

LogInit ==
  /\ put = 0 /\ head = 0 /\ tail = 0 /\ producer = NoLine
  /\ drain = NoChunk /\ sentTo = 0 /\ tx_mutex = "none"
  /\ cdc_log_ready = FALSE /\ usb = "init" /\ dtr_sem = 0
  /\ usbEnabled = FALSE /\ opened = FALSE

Least(a, b) == IF a < b THEN a ELSE b
Space == CDC_LOG_BUF_SIZE - (put - tail)

-----------------------------------------------------------------------------
(* cdc_log_out_func().                                                      *)

\* Mutant: a whole line's worth is dropped.
cdc_log_out_func_DropsLine(length) ==
  /\ producer.at = "out" /\ put + length <= MaxPut
  /\ producer' = [at |-> IF Space < length THEN "drop" ELSE "put", length |-> length,
                  to_drop |-> IF Space < length THEN length ELSE 0, claimed |-> 0]
  /\ UNCHANGED <<put, head, tail, sender, link>>

cdc_log_out_func(length) ==
  /\ producer.at = "out" /\ put + length <= MaxPut
  /\ producer' = [at |-> IF Space < length THEN "drop" ELSE "put", length |-> length,
                  to_drop |-> IF Space < length THEN length - Space ELSE 0, claimed |-> 0]
  /\ UNCHANGED <<put, head, tail, sender, link>>

DropClaim ==
  LET n == Least(Least(producer.to_drop, Discard), put - head)
  IN  /\ producer.at = "drop"
      /\ head' = head + n
      /\ producer' = [producer EXCEPT !.at = "finish", !.claimed = n]
      /\ UNCHANGED <<put, tail, sender, link>>

\* Mutant: dropping stops after one buffer of the discarded.
DropFinish_Once ==
  /\ producer.at = "finish"
  /\ IF producer.claimed > head - tail THEN UNCHANGED <<head, tail>>
     ELSE tail' = tail + producer.claimed /\ head' = tail'
  /\ producer' = [producer EXCEPT !.at = "put", !.to_drop = 0, !.claimed = 0]
  /\ UNCHANGED <<put, sender, link>>

\* A drain in between has finished more than was claimed, and taken the head back.
DropFinish ==
  LET left == producer.to_drop - Least(producer.to_drop, Discard)
  IN  /\ producer.at = "finish"
      /\ IF producer.claimed > head - tail THEN UNCHANGED <<head, tail>>
         ELSE tail' = tail + producer.claimed /\ head' = tail'
      /\ producer' = [producer EXCEPT !.at = IF left > 0 THEN "drop" ELSE "put",
                                      !.to_drop = left, !.claimed = 0]
      /\ UNCHANGED <<put, sender, link>>

\* ring_buf_put() puts what there is space for.
Put ==
  /\ producer.at = "put" /\ producer' = NoLine
  /\ put' = put + Least(producer.length, Space)
  /\ UNCHANGED <<head, tail, sender, link>>

-----------------------------------------------------------------------------
(* The drain thread, and console_transport_write().                         *)

\* Mutant: the bytes are copied but not consumed.
DrainGet_Peeks ==
  LET n == Least(Chunk, put - head)
  IN  /\ drain.at = "poll" /\ cdc_log_ready /\ n > 0
      /\ drain' = [at |-> "lock", from |-> head, n |-> n]
      /\ UNCHANGED <<ring, sentTo, tx_mutex, link>>

\* Mutant: the drain waits for a full chunk.
DrainGet_FullOnly ==
  LET n == Least(Chunk, put - head)
  IN  /\ drain.at = "poll" /\ cdc_log_ready /\ n = Chunk
      /\ drain' = [at |-> "lock", from |-> head, n |-> n]
      /\ tail' = tail + n /\ head' = tail'
      /\ UNCHANGED <<put, producer, sentTo, tx_mutex, link>>

\* No lower thread comes between its claim and its finish.
DrainGet ==
  LET n == Least(Chunk, put - head)
  IN  /\ drain.at = "poll" /\ cdc_log_ready /\ n > 0
      /\ drain' = [at |-> "lock", from |-> head, n |-> n]
      /\ tail' = tail + n /\ head' = tail'
      /\ UNCHANGED <<put, producer, sentTo, tx_mutex, link>>

DrainLock ==
  /\ drain.at = "lock" /\ tx_mutex = "none"
  /\ tx_mutex' = "drain" /\ drain' = [drain EXCEPT !.at = "write"]
  /\ UNCHANGED <<sentTo, ring, link>>

\* The bytes go out one by one, with sleeps, and the mutex is unlocked.
DrainWritten ==
  /\ drain.at = "write"
  /\ sentTo' = drain.from + drain.n
  /\ drain' = NoChunk /\ tx_mutex' = "none"
  /\ UNCHANGED <<ring, link>>

\* A command's output.
console_transport_write ==
  /\ tx_mutex = "none" /\ tx_mutex' = "console"
  /\ UNCHANGED <<drain, sentTo, ring, link>>

ConsoleWritten ==
  /\ tx_mutex = "console" /\ tx_mutex' = "none"
  /\ UNCHANGED <<drain, sentTo, ring, link>>

-----------------------------------------------------------------------------
(* The USB thread and its callback.                                         *)

\* All steps of usb_cdc_init() succeed; it enables the device if VBUS cannot be seen.
UsbInit ==
  /\ usb = "init" /\ usb' = "wait"
  /\ usbEnabled' \in BOOLEAN
  /\ UNCHANGED <<cdc_log_ready, dtr_sem, opened, ring, sender>>

\* One of its steps failed: the thread exits.
UsbInitFails ==
  /\ usb = "init" /\ usb' = "failed"
  /\ UNCHANGED <<cdc_log_ready, dtr_sem, usbEnabled, opened, ring, sender>>

\* usb_msg_cb(): VBUS comes or goes.
UsbVbus ==
  /\ usb \notin {"init", "failed"}
  /\ usbEnabled' \in BOOLEAN
  /\ UNCHANGED <<cdc_log_ready, usb, dtr_sem, opened, ring, sender>>

\* usb_msg_cb(): the host raised DTR.
UsbDtr ==
  /\ usbEnabled /\ opened' = TRUE
  /\ dtr_sem' = 1
  /\ UNCHANGED <<cdc_log_ready, usb, usbEnabled, ring, sender>>

\* Mutant: the log is released only if the port is still there.
UsbReady_IfEnabled ==
  /\ usb = "wait" /\ dtr_sem = 1
  /\ usb' = "done" /\ dtr_sem' = 0 /\ cdc_log_ready' = usbEnabled
  /\ UNCHANGED <<usbEnabled, opened, ring, sender>>

\* usb_cdc_wait_dtr(), usb_cdc_flush_and_enable().
UsbReady ==
  /\ usb = "wait" /\ dtr_sem = 1
  /\ usb' = "done" /\ dtr_sem' = 0 /\ cdc_log_ready' = TRUE
  /\ UNCHANGED <<usbEnabled, opened, ring, sender>>

Producing == DropClaim \/ DropFinish \/ Put
Draining  == DrainGet \/ DrainLock \/ DrainWritten

LogNext ==
  \/ \E length \in Lengths : cdc_log_out_func(length)
  \/ Producing \/ Draining
  \/ console_transport_write \/ ConsoleWritten
  \/ UsbInit \/ UsbInitFails \/ UsbVbus \/ UsbDtr \/ UsbReady

\* A thread whose priority is low gets to run as well; the mutex is had by turns.
LogFairness ==
  /\ WF_logVars(Producing) /\ WF_logVars(DrainGet) /\ WF_logVars(DrainWritten) /\ SF_logVars(DrainLock)
  /\ WF_logVars(ConsoleWritten) /\ WF_logVars(UsbReady)

LogSpec == LogInit /\ [][LogNext]_logVars /\ LogFairness

-----------------------------------------------------------------------------
LogTypeOK ==
  /\ put \in 0..MaxPut /\ head \in 0..put /\ tail \in 0..head
  /\ put - tail <= CDC_LOG_BUF_SIZE
  /\ producer \in [at : {"out", "drop", "finish", "put"}, length : {0} \cup Lengths,
                   to_drop : 0..MaxPut, claimed : 0..Discard]
  /\ drain \in [at : {"poll", "lock", "write"}, from : 0..MaxPut, n : 0..Chunk]
  /\ sentTo \in 0..MaxPut
  /\ tx_mutex \in {"none", "drain", "console"}
  /\ usb \in {"init", "wait", "done", "failed"} /\ dtr_sem \in {0, 1}
  /\ cdc_log_ready \in BOOLEAN /\ usbEnabled \in BOOLEAN /\ opened \in BOOLEAN

\* By the time the producer puts, there is space for all of it, though the drain may have
\* voided a drop of its: only the oldest bytes are lost, never the end of a new line.
PutsWhole == producer.at = "put" => Space >= producer.length

\* Until the console is open the ring keeps as many of the newest bytes as it can.
KeepsBootLog ==
  ~cdc_log_ready /\ producer.at = "out" => put - tail = Least(put, CDC_LOG_BUF_SIZE)

\* The log comes out in order.  A drop that the drain voids makes the next chunk repeat
\* bytes that were sent, but no more of them than the producer had claimed.
RepeatsFew == drain.at # "poll" => drain.from >= sentTo - Discard

\* Once the console is open everything in the ring gets sent, again and again,
\* unless there are always lines being logged.
LogDrains == []<>(cdc_log_ready /\ producer.at = "out" => tail = put)

\* A host that opens the port gets the log, whenever it does so.
OpenedIsReady == []<>(opened => cdc_log_ready)

\* What the ring of cdc_log_out_func() loses is the oldest, and only when it must; what the
\* drain takes from it comes out in order.
LogKept == LogTypeOK /\ PutsWhole /\ KeepsBootLog /\ RepeatsFew

\* From usb_msg_cb() to the drain thread, whatever the order of power, DTR and the init:
\* the log gets out.
LogFlows == LogDrains /\ OpenedIsReady
=============================================================================
