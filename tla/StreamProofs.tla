----------------------------- MODULE StreamProofs ----------------------------
(***************************************************************************)
(* Proofs about what comes and goes as bytes: the log's ring keeps what it *)
(* must, however drops and drains interleave; a command that runs is one   *)
(* line as the host typed it, through FIFO, ring and line buffer; and the  *)
(* GPS position is a valid sentence's, whatever the ring drops.            *)
(***************************************************************************)
EXTENDS LogBackend, ConsoleLine, Gps, SequenceTheorems, WellFoundedInduction, TLAPS

\* Moved but not finished: zero after a drain has taken the head back.
Claimed == head - tail

\* What is still to drop once the claimed bytes are.
Left == producer.to_drop - Least(producer.to_drop, Discard)

-----------------------------------------------------------------------------
(* The invariant.                                                           *)

\* LogTypeOK with what bounds it: a line is only begun if it fits MaxPut.
RingTypes ==
  /\ LogTypeOK
  /\ producer.at # "out" => producer.length \in Lengths /\ put + producer.length <= MaxPut
  /\ producer.to_drop <= producer.length

\* A claim is the producer's, or has been voided.
ClaimStands ==
  /\ producer.at # "finish" => head = tail
  /\ producer.at = "finish" => Claimed \in {0, producer.claimed}

\* The space there is, or will be: a voided claim was made up for by the drain that
\* voided it, since the drain takes as much as a discard does or empties the ring.
MakesSpace ==
  /\ producer.at = "drop" => Space + producer.to_drop >= producer.length
  /\ producer.at = "finish" => Space + Claimed + Left >= producer.length
  /\ producer.at = "put" => Space >= producer.length

\* Before the console is open nobody else takes, so that just enough is dropped.
DropsExactly ==
  ~cdc_log_ready =>
    /\ producer.at = "out" => tail = 0 \/ Space = 0
    /\ producer.at \in {"drop", "finish"} => Space + producer.to_drop = producer.length
    /\ producer.at = "finish" => Claimed = Least(producer.to_drop, Discard)
    /\ producer.at = "put" => tail = 0 \/ Space = producer.length

\* The next chunk begins at the head, which a drain takes back by one claim at most.
SentToHead ==
  /\ drain.at = "poll" => head >= sentTo - Discard
  /\ drain.at # "poll" => head >= drain.from + drain.n - Discard /\ drain.from >= sentTo - Discard
  /\ drain.at # "poll" => drain.from + drain.n <= MaxPut

LogInv == RingTypes /\ ClaimStands /\ MakesSpace /\ DropsExactly /\ SentToHead

-----------------------------------------------------------------------------
(* What follows from it.                                                    *)

\* The smaller of two numbers.
LEMMA LeastOf ==
  ASSUME NEW a \in Int, NEW b \in Int
  PROVE  /\ Least(a, b) \in {a, b}
         /\ Least(a, b) <= a /\ Least(a, b) <= b
  BY DEF Least

\* The sizes are numbers, and a drain takes at least what a discard does.
LEMMA Sizes ==
  /\ Discard \in Nat \ {0} /\ Chunk \in Nat \ {0} /\ MaxPut \in Nat /\ CDC_LOG_BUF_SIZE \in Nat
  /\ Discard <= Chunk
  /\ \A n \in Lengths : n \in Nat \ {0} /\ n + Chunk <= CDC_LOG_BUF_SIZE
  BY LogBackendAssumption DEF LogBackendAssumption

\* The variables as numbers and fields, for the arithmetic of the steps.
LEMMA Numbers ==
  ASSUME LogTypeOK
  PROVE  /\ put \in Nat /\ head \in Nat /\ tail \in Nat /\ sentTo \in Nat
         /\ tail <= head /\ head <= put /\ put <= MaxPut /\ sentTo <= MaxPut
         /\ put - tail <= CDC_LOG_BUF_SIZE
         /\ producer = [at |-> producer.at, length |-> producer.length,
                        to_drop |-> producer.to_drop, claimed |-> producer.claimed]
         /\ producer.at \in {"out", "drop", "finish", "put"}
         /\ producer.length \in Nat /\ producer.to_drop \in Nat /\ producer.claimed \in Nat
         /\ producer.length \in {0} \cup Lengths
         /\ producer.to_drop <= MaxPut /\ producer.claimed <= Discard
         /\ drain = [at |-> drain.at, from |-> drain.from, n |-> drain.n]
         /\ drain.at \in {"poll", "lock", "write"}
         /\ drain.from \in Nat /\ drain.n \in Nat /\ drain.from <= MaxPut /\ drain.n <= Chunk
<1> USE Sizes DEF LogTypeOK
<1>1. put \in Nat /\ head \in Nat /\ tail \in Nat /\ sentTo \in Nat
  OBVIOUS
<1>2. tail <= head /\ head <= put /\ put <= MaxPut /\ sentTo <= MaxPut
  BY <1>1
<1>3. producer = [at |-> producer.at, length |-> producer.length,
                  to_drop |-> producer.to_drop, claimed |-> producer.claimed]
  OBVIOUS
<1>4. /\ producer.length \in {0} \cup Lengths /\ producer.to_drop \in 0..MaxPut
      /\ producer.claimed \in 0..Discard /\ producer.at \in {"out", "drop", "finish", "put"}
  OBVIOUS
<1>5. producer.length \in Nat
  BY <1>4
<1>6. /\ drain = [at |-> drain.at, from |-> drain.from, n |-> drain.n]
      /\ drain.at \in {"poll", "lock", "write"} /\ drain.from \in 0..MaxPut /\ drain.n \in 0..Chunk
  OBVIOUS
<1> QED
  BY <1>1, <1>2, <1>3, <1>4, <1>5, <1>6

\* The invariant implies LogKept.
LEMMA InvKeeps == ASSUME LogInv PROVE LogKept
<1> USE DEF LogInv, RingTypes
<1>1. PutsWhole
  BY DEF MakesSpace, PutsWhole
<1>2. KeepsBootLog
  <2> SUFFICES ASSUME ~cdc_log_ready, producer.at = "out"
               PROVE  put - tail = Least(put, CDC_LOG_BUF_SIZE)
    BY DEF KeepsBootLog
  <2>1. tail = 0 \/ Space = 0
    BY DEF DropsExactly
  <2> QED
    BY <2>1, Numbers, Sizes DEF Space, Least
<1>3. RepeatsFew
  BY DEF SentToHead, RepeatsFew
<1> QED
  BY <1>1, <1>2, <1>3 DEF LogKept

-----------------------------------------------------------------------------
(* The producer's steps.                                                    *)

\* A line that begins keeps the invariant (cdc_log_out_func).
LEMMA BeginKeeps ==
  ASSUME LogInv, NEW length \in Lengths, cdc_log_out_func(length)
  PROVE  LogInv'
<1> USE DEF LogInv, cdc_log_out_func, sender, link
<1>1. /\ put' = put /\ head' = head /\ tail' = tail /\ drain' = drain /\ sentTo' = sentTo
      /\ cdc_log_ready' = cdc_log_ready /\ producer.at = "out" /\ put + length <= MaxPut
  OBVIOUS
<1>2. head = tail /\ Space' = Space /\ Space \in Nat /\ Claimed' = Claimed
  BY <1>1, Numbers, Sizes DEF RingTypes, ClaimStands, Space, Claimed
<1>3. /\ producer' = [at |-> producer'.at, length |-> length,
                      to_drop |-> producer'.to_drop, claimed |-> 0]
      /\ Space < length => producer'.at = "drop" /\ producer'.to_drop = length - Space
      /\ ~(Space < length) => producer'.at = "put" /\ producer'.to_drop = 0
  OBVIOUS
<1>4. length \in Nat \ {0}
  BY Sizes
<1>5. producer'.to_drop \in 0..length /\ length <= MaxPut
  BY <1>1, <1>2, <1>3, <1>4, Numbers, Sizes DEF RingTypes
<1>6. RingTypes'
  <2>1. producer' \in [at : {"out", "drop", "finish", "put"}, length : {0} \cup Lengths,
                       to_drop : 0..MaxPut, claimed : 0..Discard]
    BY <1>3, <1>4, <1>5, Sizes
  <2> QED
    BY <2>1, <1>1, <1>3, <1>5 DEF RingTypes, LogTypeOK
<1>7. ClaimStands' /\ MakesSpace'
  BY <1>1, <1>2, <1>3, <1>4, <1>5 DEF ClaimStands, MakesSpace
<1>8. DropsExactly'
  <2> SUFFICES ASSUME ~cdc_log_ready
               PROVE  /\ producer'.at = "drop" => Space + producer'.to_drop = length
                      /\ producer'.at = "put" => tail = 0 \/ Space = length
    BY <1>1, <1>2, <1>3 DEF DropsExactly
  <2>1. tail = 0 \/ Space = 0
    BY <1>1 DEF DropsExactly
  <2> QED
    BY <2>1, <1>2, <1>3, <1>4
<1>9. SentToHead'
  BY <1>1 DEF SentToHead
<1> QED
  BY <1>6, <1>7, <1>8, <1>9

\* A claim of the oldest bytes for a drop keeps it.
LEMMA ClaimKeeps == ASSUME LogInv, DropClaim PROVE LogInv'
<1> DEFINE n == Least(Least(producer.to_drop, Discard), put - head)
<1> USE DEF LogInv
<1>1. /\ put' = put /\ tail' = tail /\ drain' = drain /\ sentTo' = sentTo
      /\ cdc_log_ready' = cdc_log_ready /\ producer.at = "drop" /\ head' = head + n
      /\ producer' = [producer EXCEPT !.at = "finish", !.claimed = n]
      /\ UNCHANGED <<sender, link>>
  BY DEF DropClaim, sender, link
<1>2. /\ producer' = [at |-> "finish", length |-> producer.length,
                      to_drop |-> producer.to_drop, claimed |-> n]
  BY <1>1, Numbers DEF RingTypes
<1>3. head = tail
  BY <1>1 DEF ClaimStands
<1>4. /\ n \in 0..Discard /\ n <= put - head
      /\ n # put - head => n = Least(producer.to_drop, Discard)
      /\ Least(producer.to_drop, Discard) <= put - head => n = Least(producer.to_drop, Discard)
  BY Numbers, Sizes DEF RingTypes, Least
<1> HIDE DEF n
<1>5. Space' = Space /\ Space \in Nat /\ Claimed' = n /\ Left' = Left
  BY <1>1, <1>2, <1>3, <1>4, Numbers, Sizes DEF RingTypes, Space, Claimed, Left
<1>6. RingTypes'
  <2>1. producer' \in [at : {"out", "drop", "finish", "put"}, length : {0} \cup Lengths,
                       to_drop : 0..MaxPut, claimed : 0..Discard]
    BY <1>2, <1>4, Numbers DEF RingTypes, LogTypeOK
  <2>2. head' \in 0..put /\ tail \in 0..head'
    BY <1>1, <1>4, Numbers DEF RingTypes
  <2> QED
    BY <2>1, <2>2, <1>1, <1>2 DEF RingTypes, LogTypeOK, sender, link
<1>7. ClaimStands'
  BY <1>2, <1>5 DEF ClaimStands
<1>8. MakesSpace'
  <2> SUFFICES Space + n + Left >= producer.length
    BY <1>2, <1>5 DEF MakesSpace
  <2>1. Space + producer.to_drop >= producer.length
    BY <1>1 DEF MakesSpace
  <2>2. CASE n = Least(producer.to_drop, Discard)
    BY <2>1, <2>2, <1>5, Numbers, Sizes DEF RingTypes, Left, Least
  <2>3. CASE n = put - head
    <3>1. Space + n = CDC_LOG_BUF_SIZE
      BY <2>3, <1>3, Numbers, Sizes DEF RingTypes, Space
    <3>2. producer.length <= CDC_LOG_BUF_SIZE
      BY Numbers, Sizes DEF RingTypes
    <3>3. Left \in Nat
      BY Numbers, Sizes DEF RingTypes, Left, Least
    <3> QED
      BY <3>1, <3>2, <3>3, Numbers, Sizes DEF RingTypes
  <2> QED
    BY <2>2, <2>3, <1>4
<1>9. DropsExactly'
  <2> SUFFICES ASSUME ~cdc_log_ready
               PROVE  /\ Space + producer.to_drop = producer.length
                      /\ n = Least(producer.to_drop, Discard)
    BY <1>1, <1>2, <1>5 DEF DropsExactly
  <2>1. Space + producer.to_drop = producer.length
    BY <1>1 DEF DropsExactly
  <2>2. put - head = CDC_LOG_BUF_SIZE - producer.length + producer.to_drop
    BY <2>1, <1>3, Numbers, Sizes DEF RingTypes, Space
  <2>3. producer.length <= CDC_LOG_BUF_SIZE
    BY Numbers, Sizes DEF RingTypes
  <2>4. Least(producer.to_drop, Discard) <= put - head
    BY <2>2, <2>3, Numbers, Sizes DEF RingTypes, Least
  <2> QED
    BY <2>1, <2>4, <1>4
<1>10. SentToHead'
  BY <1>1, <1>4, Numbers, Sizes DEF RingTypes, SentToHead
<1> QED
  BY <1>6, <1>7, <1>8, <1>9, <1>10

\* The end of a drop keeps it, whether the drain has voided the claim or not.
LEMMA FinishKeeps == ASSUME LogInv, DropFinish PROVE LogInv'
<1> USE DEF LogInv
<1>1. /\ put' = put /\ drain' = drain /\ sentTo' = sentTo
      /\ cdc_log_ready' = cdc_log_ready /\ producer.at = "finish"
      /\ producer' = [producer EXCEPT !.at = IF Left > 0 THEN "drop" ELSE "put",
                                      !.to_drop = Left, !.claimed = 0]
      /\ UNCHANGED <<sender, link>>
  BY DEF DropFinish, sender, link, Left
<1>2. producer' = [at |-> IF Left > 0 THEN "drop" ELSE "put", length |-> producer.length,
                   to_drop |-> Left, claimed |-> 0]
  BY <1>1, Numbers DEF RingTypes
<1>3. Claimed \in {0, producer.claimed} /\ Claimed \in Nat
  BY <1>1, Numbers DEF ClaimStands, RingTypes, Claimed
<1>4. head' = head /\ tail' = head
  <2>1. CASE producer.claimed > Claimed
    BY <2>1, <1>3, Numbers DEF DropFinish, RingTypes, Claimed
  <2>2. CASE ~(producer.claimed > Claimed)
    BY <2>2, <1>3, Numbers DEF DropFinish, RingTypes, Claimed
  <2> QED
    BY <2>1, <2>2
<1>5. Left \in Nat /\ Left <= producer.to_drop
  BY Numbers, Sizes DEF RingTypes, Left, Least
<1>6. Space' = Space + Claimed /\ Space \in Nat
  BY <1>1, <1>4, Numbers, Sizes DEF RingTypes, Space, Claimed
<1>7. RingTypes'
  <2>1. producer' \in [at : {"out", "drop", "finish", "put"}, length : {0} \cup Lengths,
                       to_drop : 0..MaxPut, claimed : 0..Discard]
    BY <1>2, <1>5, Numbers, Sizes DEF RingTypes
  <2>2. head' \in 0..put /\ tail' \in 0..head' /\ put - tail' <= CDC_LOG_BUF_SIZE
    BY <1>4, Numbers, Sizes DEF RingTypes
  <2>3. producer'.to_drop <= producer'.length
    BY <1>2, <1>5, Numbers DEF RingTypes
  <2> QED
    BY <2>1, <2>2, <2>3, <1>1, <1>2 DEF RingTypes, LogTypeOK, sender, link
<1>8. ClaimStands'
  BY <1>2, <1>4 DEF ClaimStands
<1>9. MakesSpace'
  <2>1. Space + Claimed + Left >= producer.length
    BY <1>1 DEF MakesSpace
  <2>2. Space' + Left >= producer.length /\ (~(Left > 0) => Space' >= producer.length)
    BY <2>1, <1>3, <1>5, <1>6, Numbers DEF RingTypes
  <2> QED
    BY <2>2, <1>2 DEF MakesSpace
<1>10. DropsExactly'
  <2> SUFFICES ASSUME ~cdc_log_ready
               PROVE  Space' + Left = producer.length
    <3>1. Space' \in Nat
      BY <1>3, <1>6
    <3>2. ~(Left > 0) => (Space' + Left = producer.length => Space' = producer.length)
      BY <3>1, <1>5
    <3>3. Left > 0 => producer'.at = "drop" /\ producer'.to_drop = Left
      BY <1>2
    <3>4. ~(Left > 0) => producer'.at = "put"
      BY <1>2
    <3>5. producer'.length = producer.length
      BY <1>2
    <3> QED
      BY <1>1, <3>2, <3>3, <3>4, <3>5 DEF DropsExactly
  <2>1. /\ Space + producer.to_drop = producer.length
        /\ Claimed = Least(producer.to_drop, Discard)
    BY <1>1 DEF DropsExactly
  <2> QED
    BY <2>1, <1>3, <1>6, Numbers DEF RingTypes, Left
<1>11. SentToHead'
  BY <1>1, <1>4 DEF SentToHead
<1> QED
  BY <1>7, <1>8, <1>9, <1>10, <1>11

\* Putting the line into the ring keeps it: the drop made the room.
LEMMA PutKeeps == ASSUME LogInv, Put PROVE LogInv'
<1> USE DEF LogInv
<1>1. /\ head' = head /\ tail' = tail /\ drain' = drain /\ sentTo' = sentTo
      /\ cdc_log_ready' = cdc_log_ready /\ producer.at = "put" /\ producer' = NoLine
      /\ put' = put + Least(producer.length, Space)
      /\ UNCHANGED <<sender, link>>
  BY DEF Put, sender, link
<1>2. Space >= producer.length /\ Space \in Nat
  BY <1>1, Numbers, Sizes DEF MakesSpace, RingTypes, Space
<1>3. put' = put + producer.length
  BY <1>1, <1>2, Numbers DEF RingTypes, Least
<1>4. Space' = Space - producer.length
  BY <1>1, <1>3, Numbers, Sizes DEF RingTypes, Space
<1>5. put' <= MaxPut
  BY <1>1, <1>3 DEF RingTypes
<1>6. put' - tail <= CDC_LOG_BUF_SIZE
  BY <1>2, <1>3, Numbers, Sizes DEF RingTypes, Space
<1>7. RingTypes'
  <2>1. producer' \in [at : {"out", "drop", "finish", "put"}, length : {0} \cup Lengths,
                       to_drop : 0..MaxPut, claimed : 0..Discard]
    BY <1>1, Sizes DEF NoLine
  <2>2. put' \in 0..MaxPut /\ head \in 0..put'
    BY <1>3, <1>5, Numbers DEF RingTypes
  <2> QED
    BY <2>1, <2>2, <1>1, <1>6 DEF RingTypes, LogTypeOK, sender, link, NoLine
<1>8. ClaimStands' /\ MakesSpace'
  BY <1>1 DEF ClaimStands, MakesSpace, NoLine
<1>9. DropsExactly'
  <2> SUFFICES ASSUME ~cdc_log_ready PROVE tail = 0 \/ Space' = 0
    BY <1>1 DEF DropsExactly, NoLine
  <2>1. tail = 0 \/ Space = producer.length
    BY <1>1 DEF DropsExactly
  <2> QED
    BY <2>1, <1>4, Numbers DEF RingTypes
<1>10. SentToHead'
  BY <1>1 DEF SentToHead
<1> QED
  BY <1>7, <1>8, <1>9, <1>10

-----------------------------------------------------------------------------
(* The drain thread's steps, and what leaves the ring alone.                *)

\* A chunk the drain takes keeps it.
LEMMA DrainGetKeeps == ASSUME LogInv, DrainGet PROVE LogInv'
<1> DEFINE n == Least(Chunk, put - head)
<1> USE DEF LogInv
<1>1. /\ put' = put /\ producer' = producer /\ sentTo' = sentTo /\ tx_mutex' = tx_mutex
      /\ drain.at = "poll" /\ cdc_log_ready /\ cdc_log_ready' /\ n > 0
      /\ drain' = [at |-> "lock", from |-> head, n |-> n]
      /\ tail' = tail + n /\ head' = tail + n
      /\ UNCHANGED <<tx_mutex, link>>
  BY DEF DrainGet, link
<1>2. n \in 0..Chunk /\ n <= put - head /\ n \in {Chunk, put - head}
  BY Numbers, Sizes DEF RingTypes, Least
<1> HIDE DEF n
<1>3. Claimed \in 0..Discard /\ Claimed \in {0, producer.claimed}
  BY Numbers, Sizes DEF RingTypes, ClaimStands, Claimed
<1>4. head = tail + Claimed
  BY Numbers DEF RingTypes, Claimed
<1>5. head' = tail' /\ head' = head + n - Claimed /\ head' \in 0..put /\ Claimed' = 0
  <2>1. head \in Nat /\ tail \in Nat /\ put \in Nat /\ tail <= head
    BY Numbers DEF RingTypes
  <2>2. n \in Nat /\ Claimed \in Nat
    BY <1>2, <1>3, Sizes
  <2>3. head' \in Nat
    BY <1>1, <2>1, <2>2
  <2>4. head' = head + n - Claimed
    BY <1>1, <1>4, <2>1, <2>2
  <2>5. head' <= put
    BY <1>1, <1>2, <2>1, <2>2
  <2>6. Claimed' = 0
    BY <1>1, <2>3 DEF Claimed
  <2> QED
    BY <1>1, <2>1, <2>3, <2>4, <2>5, <2>6
<1>6. Space' = Space + n /\ Space \in Nat /\ Space' \in Nat
  BY <1>1, <1>2, Numbers, Sizes DEF RingTypes, Space
<1>7. put - tail' <= CDC_LOG_BUF_SIZE
  BY <1>1, <1>2, Numbers, Sizes DEF RingTypes
<1>8. RingTypes'
  <2>1. drain' \in [at : {"poll", "lock", "write"}, from : 0..MaxPut, n : 0..Chunk]
    BY <1>1, <1>2, Numbers, Sizes DEF RingTypes
  <2>2. tail' \in 0..head'
    BY <1>5
  <2> QED
    BY <2>1, <2>2, <1>1, <1>5, <1>7 DEF RingTypes, LogTypeOK, link
<1>9. ClaimStands'
  BY <1>1, <1>5 DEF ClaimStands
<1>10. MakesSpace'
  <2>1. producer'.at = "drop" => Space' + producer.to_drop >= producer.length
    BY <1>1, <1>2, <1>6, Numbers, Sizes DEF RingTypes, MakesSpace
  <2>2. producer'.at = "put" => Space' >= producer.length
    BY <1>1, <1>2, <1>6, Numbers, Sizes DEF RingTypes, MakesSpace
  <2>3. ASSUME producer.at = "finish" PROVE Space' + Left >= producer.length
    <3>1. Space + Claimed + Left >= producer.length
      BY <2>3 DEF MakesSpace
    <3>2. Left \in Nat
      BY Numbers, Sizes DEF RingTypes, Left, Least
    <3>3. CASE n = Chunk
      BY <3>1, <3>2, <3>3, <1>3, <1>6, Numbers, Sizes DEF RingTypes
    <3>4. CASE n = put - head
      <4>1. Space' = CDC_LOG_BUF_SIZE - Claimed
        BY <3>4, <1>4, <1>6, <1>3, Numbers, Sizes DEF RingTypes, Space
      <4>2. producer.length + Chunk <= CDC_LOG_BUF_SIZE
        BY <2>3, Sizes DEF RingTypes
      <4> QED
        BY <4>1, <4>2, <3>2, <1>3, Numbers, Sizes DEF RingTypes
    <3> QED
      BY <3>3, <3>4, <1>2
  <2>4. Left' = Left
    BY <1>1 DEF Left
  <2>5. ASSUME producer.at = "finish" PROVE Space' + Claimed' + Left' >= producer.length
    BY <2>3, <2>4, <2>5, <1>5, <1>6
  <2> QED
    BY <2>1, <2>2, <2>5, <1>1 DEF MakesSpace
<1>11. DropsExactly'
  BY <1>1 DEF DropsExactly
<1>12. SentToHead'
  <2>1. head >= sentTo - Discard
    BY <1>1 DEF SentToHead
  <2>2. head' >= head + n - Discard /\ head + n <= MaxPut
    BY <1>2, <1>3, <1>5, Numbers, Sizes DEF RingTypes
  <2> QED
    BY <2>1, <2>2, <1>1 DEF SentToHead
<1> QED
  BY <1>8, <1>9, <1>10, <1>11, <1>12

\* Sending that chunk keeps it.
LEMMA DrainSendsKeeps ==
  ASSUME LogInv, DrainLock \/ DrainWritten
  PROVE  LogInv'
<1> USE DEF LogInv
<1>1. UNCHANGED <<ring, link>>
  BY DEF DrainLock, DrainWritten
<1>2. /\ put' = put /\ head' = head /\ tail' = tail /\ producer' = producer
      /\ cdc_log_ready' = cdc_log_ready
  BY <1>1 DEF ring, link
<1>3. /\ drain' \in [at : {"poll", "lock", "write"}, from : 0..MaxPut, n : 0..Chunk]
      /\ sentTo' \in 0..MaxPut /\ tx_mutex' \in {"none", "drain", "console"}
      /\ SentToHead'
  <2>1. CASE DrainLock
    <3>1. /\ drain' = [at |-> "write", from |-> drain.from, n |-> drain.n] /\ drain.at = "lock"
          /\ sentTo' = sentTo /\ tx_mutex' = "drain"
      BY <2>1, Numbers DEF RingTypes, DrainLock
    <3> QED
      BY <3>1, <1>2, Numbers, Sizes DEF RingTypes, SentToHead
  <2>2. CASE DrainWritten
    <3>1. /\ drain' = NoChunk /\ drain.at = "write"
          /\ sentTo' = drain.from + drain.n /\ tx_mutex' = "none"
      BY <2>2 DEF DrainWritten
    <3>2. sentTo' \in 0..MaxPut /\ head >= sentTo' - Discard
      BY <3>1, Numbers, Sizes DEF RingTypes, SentToHead
    <3> QED
      BY <3>1, <3>2, <1>2, Sizes DEF SentToHead, NoChunk
  <2> QED
    BY <2>1, <2>2
<1>4. RingTypes'
  BY <1>1, <1>2, <1>3 DEF RingTypes, LogTypeOK, link
<1>5. Space' = Space /\ Claimed' = Claimed /\ Left' = Left
  BY <1>2 DEF Space, Claimed, Left
<1> QED
  BY <1>2, <1>3, <1>4, <1>5 DEF ClaimStands, MakesSpace, DropsExactly

\* The other users of the mutex and the USB thread: only the opening of the log matters.
LEMMA OthersKeep ==
  ASSUME LogInv, UNCHANGED <<ring, drain, sentTo>>,
         cdc_log_ready => cdc_log_ready',
         tx_mutex' \in {"none", "drain", "console"},
         usb' \in {"init", "wait", "done", "failed"}, dtr_sem' \in {0, 1},
         cdc_log_ready' \in BOOLEAN, usbEnabled' \in BOOLEAN, opened' \in BOOLEAN
  PROVE  LogInv'
<1> USE DEF LogInv
<1>1. /\ put' = put /\ head' = head /\ tail' = tail /\ producer' = producer
      /\ drain' = drain /\ sentTo' = sentTo
  BY DEF ring
<1>2. RingTypes'
  BY <1>1 DEF RingTypes, LogTypeOK
<1>3. Space' = Space /\ Claimed' = Claimed /\ Left' = Left
  BY <1>1 DEF Space, Claimed, Left
<1>4. ClaimStands' /\ MakesSpace' /\ SentToHead'
  BY <1>1, <1>3 DEF ClaimStands, MakesSpace, SentToHead
<1>5. DropsExactly'
  BY <1>1, <1>3 DEF DropsExactly
<1> QED
  BY <1>2, <1>4, <1>5

\* At boot the invariant holds.
LEMMA LogInitInv == LogInit => LogInv
<1> SUFFICES ASSUME LogInit PROVE LogInv
  OBVIOUS
<1> USE DEF LogInit
<1>1. LogTypeOK
  <2>1. NoLine \in [at : {"out", "drop", "finish", "put"}, length : {0} \cup Lengths,
                    to_drop : 0..MaxPut, claimed : 0..Discard]
    BY Sizes DEF NoLine
  <2>2. NoChunk \in [at : {"poll", "lock", "write"}, from : 0..MaxPut, n : 0..Chunk]
    BY Sizes DEF NoChunk
  <2>3. put \in 0..MaxPut /\ head \in 0..put /\ tail \in 0..head /\ sentTo \in 0..MaxPut
    BY Sizes
  <2>4. put - tail <= CDC_LOG_BUF_SIZE
    BY Sizes
  <2> QED
    BY <2>1, <2>2, <2>3, <2>4 DEF LogTypeOK
<1> QED
  BY <1>1, Sizes DEF LogInv, RingTypes, ClaimStands, MakesSpace, DropsExactly, SentToHead,
                     NoLine, NoChunk, Space

\* Every step keeps it.
LEMMA LogStep == LogInv /\ [LogNext]_logVars => LogInv'
<1> SUFFICES ASSUME LogInv, [LogNext]_logVars PROVE LogInv'
  OBVIOUS
<1>1. LogTypeOK
  BY DEF LogInv, RingTypes
<1>2. CASE \E length \in Lengths : cdc_log_out_func(length)
  BY <1>2, BeginKeeps
<1>3. CASE Producing
  BY <1>3, ClaimKeeps, FinishKeeps, PutKeeps DEF Producing
<1>4. CASE Draining
  BY <1>4, DrainGetKeeps, DrainSendsKeeps DEF Draining
<1>5. CASE console_transport_write \/ ConsoleWritten
  BY <1>1, <1>5, OthersKeep DEF console_transport_write, ConsoleWritten, link, LogTypeOK
<1>6. CASE UsbInit \/ UsbInitFails \/ UsbVbus \/ UsbDtr \/ UsbReady
  BY <1>1, <1>6, OthersKeep DEF UsbInit, UsbInitFails, UsbVbus, UsbDtr, UsbReady, sender, LogTypeOK
<1>7. CASE UNCHANGED logVars
  BY <1>1, <1>7, OthersKeep DEF logVars, sender, link, LogTypeOK
<1> QED
  BY <1>2, <1>3, <1>4, <1>5, <1>6, <1>7 DEF LogNext

-----------------------------------------------------------------------------
(* The theorem.                                                             *)

\* However the log thread's drops and the drain thread's reads of the same ring interleave:
\* a new line fits whole, before the console is open nothing is lost too early, and what
\* is sent comes in order, with at most one discard's bytes sent again.
THEOREM LogIsKept == LogSpec => []LogKept
<1>1. LogSpec => []LogInv
  BY LogInitInv, LogStep, PTL DEF LogSpec
<1>2. LogInv => LogKept
  BY InvKeeps
<1> QED
  BY <1>1, <1>2, PTL

-----------------------------------------------------------------------------
(* The way of a command line.  A mark is a line and how many of its        *)
(* characters are behind it; the characters on their way to the console    *)
(* lead from one mark to the next, up to where the host is.                *)

Marks == [line : 1..Lines + 1, typed : Nat]
Hosts == [line : 1..Lines + 1, typed : [1..Lines -> Nat], erased : [1..Lines -> BOOLEAN]]
HostMark(h) == [line |-> h.line, typed |-> IF h.line <= Lines THEN h.typed[h.line] ELSE 0]

\* What a character says of the marks around it.
Leads(h, c, here, next) ==
  /\ here.line \in 1..Lines
  /\ \/ /\ c = CR /\ next = [line |-> here.line + 1, typed |-> 0]
        /\ here.line < h.line /\ h.typed[here.line] = here.typed
     \/ c = BS /\ next = here /\ h.erased[here.line]
     \/ c = Char(here.line, here.typed + 1) /\ next = [line |-> here.line, typed |-> here.typed + 1]

Path(h, st, m) ==
  /\ m \in [1..Len(st) + 1 -> Marks] /\ m[Len(st) + 1] = HostMark(h)
  /\ \A i \in 1..Len(st) + 1 : m[i].line <= h.line
  /\ \A i \in 1..Len(st) : Leads(h, st[i], m[i], m[i + 1])

\* The buffer after n characters of line l.
Typed(h, buf, l, n) ==
  /\ \A i \in 1..Len(buf) : buf[i].line = l /\ buf[i].place <= n
  /\ \A i, j \in 1..Len(buf) : i < j => buf[i].place < buf[j].place
  /\ l <= Lines /\ ~h.erased[l] => buf = [i \in 1..Shorter(n, LineMax) |-> Char(l, i)]

\* While a command runs, the buffer is of the line before.
Buffered(h, running, buf, mark) ==
  IF running THEN /\ mark.line > 1 /\ mark.typed = 0
                  /\ Typed(h, buf, mark.line - 1, h.typed[mark.line - 1])
  ELSE Typed(h, buf, mark.line, mark.typed)

Stream == rx_ringbuf \o fifo

Fits(h, running, buf, st) == \E m : Path(h, st, m) /\ Buffered(h, running, buf, m[1])

LineInv ==
  /\ LineTypeOK /\ host \in Hosts /\ \A l \in 1..Lines : l > host.line => host.typed[l] = 0
  /\ ~lost => Fits(host, console = "dispatch", line_buf, Stream)

\* A character is no control.
LEMMA CharsAreNoControls ==
  ASSUME NEW l, NEW k
  PROVE  Char(l, k) # CR /\ Char(l, k) # BS /\ CR # BS
<1>1. DOMAIN Char(l, k) = {"line", "place"} /\ DOMAIN CR = {"control"} /\ DOMAIN BS = {"control"}
  BY DEF Char, CR, BS
<1>2. "line" \notin {"control"}
  OBVIOUS
<1>3. CR.control = "CR" /\ BS.control = "BS"
  BY DEF CR, BS
<1> QED
  BY <1>1, <1>2, <1>3

\* What is on its way, and one more.
LEMMA StreamGrows ==
  ASSUME NEW a \in Seq(Sendable), NEW b \in Seq(Sendable), NEW c \in Sendable
  PROVE  a \o Append(b, c) = Append(a \o b, c)
  OBVIOUS

\* A batch moves within what is on its way.
LEMMA StreamMoves ==
  ASSUME NEW a \in Seq(Sendable), NEW b \in Seq(Sendable), NEW n \in 0..Len(b)
  PROVE  (a \o SubSeq(b, 1, n)) \o SubSeq(b, n + 1, Len(b)) = a \o b
<1> DEFINE x == SubSeq(b, 1, n)
           y == SubSeq(b, n + 1, Len(b))
<1>0. Len(b) \in Nat /\ n \in Nat /\ n <= Len(b) /\ \A i \in 1..Len(b) : b[i] \in Sendable
  OBVIOUS
<1>1. /\ x \in Seq(Sendable) /\ Len(x) = n /\ \A i \in 1..n : x[i] = b[i]
      /\ y \in Seq(Sendable) /\ Len(y) = Len(b) - n /\ \A i \in 1..Len(b) - n : y[i] = b[n + i]
  <2>1. \A i \in 1..n : b[i] \in Sendable /\ 1 + i - 1 = i
    BY <1>0
  <2>2. \A i \in n + 1..Len(b) : b[i] \in Sendable
    BY <1>0
  <2>3. /\ x \in Seq(Sendable) /\ Len(x) = (IF 1 <= n THEN n - 1 + 1 ELSE 0)
        /\ \A i \in 1..n - 1 + 1 : x[i] = b[1 + i - 1]
    BY <1>0, <2>1, SubSeqProperties
  <2>4. /\ y \in Seq(Sendable) /\ Len(y) = (IF n + 1 <= Len(b) THEN Len(b) - (n + 1) + 1 ELSE 0)
        /\ \A i \in 1..Len(b) - (n + 1) + 1 : y[i] = b[n + 1 + i - 1]
    BY <1>0, <2>2, SubSeqProperties
  <2> HIDE DEF x, y
  <2>5. Len(x) = n /\ \A i \in 1..n : x[i] = b[i]
    BY <1>0, <2>1, <2>3
  <2>6. Len(y) = Len(b) - n
    BY <1>0, <2>4
  <2>7. \A i \in 1..Len(b) - n : i \in 1..Len(b) - (n + 1) + 1 /\ n + 1 + i - 1 = n + i
    BY <1>0
  <2> QED
    BY <2>3, <2>4, <2>5, <2>6, <2>7
<1> HIDE DEF x, y
<1>2. x \o y = b
  <2>1. /\ x \o y \in Seq(Sendable) /\ Len(x \o y) = Len(b)
        /\ \A i \in 1..Len(b) : (x \o y)[i] = IF i <= n THEN x[i] ELSE y[i - n]
    <3>1. /\ x \o y \in Seq(Sendable) /\ Len(x \o y) = Len(x) + Len(y)
          /\ \A i \in 1..Len(x) + Len(y) : (x \o y)[i] = IF i <= Len(x) THEN x[i] ELSE y[i - Len(x)]
      BY <1>1, ConcatProperties
    <3>2. Len(x) + Len(y) = Len(b)
      BY <1>0, <1>1
    <3> QED
      BY <1>1, <3>1, <3>2
  <2>2. \A i \in 1..Len(b) : (x \o y)[i] = b[i]
    <3> SUFFICES ASSUME NEW i \in 1..Len(b) PROVE (x \o y)[i] = b[i]
      OBVIOUS
    <3>1. CASE i <= n
      <4>1. i \in 1..n
        BY <1>0, <3>1
      <4> QED
        BY <1>1, <2>1, <3>1, <4>1
    <3>2. CASE ~(i <= n)
      <4>1. i - n \in 1..Len(b) - n /\ n + (i - n) = i
        BY <1>0, <3>2
      <4> QED
        BY <1>1, <2>1, <3>2, <4>1
    <3> QED
      BY <3>1, <3>2
  <2> QED
    BY <2>1, <2>2, SeqEqual
<1>3. (a \o x) \o y = a \o (x \o y)
  BY <1>1, ConcatAssociative
<1> QED
  BY <1>2, <1>3 DEF x, y

\* The host goes on with its line, or to the next one.
LEMMA PathGrows ==
  ASSUME NEW h \in Hosts, NEW g \in Hosts, NEW st \in Seq(Sendable), NEW m, Path(h, st, m),
         NEW c \in Sendable, Leads(g, c, HostMark(h), HostMark(g)), h.line <= g.line,
         \A l \in 1..Lines : l < h.line => g.typed[l] = h.typed[l],
         \A l \in 1..Lines : h.erased[l] => g.erased[l]
  PROVE  \E w : Path(g, Append(st, c), w) /\ w[1] = m[1]
<1> DEFINE N == Len(st)
           w == [i \in 1..N + 2 |-> IF i = N + 2 THEN HostMark(g) ELSE m[i]]
           t == Append(st, c)
<1>1. N \in Nat /\ t \in Seq(Sendable) /\ Len(t) = N + 1 /\ t[N + 1] = c
      /\ \A i \in 1..N : t[i] = st[i]
  OBVIOUS
<1>2. /\ m \in [1..N + 1 -> Marks] /\ m[N + 1] = HostMark(h)
      /\ \A i \in 1..N + 1 : m[i].line <= h.line
      /\ \A i \in 1..N : Leads(h, st[i], m[i], m[i + 1])
  BY DEF Path
<1> HIDE DEF t
<1>3. HostMark(g) \in Marks /\ HostMark(g).line = g.line
  <2>1. g.line \in 1..Lines + 1 /\ g.typed \in [1..Lines -> Nat]
    BY DEF Hosts
  <2>2. g.line <= Lines => g.typed[g.line] \in Nat
    BY <2>1, ConsoleLineAssumption
  <2> QED
    BY <2>1, <2>2 DEF HostMark, Marks
<1>4. h.line \in Int /\ g.line \in Int
  BY DEF Hosts
<1>5. /\ w \in [1..N + 2 -> Marks] /\ w[N + 2] = HostMark(g) /\ w[1] = m[1]
      /\ \A i \in 1..N + 1 : w[i] = m[i]
  <2>1. \A i \in 1..N + 2 : i # N + 2 => i \in 1..N + 1
    BY <1>1
  <2>2. N + 2 \in 1..N + 2 /\ \A i \in 1..N + 1 : i \in 1..N + 2 /\ i # N + 2
    BY <1>1
  <2>3. 1 \in 1..N + 1
    BY <1>1
  <2> QED
    BY <1>2, <1>3, <2>1, <2>2, <2>3
<1> HIDE DEF w
<1>6. \A i \in 1..N + 2 : w[i].line <= g.line
  <2> SUFFICES ASSUME NEW i \in 1..N + 2 PROVE w[i].line <= g.line
    OBVIOUS
  <2>1. CASE i = N + 2
    BY <1>3, <1>4, <1>5, <2>1
  <2>2. CASE i # N + 2
    <3>1. i \in 1..N + 1
      BY <1>1, <2>2
    <3>2. w[i] = m[i] /\ m[i].line <= h.line /\ m[i] \in Marks
      BY <1>2, <1>5, <3>1
    <3>3. m[i].line \in Int /\ w[i].line <= h.line
      BY <3>2 DEF Marks
    <3> QED
      BY <1>4, <3>2, <3>3
  <2> QED
    BY <2>1, <2>2
<1>7. \A i \in 1..N + 1 : Leads(g, t[i], w[i], w[i + 1])
  <2> SUFFICES ASSUME NEW i \in 1..N + 1 PROVE Leads(g, t[i], w[i], w[i + 1])
    OBVIOUS
  <2>1. CASE i = N + 1
    <3>1. i + 1 = N + 2 /\ N + 1 \in 1..N + 1
      BY <1>1, <2>1
    <3> QED
      BY <1>1, <1>2, <1>5, <2>1, <3>1
  <2>2. CASE i # N + 1
    <3>1. i \in 1..N /\ i + 1 \in 1..N + 1
      BY <1>1, <2>2
    <3>2. t[i] = st[i] /\ w[i] = m[i] /\ w[i + 1] = m[i + 1]
      BY <1>1, <1>5, <3>1
    <3>3. Leads(h, st[i], m[i], m[i + 1]) /\ m[i] \in Marks
      BY <1>2, <3>1
    <3>4. Leads(g, st[i], m[i], m[i + 1])
      <4>1. CASE st[i] = CR /\ m[i].line < h.line /\ h.typed[m[i].line] = m[i].typed
                 /\ m[i + 1] = [line |-> m[i].line + 1, typed |-> 0]
        <5>1. m[i].line \in 1..Lines /\ m[i].line < g.line
          BY <1>4, <3>3, <4>1 DEF Leads, Marks
        <5> QED
          BY <4>1, <5>1 DEF Leads
      <4> QED
        BY <3>3, <4>1 DEF Leads
    <3> QED
      BY <3>2, <3>4
  <2> QED
    BY <2>1, <2>2
<1>8. Len(t) + 1 = N + 2
  BY <1>1
<1>9. Path(g, t, w)
  BY <1>1, <1>5, <1>6, <1>7, <1>8 DEF Path
<1> QED
  BY <1>5, <1>9 DEF t

\* The buffer does not mind where the host is.
LEMMA BufferStays ==
  ASSUME NEW h \in Hosts, NEW g \in Hosts, NEW running \in BOOLEAN, NEW buf, NEW mark \in Marks,
         mark.line <= h.line, Buffered(h, running, buf, mark),
         \A l \in 1..Lines : l < h.line => g.typed[l] = h.typed[l],
         \A l \in 1..Lines : h.erased[l] => g.erased[l]
  PROVE  Buffered(g, running, buf, mark)
<1>1. ASSUME NEW l \in 1..Lines + 1, NEW n, Typed(h, buf, l, n) PROVE Typed(g, buf, l, n)
  <2>1. l <= Lines => l \in 1..Lines
    OBVIOUS
  <2> QED
    BY <1>1, <2>1 DEF Typed
<1>2. mark.line \in 1..Lines + 1
  BY DEF Marks
<1>3. CASE running
  <2>1. mark.line > 1 /\ mark.typed = 0 /\ Typed(h, buf, mark.line - 1, h.typed[mark.line - 1])
    BY <1>3 DEF Buffered
  <2>2. mark.line - 1 \in 1..Lines /\ mark.line - 1 < h.line /\ mark.line - 1 \in 1..Lines + 1
    BY <1>2, <2>1, ConsoleLineAssumption DEF Hosts
  <2>3. h.typed[mark.line - 1] = g.typed[mark.line - 1]
    BY <2>2
  <2> QED
    BY <1>1, <1>3, <2>1, <2>2, <2>3 DEF Buffered
<1>4. CASE ~running
  BY <1>1, <1>2, <1>4 DEF Buffered
<1> QED
  BY <1>3, <1>4

\* The console takes the first character.
LEMMA PathShrinks ==
  ASSUME NEW h \in Hosts, NEW st \in Seq(Sendable), st # <<>>, NEW m, Path(h, st, m)
  PROVE  /\ Leads(h, Head(st), m[1], m[2]) /\ m[1] \in Marks /\ m[2] \in Marks
         /\ \E w : Path(h, Tail(st), w) /\ w[1] = m[2]
<1> DEFINE N == Len(st)
           w == [i \in 1..N |-> m[i + 1]]
           t == Tail(st)
<1>1. N \in Nat /\ N > 0 /\ t \in Seq(Sendable) /\ Len(t) = N - 1 /\ Len(t) + 1 = N
      /\ \A i \in 1..N - 1 : t[i] = st[i + 1]
  OBVIOUS
<1>0. Head(st) = st[1]
  OBVIOUS
<1>2. /\ m \in [1..N + 1 -> Marks] /\ m[N + 1] = HostMark(h)
      /\ \A i \in 1..N + 1 : m[i].line <= h.line
      /\ \A i \in 1..N : Leads(h, st[i], m[i], m[i + 1])
  BY DEF Path
<1> HIDE DEF t, N
<1>3. \A i \in 1..N : i + 1 \in 1..N + 1
  BY <1>1
<1>4. w \in [1..N -> Marks] /\ \A i \in 1..N : w[i] = m[i + 1]
  BY <1>2, <1>3
<1> HIDE DEF w
<1>5. 1 \in 1..N /\ N \in 1..N /\ 1 + 1 = 2 /\ 1 \in 1..N + 1 /\ 2 \in 1..N + 1
  BY <1>1
<1>6. \A i \in 1..N - 1 : i \in 1..N /\ i + 1 \in 1..N
  BY <1>1
<1>7. \A i \in 1..N - 1 : Leads(h, t[i], w[i], w[i + 1])
  BY <1>1, <1>2, <1>4, <1>6
<1>8. Path(h, t, w)
  BY <1>1, <1>2, <1>3, <1>4, <1>5, <1>7 DEF Path
<1>9. w[1] = m[2]
  BY <1>4, <1>5
<1>10. Leads(h, Head(st), m[1], m[2]) /\ m[1] \in Marks /\ m[2] \in Marks
  BY <1>0, <1>2, <1>5
<1> QED
  BY <1>8, <1>9, <1>10 DEF t

\* A character is put in the buffer as long as there is room.
LEMMA CharPut ==
  ASSUME NEW h \in Hosts, NEW buf \in Seq(Chars), Len(buf) <= LineMax, NEW l \in 1..Lines,
         NEW n \in Nat, Typed(h, buf, l, n), Char(l, n + 1) \in Chars
  PROVE  Typed(h, IF Len(buf) < LineMax THEN Append(buf, Char(l, n + 1)) ELSE buf, l, n + 1)
<1>1. LineMax \in Nat \ {0} /\ Len(buf) \in Nat
  BY ConsoleLineAssumption
<1>2. /\ \A i \in 1..Len(buf) : buf[i].line = l /\ buf[i].place <= n
      /\ \A i, j \in 1..Len(buf) : i < j => buf[i].place < buf[j].place
  BY DEF Typed
<1>3. \A i \in 1..Len(buf) : buf[i].place \in Nat
  <2>1. \A i \in 1..Len(buf) : buf[i] \in Chars
    OBVIOUS
  <2>2. \A c \in Chars : c.place \in Nat
    BY ConsoleLineAssumption DEF Chars
  <2> QED
    BY <2>1, <2>2
<1>4. CASE Len(buf) < LineMax
  <2> DEFINE c == Char(l, n + 1)
             more == Append(buf, c)
  <2>1. c.line = l /\ c.place = n + 1
    BY DEF Char
  <2>2. Len(more) = Len(buf) + 1 /\ more[Len(buf) + 1] = c /\ \A i \in 1..Len(buf) : more[i] = buf[i]
    OBVIOUS
  <2> HIDE DEF more
  <2>3. \A i \in 1..Len(more) : i \in 1..Len(buf) \/ i = Len(buf) + 1
    BY <1>1, <2>2
  <2>4. \A i \in 1..Len(more) : more[i].line = l /\ more[i].place <= n + 1
    BY <1>2, <1>3, <2>1, <2>2, <2>3
  <2>5. \A i, j \in 1..Len(more) : i < j => more[i].place < more[j].place
    <3> SUFFICES ASSUME NEW i \in 1..Len(more), NEW j \in 1..Len(more), i < j
                 PROVE  more[i].place < more[j].place
      OBVIOUS
    <3>1. i \in 1..Len(buf)
      BY <1>1, <2>2
    <3>2. CASE j \in 1..Len(buf)
      BY <1>2, <2>2, <3>1, <3>2
    <3>3. CASE j = Len(buf) + 1
      BY <1>2, <1>3, <2>1, <2>2, <3>1, <3>3
    <3> QED
      BY <2>3, <3>2, <3>3
  <2>6. ASSUME ~h.erased[l] PROVE more = [i \in 1..Shorter(n + 1, LineMax) |-> Char(l, i)]
    <3>1. buf = [i \in 1..Shorter(n, LineMax) |-> Char(l, i)]
      BY <2>6 DEF Typed
    <3>2. Shorter(n, LineMax) \in Nat
      BY <1>1 DEF Shorter
    <3>3. Len(buf) = Shorter(n, LineMax)
      BY <3>1, <3>2
    <3>4. Len(buf) = n /\ Shorter(n, LineMax) = n /\ Shorter(n + 1, LineMax) = n + 1
      BY <1>1, <1>4, <3>3 DEF Shorter
    <3>5. \A i \in 1..n : buf[i] = Char(l, i)
      BY <3>1, <3>4
    <3>6. more = [i \in 1..Len(more) |-> more[i]]
      BY DEF more
    <3>7. \A i \in 1..n + 1 : more[i] = Char(l, i)
      BY <2>2, <2>3, <3>4, <3>5
    <3> QED
      BY <2>2, <3>4, <3>6, <3>7
  <2>7. Typed(h, more, l, n + 1)
    BY <2>4, <2>5, <2>6 DEF Typed
  <2> QED
    BY <1>4, <2>7 DEF more
<1>5. CASE ~(Len(buf) < LineMax)
  <2>1. Len(buf) = LineMax
    BY <1>1, <1>5
  <2>2. ASSUME ~h.erased[l] PROVE buf = [i \in 1..Shorter(n + 1, LineMax) |-> Char(l, i)]
    <3>1. buf = [i \in 1..Shorter(n, LineMax) |-> Char(l, i)]
      BY <2>2 DEF Typed
    <3>2. Len(buf) = Shorter(n, LineMax)
      BY <1>1, <3>1 DEF Shorter
    <3>3. Shorter(n + 1, LineMax) = Shorter(n, LineMax)
      BY <1>1, <2>1, <3>2 DEF Shorter
    <3> QED
      BY <3>1, <3>3
  <2>3. \A i \in 1..Len(buf) : buf[i].line = l /\ buf[i].place <= n + 1
    BY <1>2, <1>3
  <2>4. Typed(h, buf, l, n + 1)
    BY <1>2, <2>2, <2>3 DEF Typed
  <2> QED
    BY <1>5, <2>4
<1> QED
  BY <1>4, <1>5

\* One is taken back.
LEMMA CharErased ==
  ASSUME NEW h \in Hosts, NEW buf \in Seq(Chars), buf # <<>>, NEW l \in 1..Lines, NEW n \in Nat,
         Typed(h, buf, l, n), h.erased[l]
  PROVE  Typed(h, SubSeq(buf, 1, Len(buf) - 1), l, n)
<1> DEFINE less == SubSeq(buf, 1, Len(buf) - 1)
<1>1. Len(buf) \in Nat /\ Len(buf) > 0
  OBVIOUS
<1>0. \A i \in 1..Len(buf) - 1 : i \in 1..Len(buf) /\ buf[i] \in Chars /\ 1 + i - 1 = i
  BY <1>1
<1>2. Len(less) = Len(buf) - 1 /\ \A i \in 1..Len(buf) - 1 : less[i] = buf[i] /\ i \in 1..Len(buf)
  <2>1. /\ Len(less) = IF 1 <= Len(buf) - 1 THEN Len(buf) - 1 - 1 + 1 ELSE 0
        /\ \A i \in 1..Len(buf) - 1 - 1 + 1 : less[i] = buf[1 + i - 1]
    <3>1. Len(buf) - 1 \in Int
      BY <1>1
    <3> QED
      BY <1>0, <3>1, SubSeqProperties
  <2> HIDE DEF less
  <2>4. PICK length \in Nat : length = Len(buf) /\ length > 0
    BY <1>1
  <2>2. Len(less) = Len(buf) - 1
    BY <2>1, <2>4
  <2>3. ASSUME NEW i \in 1..Len(buf) - 1 PROVE less[i] = buf[i]
    <3>1. i \in 1..Len(buf) - 1 - 1 + 1
      BY <1>1
    <3>2. less[i] = buf[1 + i - 1] /\ 1 + i - 1 = i
      BY <1>0, <2>1, <3>1
    <3> QED
      BY <3>2
  <2> QED
    BY <1>0, <2>2, <2>3
<1> HIDE DEF less
<1>3. Typed(h, less, l, n)
  BY <1>1, <1>2 DEF Typed
<1> QED
  BY <1>3 DEF less

\* An empty buffer is of any line nothing was typed in.
LEMMA EmptyTyped ==
  ASSUME NEW h, NEW l
  PROVE  Typed(h, <<>>, l, 0)
<1>1. Shorter(0, LineMax) = 0
  BY ConsoleLineAssumption DEF Shorter
<1>2. <<>> = [i \in 1..0 |-> Char(l, i)]
  OBVIOUS
<1> QED
  BY <1>1, <1>2 DEF Typed

\* The host's three actions.
LEMMA HostFits ==
  ASSUME LineInv, HostTypes \/ HostErases \/ HostEnds
  PROVE  LineInv'
<1> USE DEF LineInv, LineTypeOK
<1>1. PICK c : HostSends(c) /\ \/ c = Char(host.line, host.typed[host.line] + 1) /\ HostTypes
                               \/ c = BS /\ HostErases
                               \/ c = CR /\ HostEnds
  BY DEF HostTypes, HostErases, HostEnds
<1>2. /\ host.line \in 1..Lines /\ Len(fifo) < Fifo /\ fifo' = Append(fifo, c)
      /\ UNCHANGED <<rx_ringbuf, rx_sem, console, line_buf, lost>>
  BY <1>1 DEF HostSends, Hosts
<1>3. /\ host.typed \in [1..Lines -> Nat] /\ host.erased \in [1..Lines -> BOOLEAN]
      /\ host.typed[host.line] \in Nat /\ Lines \in Nat \ {0}
  BY <1>2, ConsoleLineAssumption DEF Hosts
<1> DEFINE h == host
           g == host'
<1>4. /\ c \in Sendable /\ g \in Hosts /\ h.line <= g.line
      /\ \A l \in 1..Lines : l < h.line => g.typed[l] = h.typed[l]
      /\ \A l \in 1..Lines : h.erased[l] => g.erased[l]
      /\ Leads(g, c, HostMark(h), HostMark(g))
  <2>1. CASE HostTypes /\ c = Char(h.line, h.typed[h.line] + 1)
    <3> DEFINE n == h.typed[h.line] + 1
    <3>1. n \in Nat /\ h.typed[h.line] < MaxTyped
      BY <1>3, <2>1 DEF HostTypes
    <3>2. PICK ty : ty = [h.typed EXCEPT ![h.line] = n]
      OBVIOUS
    <3>3. ty \in [1..Lines -> Nat] /\ ty[h.line] = n /\ \A l \in 1..Lines : l # h.line => ty[l] = h.typed[l]
      BY <1>2, <1>3, <3>1, <3>2
    <3>4. g = [h EXCEPT !.typed = ty]
      BY <2>1, <3>2 DEF HostTypes
    <3>5. g \in Hosts /\ g.line = h.line /\ g.typed = ty /\ g.erased = h.erased
      <4>1. g = [line |-> h.line, typed |-> ty, erased |-> h.erased]
        BY <3>4 DEF Hosts
      <4>2. PICK x, y : x = h.line /\ y = h.erased
        OBVIOUS
      <4>3. x \in 1..Lines + 1 /\ y \in [1..Lines -> BOOLEAN] /\ ty \in [1..Lines -> Nat]
        BY <1>2, <1>3, <3>3, <4>2
      <4>4. g = [line |-> x, typed |-> ty, erased |-> y]
        BY <4>1, <4>2
      <4>5. g \in Hosts
        BY <4>3, <4>4 DEF Hosts
      <4> QED
        BY <4>1, <4>5
    <3>6. c \in Chars
      <4>1. n \in 1..MaxTyped
        <5>1. PICK place \in Nat : place = h.typed[h.line]
          BY <1>3
        <5>2. MaxTyped \in Nat
          BY ConsoleLineAssumption
        <5>3. place < MaxTyped /\ n = place + 1
          BY <3>1, <5>1
        <5> QED
          BY <5>1, <5>2, <5>3
      <4>2. PICK x, k : x = h.line /\ k = n
        OBVIOUS
      <4>3. x \in 1..Lines /\ k \in 1..MaxTyped
        BY <1>2, <4>1, <4>2
      <4>4. c = [line |-> x, place |-> k]
        BY <2>1, <4>2 DEF Char
      <4> QED
        BY <4>3, <4>4 DEF Chars
    <3>7. HostMark(h) = [line |-> h.line, typed |-> h.typed[h.line]]
          /\ HostMark(g) = [line |-> h.line, typed |-> n]
      BY <1>2, <3>3, <3>5 DEF HostMark
    <3>8. Leads(g, c, HostMark(h), HostMark(g))
      BY <1>2, <2>1, <3>7 DEF Leads
    <3> QED
      BY <1>2, <1>3, <3>3, <3>5, <3>6, <3>8 DEF Sendable
  <2>2. CASE HostErases /\ c = BS
    <3>2. PICK er : er = [h.erased EXCEPT ![h.line] = TRUE]
      OBVIOUS
    <3>3. er \in [1..Lines -> BOOLEAN] /\ er[h.line] = TRUE /\ \A l \in 1..Lines : l # h.line => er[l] = h.erased[l]
      BY <1>2, <1>3, <3>2
    <3>4. g = [h EXCEPT !.erased = er]
      BY <2>2, <3>2 DEF HostErases
    <3>5. g \in Hosts /\ g.line = h.line /\ g.typed = h.typed /\ g.erased = er
      BY <3>3, <3>4 DEF Hosts
    <3>7. HostMark(h) = [line |-> h.line, typed |-> h.typed[h.line]] /\ HostMark(g) = HostMark(h)
      BY <1>2, <3>5 DEF HostMark
    <3>8. Leads(g, c, HostMark(h), HostMark(g))
      BY <1>2, <2>2, <3>3, <3>5, <3>7 DEF Leads
    <3>9. \A l \in 1..Lines : h.erased[l] => g.erased[l]
      BY <3>3, <3>5
    <3>10. c \in Sendable /\ h.line <= g.line /\ g.typed = h.typed
      BY <1>2, <2>2, <3>5 DEF Sendable
    <3> QED
      BY <3>5, <3>8, <3>9, <3>10
  <2>3. CASE HostEnds /\ c = CR
    <3>4. g = [h EXCEPT !.line = h.line + 1]
      BY <2>3 DEF HostEnds
    <3>5. g \in Hosts /\ g.line = h.line + 1 /\ g.typed = h.typed /\ g.erased = h.erased
      <4>1. h.line + 1 \in 1..Lines + 1
        BY <1>2, <1>3
      <4>2. g = [line |-> h.line + 1, typed |-> h.typed, erased |-> h.erased]
        BY <3>4 DEF Hosts
      <4> QED
        BY <1>3, <4>1, <4>2 DEF Hosts
    <3>6. h.line + 1 \in 1..Lines => h.typed[h.line + 1] = 0
      BY <1>2
    <3>7. HostMark(h) = [line |-> h.line, typed |-> h.typed[h.line]]
          /\ HostMark(g) = [line |-> h.line + 1, typed |-> 0]
      BY <1>2, <1>3, <3>5, <3>6 DEF HostMark
    <3>8. Leads(g, c, HostMark(h), HostMark(g))
      BY <1>2, <2>3, <3>5, <3>7 DEF Leads
    <3> QED
      BY <1>2, <2>3, <3>5, <3>8 DEF Sendable
  <2> QED
    BY <1>1, <2>1, <2>2, <2>3
<1>5. \A l \in 1..Lines : l > host'.line => host'.typed[l] = 0
  <2>1. CASE HostTypes
    BY <1>2, <1>3, <2>1 DEF HostTypes, Hosts
  <2>2. CASE HostErases
    BY <1>2, <2>2 DEF HostErases, Hosts
  <2>3. CASE HostEnds
    BY <1>2, <2>3 DEF HostEnds, Hosts
  <2> QED
    BY <1>1, <2>1, <2>2, <2>3
<1>6. Stream' = Append(Stream, c) /\ Stream \in Seq(Sendable)
  BY <1>2, <1>4, StreamGrows DEF Stream
<1>7. LineTypeOK'
  <2>1. fifo' \in Seq(Sendable) /\ Len(fifo') <= Fifo
    BY <1>2, <1>4, ConsoleLineAssumption
  <2> QED
    BY <1>2, <1>4, <2>1 DEF Hosts
<1>8. ASSUME ~lost PROVE Fits(g, console = "dispatch", line_buf, Append(Stream, c))
  <2>1. PICK m : Path(h, Stream, m) /\ Buffered(h, console = "dispatch", line_buf, m[1])
    BY <1>8 DEF Fits
  <2>2. m[1] \in Marks /\ m[1].line <= h.line
    <3>1. 1 \in 1..Len(Stream) + 1
      BY <1>6
    <3> QED
      BY <2>1, <3>1 DEF Path
  <2>3. PICK w : Path(g, Append(Stream, c), w) /\ w[1] = m[1]
    BY <1>4, <1>6, <2>1, PathGrows
  <2>4. Buffered(g, console = "dispatch", line_buf, m[1])
    BY <1>4, <2>1, <2>2, BufferStays
  <2> QED
    BY <2>3, <2>4 DEF Fits
<1> QED
  BY <1>2, <1>4, <1>5, <1>6, <1>7, <1>8

\* A batch comes in.
LEMMA BatchFits ==
  ASSUME LineInv, uart_irq_cb
  PROVE  LineInv'
<1> USE DEF LineInv, LineTypeOK
<1> DEFINE n   == Shorter(Len(fifo), Batch)
           fit == Shorter(n, RX_BUF_SIZE - Len(rx_ringbuf))
<1>1. /\ rx_ringbuf' = rx_ringbuf \o SubSeq(fifo, 1, fit) /\ fifo' = SubSeq(fifo, n + 1, Len(fifo))
      /\ lost' = (lost \/ fit < n) /\ rx_sem' = 1 /\ UNCHANGED <<host, console, line_buf>>
  BY DEF uart_irq_cb
<1>2. /\ Len(fifo) \in Nat /\ Len(rx_ringbuf) \in Nat /\ n \in 0..Len(fifo)
      /\ fit \in 0..n /\ fit <= RX_BUF_SIZE - Len(rx_ringbuf)
  BY ConsoleLineAssumption DEF Shorter
<1> HIDE DEF n, fit
<1>3. \A i \in 1..Len(fifo) : fifo[i] \in Sendable
  OBVIOUS
<1>4. SubSeq(fifo, 1, fit) \in Seq(Sendable) /\ Len(SubSeq(fifo, 1, fit)) = fit
  BY <1>2, <1>3, SubSeqProperties
<1>5. fifo' \in Seq(Sendable) /\ Len(fifo') <= Len(fifo)
  BY <1>1, <1>2, <1>3, SubSeqProperties
<1>6. rx_ringbuf' \in Seq(Sendable) /\ Len(rx_ringbuf') = Len(rx_ringbuf) + fit
  BY <1>1, <1>4, ConcatProperties
<1>7. LineTypeOK'
  <2>1. Len(rx_ringbuf') <= RX_BUF_SIZE /\ Len(fifo') <= Fifo
    BY <1>2, <1>5, <1>6, ConsoleLineAssumption
  <2>2. lost' \in BOOLEAN /\ rx_sem' \in {0, 1}
    BY <1>1
  <2> QED
    BY <1>1, <1>5, <1>6, <2>1, <2>2
<1>8. ASSUME ~lost' PROVE ~lost /\ Stream' = Stream
  <2>1. ~lost /\ ~(fit < n)
    BY <1>1, <1>8
  <2>2. fit = n
    BY <1>2, <2>1
  <2> QED
    BY <1>1, <1>2, <2>1, <2>2, StreamMoves DEF Stream
<1> QED
  BY <1>1, <1>7, <1>8

\* The console takes a character.
LEMMA ReceiveFits ==
  ASSUME LineInv, Receive
  PROVE  LineInv'
<1> USE DEF LineInv, LineTypeOK
<1> DEFINE c == Head(rx_ringbuf)
<1>1. /\ console = "get" /\ rx_ringbuf # <<>> /\ rx_ringbuf' = Tail(rx_ringbuf)
      /\ line_buf' = IF c = CR THEN line_buf
                     ELSE IF c = BS THEN Erased
                     ELSE IF Len(line_buf) < LineMax THEN Append(line_buf, c) ELSE line_buf
      /\ console' = (IF c = CR /\ line_buf # <<>> THEN "dispatch" ELSE "get")
      /\ UNCHANGED <<host, fifo, rx_sem, lost>>
  BY DEF Receive, AfterChar
<1>2. c \in Sendable /\ rx_ringbuf' \in Seq(Sendable) /\ Len(rx_ringbuf') <= RX_BUF_SIZE
  BY <1>1, HeadTailProperties, ConsoleLineAssumption
<1>3. Stream \in Seq(Sendable) /\ Stream # <<>> /\ Head(Stream) = c /\ Stream' = Tail(Stream)
  BY <1>1 DEF Stream
<1> HIDE DEF c
<1>4. line_buf' \in Seq(Chars) /\ Len(line_buf') <= LineMax
  <2>1. CASE line_buf' = line_buf
    BY <2>1
  <2>2. CASE line_buf' = Erased
    <3>1. Erased \in Seq(Chars) /\ Len(Erased) <= Len(line_buf)
      <4>1. CASE line_buf # <<>>
        <5>1. Len(line_buf) \in Nat /\ Len(line_buf) > 0 /\ Len(line_buf) - 1 \in Nat
          BY <4>1
        <5>2. \A i \in 1..Len(line_buf) - 1 : line_buf[i] \in Chars
          BY <5>1
        <5>3. /\ SubSeq(line_buf, 1, Len(line_buf) - 1) \in Seq(Chars)
              /\ Len(SubSeq(line_buf, 1, Len(line_buf) - 1)) <= Len(line_buf)
          BY <5>1, <5>2, SubSeqProperties
        <5> QED
          BY <4>1, <5>3 DEF Erased
      <4>2. CASE line_buf = <<>>
        BY <4>2 DEF Erased
      <4> QED
        BY <4>1, <4>2
    <3> QED
      BY <2>2, <3>1, ConsoleLineAssumption
  <2>3. CASE c \notin {CR, BS} /\ Len(line_buf) < LineMax /\ line_buf' = Append(line_buf, c)
    <3>1. c \in Chars
      BY <1>2, <2>3 DEF Sendable
    <3> QED
      BY <2>3, <3>1, ConsoleLineAssumption
  <2> QED
    BY <1>1, <2>1, <2>2, <2>3
<1>5. LineTypeOK'
  BY <1>1, <1>2, <1>4
<1>6. ASSUME ~lost PROVE Fits(host, console' = "dispatch", line_buf', Stream')
  <2>1. PICK m : Path(host, Stream, m) /\ Buffered(host, FALSE, line_buf, m[1])
    <3>1. (console = "dispatch") = FALSE
      BY <1>1
    <3> QED
      BY <1>6, <3>1 DEF Fits
  <2>2. /\ Leads(host, c, m[1], m[2]) /\ m[1] \in Marks /\ m[2] \in Marks
        /\ \E w : Path(host, Stream', w) /\ w[1] = m[2]
    BY <1>3, <2>1, PathShrinks
  <2>3. PICK l \in 1..Lines, k \in Nat : l = m[1].line /\ k = m[1].typed
    BY <2>2 DEF Leads, Marks
  <2>4. Typed(host, line_buf, l, k)
    BY <2>1, <2>3 DEF Buffered
  <2>5. Buffered(host, console' = "dispatch", line_buf', m[2])
    <3>1. CASE c = CR /\ m[2] = [line |-> l + 1, typed |-> 0] /\ host.typed[l] = k
      <4>1. line_buf' = line_buf /\ m[2].line = l + 1 /\ m[2].typed = 0
        BY <1>1, <3>1
      <4>2. CASE line_buf = <<>>
        <5>1. console' # "dispatch"
          BY <1>1, <4>2
        <5> QED
          BY <4>1, <4>2, <5>1, EmptyTyped DEF Buffered
      <4>3. CASE line_buf # <<>>
        <5>1. console' = "dispatch"
          BY <1>1, <3>1, <4>3
        <5>2. l + 1 - 1 = l /\ l + 1 > 1
          OBVIOUS
        <5> QED
          BY <2>4, <3>1, <4>1, <5>1, <5>2 DEF Buffered
      <4> QED
        BY <4>2, <4>3
    <3>2. CASE c = BS /\ m[2] = m[1] /\ host.erased[l]
      <4>1. line_buf' = Erased /\ console' # "dispatch"
        BY <1>1, <3>2, CharsAreNoControls
      <4>2. Typed(host, Erased, l, k)
        BY <2>4, <3>2, CharErased DEF Erased
      <4> QED
        BY <2>3, <3>2, <4>1, <4>2 DEF Buffered
    <3>3. CASE c = Char(l, k + 1) /\ m[2] = [line |-> l, typed |-> k + 1]
      <4>1. c # CR /\ c # BS
        BY <3>3, CharsAreNoControls
      <4>2. /\ line_buf' = IF Len(line_buf) < LineMax THEN Append(line_buf, Char(l, k + 1)) ELSE line_buf
            /\ console' # "dispatch"
        BY <1>1, <3>3, <4>1
      <4>3. Char(l, k + 1) \in Chars
        BY <1>2, <3>3, <4>1 DEF Sendable
      <4>4. Typed(host, line_buf', l, k + 1)
        BY <2>4, <4>2, <4>3, CharPut
      <4>5. m[2].line = l /\ m[2].typed = k + 1
        BY <3>3
      <4> QED
        BY <4>2, <4>4, <4>5 DEF Buffered
    <3> QED
      BY <2>2, <2>3, <3>1, <3>2, <3>3 DEF Leads
  <2> QED
    BY <2>2, <2>5 DEF Fits
<1> QED
  BY <1>1, <1>5, <1>6

\* The rest of what the console's thread does.
LEMMA ConsoleFits ==
  ASSUME LineInv, FoundEmpty \/ WakeUp \/ dispatch
  PROVE  LineInv'
<1> USE DEF LineInv, LineTypeOK
<1>1. CASE FoundEmpty \/ WakeUp
  <2>1. /\ UNCHANGED <<host, fifo, rx_ringbuf, line_buf, lost>>
        /\ console # "dispatch" /\ console' # "dispatch" /\ console' \in {"get", "sem"}
        /\ rx_sem' \in {0, 1}
    BY <1>1 DEF FoundEmpty, WakeUp
  <2>2. (console' = "dispatch") = (console = "dispatch") /\ Stream' = Stream
    BY <2>1 DEF Stream
  <2> QED
    BY <2>1, <2>2
<1>2. CASE dispatch
  <2>1. /\ UNCHANGED <<host, fifo, rx_ringbuf, rx_sem, lost>>
        /\ console = "dispatch" /\ console' = "get" /\ line_buf' = <<>>
    BY <1>2 DEF dispatch
  <2>2. Stream' = Stream
    BY <2>1 DEF Stream
  <2>3. LineTypeOK'
    <3>1. <<>> \in Seq(Chars) /\ Len(<<>>) = 0 /\ LineMax \in Nat
      BY ConsoleLineAssumption
    <3> QED
      BY <2>1, <3>1
  <2>4. ASSUME ~lost PROVE Fits(host, console' = "dispatch", <<>>, Stream)
    <3>1. PICK m : Path(host, Stream, m) /\ Buffered(host, console = "dispatch", line_buf, m[1])
      BY <2>4 DEF Fits
    <3>2. m[1].typed = 0
      BY <2>1, <3>1 DEF Buffered
    <3>3. Buffered(host, console' = "dispatch", <<>>, m[1])
      BY <2>1, <3>2, EmptyTyped DEF Buffered
    <3> QED
      BY <3>1, <3>3 DEF Fits
  <2> QED
    BY <2>1, <2>2, <2>3, <2>4
<1> QED
  BY <1>1, <1>2

\* Nothing has been typed yet.
LEMMA LineStart ==
  ASSUME LineInit
  PROVE  LineInv
<1>1. /\ host = [line |-> 1, typed |-> [l \in 1..Lines |-> 0], erased |-> [l \in 1..Lines |-> FALSE]]
      /\ fifo = <<>> /\ rx_ringbuf = <<>> /\ rx_sem = 0
      /\ console = "sem" /\ line_buf = <<>> /\ lost = FALSE
  BY DEF LineInit
<1>2. Lines \in Nat \ {0} /\ LineMax \in Nat /\ RX_BUF_SIZE \in Nat /\ Fifo \in Nat
  BY ConsoleLineAssumption
<1>3. /\ host \in Hosts /\ host.line = 1
      /\ \A l \in 1..Lines : host.typed[l] = 0
  BY <1>1, <1>2 DEF Hosts
<1>4. Stream = <<>>
  BY <1>1 DEF Stream
<1> DEFINE start == [line |-> 1, typed |-> 0]
           m == [i \in 1..1 |-> start]
<1>5. HostMark(host) = start /\ start \in Marks
  BY <1>2, <1>3 DEF HostMark, Marks
<1>6. Path(host, <<>>, m) /\ m[1] = start
  BY <1>3, <1>5 DEF Path
<1>7. Buffered(host, console = "dispatch", line_buf, start)
  BY <1>1, EmptyTyped DEF Buffered
<1>8. LineTypeOK
  <2>1. <<>> \in Seq(Sendable) /\ <<>> \in Seq(Chars) /\ Len(<<>>) = 0
    OBVIOUS
  <2>2. host.line \in 1..Lines + 1
    BY <1>2, <1>3
  <2>3. lost \in BOOLEAN
    BY <1>1
  <2>4. rx_sem \in {0, 1} /\ console \in {"get", "sem", "dispatch"}
    BY <1>1
  <2>5. /\ fifo \in Seq(Sendable) /\ Len(fifo) <= Fifo
        /\ rx_ringbuf \in Seq(Sendable) /\ Len(rx_ringbuf) <= RX_BUF_SIZE
        /\ line_buf \in Seq(Chars) /\ Len(line_buf) <= LineMax
    BY <1>1, <1>2, <2>1
  <2> QED
    BY <2>2, <2>3, <2>4, <2>5 DEF LineTypeOK
<1> QED
  BY <1>3, <1>4, <1>6, <1>7, <1>8 DEF LineInv, Fits

\* What it is for.
LEMMA RunsTyped ==
  ASSUME LineInv
  PROVE  RunsWhatWasTyped
<1> SUFFICES ASSUME console = "dispatch", ~lost
             PROVE  \E l \in 1..Lines :
                      /\ \A i \in 1..Len(line_buf) : line_buf[i].line = l
                      /\ \A i, j \in 1..Len(line_buf) : i < j => line_buf[i].place < line_buf[j].place
                      /\ ~host.erased[l] =>
                           line_buf = [i \in 1..Shorter(host.typed[l], LineMax) |-> Char(l, i)]
  BY DEF RunsWhatWasTyped
<1>1. PICK m : Path(host, Stream, m) /\ Buffered(host, console = "dispatch", line_buf, m[1])
  BY DEF LineInv, Fits
<1>2. m[1].line > 1 /\ Typed(host, line_buf, m[1].line - 1, host.typed[m[1].line - 1])
  BY <1>1 DEF Buffered
<1>3. m[1] \in Marks
  <2>1. Stream \in Seq(Sendable)
    BY DEF Stream, LineInv, LineTypeOK
  <2>2. 1 \in 1..Len(Stream) + 1
    BY <2>1
  <2> QED
    BY <1>1, <2>2 DEF Path
<1>4. PICK l \in 1..Lines : l = m[1].line - 1
  BY <1>2, <1>3, ConsoleLineAssumption DEF Marks
<1> QED
  BY <1>2, <1>4 DEF Typed

\* For every size of the ring, the buffer and the batch: while the ring never ran full, a command
\* that runs is one line as the host typed it.
THEOREM LinesRunAsTyped == LineSpec => []LinesRun
<1>1. LineInit => LineInv
  BY LineStart
<1>2. LineInv /\ [LineNext]_lineVars => LineInv'
  <2> SUFFICES ASSUME LineInv, [LineNext]_lineVars PROVE LineInv'
    OBVIOUS
  <2>1. CASE LineNext
    BY <2>1, HostFits, BatchFits, ReceiveFits, ConsoleFits DEF LineNext, ConsoleStep
  <2>2. CASE UNCHANGED lineVars
    BY <2>2 DEF lineVars, LineInv, LineTypeOK, Stream
  <2> QED
    BY <2>1, <2>2
<1>3. LineInv => LinesRun
  BY RunsTyped DEF LineInv, LinesRun
<1> QED
  BY <1>1, <1>2, <1>3, PTL DEF LineSpec

-----------------------------------------------------------------------------
(* The receiver's sentences.                                               *)

\* The bytes of the sentences sent so far.
Bytes == [of : 1..Len(sky), is : Fields \cup {"$", "*", "\n"}]

\* Every byte on its way, and in the line, is one of a sentence sent.
GpsInv ==
  /\ GpsTypeOK
  /\ wire \in Seq(Bytes) /\ s_rx_ringbuf \in Seq(Bytes) /\ s_line \in Seq(Bytes)

\* Bytes of some are bytes of more.
LEMMA SeqOfMore ==
  ASSUME NEW S, NEW T, S \subseteq T, NEW s \in Seq(S)
  PROVE  s \in Seq(T)
  OBVIOUS

\* A sentence in bytes.
LEMMA SentShape ==
  ASSUME NEW s, NEW type, NEW B, \A is \in Fields \cup {"$", "*"} : ByteOf(s, is) \in B
  PROVE  /\ Sent(s, type) \in Seq(B) /\ Len(Sent(s, type)) = 6
         /\ \A i \in 1..6 : Sent(s, type)[i].of = s
         /\ Sent(s, type)[2].is = "type"
         /\ Sent(s, type)[4].is = IF type = "GGA" THEN "position" ELSE "fix"
         /\ Sent(s, type)[5].is = IF type = "GGA" THEN "fix" ELSE "position"
<1> DEFINE gga    == <<"type", "time", "position", "fix">>
           other  == <<"type", "time", "fix", "position">>
           fields == IF type = "GGA" THEN gga ELSE other
           middle == [i \in 1..4 |-> ByteOf(s, fields[i])]
           first  == <<ByteOf(s, "$")>>
           last   == <<ByteOf(s, "*")>>
<1>1. \A i \in 1..4 : fields[i] \in Fields
  <2>1. \A i \in 1..4 : gga[i] \in Fields
    BY DEF Fields
  <2>2. \A i \in 1..4 : other[i] \in Fields
    BY DEF Fields
  <2> QED
    BY <2>1, <2>2
<1>2. /\ fields[1] = "type"
      /\ fields[3] = (IF type = "GGA" THEN "position" ELSE "fix")
      /\ fields[4] = (IF type = "GGA" THEN "fix" ELSE "position")
  OBVIOUS
<1> HIDE DEF fields
<1>3. middle \in Seq(B) /\ Len(middle) = 4 /\ \A i \in 1..4 : middle[i] = ByteOf(s, fields[i])
  <2>1. \A i \in 1..4 : ByteOf(s, fields[i]) \in B
    BY <1>1
  <2> QED
    BY <2>1
<1> HIDE DEF middle
<1>4. first \in Seq(B) /\ Len(first) = 1 /\ first[1] = ByteOf(s, "$")
  OBVIOUS
<1>5. last \in Seq(B) /\ Len(last) = 1 /\ last[1] = ByteOf(s, "*")
  OBVIOUS
<1> HIDE DEF first, last
<1>6. /\ first \o middle \in Seq(B) /\ Len(first \o middle) = 5
      /\ \A i \in 1..5 : (first \o middle)[i] = IF i <= 1 THEN first[i] ELSE middle[i - 1]
  <2>1. /\ first \o middle \in Seq(B) /\ Len(first \o middle) = Len(first) + Len(middle)
        /\ \A i \in 1..Len(first) + Len(middle) :
             (first \o middle)[i] = IF i <= Len(first) THEN first[i] ELSE middle[i - Len(first)]
    BY <1>3, <1>4, ConcatProperties
  <2> QED
    BY <1>3, <1>4, <2>1
<1> DEFINE front == first \o middle
<1> HIDE DEF front
<1>7. /\ front \o last \in Seq(B) /\ Len(front \o last) = 6
      /\ \A i \in 1..6 : (front \o last)[i] = IF i <= 5 THEN front[i] ELSE last[i - 5]
  <2>1. /\ front \o last \in Seq(B) /\ Len(front \o last) = Len(front) + Len(last)
        /\ \A i \in 1..Len(front) + Len(last) :
             (front \o last)[i] = IF i <= Len(front) THEN front[i] ELSE last[i - Len(front)]
    BY <1>5, <1>6, ConcatProperties DEF front
  <2> QED
    BY <1>5, <1>6, <2>1 DEF front
<1>8. Sent(s, type) = front \o last
  BY DEF Sent, front, first, middle, last, fields
<1>9. /\ Sent(s, type)[1] = ByteOf(s, "$") /\ Sent(s, type)[6] = ByteOf(s, "*")
      /\ \A i \in 1..4 : Sent(s, type)[i + 1] = ByteOf(s, fields[i])
  <2>1. (front \o last)[1] = first[1] /\ (front \o last)[6] = last[1]
    BY <1>6, <1>7 DEF front
  <2>2. ASSUME NEW i \in 1..4 PROVE (front \o last)[i + 1] = middle[i]
    <3>1. i + 1 \in 1..6 /\ i + 1 \in 1..5 /\ ~(i + 1 <= 1) /\ i + 1 <= 5 /\ (i + 1) - 1 = i
      OBVIOUS
    <3> QED
      BY <1>6, <1>7, <3>1 DEF front
  <2> QED
    BY <1>3, <1>4, <1>5, <1>8, <2>1, <2>2
<1>10. /\ Sent(s, type)[2] = ByteOf(s, fields[1]) /\ Sent(s, type)[3] = ByteOf(s, fields[2])
       /\ Sent(s, type)[4] = ByteOf(s, fields[3]) /\ Sent(s, type)[5] = ByteOf(s, fields[4])
  <2>1. 1 + 1 = 2 /\ 2 + 1 = 3 /\ 3 + 1 = 4 /\ 4 + 1 = 5
    OBVIOUS
  <2> QED
    BY <1>9, <2>1
<1>11. \A i \in 1..6 : Sent(s, type)[i].of = s
  <2>1. \A i \in 1..6 : i \in {1, 2, 3, 4, 5, 6}
    OBVIOUS
  <2> QED
    BY <1>9, <1>10, <2>1 DEF ByteOf
<1> QED
  BY <1>2, <1>7, <1>8, <1>10, <1>11 DEF ByteOf

\* A receiver sends one more.
LEMMA SendsTyped ==
  ASSUME GpsInv, NEW content \in Contents, GpsSends(content)
  PROVE  GpsInv'
<1> USE DEF GpsInv, GpsTypeOK
<1>1. /\ sky' = Append(sky, content) /\ Len(sky) < Sentences
      /\ wire' = Append(Sent(Len(sky'), content.type), ByteOf(Len(sky'), "\n"))
      /\ UNCHANGED <<s_rx_ringbuf, cut, s_line, s_fix_state, s_time, s_position>>
  BY DEF GpsSends
<1>2. sky' \in Seq(Contents) /\ Len(sky') = Len(sky) + 1 /\ Len(sky) \in Nat
  BY <1>1
<1>3. Len(sky') <= Sentences /\ 1..Len(sky) \subseteq 1..Len(sky') /\ Len(sky') \in 1..Len(sky')
  BY <1>1, <1>2, GpsAssumption
<1>4. \A is \in Fields \cup {"$", "*", "\n"} : ByteOf(Len(sky'), is) \in Bytes'
  BY <1>3 DEF ByteOf, Bytes
<1>5. Bytes \subseteq Bytes'
  BY <1>3 DEF Bytes
<1>6. wire' \in Seq(Bytes')
  <2> DEFINE n == Len(sky')
             B == Bytes'
  <2> HIDE DEF n, B
  <2>1. Sent(n, content.type) \in Seq(B)
    BY <1>4, SentShape DEF n, B
  <2>2. ByteOf(n, "\n") \in B
    BY <1>4 DEF n, B
  <2> QED
    BY <1>1, <2>1, <2>2 DEF n, B
<1>7. s_rx_ringbuf' \in Seq(Bytes') /\ s_line' \in Seq(Bytes')
  BY <1>1, <1>5, SeqOfMore
<1> QED
  BY <1>1, <1>2, <1>3, <1>6, <1>7

\* The interrupt takes a batch.
LEMMA IrqTyped ==
  ASSUME GpsInv, gps_irq_cb
  PROVE  GpsInv'
<1> USE DEF GpsInv, GpsTypeOK
<1> DEFINE room == GPS_RX_BUF_SIZE - Len(s_rx_ringbuf)
           n    == IF Len(wire) < GpsBatch THEN Len(wire) ELSE GpsBatch
           fit  == IF n < room THEN n ELSE room
<1>1. /\ s_rx_ringbuf' = s_rx_ringbuf \o SubSeq(wire, 1, fit)
      /\ wire' = SubSeq(wire, n + 1, Len(wire))
      /\ cut' = cut \cup {wire[i].of : i \in fit + 1..n}
      /\ UNCHANGED <<sky, s_line, s_fix_state, s_time, s_position>>
  BY DEF gps_irq_cb
<1>2. /\ Len(s_rx_ringbuf) \in Nat /\ Len(wire) \in Nat /\ room \in Nat
      /\ n \in 0..Len(wire) /\ fit \in 0..n /\ fit <= room
  BY GpsAssumption
<1> HIDE DEF n, fit
<1>3. Bytes' = Bytes
  BY <1>1 DEF Bytes
<1>4. \A i \in 1..Len(wire) : wire[i] \in Bytes
  OBVIOUS
<1>5. SubSeq(wire, 1, fit) \in Seq(Bytes) /\ Len(SubSeq(wire, 1, fit)) = fit
  BY <1>2, <1>4, SubSeqProperties
<1>6. s_rx_ringbuf' \in Seq(Bytes) /\ Len(s_rx_ringbuf') = Len(s_rx_ringbuf) + fit
  BY <1>1, <1>5, ConcatProperties
<1>7. wire' \in Seq(Bytes)
  BY <1>1, <1>2, <1>4, SubSeqProperties
<1>8. Len(s_rx_ringbuf') <= GPS_RX_BUF_SIZE
  BY <1>2, <1>6, GpsAssumption
<1>9. cut' \subseteq 1..Sentences
  <2>1. \A i \in fit + 1..n : wire[i].of \in 1..Len(sky)
    BY <1>2, <1>4 DEF Bytes
  <2>2. 1..Len(sky) \subseteq 1..Sentences
    BY GpsAssumption
  <2> QED
    BY <1>1, <2>1, <2>2
<1> QED
  BY <1>1, <1>3, <1>6, <1>7, <1>8, <1>9

\* What a parsed line leaves.
LEMMA ParsedTyped ==
  ASSUME GpsInv, parse_sentence(s_line)
  PROVE  /\ s_fix_state' \in {"NONE", "SEARCHING", "ACQUIRED"}
         /\ s_time' \in 0..Sentences /\ s_position' \in 0..Sentences
<1> USE DEF GpsInv, GpsTypeOK
<1>1. \A i \in 1..Len(s_line) : s_line[i].of \in 0..Sentences
  <2>1. Len(sky) \in Nat /\ Len(sky) <= Sentences
    OBVIOUS
  <2>2. \A i \in 1..Len(s_line) : s_line[i] \in Bytes
    OBVIOUS
  <2>3. \A i \in 1..Len(s_line) : s_line[i].of \in 1..Len(sky)
    BY <2>2 DEF Bytes
  <2> QED
    BY <2>1, <2>3, GpsAssumption
<1>2. Len(s_line) \in Nat
  OBVIOUS
<1>3. CASE Evaluated(s_line)
  <2>1. PICK type : Evaluate(s_line, type)
    BY <1>3 DEF parse_sentence
  <2>2. s_fix_state' \in {"NONE", "SEARCHING", "ACQUIRED"}
    BY <2>1 DEF Evaluate, Fix
  <2>3. s_time' \in 0..Sentences
    BY <1>1, <1>2, <2>1 DEF Evaluate, TimeReads, FieldIs
  <2>4. s_position' \in 0..Sentences
    BY <1>1, <1>2, <2>1 DEF Evaluate, HeldPosition, PositionReads, PositionAt, FieldIs
  <2> QED
    BY <2>2, <2>3, <2>4
<1>4. CASE ~Evaluated(s_line)
  BY <1>4 DEF parse_sentence
<1> QED
  BY <1>3, <1>4

\* The poll takes a byte.
LEMMA PollTyped ==
  ASSUME GpsInv, gps_poll
  PROVE  GpsInv'
<1> USE DEF GpsInv, GpsTypeOK
<1> DEFINE byte == Head(s_rx_ringbuf)
<1>1. /\ s_rx_ringbuf # <<>> /\ s_rx_ringbuf' = Tail(s_rx_ringbuf)
      /\ s_line' = IF byte.is = "\n" THEN <<>> ELSE LineWith(byte)
      /\ parse_sentence(s_line) \/ UNCHANGED <<s_fix_state, s_time, s_position>>
      /\ UNCHANGED <<sky, wire, cut>>
  BY DEF gps_poll
<1>2. Bytes' = Bytes
  BY <1>1 DEF Bytes
<1>3. byte \in Bytes /\ s_rx_ringbuf' \in Seq(Bytes) /\ Len(s_rx_ringbuf') <= GPS_RX_BUF_SIZE
  BY <1>1, HeadTailProperties, GpsAssumption
<1>4. /\ s_fix_state' \in {"NONE", "SEARCHING", "ACQUIRED"}
      /\ s_time' \in 0..Sentences /\ s_position' \in 0..Sentences
  BY <1>1, ParsedTyped
<1> HIDE DEF byte
<1>5. /\ s_line' \in Seq(Bytes) /\ Len(s_line') <= GPS_LINE_MAX - 1
      /\ (s_line' # <<>> => s_line'[1].is = "$")
  <2>1. CASE s_line' = <<>>
    BY <2>1, GpsAssumption
  <2>2. CASE s_line' = <<byte>> /\ byte.is = "$"
    BY <1>3, <2>2, GpsAssumption
  <2>3. CASE s_line # <<>> /\ Len(s_line) < GPS_LINE_MAX - 1 /\ s_line' = Append(s_line, byte)
    <3>1. Len(s_line) \in Nat /\ Len(s_line) # 0
      BY <2>3, EmptySeq
    <3>2. /\ Append(s_line, byte) \in Seq(Bytes) /\ Len(Append(s_line, byte)) = Len(s_line) + 1
          /\ Append(s_line, byte)[1] = s_line[1]
      BY <1>3, <3>1
    <3> QED
      BY <2>3, <3>1, <3>2, GpsAssumption
  <2> QED
    BY <1>1, <2>1, <2>2, <2>3 DEF LineWith
<1> QED
  BY <1>1, <1>2, <1>3, <1>4, <1>5

\* The first "*" of a line that has one.
LEMMA FirstStar ==
  ASSUME NEW line \in Seq(Bytes), Is(line, "*") # {}
  PROVE  \E i \in Is(line, "*") : \A j \in Is(line, "*") : i <= j
<1> DEFINE Stars == Is(line, "*")
<1>1. Stars \subseteq Nat
  BY DEF Is
<1>2. PICK i \in Stars : \A j \in Stars : <<j, i>> \notin OpToRel(<, Nat)
  BY <1>1, WFMin, NatLessThanWellFounded
<1>3. \A j \in Stars : ~(j < i)
  BY <1>1, <1>2 DEF OpToRel
<1>4. \A j \in Stars : i <= j
  BY <1>1, <1>3
<1> QED
  BY <1>4

\* A line whose checksum is right up to its first "*" is a sentence's.
LEMMA WholeSentence ==
  ASSUME NEW line \in Seq(Bytes), checksum_ok(line), Is(line, "*") # {}
  PROVE  \E s \in 1..Len(sky) :
           /\ \A k \in 1..6 : line[k].of = s
           /\ line[4].is = IF sky[s].type = "GGA" THEN "position" ELSE "fix"
           /\ line[5].is = IF sky[s].type = "GGA" THEN "fix" ELSE "position"
<1>1. PICK i \in Is(line, "*") : \A j \in Is(line, "*") : i <= j
  BY FirstStar
<1>2. i \in 1..Len(line) /\ line[i].of \in 1..Len(sky)
  <2>1. i \in 1..Len(line)
    BY <1>1 DEF Is
  <2>2. line[i] \in Bytes
    BY <2>1
  <2> QED
    BY <2>1, <2>2 DEF Bytes
<1>3. PICK s \in 1..Len(sky) : s = line[i].of
  BY <1>2
<1>4. SubSeq(line, 1, i) = Sent(s, sky[s].type)
  BY <1>1, <1>3 DEF checksum_ok
<1>5. \A is \in Fields \cup {"$", "*"} : ByteOf(s, is) \in Bytes
  BY DEF ByteOf, Bytes
<1>6. /\ Len(SubSeq(line, 1, i)) = i
      /\ \A k \in 1..i : SubSeq(line, 1, i)[k] = line[k]
  <2>1. \A k \in 1..i : line[k] \in Bytes
    BY <1>2
  <2>2. \A k \in 1..i : 1 + k - 1 = k
    OBVIOUS
  <2>3. i \in Int /\ 1 <= i /\ i - 1 + 1 = i
    BY <1>2
  <2> QED
    BY <2>1, <2>2, <2>3, SubSeqProperties
<1>7. PICK type : type = sky[s].type
  OBVIOUS
<1>8. /\ Len(Sent(s, type)) = 6 /\ \A k \in 1..6 : Sent(s, type)[k].of = s
      /\ Sent(s, type)[4].is = IF type = "GGA" THEN "position" ELSE "fix"
      /\ Sent(s, type)[5].is = IF type = "GGA" THEN "fix" ELSE "position"
  BY <1>5, SentShape
<1>9. i = 6
  BY <1>4, <1>6, <1>7, <1>8
<1>10. \A k \in 1..6 : Sent(s, type)[k] = line[k]
  BY <1>4, <1>6, <1>7, <1>9
<1> QED
  BY <1>7, <1>8, <1>10

\* A position is taken from a valid sentence, or from a line that lost its checksum.
LEMMA TakesValid ==
  ASSUME GpsInv, gps_poll, s_position' # s_position, Is(s_line, "*") # {}
  PROVE  sky[s_position'].fix /\ sky[s_position'].readable
<1>1. parse_sentence(s_line) /\ s_line \in Seq(Bytes)
  BY DEF gps_poll, GpsInv
<1>2. Evaluated(s_line) /\ Evaluate(s_line, Field(s_line, 1).type)
  BY <1>1 DEF parse_sentence
<1>3. PICK s \in 1..Len(sky) :
        /\ \A k \in 1..6 : s_line[k].of = s
        /\ s_line[4].is = IF sky[s].type = "GGA" THEN "position" ELSE "fix"
        /\ s_line[5].is = IF sky[s].type = "GGA" THEN "fix" ELSE "position"
  BY <1>1, <1>2, WholeSentence DEF Evaluated
<1>4. PICK type : type = sky[s].type
  OBVIOUS
<1>5. Field(s_line, 1) = sky[s] /\ Field(s_line, 3) = sky[s] /\ Field(s_line, 4) = sky[s]
  BY <1>3 DEF Field
<1>6. s_position' = HeldPosition(s_line, type)
  BY <1>2, <1>4, <1>5 DEF Evaluate
<1>7. FixValid(s_line, type) /\ PositionReads(s_line, type) /\ s_position' = s_line[PositionAt(type) + 1].of
  BY <1>6 DEF HeldPosition
<1>8. type \in {"RMC", "GGA"}
  <2>1. type # "other"
    BY <1>2, <1>4, <1>5 DEF Evaluated
  <2>2. sky[s] \in Contents
    BY DEF GpsInv, GpsTypeOK
  <2> QED
    BY <1>4, <2>1, <2>2, GpsAssumption
<1>9. s_position' = s /\ Field(s_line, PositionAt(type)) = sky[s]
  BY <1>3, <1>5, <1>7, <1>8 DEF PositionAt
<1>10. sky[s].readable
  BY <1>7, <1>9 DEF PositionReads
<1>11. sky[s].fix
  <2>1. CASE type = "RMC"
    BY <1>5, <1>7, <2>1 DEF FixValid
  <2>2. CASE type = "GGA"
    <3>1. Len(s_line) > 4
      <4>1. Len(s_line) >= 5 /\ Len(s_line) \in Nat
        BY <1>1, <1>2 DEF Evaluated
      <4> QED
        BY <4>1
    <3>2. FieldIs(s_line, 4, "fix")
      BY <1>3, <1>4, <2>2, <3>1 DEF FieldIs
    <3> QED
      BY <1>5, <1>7, <2>2, <3>2 DEF FixValid
  <2> QED
    BY <1>8, <2>1, <2>2
<1> QED
  BY <1>9, <1>10, <1>11

\* For every ring, batch and line buffer, whatever bytes are lost: a position that is taken is
\* one the receiver vouched for, unless the line lost its checksum with the bytes.
THEOREM PositionsAreValid == GpsSpec => GpsTrue
<1>1. GpsInit => GpsInv
  BY GpsAssumption DEF GpsInit, GpsInv, GpsTypeOK
<1>2. ASSUME GpsInv, [GpsNext]_gpsVars
      PROVE  /\ GpsInv'
             /\ s_position' # s_position =>
                  \/ sky[s_position'].fix /\ sky[s_position'].readable
                  \/ Is(s_line, "*") = {}
  <2>1. CASE \E content \in Contents : GpsSends(content)
    BY <1>2, <2>1, SendsTyped DEF GpsSends
  <2>2. CASE gps_irq_cb
    BY <1>2, <2>2, IrqTyped DEF gps_irq_cb
  <2>3. CASE gps_poll
    BY <1>2, <2>3, PollTyped, TakesValid
  <2>4. CASE UNCHANGED gpsVars
    BY <1>2, <2>4 DEF gpsVars, GpsInv, GpsTypeOK, Bytes
  <2> QED
    BY <1>2, <2>1, <2>2, <2>3, <2>4 DEF GpsNext
<1>3. GpsInv => GpsTypeOK
  BY DEF GpsInv
<1> QED
  BY <1>1, <1>2, <1>3, PTL DEF GpsSpec, GpsTrue, PositionIsValid
=============================================================================
