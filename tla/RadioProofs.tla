------------------------------ MODULE RadioProofs ------------------------------
(***************************************************************************)
(* Proofs about At1846s.  For any number of callers beside the squelch     *)
(* thread, any frequencies, bandwidths and tones, and any number of failed *)
(* transfers: the write cache is what page 0 of the chip has, and the chip *)
(* is on the frequency and bandwidth that were set (CacheTrue,             *)
(* FrequencyTook).  For one caller, whose steps nobody else's can part:    *)
(* the page returns (PageReturns) and the tone detector stands             *)
(* (DetectorStands).                                                       *)
(***************************************************************************)
EXTENDS At1846s, SequenceTheorems, TLAPS

Values == Freqs \cup Bandwidths \cup Tones \cup {0, 1, Unknown}
States == [chip : [page : {0, 1}, reg : Field], bank : [current : {0, 1}, cache : [{0, 1} -> Field]]]

\* A write of a section: the fields of registers, or the select of a page.
IsWord(w)   == DOMAIN w \subseteq Reg /\ \A r \in DOMAIN w : w[r] \in Values
IsSelect(w) == w = [PAGE |-> 0] \/ w = [PAGE |-> 1]

\* Driver and chip are on page 0, and the cache is true.
Good(s) == /\ s \in States /\ s.chip.page = 0 /\ s.bank.current = 0
           /\ s.chip.reg = s.bank.cache[0]

-----------------------------------------------------------------------------
(* One write.                                                               *)

\* The values a register can have, by one name.
LEMMA FieldIs == Field = [Reg -> Values]
  BY DEF Field, Values

\* Writing some fields of a register file gives a register file.
LEMMA OntoField ==
  ASSUME NEW reg \in Field, NEW w, IsWord(w)
  PROVE  Onto(reg, w) \in Field
  BY FieldIs DEF Onto, IsWord

\* A page select is told from a write, and names one of the two pages.
LEMMA SelectIs ==
  ASSUME NEW w, IsSelect(w)
  PROVE  IsPage(w) /\ w.PAGE \in {0, 1}
  BY DEF IsSelect, IsPage

\* A write is told from a page select.
LEMMA WordIsNoPage == ASSUME NEW w, IsWord(w) PROVE ~IsPage(w)
  BY DEF IsWord, IsPage, Reg

\* A modify is a word as well.
LEMMA ModifyIsWord ==
  ASSUME NEW s \in States, NEW w, IsWord(w)
  PROVE  IsWord(at1846s_modify_reg_locked(s, w))
<1>1. CASE DOMAIN w = {"RX"}
  <2> DEFINE other == IF s.chip.page = 0 THEN s.chip.reg.BW ELSE Unknown
  <2>1. s.chip.reg \in [Reg -> Values]
    BY FieldIs DEF States
  <2>2. other \in Values
    BY <2>1 DEF Reg, Values
  <2>3. w.RX \in Values
    BY <1>1 DEF IsWord
  <2> HIDE DEF other
  <2>4. IsWord([RX |-> w.RX, BW |-> other])
    BY <2>2, <2>3 DEF IsWord, Reg
  <2> QED
    BY <1>1, <2>4 DEF at1846s_modify_reg_locked, other
<1>2. CASE DOMAIN w # {"RX"}
  BY <1>2 DEF at1846s_modify_reg_locked
<1> QED
  BY <1>1, <1>2

\* A write leaves nothing in the driver before its transfer.
LEMMA AnnounceWord == ASSUME NEW s, NEW w, IsWord(w) PROVE Announce(s, w) = s
  BY WordIsNoPage DEF Announce

\* A page select leaves the page in current_bank before its transfer.
LEMMA AnnounceSelect ==
  ASSUME NEW s \in States, NEW p \in {0, 1}
  PROVE  /\ Announce(s, [PAGE |-> p]) \in States
         /\ Announce(s, [PAGE |-> p]).bank.current = p
         /\ Announce(s, [PAGE |-> p]).chip = s.chip
         /\ Announce(s, [PAGE |-> p]).bank.cache = s.bank.cache
  BY DEF Announce, IsPage, States

\* A page select changes the page and nothing else (at1846s_write_reg_locked).
LEMMA WriteSelect ==
  ASSUME NEW s \in States, NEW p \in {0, 1}, NEW u,
         u = at1846s_write_reg_locked(s, [PAGE |-> p])
  PROVE  /\ u \in States /\ u.bank.current = p /\ u.chip.page = p
         /\ u.chip.reg = s.chip.reg /\ u.bank.cache = s.bank.cache
<1> DEFINE a == Announce(s, [PAGE |-> p])
<1>1. a \in States /\ a.bank.current = p /\ a.chip = s.chip /\ a.bank.cache = s.bank.cache
  BY AnnounceSelect
<1>2. u = Selected(s, [PAGE |-> p])
  BY DEF at1846s_write_reg_locked, IsPage
<1>3. u = [a EXCEPT !.chip.page = p]
  BY <1>2 DEF Selected
<1> HIDE DEF a
<1> QED
  BY <1>1, <1>3 DEF States

\* A state of chip and driver, field by field.
LEMMA StateFacts ==
  ASSUME NEW s \in States
  PROVE  /\ s = [chip |-> s.chip, bank |-> s.bank]
         /\ s.chip = [page |-> s.chip.page, reg |-> s.chip.reg]
         /\ s.bank = [current |-> s.bank.current, cache |-> s.bank.cache]
         /\ s.chip.page \in {0, 1} /\ s.bank.current \in {0, 1}
         /\ s.chip.reg \in Field /\ s.bank.cache \in [{0, 1} -> Field]
  BY DEF States

\* What a write of a word does, once the read of a modify is in it.
LEMMA WriteWordIs ==
  ASSUME NEW s \in States, NEW w, IsWord(w), NEW word, word = at1846s_modify_reg_locked(s, w)
  PROVE  /\ Cached(s, word) => at1846s_write_reg_locked(s, w) = s
         /\ ~Cached(s, word) => at1846s_write_reg_locked(s, w) =
              [chip |-> [page |-> s.chip.page,
                         reg |-> IF s.chip.page = 0 THEN Onto(s.chip.reg, word) ELSE s.chip.reg],
               bank |-> [current |-> s.bank.current,
                         cache |-> [s.bank.cache EXCEPT ![s.bank.current] = Onto(@, word)]]]
<1>1. ~IsPage(w)
  BY WordIsNoPage
<1>2. at1846s_write_reg_locked(s, w) = IF Cached(s, word) THEN s ELSE Stored(s, word)
  BY <1>1 DEF at1846s_write_reg_locked
<1>3. Stored(s, word) =
        [chip |-> [page |-> s.chip.page,
                   reg |-> IF s.chip.page = 0 THEN Onto(s.chip.reg, word) ELSE s.chip.reg],
         bank |-> [current |-> s.bank.current,
                   cache |-> [s.bank.cache EXCEPT ![s.bank.current] = Onto(@, word)]]]
  <2>1. /\ s.chip = [page |-> s.chip.page, reg |-> s.chip.reg]
        /\ s.bank = [current |-> s.bank.current, cache |-> s.bank.cache]
    BY StateFacts
  <2>2. [s.chip EXCEPT !.reg = Onto(@, word)] = [page |-> s.chip.page, reg |-> Onto(s.chip.reg, word)]
    BY <2>1
  <2>3. [s.bank EXCEPT !.cache[s.bank.current] = Onto(@, word)] =
          [current |-> s.bank.current,
           cache |-> [s.bank.cache EXCEPT ![s.bank.current] = Onto(@, word)]]
    BY <2>1
  <2> QED
    BY <2>1, <2>2, <2>3 DEF Stored
<1> QED
  BY <1>2, <1>3

\* A write, suppressed or not, keeps the types.
LEMMA WriteWordTyped ==
  ASSUME NEW s \in States, NEW w, IsWord(w)
  PROVE  /\ at1846s_write_reg_locked(s, w) \in States
         /\ at1846s_write_reg_locked(s, w).chip.page = s.chip.page
         /\ at1846s_write_reg_locked(s, w).bank.current = s.bank.current
<1> DEFINE word == at1846s_modify_reg_locked(s, w)
<1>1. IsWord(word) /\ ~IsPage(w)
  BY ModifyIsWord, WordIsNoPage
<1>2. /\ s.chip.reg \in Field /\ s.bank.cache \in [{0, 1} -> Field] /\ s.bank.current \in {0, 1}
      /\ s.bank.cache[s.bank.current] \in Field
  BY DEF States
<1>3. Onto(s.chip.reg, word) \in Field /\ Onto(s.bank.cache[s.bank.current], word) \in Field
  BY <1>1, <1>2, OntoField
<1>4. CASE Cached(s, word)
  BY <1>4, WriteWordIs
<1>5. CASE ~Cached(s, word)
  <2> DEFINE reg == IF s.chip.page = 0 THEN Onto(s.chip.reg, word) ELSE s.chip.reg
             cache == [s.bank.cache EXCEPT ![s.bank.current] = Onto(@, word)]
  <2>1. at1846s_write_reg_locked(s, w) =
          [chip |-> [page |-> s.chip.page, reg |-> reg],
           bank |-> [current |-> s.bank.current, cache |-> cache]]
    BY <1>5, WriteWordIs
  <2>2. reg \in Field
    BY <1>2, <1>3
  <2>3. cache \in [{0, 1} -> Field]
    BY <1>2, <1>3
  <2> HIDE DEF reg, cache, word
  <2> QED
    BY <2>1, <2>2, <2>3, StateFacts DEF States
<1> QED
  BY <1>4, <1>5

\* With a true cache a write takes, suppressed or not.
LEMMA WriteWordGood ==
  ASSUME NEW s, Good(s), NEW w, IsWord(w)
  PROVE  /\ Good(at1846s_write_reg_locked(s, w))
         /\ \A r \in Reg : at1846s_write_reg_locked(s, w).chip.reg[r] =
                             IF r \in DOMAIN w THEN w[r] ELSE s.chip.reg[r]
<1> DEFINE word == at1846s_modify_reg_locked(s, w)
           u == at1846s_write_reg_locked(s, w)
<1>1. IsWord(word) /\ ~IsPage(w) /\ s \in States
  BY ModifyIsWord, WordIsNoPage DEF Good
<1>2. u \in States /\ u.chip.page = 0 /\ u.bank.current = 0
  BY <1>1, WriteWordTyped DEF Good
<1>3. s.chip.reg = s.bank.cache[0] /\ s.chip.page = 0 /\ s.bank.current = 0
  BY DEF Good
<1>4. s.chip.reg \in Field /\ s.bank.cache \in [{0, 1} -> Field]
  BY <1>1, StateFacts
<1>5. \A r \in Reg : Onto(s.chip.reg, word)[r] = IF r \in DOMAIN w THEN w[r] ELSE s.chip.reg[r]
  <2>1. CASE DOMAIN w = {"RX"}
    <3>1. word = [RX |-> w.RX, BW |-> s.chip.reg.BW]
      BY <2>1, <1>3 DEF at1846s_modify_reg_locked
    <3>2. DOMAIN word = {"RX", "BW"} /\ word["RX"] = w["RX"] /\ word["BW"] = s.chip.reg["BW"]
      BY <3>1
    <3> HIDE DEF word
    <3> QED
      BY <2>1, <3>2 DEF Onto
  <2>2. CASE DOMAIN w # {"RX"}
    BY <2>2 DEF at1846s_modify_reg_locked, Onto
  <2> QED
    BY <2>1, <2>2
<1>6. /\ Cached(s, word) => u = s
      /\ ~Cached(s, word) => u =
           [chip |-> [page |-> s.chip.page,
                      reg |-> IF s.chip.page = 0 THEN Onto(s.chip.reg, word) ELSE s.chip.reg],
            bank |-> [current |-> s.bank.current,
                      cache |-> [s.bank.cache EXCEPT ![s.bank.current] = Onto(@, word)]]]
  BY <1>1, WriteWordIs
<1> HIDE DEF u, word
<1>7. CASE Cached(s, word)
  <2>1. u = s
    BY <1>6, <1>7
  <2>2. \A r \in DOMAIN word : s.chip.reg[r] = word[r]
    BY <1>3, <1>7 DEF Cached
  <2>3. \A r \in Reg : Onto(s.chip.reg, word)[r] = s.chip.reg[r]
    BY <2>2 DEF Onto
  <2> QED
    BY <2>1, <2>3, <1>5 DEF u
<1>8. CASE ~Cached(s, word)
  <2>1. u.chip.reg = Onto(s.chip.reg, word)
    BY <1>3, <1>6, <1>8
  <2>2. u.bank.cache[0] = Onto(s.bank.cache[0], word)
    BY <1>3, <1>4, <1>6, <1>8
  <2>3. Good(u)
    BY <1>2, <1>3, <2>1, <2>2 DEF Good
  <2> QED
    BY <2>1, <2>3, <1>5 DEF u
<1> QED
  BY <1>7, <1>8

-----------------------------------------------------------------------------
(* A section's writes.                                                      *)

IsWrite(w) == IsWord(w) \/ IsSelect(w)

\* So does every transfer of a section.
LEMMA WriteTyped ==
  ASSUME NEW s \in States, NEW w, IsWrite(w)
  PROVE  at1846s_write_reg_locked(s, w) \in States /\ Announce(s, w) \in States
<1>1. CASE IsWord(w)
  BY <1>1, WriteWordTyped, AnnounceWord
<1>2. CASE IsSelect(w)
  BY <1>2, WriteSelect, AnnounceSelect DEF IsSelect
<1> QED
  BY <1>1, <1>2 DEF IsWrite

\* And any number of them.
LEMMA WriteFirstTyped ==
  ASSUME NEW s \in States, NEW ws, NEW n \in 0..4, \A i \in 1..n : IsWrite(ws[i])
  PROVE  WriteFirst(n, s, ws) \in States
<1> DEFINE W(u, i) == IF i <= n THEN at1846s_write_reg_locked(u, ws[i]) ELSE u
<1>1. \A u \in States, i \in 1..4 : W(u, i) \in States
  BY WriteTyped
<1>2. WriteFirst(n, s, ws) = W(W(W(W(s, 1), 2), 3), 4)
  BY DEF WriteFirst
<1> HIDE DEF W
<1>3. W(s, 1) \in States
  BY <1>1
<1>4. W(W(s, 1), 2) \in States
  BY <1>1, <1>3
<1>5. W(W(W(s, 1), 2), 3) \in States
  BY <1>1, <1>4
<1> QED
  BY <1>1, <1>2, <1>5

\* Writes on page 0 keep driver and chip in agreement.
LEMMA WriteFirstGood ==
  ASSUME NEW s, Good(s), NEW ws, NEW n \in 0..4, \A i \in 1..n : IsWord(ws[i])
  PROVE  Good(WriteFirst(n, s, ws))
<1> DEFINE W(u, i) == IF i <= n THEN at1846s_write_reg_locked(u, ws[i]) ELSE u
<1>1. \A u : \A i \in 1..4 : Good(u) => Good(W(u, i))
  BY WriteWordGood
<1>2. WriteFirst(n, s, ws) = W(W(W(W(s, 1), 2), 3), 4)
  BY DEF WriteFirst
<1> HIDE DEF W
<1>3. Good(W(s, 1))
  BY <1>1
<1>4. Good(W(W(s, 1), 2))
  BY <1>1, <1>3
<1>5. Good(W(W(W(s, 1), 2), 3))
  BY <1>1, <1>4
<1> QED
  BY <1>1, <1>2, <1>5

\* A register is written by the last write that has it, or not at all.
LEMMA WriteFirstKeeps ==
  ASSUME NEW s, Good(s), NEW ws, NEW n \in 0..4, \A i \in 1..n : IsWord(ws[i]),
         NEW r \in Reg, \A i \in 1..n : r \notin DOMAIN ws[i]
  PROVE  WriteFirst(n, s, ws).chip.reg[r] = s.chip.reg[r]
<1> DEFINE W(u, i) == IF i <= n THEN at1846s_write_reg_locked(u, ws[i]) ELSE u
<1>1. \A u : \A i \in 1..4 : Good(u) => Good(W(u, i)) /\ W(u, i).chip.reg[r] = u.chip.reg[r]
  BY WriteWordGood
<1>2. WriteFirst(n, s, ws) = W(W(W(W(s, 1), 2), 3), 4)
  BY DEF WriteFirst
<1> HIDE DEF W
<1>3. Good(W(s, 1)) /\ W(s, 1).chip.reg[r] = s.chip.reg[r]
  BY <1>1
<1>4. Good(W(W(s, 1), 2)) /\ W(W(s, 1), 2).chip.reg[r] = s.chip.reg[r]
  BY <1>1, <1>3
<1>5. Good(W(W(W(s, 1), 2), 3)) /\ W(W(W(s, 1), 2), 3).chip.reg[r] = s.chip.reg[r]
  BY <1>1, <1>4
<1> QED
  BY <1>1, <1>2, <1>5

\* The last of the writes that names a field decides it.
LEMMA WriteFirstTakes ==
  ASSUME NEW s, Good(s), NEW ws, NEW n \in 1..4, \A i \in 1..n : IsWord(ws[i]),
         NEW r \in Reg, NEW k \in 1..n, r \in DOMAIN ws[k],
         \A i \in 1..n : i > k => r \notin DOMAIN ws[i]
  PROVE  WriteFirst(n, s, ws).chip.reg[r] = ws[k][r]
<1> DEFINE W(u, i) == IF i <= n THEN at1846s_write_reg_locked(u, ws[i]) ELSE u
           Has(u) == Good(u) /\ u.chip.reg[r] = ws[k][r]
<1>1. \A u : \A i \in 1..4 : Good(u) => Good(W(u, i))
  BY WriteWordGood
<1>2. \A u : \A i \in 1..4 : Good(u) /\ i = k => Has(W(u, i))
  BY WriteWordGood
<1>3. \A u : \A i \in 1..4 : Has(u) /\ i > k => Has(W(u, i))
  BY WriteWordGood
<1>4. WriteFirst(n, s, ws) = W(W(W(W(s, 1), 2), 3), 4)
  BY DEF WriteFirst
<1>5. Has(W(W(W(W(s, 1), 2), 3), 4)) => W(W(W(W(s, 1), 2), 3), 4).chip.reg[r] = ws[k][r]
  OBVIOUS
<1> HIDE DEF W, Has
<1>6. Good(W(s, 1)) /\ Good(W(W(s, 1), 2)) /\ Good(W(W(W(s, 1), 2), 3))
  BY <1>1
<1>7. CASE k = 1
  BY <1>2, <1>3, <1>4, <1>5, <1>6, <1>7
<1>8. CASE k = 2
  BY <1>2, <1>3, <1>4, <1>5, <1>6, <1>8
<1>9. CASE k = 3
  BY <1>2, <1>3, <1>4, <1>5, <1>6, <1>9
<1>10. CASE k = 4
  BY <1>2, <1>3, <1>4, <1>5, <1>6, <1>10
<1> QED
  BY <1>7, <1>8, <1>9, <1>10

-----------------------------------------------------------------------------
(* The sections.                                                            *)

\* The steps of a call and what they may be asked for.
Steps ==
  { s \in [do : Sections \cup {"reapply", "rxArmed"}, arg : Int, rest : 0..3] :
      /\ s.do = "frequency" => s.arg \in Freqs
      /\ s.do = "bwControl" => s.arg \in Bandwidths
      /\ s.do \in {"rxCss", "rxArmed"} => s.arg \in Tones \cup {0} }

\* The sections other than the page table write words.
LEMMA WordSections ==
  ASSUME NEW step \in Steps, step.do \in Sections \ {"bwTable"}
  PROVE  /\ Len(Writes(step)) \in 1..4
         /\ \A i \in 1..Len(Writes(step)) : IsWord(Writes(step)[i])
<1>0. step.do \in {"frequency", "bwControl", "select", "txCss", "rxCss"}
  BY DEF Sections
<1>1. CASE step.do = "frequency"
  <2>1. Writes(step) = << [RX |-> 0], [FREQ |-> step.arg], [RX |-> 1] >>
    BY <1>1 DEF Writes, set_frequency_writes
  <2>2. step.arg \in Values
    BY <1>1 DEF Steps, Values
  <2>3. IsWord([RX |-> 0]) /\ IsWord([FREQ |-> step.arg]) /\ IsWord([RX |-> 1])
    BY <2>2 DEF IsWord, Reg, Values
  <2> QED
    BY <2>1, <2>3
<1>2. CASE step.do = "bwControl"
  <2>1. Writes(step) = << [BW |-> step.arg, RX |-> 0], [BW |-> step.arg, RX |-> 1] >>
    BY <1>2 DEF Writes, bandwidth_control
  <2>2. step.arg \in Values
    BY <1>2 DEF Steps, Values
  <2>3. IsWord([BW |-> step.arg, RX |-> 0]) /\ IsWord([BW |-> step.arg, RX |-> 1])
    BY <2>2 DEF IsWord, Reg, Values
  <2> QED
    BY <2>1, <2>3
<1>3. CASE step.do = "select"
  <2>1. Writes(step) = << [VOICE_SEL |-> 1] >>
    BY <1>3 DEF Writes, reapply_writes
  <2>2. IsWord([VOICE_SEL |-> 1])
    BY DEF IsWord, Reg, Values
  <2> QED
    BY <2>1, <2>2
<1>4. CASE step.do = "txCss"
  <2>1. Writes(step) = << [CTCSS2 |-> 0] >>
    BY <1>4 DEF Writes, tx_ctcss_writes
  <2>2. IsWord([CTCSS2 |-> 0])
    BY DEF IsWord, Reg, Values
  <2> QED
    BY <2>1, <2>2
<1>5. CASE step.do = "rxCss"
  <2>1. IsWord([CTCSS2 |-> 0]) /\ IsWord([VOICE_SEL |-> 1])
    BY DEF IsWord, Reg, Values
  <2>2. step.arg \in Values
    BY <1>5 DEF Steps, Values
  <2>3. IsWord([CTCSS2 |-> step.arg])
    BY <2>2 DEF IsWord, Reg
  <2>4. CASE step.arg = 0
    <3>1. Writes(step) = << [CTCSS2 |-> 0] >>
      BY <1>5, <2>4 DEF Writes, rx_ctcss_writes
    <3> QED
      BY <3>1, <2>1
  <2>5. CASE step.arg # 0
    <3>1. Writes(step) = << [CTCSS2 |-> step.arg], [VOICE_SEL |-> 1] >>
      BY <1>5, <2>5 DEF Writes, rx_ctcss_writes
    <3> QED
      BY <3>1, <2>1, <2>3
  <2> QED
    BY <2>4, <2>5
<1> QED
  BY <1>0, <1>1, <1>2, <1>3, <1>4, <1>5

Table == << [VOICE_SEL |-> 0], [PAGE |-> 1], << >>, [PAGE |-> 0] >>

\* The bandwidth table, entry by entry (at1846s_bw_*_regs).
LEMMA TableIs ==
  /\ Len(Table) = 4
  /\ \A i \in 1..4 : IsWrite(Table[i])
  /\ Table[1] = [VOICE_SEL |-> 0] /\ IsWord(Table[1]) /\ DOMAIN Table[1] = {"VOICE_SEL"}
  /\ Table[2] = [PAGE |-> 1] /\ Table[4] = [PAGE |-> 0]
  /\ Table[3] = << >> /\ IsWord(Table[3]) /\ DOMAIN Table[3] = {}
<1>1. IsWord([VOICE_SEL |-> 0]) /\ DOMAIN [VOICE_SEL |-> 0] = {"VOICE_SEL"}
  BY DEF IsWord, Reg, Values
<1>2. DOMAIN << >> = {} /\ IsWord(<< >>)
  BY DEF IsWord
<1>3. IsSelect([PAGE |-> 0]) /\ IsSelect([PAGE |-> 1])
  BY DEF IsSelect
<1>4. /\ Table[1] = [VOICE_SEL |-> 0] /\ Table[2] = [PAGE |-> 1]
      /\ Table[3] = << >> /\ Table[4] = [PAGE |-> 0] /\ Len(Table) = 4
  BY DEF Table
<1>5. \A i \in 1..4 : i = 1 \/ i = 2 \/ i = 3 \/ i = 4
  OBVIOUS
<1> QED
  BY <1>1, <1>2, <1>3, <1>4, <1>5 DEF IsWrite

\* The states of a table under way, from any state.
LEMMA TableSteps ==
  ASSUME NEW s \in States
  PROVE  \E s1, s2 \in States :
           /\ s1 = at1846s_write_reg_locked(s, Table[1])
           /\ s2.chip.page = 1 /\ s2.bank.current = 1
           /\ s2.chip.reg = s1.chip.reg /\ s2.bank.cache = s1.bank.cache
           /\ WriteFirst(0, s, Table) = s /\ WriteFirst(1, s, Table) = s1
           /\ WriteFirst(2, s, Table) = s2 /\ WriteFirst(3, s, Table) = s2
           /\ WriteFirst(4, s, Table) = at1846s_write_reg_locked(s2, Table[4])
<1> DEFINE s1 == at1846s_write_reg_locked(s, Table[1])
           s2 == at1846s_write_reg_locked(s1, Table[2])
           s3 == at1846s_write_reg_locked(s2, Table[3])
           s4 == at1846s_write_reg_locked(s3, Table[4])
<1>1. /\ WriteFirst(0, s, Table) = s /\ WriteFirst(1, s, Table) = s1
      /\ WriteFirst(2, s, Table) = s2 /\ WriteFirst(3, s, Table) = s3
      /\ WriteFirst(4, s, Table) = s4
  BY DEF WriteFirst
<1>2. s1 \in States
  BY TableIs, WriteTyped
<1> HIDE DEF s1
<1>3. /\ s2 \in States /\ s2.bank.current = 1 /\ s2.chip.page = 1
      /\ s2.chip.reg = s1.chip.reg /\ s2.bank.cache = s1.bank.cache
  BY <1>2, TableIs, WriteSelect
<1> HIDE DEF s2
<1>4. s3 = s2
  <2>1. at1846s_modify_reg_locked(s2, << >>) = << >>
    BY DEF at1846s_modify_reg_locked
  <2>2. Cached(s2, << >>)
    BY DEF Cached
  <2>3. ~IsPage(<< >>)
    BY TableIs, WordIsNoPage
  <2> QED
    BY <2>1, <2>2, <2>3, TableIs DEF at1846s_write_reg_locked
<1> QED
  BY <1>1, <1>2, <1>3, <1>4 DEF s1

\* A whole table leaves page 0 selected, wherever it began.
LEMMA TableSent ==
  ASSUME NEW s \in States, NEW u, u = WriteFirst(4, s, Table)
  PROVE  /\ u \in States /\ u.chip.page = 0 /\ u.bank.current = 0
         /\ Good(s) => Good(u) /\ \A r \in Reg \ {"VOICE_SEL"} : u.chip.reg[r] = s.chip.reg[r]
<1>1. PICK s1 \in States, s2 \in States :
        /\ s1 = at1846s_write_reg_locked(s, Table[1])
        /\ s2.chip.reg = s1.chip.reg /\ s2.bank.cache = s1.bank.cache
        /\ u = at1846s_write_reg_locked(s2, Table[4])
  BY TableSteps
<1>2. /\ u \in States /\ u.bank.current = 0 /\ u.chip.page = 0
      /\ u.chip.reg = s1.chip.reg /\ u.bank.cache = s1.bank.cache
  BY <1>1, TableIs, WriteSelect
<1>3. ASSUME Good(s)
      PROVE  Good(s1) /\ \A r \in Reg \ {"VOICE_SEL"} : s1.chip.reg[r] = s.chip.reg[r]
  BY <1>1, <1>3, TableIs, WriteWordGood
<1> QED
  BY <1>2, <1>3 DEF Good

\* A table that fails has done nothing, or it shows: a page is selected or taken for selected.
LEMMA TableBroken ==
  ASSUME NEW s, Good(s), NEW i \in 1..4,
         Broken(s, Table, i).chip.page = 0, Broken(s, Table, i).bank.current = 0
  PROVE  Broken(s, Table, i) = s
<1>0. s \in States
  BY DEF Good
<1>1. PICK s1 \in States, s2 \in States :
        /\ s2.chip.page = 1 /\ s2.bank.current = 1
        /\ WriteFirst(0, s, Table) = s /\ WriteFirst(1, s, Table) = s1
        /\ WriteFirst(2, s, Table) = s2 /\ WriteFirst(3, s, Table) = s2
  BY <1>0, TableSteps
<1>2. Broken(s, Table, i) = Announce(WriteFirst(i - 1, s, Table), Table[i])
  BY DEF Broken
<1>3. CASE i = 1
  BY <1>1, <1>2, <1>3, TableIs, AnnounceWord
<1>4. CASE i = 2
  BY <1>1, <1>2, <1>4, TableIs, AnnounceSelect
<1>5. CASE i = 3
  BY <1>1, <1>2, <1>5, TableIs, AnnounceWord
<1>6. CASE i = 4
  BY <1>1, <1>2, <1>6, TableIs, AnnounceSelect
<1> QED
  BY <1>3, <1>4, <1>5, <1>6

\* All sections: what is written is typed, and a true cache stays true.
LEMMA SectionTyped ==
  ASSUME NEW s \in States, NEW step \in Steps, step.do \in Sections
  PROVE  /\ Len(Writes(step)) \in 1..4
         /\ Sent(s, Writes(step)) \in States
         /\ \A i \in 1..Len(Writes(step)) : Broken(s, Writes(step), i) \in States
<1>1. Len(Writes(step)) \in 1..4 /\ \A i \in 1..Len(Writes(step)) : IsWrite(Writes(step)[i])
  <2>1. CASE step.do = "bwTable"
    <3>1. Writes(step) = Table
      BY <2>1 DEF Writes, at1846s_bw_regs, Table
    <3> QED
      BY <3>1, TableIs
  <2>2. CASE step.do # "bwTable"
    BY <2>2, WordSections DEF IsWrite
  <2> QED
    BY <2>1, <2>2
<1> DEFINE ws == Writes(step)
<1> HIDE DEF ws
<1>2. Len(ws) \in 1..4 /\ \A i \in 1..Len(ws) : IsWrite(ws[i])
  BY <1>1 DEF ws
<1>3. Sent(s, ws) \in States
  BY <1>2, WriteFirstTyped DEF Sent
<1>4. ASSUME NEW i \in 1..Len(ws) PROVE Broken(s, ws, i) \in States
  <2>1. i - 1 \in 0..4 /\ \A j \in 1..(i - 1) : IsWrite(ws[j])
    BY <1>2
  <2>2. WriteFirst(i - 1, s, ws) \in States
    BY <2>1, WriteFirstTyped
  <2> QED
    BY <2>2, <1>2, WriteTyped DEF Broken
<1> QED
  BY <1>1, <1>3, <1>4 DEF ws

\* A locked section that is through leaves the cache true; so does one that failed, if both sides are
\* on page 0.
LEMMA SectionGood ==
  ASSUME NEW s, Good(s), NEW step \in Steps, step.do \in Sections
  PROVE  /\ Good(Sent(s, Writes(step)))
         /\ \A i \in 1..Len(Writes(step)) :
              LET b == Broken(s, Writes(step), i)
              IN  b.chip.page = 0 /\ b.bank.current = 0 => Good(b)
<1>1. CASE step.do = "bwTable"
  <2>1. Writes(step) = Table
    BY <1>1 DEF Writes, at1846s_bw_regs, Table
  <2>2. Good(Sent(s, Table))
    BY TableIs, TableSent DEF Sent, Good
  <2>3. \A i \in 1..4 : LET b == Broken(s, Table, i)
                        IN  b.chip.page = 0 /\ b.bank.current = 0 => Good(b)
    BY TableBroken
  <2> QED
    BY <2>1, <2>2, <2>3, TableIs
<1>2. CASE step.do # "bwTable"
  <2> DEFINE ws == Writes(step)
  <2>1. Len(ws) \in 1..4 /\ \A i \in 1..Len(ws) : IsWord(ws[i])
    BY <1>2, WordSections
  <2> HIDE DEF ws
  <2>2. Good(Sent(s, ws))
    BY <2>1, WriteFirstGood DEF Sent
  <2>3. ASSUME NEW i \in 1..Len(ws) PROVE Good(Broken(s, ws, i))
    <3>1. i - 1 \in 0..4 /\ \A j \in 1..(i - 1) : IsWord(ws[j])
      BY <2>1
    <3>2. Good(WriteFirst(i - 1, s, ws))
      BY <3>1, WriteFirstGood
    <3> QED
      BY <3>2, <2>1, AnnounceWord DEF Broken
  <2> QED
    BY <2>2, <2>3 DEF ws
<1> QED
  BY <1>1, <1>2

\* What each section does to frequency, bandwidth and receiver.
LEMMA FrequencySent ==
  ASSUME NEW s, Good(s), NEW step \in Steps, step.do = "frequency", NEW u,
         u = Sent(s, Writes(step))
  PROVE  u.chip.reg["FREQ"] = step.arg /\ u.chip.reg["RX"] = 1
<1> DEFINE ws == << [RX |-> 0], [FREQ |-> step.arg], [RX |-> 1] >>
<1>1. Writes(step) = ws
  BY DEF Writes, set_frequency_writes
<1>2. \A i \in 1..3 : IsWord(ws[i])
  BY <1>1, WordSections DEF Sections
<1>3. /\ DOMAIN ws[1] = {"RX"} /\ DOMAIN ws[2] = {"FREQ"} /\ DOMAIN ws[3] = {"RX"}
      /\ ws[2]["FREQ"] = step.arg /\ ws[3]["RX"] = 1 /\ Len(ws) = 3
  OBVIOUS
<1>4. "FREQ" \in Reg /\ "RX" \in Reg /\ "BW" \in Reg
  BY DEF Reg
<1> HIDE DEF ws
<1>5. u = WriteFirst(3, s, ws)
  BY <1>1, <1>3 DEF Sent
<1>6. u.chip.reg["FREQ"] = step.arg
  <2>1. \A i \in 1..3 : i > 2 => "FREQ" \notin DOMAIN ws[i]
    BY <1>3
  <2> QED
    BY <2>1, <1>2, <1>3, <1>4, <1>5, WriteFirstTakes
<1>7. u.chip.reg["RX"] = 1
  BY <1>2, <1>3, <1>4, <1>5, WriteFirstTakes
<1> QED
  BY <1>6, <1>7

\* set_bandwidth() that is through has set the bandwidth and switched the receiver on.
LEMMA BandwidthSent ==
  ASSUME NEW s, Good(s), NEW step \in Steps, step.do = "bwControl", NEW u,
         u = Sent(s, Writes(step))
  PROVE  u.chip.reg["BW"] = step.arg /\ u.chip.reg["RX"] = 1
<1> DEFINE ws == << [BW |-> step.arg, RX |-> 0], [BW |-> step.arg, RX |-> 1] >>
<1>1. Writes(step) = ws
  BY DEF Writes, bandwidth_control
<1>2. \A i \in 1..2 : IsWord(ws[i])
  BY <1>1, WordSections DEF Sections
<1>3. /\ DOMAIN ws[1] = {"BW", "RX"} /\ DOMAIN ws[2] = {"BW", "RX"}
      /\ ws[2]["BW"] = step.arg /\ ws[2]["RX"] = 1 /\ Len(ws) = 2
  OBVIOUS
<1>4. "FREQ" \in Reg /\ "RX" \in Reg /\ "BW" \in Reg
  BY DEF Reg
<1> HIDE DEF ws
<1>5. u = WriteFirst(2, s, ws)
  BY <1>1, <1>3 DEF Sent
<1>6. u.chip.reg["BW"] = step.arg
  BY <1>2, <1>3, <1>4, <1>5, WriteFirstTakes
<1>7. u.chip.reg["RX"] = 1
  BY <1>2, <1>3, <1>4, <1>5, WriteFirstTakes
<1> QED
  BY <1>6, <1>7

\* Whose business a register is.
Spares(step, r) ==
  \/ r = "FREQ" /\ step.do # "frequency"
  \/ r = "BW" /\ step.do # "bwControl"
  \/ r = "RX" /\ step.do \notin {"frequency", "bwControl"}
  \/ r = "CTCSS2" /\ step.do \notin {"txCss", "rxCss"}
  \/ r = "VOICE_SEL" /\ step.do \notin {"bwTable", "select", "rxCss"}

\* The registers that are not of a section are as before it, through or failed.
LEMMA SectionLeaves ==
  ASSUME NEW s, Good(s), NEW step \in Steps, step.do \in Sections, NEW r, Spares(step, r)
  PROVE  /\ Sent(s, Writes(step)).chip.reg[r] = s.chip.reg[r]
         /\ \A i \in 1..Len(Writes(step)) :
              LET b == Broken(s, Writes(step), i)
              IN  b.chip.page = 0 /\ b.bank.current = 0 => b.chip.reg[r] = s.chip.reg[r]
<1>1. r \in Reg
  BY DEF Spares, Reg
<1>2. CASE step.do = "bwTable"
  <2>1. Writes(step) = Table
    BY <1>2 DEF Writes, at1846s_bw_regs, Table
  <2>2. Sent(s, Table).chip.reg[r] = s.chip.reg[r]
    <3>1. r \in Reg \ {"VOICE_SEL"}
      BY <1>1, <1>2 DEF Spares
    <3> QED
      BY <3>1, TableIs, TableSent DEF Sent, Good
  <2>3. \A i \in 1..4 : LET b == Broken(s, Table, i)
                        IN  b.chip.page = 0 /\ b.bank.current = 0 => b.chip.reg[r] = s.chip.reg[r]
    BY TableBroken
  <2> QED
    BY <2>1, <2>2, <2>3, TableIs
<1>3. CASE step.do # "bwTable"
  <2> DEFINE ws == Writes(step)
  <2>1. Len(ws) \in 1..4 /\ \A i \in 1..Len(ws) : IsWord(ws[i])
    BY <1>3, WordSections
  <2>2. \A i \in 1..Len(ws) : r \notin DOMAIN ws[i]
    <3>1. CASE step.do = "frequency"
      <4>1. r \in {"BW", "CTCSS2", "VOICE_SEL"} /\ ws = << [RX |-> 0], [FREQ |-> step.arg], [RX |-> 1] >>
        BY <3>1 DEF Writes, set_frequency_writes, Spares
      <4> QED
        BY <4>1
    <3>2. CASE step.do = "bwControl"
      <4>1. r \in {"FREQ", "CTCSS2", "VOICE_SEL"} /\ ws = << [BW |-> step.arg, RX |-> 0], [BW |-> step.arg, RX |-> 1] >>
        BY <3>2 DEF Writes, bandwidth_control, Spares
      <4> QED
        BY <4>1
    <3>3. CASE step.do = "select"
      <4>1. r # "VOICE_SEL" /\ ws = << [VOICE_SEL |-> 1] >>
        BY <3>3 DEF Writes, reapply_writes, Spares
      <4> QED
        BY <4>1
    <3>4. CASE step.do = "txCss"
      <4>1. r # "CTCSS2" /\ ws = << [CTCSS2 |-> 0] >>
        BY <3>4 DEF Writes, tx_ctcss_writes, Spares
      <4> QED
        BY <4>1
    <3>5. CASE step.do = "rxCss"
      <4>1. /\ r \notin {"CTCSS2", "VOICE_SEL"}
            /\ ws = << [CTCSS2 |-> 0] >> \/ ws = << [CTCSS2 |-> step.arg], [VOICE_SEL |-> 1] >>
        BY <3>5 DEF Writes, rx_ctcss_writes, Spares
      <4> QED
        BY <4>1 DEF Spares
    <3> QED
      BY <1>3, <3>1, <3>2, <3>3, <3>4, <3>5 DEF Sections
  <2> HIDE DEF ws
  <2>3. Sent(s, ws).chip.reg[r] = s.chip.reg[r]
    <3>1. PICK n \in 0..4 : n = Len(ws)
      BY <2>1
    <3>2. \A j \in 1..n : IsWord(ws[j]) /\ r \notin DOMAIN ws[j]
      BY <3>1, <2>1, <2>2
    <3>3. WriteFirst(n, s, ws).chip.reg[r] = s.chip.reg[r]
      BY <3>2, <1>1, WriteFirstKeeps
    <3> QED
      BY <3>1, <3>3 DEF Sent
  <2>4. ASSUME NEW i \in 1..Len(ws) PROVE Broken(s, ws, i).chip.reg[r] = s.chip.reg[r]
    <3>1. i - 1 \in 0..4 /\ \A j \in 1..(i - 1) : IsWord(ws[j]) /\ r \notin DOMAIN ws[j]
      BY <2>1, <2>2
    <3>2. WriteFirst(i - 1, s, ws).chip.reg[r] = s.chip.reg[r]
      BY <3>1, <1>1, WriteFirstKeeps
    <3> QED
      BY <3>2, <2>1, AnnounceWord DEF Broken
  <2> QED
    BY <2>3, <2>4 DEF ws
<1> QED
  BY <1>2, <1>3

-----------------------------------------------------------------------------
(* The invariant, for any number of callers.                                *)

CallsTyped == th \in [Threads -> Seq(Steps)] /\ asked \in [freq : Int, bw : Int, css : Int]

\* What FrequencyTook needs of a section's end, and not only between calls.
Tuned ==
  ~torn =>
    /\ asked.freq # Unknown => chip.reg["FREQ"] = asked.freq
    /\ asked.bw # Unknown => chip.reg["BW"] = asked.bw
    /\ asked.freq # Unknown /\ asked.bw # Unknown => chip.reg["RX"] = 1

RadioInv == TypeOK /\ CallsTyped /\ (~torn => Good(Now)) /\ Tuned

\* Chip and driver, as one state.
LEMMA NowState == ASSUME TypeOK PROVE Now \in States
  BY DEF TypeOK, Now, States

\* The invariant implies both properties.
LEMMA InvGives == ASSUME RadioInv PROVE CacheTrue /\ FrequencyTook
<1>1. CacheTrue
  <2>1. ASSUME ~torn, NEW r \in Reg PROVE chip.reg[r] = bank.cache[0][r]
    BY <2>1 DEF RadioInv, Good, Now
  <2> QED
    BY <2>1 DEF CacheTrue, RadioInv
<1>2. FrequencyTook
  BY DEF FrequencyTook, RadioInv, Tuned
<1> QED
  BY <1>1, <1>2

\* The head of a call and what is left after a skip.
LEMMA HeadStep ==
  ASSUME CallsTyped, NEW t \in Threads, th[t] # << >>
  PROVE  /\ Head(th[t]) \in Steps
         /\ \A n \in Nat : /\ SubSeq(th[t], n + 1, Len(th[t])) \in Seq(Steps)
                           /\ Len(SubSeq(th[t], n + 1, Len(th[t]))) <= Len(th[t])
<1>1. th[t] \in Seq(Steps)
  BY DEF CallsTyped
<1>2. Head(th[t]) \in Steps
  BY <1>1, HeadTailProperties
<1>3. ASSUME NEW n \in Nat
      PROVE  /\ SubSeq(th[t], n + 1, Len(th[t])) \in Seq(Steps)
             /\ Len(SubSeq(th[t], n + 1, Len(th[t]))) <= Len(th[t])
  <2>1. Len(th[t]) \in Nat
    BY <1>1, LenProperties
  <2>2. \A i \in (n + 1)..Len(th[t]) : th[t][i] \in Steps
    BY <1>1, <2>1, ElementOfSeq
  <2>3. /\ SubSeq(th[t], n + 1, Len(th[t])) \in Seq(Steps)
        /\ Len(SubSeq(th[t], n + 1, Len(th[t]))) =
             IF n + 1 <= Len(th[t]) THEN Len(th[t]) - (n + 1) + 1 ELSE 0
    BY <1>1, <2>1, <2>2, SubSeqProperties
  <2> QED
    BY <2>1, <2>3
<1> QED
  BY <1>2, <1>3

\* Skipping steps of a call leaves a call.
LEMMA SkipTyped ==
  ASSUME TypeOK, CallsTyped, NEW t \in Threads, th[t] # << >>, NEW n \in Nat, Skip(t, n)
  PROVE  /\ th' \in [Threads -> Seq(Steps)]
         /\ \A q \in Threads : Len(th'[q]) <= 8
<1>1. th \in [Threads -> Seq(Steps)] /\ \A q \in Threads : Len(th[q]) <= 8 /\ Len(th[q]) \in Nat
  BY LenProperties DEF CallsTyped, TypeOK
<1>2. th' = [th EXCEPT ![t] = SubSeq(th[t], n + 1, Len(th[t]))]
  BY <1>1 DEF Skip
<1> DEFINE left == SubSeq(th[t], n + 1, Len(th[t]))
<1>3. left \in Seq(Steps) /\ Len(left) <= Len(th[t]) /\ Len(left) \in Nat
  BY HeadStep, LenProperties
<1> HIDE DEF left
<1>4. Len(left) <= 8
  BY <1>1, <1>3
<1> QED
  BY <1>1, <1>2, <1>3, <1>4 DEF left

-----------------------------------------------------------------------------
(* The steps.                                                               *)

\* TypeOK without what no call touches.
LEMMA CallTypes ==
  ASSUME TypeOK, UNCHANGED <<sq_open, sq, air>>,
         chip' \in [page : {0, 1}, reg : Field],
         bank' \in [current : {0, 1}, cache : [{0, 1} -> Field]],
         rx_css_active' \in BOOLEAN, css_miss_count' \in 0..HoldPolls, sq_threshold' \in Levels,
         \A q \in Threads : Len(th'[q]) <= 8,
         torn' \in BOOLEAN, fails' \in 0..MaxFails
  PROVE  TypeOK'
  BY DEF TypeOK

\* A step that sets chip and driver to a state keeps their types.
LEMMA StateIs ==
  ASSUME NEW u \in States, chip' = u.chip, bank' = u.bank
  PROVE  /\ Now' = u /\ chip' \in [page : {0, 1}, reg : Field]
         /\ bank' \in [current : {0, 1}, cache : [{0, 1} -> Field]]
  BY StateFacts DEF Now, States

\* A locked section that goes through keeps the invariant.
LEMMA DoneKeeps == ASSUME RadioInv, NEW t \in Threads, SectionDone(t) PROVE RadioInv'
<1> DEFINE step == Head(th[t])
           u == Sent(Now, Writes(step))
<1>1. /\ th[t] # << >> /\ step.do \in Sections /\ chip' = u.chip /\ bank' = u.bank
      /\ asked' = Settles(step) /\ Skip(t, 1)
      /\ UNCHANGED <<rx_css_active, css_miss_count, sq_threshold, sq_open, sq, air, torn, fails>>
  BY DEF SectionDone, Busy
<1>2. step \in Steps /\ TypeOK /\ CallsTyped /\ Now \in States
  BY <1>1, HeadStep, NowState DEF RadioInv
<1> HIDE DEF step
<1>3. u \in States
  BY <1>1, <1>2, SectionTyped
<1>4. ~torn => Good(Now) /\ Good(u)
  BY <1>1, <1>2, SectionGood DEF RadioInv
<1>5. th' \in [Threads -> Seq(Steps)] /\ \A q \in Threads : Len(th'[q]) <= 8
  BY <1>1, <1>2, SkipTyped, HeadStep
<1>6. Now' = u /\ chip' \in [page : {0, 1}, reg : Field]
      /\ bank' \in [current : {0, 1}, cache : [{0, 1} -> Field]]
  BY <1>1, <1>3, StateIs
<1>7. TypeOK'
  <2>1. /\ rx_css_active' \in BOOLEAN /\ css_miss_count' \in 0..HoldPolls /\ sq_threshold' \in Levels
        /\ torn' \in BOOLEAN /\ fails' \in 0..MaxFails
    BY <1>1, <1>2, Zenon DEF TypeOK
  <2> QED
    BY <1>1, <1>2, <1>5, <1>6, <2>1, CallTypes
<1>8. /\ asked' \in [freq : Int, bw : Int, css : Int]
      /\ step.do = "frequency" => asked'.freq = step.arg /\ asked'.bw = asked.bw
      /\ step.do = "bwControl" => asked'.bw = step.arg /\ asked'.freq = asked.freq
      /\ step.do \notin {"frequency", "bwControl"} => asked' = asked
  <2>1. asked \in [freq : Int, bw : Int, css : Int] /\ step.arg \in Int
    BY <1>2 DEF CallsTyped, Steps
  <2>2. CASE step.do = "frequency"
    BY <2>1, <2>2, <1>1 DEF Settles
  <2>3. CASE step.do = "bwControl"
    BY <2>1, <2>3, <1>1 DEF Settles
  <2>4. CASE step.do \notin {"frequency", "bwControl"}
    BY <2>1, <2>4, <1>1 DEF Settles
  <2> QED
    BY <2>2, <2>3, <2>4
<1>9. Tuned'
  <2> SUFFICES ASSUME ~torn
               PROVE  /\ asked'.freq # Unknown => u.chip.reg["FREQ"] = asked'.freq
                      /\ asked'.bw # Unknown => u.chip.reg["BW"] = asked'.bw
                      /\ asked'.freq # Unknown /\ asked'.bw # Unknown => u.chip.reg["RX"] = 1
    BY <1>1 DEF Tuned
  <2>1. Good(Now) /\ Now.chip.reg = chip.reg
    BY <1>4 DEF Now
  <2>2. /\ asked.freq # Unknown => chip.reg["FREQ"] = asked.freq
        /\ asked.bw # Unknown => chip.reg["BW"] = asked.bw
        /\ asked.freq # Unknown /\ asked.bw # Unknown => chip.reg["RX"] = 1
    BY DEF RadioInv, Tuned
  <2>3. \A r \in Reg : Spares(step, r) => u.chip.reg[r] = chip.reg[r]
    BY <2>1, <1>1, <1>2, SectionLeaves
  <2>4. CASE step.do = "frequency"
    <3>1. u.chip.reg["FREQ"] = step.arg /\ u.chip.reg["RX"] = 1
      BY <2>1, <2>4, <1>2, FrequencySent
    <3>2. u.chip.reg["BW"] = chip.reg["BW"]
      BY <2>3, <2>4 DEF Spares, Reg
    <3> QED
      BY <3>1, <3>2, <2>2, <2>4, <1>8
  <2>5. CASE step.do = "bwControl"
    <3>1. u.chip.reg["BW"] = step.arg /\ u.chip.reg["RX"] = 1
      BY <2>1, <2>5, <1>2, BandwidthSent
    <3>2. u.chip.reg["FREQ"] = chip.reg["FREQ"]
      BY <2>3, <2>5 DEF Spares, Reg
    <3> QED
      BY <3>1, <3>2, <2>2, <2>5, <1>8
  <2>6. CASE step.do \notin {"frequency", "bwControl"}
    <3>1. /\ u.chip.reg["FREQ"] = chip.reg["FREQ"] /\ u.chip.reg["BW"] = chip.reg["BW"]
          /\ u.chip.reg["RX"] = chip.reg["RX"]
      BY <2>3, <2>6 DEF Spares, Reg
    <3> QED
      BY <3>1, <2>2, <2>6, <1>8
  <2> QED
    BY <2>4, <2>5, <2>6
<1> QED
  BY <1>1, <1>4, <1>5, <1>6, <1>7, <1>8, <1>9 DEF RadioInv, CallsTyped

\* A locked section that fails at any transfer keeps it: what it leaves open is not claimed.
LEMMA FailsKeeps == ASSUME RadioInv, NEW t \in Threads, SectionFails(t) PROVE RadioInv'
<1> DEFINE step == Head(th[t])
<1>1. PICK i \in 1..Len(Writes(step)) :
        LET u == Broken(Now, Writes(step), i)
        IN  /\ chip' = u.chip /\ bank' = u.bank
            /\ torn' = (torn \/ u.chip.page # 0 \/ u.bank.current # 0)
  BY DEF SectionFails
<1> DEFINE u == Broken(Now, Writes(step), i)
<1>2. /\ th[t] # << >> /\ step.do \in Sections /\ fails < MaxFails /\ fails' = fails + 1
      /\ asked' = Leaves(step) /\ Skip(t, 1 + step.rest)
      /\ UNCHANGED <<rx_css_active, css_miss_count, sq_threshold, sq_open, sq, air>>
  BY DEF SectionFails, Busy
<1>3. step \in Steps /\ TypeOK /\ CallsTyped /\ Now \in States
  BY <1>2, HeadStep, NowState DEF RadioInv
<1> HIDE DEF step
<1>4. u \in States
  BY <1>2, <1>3, SectionTyped
<1>5. torn' = (torn \/ u.chip.page # 0 \/ u.bank.current # 0) /\ chip' = u.chip /\ bank' = u.bank
  BY <1>1
<1>6. ASSUME ~torn'
      PROVE  /\ ~torn /\ Good(Now) /\ Good(u)
             /\ \A r \in Reg : Spares(step, r) => u.chip.reg[r] = chip.reg[r]
  <2>1. ~torn /\ u.chip.page = 0 /\ u.bank.current = 0
    BY <1>5, <1>6, Zenon
  <2>2. Good(Now) /\ Now.chip.reg = chip.reg
    BY <2>1 DEF RadioInv, Now
  <2>3. Good(u)
    BY <2>1, <2>2, <1>2, <1>3, SectionGood
  <2>4. \A r \in Reg : Spares(step, r) => u.chip.reg[r] = chip.reg[r]
    BY <2>1, <2>2, <1>2, <1>3, SectionLeaves
  <2> QED
    BY <2>1, <2>2, <2>3, <2>4
<1>7. 1 + step.rest \in Nat
  BY <1>3 DEF Steps
<1>8. th' \in [Threads -> Seq(Steps)] /\ \A q \in Threads : Len(th'[q]) <= 8
  BY <1>2, <1>3, <1>7, SkipTyped
<1> HIDE DEF u
<1>9. Now' = u /\ chip' \in [page : {0, 1}, reg : Field]
      /\ bank' \in [current : {0, 1}, cache : [{0, 1} -> Field]]
  BY <1>4, <1>5, StateIs
<1>10. TypeOK'
  <2>1. /\ rx_css_active' \in BOOLEAN /\ css_miss_count' \in 0..HoldPolls /\ sq_threshold' \in Levels
    BY <1>2, <1>3, Zenon DEF TypeOK
  <2>2. torn' \in BOOLEAN
    BY <1>3, <1>5, Zenon DEF TypeOK
  <2>3. fails' \in 0..MaxFails
    BY <1>2, <1>3, RadioAssumption DEF TypeOK, RadioAssumption
  <2> QED
    BY <1>2, <1>3, <1>8, <1>9, <2>1, <2>2, <2>3, CallTypes
<1>11. /\ asked' \in [freq : Int, bw : Int, css : Int]
       /\ asked'.freq # Unknown => asked'.freq = asked.freq /\ step.do # "frequency"
       /\ asked'.bw # Unknown =>
            asked'.bw = asked.bw /\ step.do \notin {"bwTable", "bwControl"}
  <2>1. asked \in [freq : Int, bw : Int, css : Int] /\ Unknown \in Int
    BY <1>3 DEF CallsTyped, Unknown
  <2>2. CASE step.do = "frequency"
    BY <2>1, <2>2, <1>2 DEF Leaves
  <2>3. CASE step.do \in {"bwTable", "bwControl"}
    BY <2>1, <2>3, <1>2 DEF Leaves
  <2>4. CASE step.do \notin {"frequency", "bwTable", "bwControl"}
    BY <2>1, <2>4, <1>2 DEF Leaves
  <2> QED
    BY <2>2, <2>3, <2>4
<1>12. Tuned'
  <2> SUFFICES ASSUME ~torn'
               PROVE  /\ asked'.freq # Unknown => u.chip.reg["FREQ"] = asked'.freq
                      /\ asked'.bw # Unknown => u.chip.reg["BW"] = asked'.bw
                      /\ asked'.freq # Unknown /\ asked'.bw # Unknown => u.chip.reg["RX"] = 1
    BY <1>5 DEF Tuned
  <2>1. /\ asked.freq # Unknown => chip.reg["FREQ"] = asked.freq
        /\ asked.bw # Unknown => chip.reg["BW"] = asked.bw
        /\ asked.freq # Unknown /\ asked.bw # Unknown => chip.reg["RX"] = 1
    BY <1>6 DEF RadioInv, Tuned
  <2>2. /\ step.do # "frequency" => u.chip.reg["FREQ"] = chip.reg["FREQ"]
        /\ step.do # "bwControl" => u.chip.reg["BW"] = chip.reg["BW"]
        /\ step.do \notin {"frequency", "bwControl"} => u.chip.reg["RX"] = chip.reg["RX"]
    BY <1>6 DEF Spares, Reg
  <2> QED
    BY <2>1, <2>2, <1>11
<1>13. ~torn' => Good(Now')
  BY <1>6, <1>9
<1> QED
  BY <1>8, <1>10, <1>11, <1>12, <1>13 DEF RadioInv, CallsTyped, Good

\* What leaves the chip and the cache alone.
LEMMA AsideKeeps ==
  ASSUME RadioInv, UNCHANGED <<chip, bank, torn>>, TypeOK', CallsTyped',
         asked'.freq = asked.freq, asked'.bw = asked.bw
  PROVE  RadioInv'
<1>1. Tuned'
  BY DEF RadioInv, Tuned
<1>2. ~torn' => Good(Now')
  BY DEF RadioInv, Now
<1> QED
  BY <1>1, <1>2 DEF RadioInv, Good, Now

\* The look at rx_css_active without the lock keeps it.
LEMMA ReapplyKeeps == ASSUME RadioInv, NEW t \in Threads, Reapply(t) PROVE RadioInv'
<1>1. /\ th[t] # << >> /\ Skip(t, IF rx_css_active THEN 1 ELSE 2)
      /\ UNCHANGED <<chip, driver, sq, air, asked, torn, fails>>
  BY DEF Reapply, Busy
<1>2. TypeOK /\ CallsTyped
  BY DEF RadioInv
<1>3. PICK n \in Nat : Skip(t, n)
  BY <1>1
<1>4. th' \in [Threads -> Seq(Steps)] /\ \A q \in Threads : Len(th'[q]) <= 8
  BY <1>1, <1>2, <1>3, SkipTyped
<1>5. TypeOK' /\ CallsTyped'
  BY <1>1, <1>2, <1>4, Zenon DEF TypeOK, CallsTyped, driver
<1> QED
  BY <1>1, <1>5, AsideKeeps DEF driver

\* Arming the tone squelch after the lock is released keeps it.
LEMMA ArmedKeeps == ASSUME RadioInv, NEW t \in Threads, RxArmed(t) PROVE RadioInv'
<1>1. /\ th[t] # << >> /\ Skip(t, 1) /\ Head(th[t]).do = "rxArmed"
      /\ rx_css_active' = (Head(th[t]).arg # 0) /\ css_miss_count' = 0
      /\ asked' = [asked EXCEPT !.css = Head(th[t]).arg]
      /\ UNCHANGED <<chip, bank, sq_threshold, sq_open, sq, air, torn, fails>>
  BY DEF RxArmed, Busy
<1>2. TypeOK /\ CallsTyped
  BY DEF RadioInv
<1>3. th' \in [Threads -> Seq(Steps)] /\ \A q \in Threads : Len(th'[q]) <= 8
  BY <1>1, <1>2, SkipTyped
<1>4. Head(th[t]).arg \in Int
  BY <1>1, <1>2, HeadStep DEF Steps
<1>5. /\ asked' \in [freq : Int, bw : Int, css : Int]
      /\ asked'.freq = asked.freq /\ asked'.bw = asked.bw
  BY <1>1, <1>2, <1>4 DEF CallsTyped
<1>6. css_miss_count' \in 0..HoldPolls
  BY <1>1, RadioAssumption DEF RadioAssumption
<1>7. rx_css_active' \in BOOLEAN
  BY <1>1
<1>8. TypeOK'
  BY <1>1, <1>2, <1>3, <1>6, <1>7, Zenon DEF TypeOK
<1>9. CallsTyped'
  BY <1>3, <1>5 DEF CallsTyped
<1> QED
  BY <1>1, <1>5, <1>8, <1>9, AsideKeeps

-----------------------------------------------------------------------------
(* The calls are typed, and no longer than eight steps.                     *)

\* A step of a call, with an argument it may have.
LEMMA DoTyped ==
  ASSUME NEW what \in Sections \cup {"reapply", "rxArmed"}, NEW arg \in Int, NEW rest \in 0..3,
         what = "frequency" => arg \in Freqs,
         what = "bwControl" => arg \in Bandwidths,
         what \in {"rxCss", "rxArmed"} => arg \in Tones \cup {0}
  PROVE  Do(what, arg, rest) \in Steps
  BY DEF Do, Steps

\* The arguments of calls are numbers.
LEMMA Arguments ==
  /\ \A f \in Freqs : f \in Int
  /\ \A b \in Bandwidths : b \in Int
  /\ \A c \in Css : c \in Int /\ (c # Dcs => c \in Tones \cup {0})
  BY RadioAssumption DEF RadioAssumption, Dcs, Tones

\* at1846s_api_set_frequency() is one step.
LEMMA FrequencyCall ==
  ASSUME NEW f \in Freqs
  PROVE  /\ at1846s_api_set_frequency(f) \in Seq(Steps)
         /\ Len(at1846s_api_set_frequency(f)) = 1
<1>1. Do("frequency", f, 0) \in Steps
  BY Arguments, DoTyped DEF Sections
<1> QED
  BY <1>1 DEF at1846s_api_set_frequency

\* at1846s_api_set_bandwidth() is four steps.
LEMMA BandwidthCall ==
  ASSUME NEW b \in Bandwidths
  PROVE  /\ at1846s_api_set_bandwidth(b) \in Seq(Steps)
         /\ Len(at1846s_api_set_bandwidth(b)) = 4
<1>1. Do("bwTable", 0, 3) \in Steps /\ Do("reapply", 0, 1) \in Steps /\ Do("select", 0, 0) \in Steps
  BY DoTyped DEF Sections
<1>2. Do("bwControl", b, 2) \in Steps
  BY Arguments, DoTyped DEF Sections
<1> QED
  BY <1>1, <1>2 DEF at1846s_api_set_bandwidth

\* radio_state_set_tx_css() is at most one step.
LEMMA TxCall ==
  ASSUME NEW c \in Css
  PROVE  /\ radio_state_set_tx_css(c) \in Seq(Steps)
         /\ Len(radio_state_set_tx_css(c)) \in 0..1
<1>1. Do("txCss", 0, 0) \in Steps
  BY DoTyped DEF Sections
<1> QED
  BY <1>1 DEF radio_state_set_tx_css

\* radio_state_set_rx_css() is at most two steps.
LEMMA RxCall ==
  ASSUME NEW c \in Css
  PROVE  /\ radio_state_set_rx_css(c) \in Seq(Steps)
         /\ Len(radio_state_set_rx_css(c)) \in 0..2
<1>1. CASE c = Dcs
  BY <1>1 DEF radio_state_set_rx_css
<1>2. CASE c # Dcs
  <2>1. Do("rxCss", c, 1) \in Steps /\ Do("rxArmed", c, 0) \in Steps
    BY <1>2, Arguments, DoTyped DEF Sections
  <2> QED
    BY <1>2, <2>1 DEF radio_state_set_rx_css
<1> QED
  BY <1>1, <1>2

\* Two calls in a row.
LEMMA CallTyped ==
  ASSUME NEW s \in Seq(Steps), NEW u \in Seq(Steps)
  PROVE  s \o u \in Seq(Steps) /\ Len(s \o u) = Len(s) + Len(u)
  BY ConcatProperties

\* A channel is at most eight steps (apply_to_radio).
LEMMA ChannelCall ==
  ASSUME NEW f \in Freqs, NEW b \in Bandwidths, NEW tx \in Css, NEW rx \in Css
  PROVE  ApplyChannel(f, b, tx, rx) \in Seq(Steps) /\ Len(ApplyChannel(f, b, tx, rx)) <= 8
<1> DEFINE F == at1846s_api_set_frequency(f)
           B == at1846s_api_set_bandwidth(b)
           T == radio_state_set_tx_css(tx)
           R == radio_state_set_rx_css(rx)
<1>1. /\ F \in Seq(Steps) /\ Len(F) = 1 /\ B \in Seq(Steps) /\ Len(B) = 4
      /\ T \in Seq(Steps) /\ Len(T) \in 0..1 /\ R \in Seq(Steps) /\ Len(R) \in 0..2
  BY FrequencyCall, BandwidthCall, TxCall, RxCall
<1>2. ApplyChannel(f, b, tx, rx) = ((F \o B) \o T) \o R
  BY DEF ApplyChannel
<1> HIDE DEF F, B, T, R
<1>3. F \o B \in Seq(Steps) /\ Len(F \o B) = Len(F) + Len(B)
  BY <1>1, CallTyped
<1>4. /\ (F \o B) \o T \in Seq(Steps)
      /\ Len((F \o B) \o T) = Len(F \o B) + Len(T)
  <2> DEFINE s == F \o B
  <2> HIDE DEF s
  <2> s \in Seq(Steps)
    BY <1>3 DEF s
  <2> s \o T \in Seq(Steps) /\ Len(s \o T) = Len(s) + Len(T)
    BY <1>1, CallTyped
  <2> QED
    BY DEF s
<1>5. /\ ((F \o B) \o T) \o R \in Seq(Steps)
      /\ Len(((F \o B) \o T) \o R) = Len((F \o B) \o T) + Len(R)
  <2> DEFINE s == (F \o B) \o T
  <2> HIDE DEF s
  <2> s \in Seq(Steps)
    BY <1>4 DEF s
  <2> s \o R \in Seq(Steps) /\ Len(s \o R) = Len(s) + Len(R)
    BY <1>1, CallTyped
  <2> QED
    BY DEF s
<1>6. Len(((F \o B) \o T) \o R) <= 8
  <2> DEFINE n == Len(((F \o B) \o T) \o R)
             a == Len(F)
             b2 == Len(B)
             d == Len(T)
             e == Len(R)
             m == Len((F \o B) \o T)
             k == Len(F \o B)
  <2>1. /\ n = m + e /\ m = k + d /\ k = a + b2
        /\ a = 1 /\ b2 = 4 /\ d \in 0..1 /\ e \in 0..2
    BY <1>1, <1>3, <1>4, <1>5, Zenon
  <2> HIDE DEF n, a, b2, d, e, m, k
  <2>2. n <= 8
    BY <2>1
  <2> QED
    BY <2>2 DEF n
<1> QED
  BY <1>2, <1>5, <1>6

\* The subscriber of the settings makes at most eight steps too.
LEMMA CssCall ==
  ASSUME NEW c \in Css
  PROVE  ApplyCss(c) \in Seq(Steps) /\ Len(ApplyCss(c)) <= 8
<1> DEFINE T == radio_state_set_tx_css(c)
           R == radio_state_set_rx_css(c)
<1>1. /\ T \in Seq(Steps) /\ Len(T) \in 0..1 /\ R \in Seq(Steps) /\ Len(R) \in 0..2
  BY TxCall, RxCall
<1>2. ApplyCss(c) = T \o R
  BY DEF ApplyCss
<1> HIDE DEF T, R
<1>3. T \o R \in Seq(Steps) /\ Len(T \o R) = Len(T) + Len(R)
  BY <1>1, CallTyped, Zenon
<1>4. Len(T \o R) <= 8
  <2> DEFINE n == Len(T \o R)
             a == Len(T)
             d == Len(R)
  <2>1. n = a + d /\ a \in 0..1 /\ d \in 0..2
    BY <1>1, <1>3
  <2> HIDE DEF n, a, d
  <2>2. n <= 8
    BY <2>1
  <2> QED
    BY <2>2 DEF n
<1> QED
  BY <1>2, <1>3, <1>4

\* Every way to call.
LEMMA CallIs ==
  ASSUME NEW t \in Threads, Call(t)
  PROVE  \E call \in Seq(Steps) : Len(call) <= 8 /\ th' = [th EXCEPT ![t] = call]
<1>1. CASE \E f \in Freqs, b \in Bandwidths, tx, rx \in Css :
             th' = [th EXCEPT ![t] = ApplyChannel(f, b, tx, rx)]
  BY <1>1, ChannelCall
<1>2. CASE \E c \in Css : th' = [th EXCEPT ![t] = ApplyCss(c)]
  <2>1. PICK c \in Css : th' = [th EXCEPT ![t] = ApplyCss(c)]
    BY <1>2
  <2>3. ApplyCss(c) \in Seq(Steps) /\ Len(ApplyCss(c)) <= 8
    BY CssCall
  <2> QED
    BY <2>1, <2>3
<1>3. CASE \E b \in Bandwidths : th' = [th EXCEPT ![t] = at1846s_api_set_bandwidth(b)]
  <2>1. PICK b \in Bandwidths : th' = [th EXCEPT ![t] = at1846s_api_set_bandwidth(b)]
    BY <1>3
  <2>2. /\ at1846s_api_set_bandwidth(b) \in Seq(Steps)
        /\ Len(at1846s_api_set_bandwidth(b)) = 4
    BY BandwidthCall
  <2>3. Len(at1846s_api_set_bandwidth(b)) <= 8
    BY <2>2
  <2> QED
    BY <2>1, <2>2, <2>3, Zenon
<1>4. CASE \E f \in Freqs : th' = [th EXCEPT ![t] = at1846s_api_set_frequency(f)]
  <2>1. PICK f \in Freqs : th' = [th EXCEPT ![t] = at1846s_api_set_frequency(f)]
    BY <1>4
  <2>2. at1846s_api_set_frequency(f) \in Seq(Steps) /\ Len(at1846s_api_set_frequency(f)) <= 8
    BY FrequencyCall
  <2> QED
    BY <2>1, <2>2
<1> QED
  BY <1>1, <1>2, <1>3, <1>4 DEF Call

\* A call that begins keeps the invariant.
LEMMA CallKeeps == ASSUME RadioInv, NEW t \in Threads, Call(t) PROVE RadioInv'
<1>1. PICK call \in Seq(Steps) : Len(call) <= 8 /\ th' = [th EXCEPT ![t] = call]
  BY CallIs
<1>2. UNCHANGED <<chip, driver, sq, air, asked, torn, fails>>
  BY DEF Call
<1>3. TypeOK /\ CallsTyped
  BY DEF RadioInv
<1>4. th' \in [Threads -> Seq(Steps)] /\ \A q \in Threads : Len(th'[q]) <= 8
  BY <1>1, <1>3 DEF TypeOK, CallsTyped
<1>5. TypeOK' /\ CallsTyped'
  BY <1>2, <1>3, <1>4, Zenon DEF TypeOK, CallsTyped, driver
<1> QED
  BY <1>2, <1>5, AsideKeeps DEF driver

-----------------------------------------------------------------------------
(* The squelch thread and what is received.                                 *)

\* What only the squelch thread or the air changes keeps it.
LEMMA SquelchKeeps ==
  ASSUME RadioInv, UNCHANGED <<chip, bank, rx_css_active, sq_threshold, th, asked, torn, fails>>,
         sq_open' \in BOOLEAN, css_miss_count' \in 0..HoldPolls, sq' \in {"sleep", "flags"},
         air' \in [noise : 0..NoiseMax, tone : {0} \cup Tones]
  PROVE  RadioInv'
<1>1. TypeOK' /\ CallsTyped'
  BY Zenon DEF RadioInv, TypeOK, CallsTyped
<1> QED
  BY <1>1, AsideKeeps

\* A poll of the squelch thread keeps it, on either page and with a failed read.
LEMMA PollKeeps == ASSUME RadioInv, SquelchPoll PROVE RadioInv'
<1>0. /\ sq_open \in BOOLEAN /\ css_miss_count \in 0..HoldPolls /\ sq \in {"sleep", "flags"}
      /\ air \in [noise : 0..NoiseMax, tone : {0} \cup Tones] /\ 0 \in 0..HoldPolls
  BY RadioAssumption DEF RadioInv, TypeOK, RadioAssumption
<1>1. CASE PollNoise
  <2>1. UNCHANGED <<chip, bank, rx_css_active, sq_threshold, th, air, asked, torn, fails>>
    BY <1>1 DEF PollNoise
  <2>2. sq_open' \in BOOLEAN
    <3>1. carrier_open \in BOOLEAN
      BY DEF carrier_open
    <3>2. sq_open' = sq_open \/ sq_open' = carrier_open
      BY <1>1, Zenon DEF PollNoise
    <3> QED
      BY <1>0, <3>1, <3>2, Zenon
  <2>3. css_miss_count' \in 0..HoldPolls /\ sq' \in {"sleep", "flags"}
    BY <1>0, <1>1 DEF PollNoise
  <2> QED
    BY <1>0, <2>1, <2>2, <2>3, SquelchKeeps
<1>2. ASSUME NEW detected \in BOOLEAN, PollFlags(detected) PROVE RadioInv'
  <2>1. /\ UNCHANGED <<chip, bank, rx_css_active, sq_threshold, th, air, asked, torn, fails>>
        /\ sq' = "sleep" /\ sq_open' \in BOOLEAN
    BY <1>2 DEF PollFlags
  <2>2. css_miss_count' \in 0..HoldPolls
    <3>1. \/ css_miss_count' \in {0, css_miss_count}
          \/ css_miss_count < HoldPolls /\ css_miss_count' = css_miss_count + 1
      BY <1>2 DEF PollFlags
    <3> QED
      BY <3>1, <1>0, RadioAssumption DEF RadioAssumption
  <2> QED
    BY <1>0, <2>1, <2>2, SquelchKeeps
<1>3. CASE PollFlagsGood \/ PollBadFlags
  BY <1>2, <1>3 DEF PollFlagsGood, PollBadFlags, css_detected
<1>4. CASE PollWrongPage
  <2>1. UNCHANGED <<chip, bank, rx_css_active, sq_threshold, th, air, asked, torn, fails>>
    BY <1>4 DEF PollWrongPage
  <2>2. sq_open' \in BOOLEAN /\ css_miss_count' \in 0..HoldPolls /\ sq' \in {"sleep", "flags"}
    BY <1>0, <1>4 DEF PollWrongPage
  <2> QED
    BY <1>0, <2>1, <2>2, SquelchKeeps
<1> QED
  BY <1>1, <1>3, <1>4 DEF SquelchPoll

-----------------------------------------------------------------------------
(* Any number of callers.                                                  *)

\* After main() the invariant holds.
LEMMA Started == Init => RadioInv
<1> SUFFICES ASSUME Init PROVE RadioInv
  OBVIOUS
<1>1. PICK f \in Freqs, b \in Bandwidths :
        LET tuned == [RX |-> 1, BW |-> b, FREQ |-> f, CTCSS2 |-> 0, VOICE_SEL |-> 0]
        IN  /\ chip = [page |-> 0, reg |-> tuned]
            /\ bank = [current |-> 0,
                       cache |-> [p \in {0, 1} |-> IF p = 0 THEN tuned
                                                  ELSE [r \in Reg |-> Unknown]]]
            /\ asked = [freq |-> f, bw |-> b, css |-> 0]
  BY DEF Init
<1> DEFINE tuned == [RX |-> 1, BW |-> b, FREQ |-> f, CTCSS2 |-> 0, VOICE_SEL |-> 0]
           blank == [r \in Reg |-> Unknown]
<1>2. /\ rx_css_active = FALSE /\ css_miss_count = 0 /\ sq_threshold \in Levels /\ sq_open = FALSE
      /\ th = [t \in Threads |-> << >>] /\ sq = "sleep" /\ air = [noise |-> NoiseMax, tone |-> 0]
      /\ torn = FALSE /\ fails = 0
  BY DEF Init
<1>3. tuned \in Field /\ blank \in Field
  BY DEF Field, Reg
<1>4. /\ chip.page = 0 /\ chip.reg = tuned /\ chip \in [page : {0, 1}, reg : Field]
      /\ bank.current = 0 /\ bank.cache[0] = tuned
      /\ bank \in [current : {0, 1}, cache : [{0, 1} -> Field]]
  BY <1>1, <1>3
<1>5. TypeOK
  <2>1. th \in [Threads -> Seq(Steps)] /\ \A t \in Threads : Len(th[t]) <= 8
    BY <1>2
  <2>2. css_miss_count \in 0..HoldPolls /\ fails \in 0..MaxFails
    BY <1>2, RadioAssumption DEF RadioAssumption
  <2>3. air \in [noise : 0..NoiseMax, tone : {0} \cup Tones]
    BY <1>2, RadioAssumption DEF RadioAssumption
  <2>4. rx_css_active \in BOOLEAN /\ sq_open \in BOOLEAN /\ torn \in BOOLEAN
    BY <1>2
  <2> QED
    BY <1>2, <1>4, <2>1, <2>2, <2>3, <2>4, Zenon DEF TypeOK
<1>6. CallsTyped
  <2>1. f \in Int /\ b \in Int /\ asked = [freq |-> f, bw |-> b, css |-> 0]
    BY <1>1, Arguments
  <2>2. asked \in [freq : Int, bw : Int, css : Int]
    BY <2>1
  <2>3. th \in [Threads -> Seq(Steps)]
    BY <1>2
  <2> QED
    BY <2>2, <2>3 DEF CallsTyped
<1>7. Good(Now)
  <2>1. /\ chip \in [page : {0, 1}, reg : Field] /\ chip.page = 0 /\ chip.reg = bank.cache[0]
        /\ bank \in [current : {0, 1}, cache : [{0, 1} -> Field]] /\ bank.current = 0
    BY <1>4
  <2>2. Now = [chip |-> chip, bank |-> bank]
    BY DEF Now
  <2> HIDE DEF tuned, blank
  <2>3. Now \in States
    BY <2>1, <2>2 DEF States
  <2> QED
    BY <2>1, <2>2, <2>3 DEF Good
<1>8. Tuned
  BY <1>1, <1>4 DEF Tuned
<1> QED
  BY <1>5, <1>6, <1>7, <1>8 DEF RadioInv

\* A new squelch threshold keeps it.
LEMMA SquelchSetKeeps == ASSUME RadioInv, NEW t \in Threads, SetSquelch(t) PROVE RadioInv'
<1>1. /\ UNCHANGED <<chip, bank, rx_css_active, css_miss_count, sq_open, th, sq, air, asked, torn, fails>>
      /\ sq_threshold' \in Levels
  BY DEF SetSquelch
<1>2. TypeOK' /\ CallsTyped'
  BY <1>1, Zenon DEF RadioInv, TypeOK, CallsTyped
<1> QED
  BY <1>1, <1>2, AsideKeeps

\* What is received keeps it.
LEMMA AirKeeps == ASSUME RadioInv, AirChanges PROVE RadioInv'
<1>1. /\ UNCHANGED <<chip, bank, rx_css_active, sq_threshold, th, asked, torn, fails>>
      /\ UNCHANGED <<sq_open, css_miss_count, sq>>
      /\ air' \in [noise : 0..NoiseMax, tone : {0} \cup Tones]
  BY DEF AirChanges, driver
<1>2. sq_open' \in BOOLEAN /\ css_miss_count' \in 0..HoldPolls /\ sq' \in {"sleep", "flags"}
  BY <1>1 DEF RadioInv, TypeOK
<1> QED
  BY <1>1, <1>2, SquelchKeeps

\* Every step keeps it.
LEMMA StepKeeps == RadioInv /\ [Next]_vars => RadioInv'
<1> SUFFICES ASSUME RadioInv, [Next]_vars PROVE RadioInv'
  OBVIOUS
<1>1. CASE CallNext
  <2>1. PICK t \in Threads : Call(t) \/ SetSquelch(t) \/ CallStep(t)
    BY <1>1 DEF CallNext
  <2> QED
    BY <2>1, CallKeeps, SquelchSetKeeps, DoneKeeps, FailsKeeps, ReapplyKeeps, ArmedKeeps
       DEF CallStep
<1>2. CASE SquelchPoll
  BY <1>2, PollKeeps
<1>3. CASE AirChanges
  BY <1>3, AirKeeps
<1>4. CASE UNCHANGED vars
  <2>1. /\ UNCHANGED <<chip, bank, rx_css_active, sq_threshold, th, asked, torn, fails>>
        /\ UNCHANGED <<sq_open, css_miss_count, sq, air>>
    BY <1>4 DEF vars, driver
  <2>2. /\ sq_open' \in BOOLEAN /\ css_miss_count' \in 0..HoldPolls /\ sq' \in {"sleep", "flags"}
        /\ air' \in [noise : 0..NoiseMax, tone : {0} \cup Tones]
    BY <2>1 DEF RadioInv, TypeOK
  <2> QED
    BY <2>1, <2>2, SquelchKeeps
<1> QED
  BY <1>1, <1>2, <1>3, <1>4 DEF Next

\* The inductive invariant: whatever callers, squelch thread and failed transfers do, as long as no
\* page table stopped half way, driver and chip agree between locked sections.
THEOREM RadioInvariant == Spec => []RadioInv
  BY Started, StepKeeps, PTL DEF Spec

\* Any number of callers, with the squelch thread reading in between and any of
\* their transfers failing: a write is suppressed only if the chip holds its
\* value already, unless a page table stopped half way.
THEOREM CacheStaysTrue == Spec => []CacheTrue
<1>1. RadioInv => CacheTrue
  BY InvGives
<1> QED
  BY <1>1, RadioInvariant, PTL

\* What the last frequency and bandwidth calls that succeeded asked for is what
\* the chip is on, with its receiver on, as soon as nobody is calling.
THEOREM FrequencyStays == Spec => []FrequencyTook
<1>1. RadioInv => FrequencyTook
  BY InvGives
<1> QED
  BY <1>1, RadioInvariant, PTL

-----------------------------------------------------------------------------
(* One caller: the order of a call's steps.                                 *)

\* How a step of a call stands to the next, to what its failure skips, and to the one before.
LinkAt(c, k) ==
  /\ c[k].do = "bwTable" =>
       c[k].rest = 3 /\ k + 3 <= Len(c) /\ c[k + 1].do = "bwControl" /\ c[k + 3].do = "select"
  /\ c[k].do = "bwControl" =>
       c[k].rest = 2 /\ k + 2 <= Len(c) /\ c[k + 1].do = "reapply" /\ c[k + 2].do = "select"
  /\ c[k].do = "reapply" => k + 1 <= Len(c) /\ c[k + 1].do = "select"
  /\ c[k].do = "rxCss" =>
       /\ c[k].rest = 1 /\ k + 1 <= Len(c)
       /\ c[k + 1].do = "rxArmed" /\ c[k + 1].arg = c[k].arg
  /\ c[k].do \in {"frequency", "select", "txCss"} => c[k].rest = 0
  /\ k > 1 => /\ c[k].do = "bwControl" => c[k - 1].do = "bwTable"
              /\ c[k].do = "rxArmed" => c[k - 1].do = "rxCss"

Linked(c) == \A k \in 1..Len(c) : LinkAt(c, k)

\* Without DCS codes the tone of the transmitter is followed by the receiver's.
TxLinked(c) == \A k \in 1..Len(c) : c[k].do = "txCss" => k + 1 <= Len(c) /\ c[k + 1].do = "rxCss"

\* The step a call is at.
Doing(c) == IF c = << >> THEN "none" ELSE Head(c).do

\* The rest of a call, step by step.
LEMMA RestIs ==
  ASSUME NEW c \in Seq(Steps), NEW n \in Nat, n <= Len(c), NEW d, d = SubSeq(c, n + 1, Len(c))
  PROVE  /\ d \in Seq(Steps) /\ Len(d) = Len(c) - n
         /\ \A k \in 1..Len(d) : d[k] = c[k + n]
<1>1. Len(c) \in Nat
  BY LenProperties
<1>2. \A i \in (n + 1)..Len(c) : c[i] \in Steps
  BY <1>1, ElementOfSeq
<1> DEFINE m == Len(c)
<1> HIDE DEF m
<1>3. m \in Nat /\ m = Len(c) /\ n <= m /\ (\A i \in (n + 1)..m : c[i] \in Steps)
      /\ d = SubSeq(c, n + 1, m)
  BY <1>1, <1>2 DEF m
<1>4. /\ d \in Seq(Steps)
      /\ Len(d) = IF n + 1 <= m THEN m - (n + 1) + 1 ELSE 0
      /\ \A i \in 1..(m - (n + 1) + 1) : d[i] = c[(n + 1) + i - 1]
  BY <1>3, SubSeqProperties
<1>5. (IF n + 1 <= m THEN m - (n + 1) + 1 ELSE 0) = m - n
  BY <1>3
<1>6. Len(d) = m - n /\ m - n \in Nat
  BY <1>4, <1>5, <1>3
<1>7. \A k \in 1..(m - n) : d[k] = c[k + n]
  <2>1. m - (n + 1) + 1 = m - n
    BY <1>3
  <2>2. \A k \in 1..(m - n) : (n + 1) + k - 1 = k + n
    BY <1>3
  <2> QED
    BY <1>4, <2>1, <2>2
<1> QED
  BY <1>3, <1>4, <1>6, <1>7

\* A step of one call and a step of another with what a link looks at.
Alike(c, p, d, k) ==
  /\ p \in 1..Len(c) /\ k \in 1..Len(d) /\ d[k] = c[p]
  /\ \A j \in 1..3 : p + j <= Len(c) => k + j <= Len(d) /\ d[k + j] = c[p + j]
  /\ k > 1 => \/ p > 1 /\ d[k - 1] = c[p - 1]
              \/ c[p].do \notin {"bwControl", "rxArmed"}

\* A link is kept where a call has the same steps.
LEMMA LinkMoves ==
  ASSUME NEW c, NEW d, Len(c) \in Nat, Len(d) \in Nat, NEW p, NEW k,
         LinkAt(c, p), Alike(c, p, d, k)
  PROVE  LinkAt(d, k)
<1>0. /\ p \in 1..Len(c) /\ k \in 1..Len(d) /\ d[k] = c[p]
      /\ \A j \in 1..3 : p + j <= Len(c) => k + j <= Len(d) /\ d[k + j] = c[p + j]
      /\ k > 1 => \/ p > 1 /\ d[k - 1] = c[p - 1]
                  \/ c[p].do \notin {"bwControl", "rxArmed"}
  BY DEF Alike
<1>1. /\ p + 3 <= Len(c) => p + 2 <= Len(c) /\ p + 1 <= Len(c)
      /\ p + 2 <= Len(c) => p + 1 <= Len(c)
  BY <1>0
<1>2. /\ p + 1 <= Len(c) => k + 1 <= Len(d) /\ d[k + 1] = c[p + 1]
      /\ p + 2 <= Len(c) => k + 2 <= Len(d) /\ d[k + 2] = c[p + 2]
      /\ p + 3 <= Len(c) => k + 3 <= Len(d) /\ d[k + 3] = c[p + 3]
  <2>1. 1 \in 1..3 /\ 2 \in 1..3 /\ 3 \in 1..3
    OBVIOUS
  <2> QED
    BY <1>0, <2>1, Zenon
<1> QED
  BY <1>0, <1>1, <1>2, Zenon DEF LinkAt

\* The rest of a call keeps the order.
LEMMA RestLinked ==
  ASSUME NEW c \in Seq(Steps), NEW n \in Nat, n <= Len(c), NEW d, d = SubSeq(c, n + 1, Len(c))
  PROVE  /\ Linked(c) => Linked(d)
         /\ TxLinked(c) => TxLinked(d)
<1>1. /\ Len(c) \in Nat /\ Len(d) \in Nat /\ Len(d) = Len(c) - n
      /\ \A k \in 1..Len(d) : d[k] = c[k + n]
  BY RestIs, LenProperties
<1> DEFINE m == Len(c)
           l == Len(d)
<1> HIDE DEF m, l
<1>2. m \in Nat /\ l \in Nat /\ l = m - n
  BY <1>1 DEF m, l
<1>0. \A k \in 1..l : d[k] = c[k + n]
  BY <1>1 DEF l
<1>3. ASSUME NEW k \in 1..l
      PROVE  /\ k + n \in 1..m /\ d[k] = c[k + n]
             /\ \A j \in 1..3 : (k + n) + j <= m => k + j <= l /\ d[k + j] = c[(k + n) + j]
             /\ k > 1 => k + n > 1 /\ d[k - 1] = c[(k + n) - 1]
  <2>1. k + n \in 1..m
    BY <1>2
  <2>2. d[k] = c[k + n]
    BY <1>0
  <2>3. ASSUME NEW j \in 1..3, (k + n) + j <= m PROVE k + j <= l /\ d[k + j] = c[(k + n) + j]
    <3>1. k + j \in 1..l /\ (k + j) + n = (k + n) + j
      BY <1>2, <2>3
    <3>2. d[k + j] = c[(k + j) + n]
      BY <1>0, <3>1, Zenon
    <3>3. k + j <= l
      BY <1>2, <3>1
    <3> QED
      BY <3>1, <3>2, <3>3, Zenon
  <2>4. ASSUME k > 1 PROVE k + n > 1 /\ d[k - 1] = c[(k + n) - 1]
    <3>1. k - 1 \in 1..l /\ (k - 1) + n = (k + n) - 1 /\ k + n > 1
      BY <1>2, <2>4
    <3>2. d[k - 1] = c[(k - 1) + n]
      BY <1>0, <3>1, Zenon
    <3> QED
      BY <3>1, <3>2, Zenon
  <2> QED
    BY <2>1, <2>2, <2>3, <2>4
<1>4. ASSUME Linked(c) PROVE Linked(d)
  <2> SUFFICES ASSUME NEW k \in 1..l PROVE LinkAt(d, k)
    BY DEF Linked, l
  <2> DEFINE p == k + n
  <2>1. /\ p \in 1..m /\ d[k] = c[p]
        /\ \A j \in 1..3 : p + j <= m => k + j <= l /\ d[k + j] = c[p + j]
        /\ k > 1 => p > 1 /\ d[k - 1] = c[p - 1]
    BY <1>3
  <2> HIDE DEF p
  <2>2. LinkAt(c, p)
    BY <1>4, <2>1 DEF Linked, m
  <2>3. Alike(c, p, d, k)
    BY <2>1, Zenon DEF m, l, Alike
  <2> QED
    BY <1>1, <2>2, <2>3, LinkMoves, Zenon
<1>5. ASSUME TxLinked(c) PROVE TxLinked(d)
  <2> SUFFICES ASSUME NEW k \in 1..l, d[k].do = "txCss"
               PROVE  k + 1 <= l /\ d[k + 1].do = "rxCss"
    BY DEF TxLinked, l
  <2>1. k + n \in 1..m /\ d[k] = c[k + n]
    BY <1>3
  <2>2. (k + n) + 1 <= m /\ c[(k + n) + 1].do = "rxCss"
    BY <1>5, <2>1 DEF TxLinked, m
  <2>3. k + 1 <= l /\ d[k + 1] = c[(k + n) + 1]
    <3>1. 1 \in 1..3
      OBVIOUS
    <3> QED
      BY <2>2, <1>3, <3>1, Zenon
  <2> QED
    BY <2>2, <2>3
<1> QED
  BY <1>4, <1>5

\* The first step of a call.
LEMMA FirstStep ==
  ASSUME NEW c \in Seq(Steps), c # << >>
  PROVE  /\ Len(c) \in Nat /\ 1 <= Len(c) /\ 1 \in 1..Len(c)
         /\ Head(c) = c[1] /\ c[1] \in Steps /\ Doing(c) = c[1].do
<1>1. Len(c) \in Nat /\ Len(c) # 0
  BY LenProperties, EmptySeq
<1>2. Head(c) = c[1] /\ c[1] \in Steps
  BY <1>1, ElementOfSeq
<1> DEFINE m == Len(c)
<1> HIDE DEF m
<1>3. m \in Nat /\ m # 0
  BY <1>1 DEF m
<1>4. 1 <= m /\ 1 \in 1..m
  BY <1>3
<1> QED
  BY <1>1, <1>2, <1>4 DEF Doing, m

\* What a failure skips ends with the last step of the same function.
LEMMA SkipFits ==
  ASSUME NEW c \in Seq(Steps), c # << >>, Linked(c)
  PROVE  /\ c[1].do \in Sections =>
              /\ 1 + c[1].rest \in 1..4 /\ 1 + c[1].rest <= Len(c)
              /\ c[1].rest # 0 => c[1 + c[1].rest].do \in {"select", "rxArmed"}
              /\ c[1].rest = 0 => c[1].do \notin {"bwTable", "rxCss"}
         /\ c[1].do = "reapply" => 2 <= Len(c) /\ c[2].do = "select"
<1>1. 1 \in 1..Len(c) /\ 1 <= Len(c) /\ Len(c) \in Nat
  BY FirstStep
<1>2. LinkAt(c, 1)
  BY <1>1 DEF Linked
<1>3. 1 + 3 = 4 /\ 1 + 2 = 3 /\ 1 + 1 = 2 /\ 1 + 0 = 1
  OBVIOUS
<1>4. CASE c[1].do = "bwTable"
  BY <1>2, <1>3, <1>4 DEF LinkAt
<1>5. CASE c[1].do = "bwControl"
  BY <1>2, <1>3, <1>5 DEF LinkAt
<1>6. CASE c[1].do = "rxCss"
  BY <1>2, <1>3, <1>6 DEF LinkAt
<1>7. CASE c[1].do \in {"frequency", "select", "txCss"}
  BY <1>1, <1>2, <1>3, <1>7 DEF LinkAt
<1>8. CASE c[1].do = "reapply"
  BY <1>2, <1>3, <1>8 DEF LinkAt, Sections
<1> QED
  BY <1>4, <1>5, <1>6, <1>7, <1>8 DEF Sections

\* Where a skip lands.
LEMMA RestLands ==
  ASSUME NEW c \in Seq(Steps), c # << >>, Linked(c),
         NEW n \in Nat, 1 <= n, n <= Len(c), NEW d, d = SubSeq(c, n + 1, Len(c))
  PROVE  /\ d \in Seq(Steps) /\ Linked(d)
         /\ TxLinked(c) => TxLinked(d)
         /\ n < Len(c) => d # << >> /\ Head(d) = c[n + 1]
         /\ n = Len(c) => d = << >>
         /\ Doing(d) = "bwControl" => c[n].do = "bwTable"
         /\ Doing(d) = "rxArmed" => c[n].do = "rxCss" /\ Head(d).arg = c[n].arg
<1>3. /\ d \in Seq(Steps) /\ Len(d) = Len(c) - n /\ Linked(d) /\ (TxLinked(c) => TxLinked(d))
      /\ (\A k \in 1..Len(d) : d[k] = c[k + n])
  <2>1. d \in Seq(Steps) /\ Len(d) = Len(c) - n
    BY RestIs
  <2>2. \A k \in 1..Len(d) : d[k] = c[k + n]
    BY RestIs
  <2>3. Linked(d) /\ (TxLinked(c) => TxLinked(d))
    BY RestLinked
  <2> QED
    BY <2>1, <2>2, <2>3
<1> DEFINE m == Len(c)
<1> HIDE DEF m
<1>4. m \in Nat /\ n <= m /\ Len(d) = m - n
  BY <1>3, LenProperties DEF m
<1>5. ASSUME n = m PROVE d = << >>
  BY <1>3, <1>4, <1>5, EmptySeq
<1>6. ASSUME n < m PROVE d # << >> /\ Head(d) = c[n + 1] /\ n + 1 \in 1..m /\ d[1] = c[n + 1]
  <2>1. Len(d) # 0 /\ n + 1 \in 1..m /\ 1 + n = n + 1
    BY <1>4, <1>6
  <2>2. d # << >>
    BY <2>1
  <2>3. Head(d) = d[1] /\ 1 \in 1..Len(d)
    BY <1>3, <2>2, FirstStep
  <2> QED
    BY <1>3, <2>1, <2>2, <2>3
<1>7. ASSUME d # << >>
      PROVE  /\ d[1] = c[n + 1] /\ n + 1 \in 1..m /\ n + 1 > 1 /\ (n + 1) - 1 = n /\ n \in 1..m
             /\ Doing(d) = d[1].do /\ Head(d) = d[1]
  <2>1. n < m
    BY <1>4, <1>5, <1>7
  <2>2. n + 1 > 1 /\ (n + 1) - 1 = n /\ n \in 1..m
    BY <1>4, <2>1
  <2> QED
    BY <2>1, <2>2, <1>3, <1>6, <1>7, FirstStep
<1>8. Doing(d) = "bwControl" => c[n].do = "bwTable"
  <2> SUFFICES ASSUME Doing(d) = "bwControl" PROVE c[n].do = "bwTable"
    OBVIOUS
  <2>1. d # << >>
    BY DEF Doing
  <2> DEFINE p == n + 1
  <2>2. p \in 1..m /\ p > 1 /\ p - 1 = n /\ c[p].do = "bwControl"
    BY <1>7, <2>1
  <2> HIDE DEF p
  <2>3. LinkAt(c, p)
    BY <2>2 DEF Linked, m
  <2> QED
    BY <2>2, <2>3 DEF LinkAt
<1>9. Doing(d) = "rxArmed" => c[n].do = "rxCss" /\ Head(d).arg = c[n].arg
  <2> SUFFICES ASSUME Doing(d) = "rxArmed" PROVE c[n].do = "rxCss" /\ Head(d).arg = c[n].arg
    OBVIOUS
  <2>1. d # << >>
    BY DEF Doing
  <2> DEFINE p == n + 1
  <2>2. p \in 1..m /\ p > 1 /\ p - 1 = n /\ c[p].do = "rxArmed" /\ Head(d) = c[p] /\ n \in 1..m
    BY <1>7, <2>1
  <2>3. LinkAt(c, n) /\ LinkAt(c, p)
    BY <2>2 DEF Linked, m
  <2>4. c[n].do = "rxCss" => c[p].arg = c[n].arg
    BY <2>3 DEF LinkAt
  <2> HIDE DEF p
  <2>5. c[n].do = "rxCss"
    BY <2>2, <2>3 DEF LinkAt
  <2> QED
    BY <2>2, <2>4, <2>5
<1>10. /\ n < Len(c) => d # << >> /\ Head(d) = c[n + 1]
       /\ n = Len(c) => d = << >>
  BY <1>5, <1>6 DEF m
<1> QED
  BY <1>3, <1>8, <1>9, <1>10, Zenon

\* The same of a thread's call.
LEMMA Landing ==
  ASSUME CallsTyped, NEW t \in Threads, th[t] # << >>, Linked(th[t]),
         NEW n \in Nat, 1 <= n, n <= Len(th[t]), Skip(t, n)
  PROVE  /\ th'[t] \in Seq(Steps) /\ Linked(th'[t])
         /\ TxLinked(th[t]) => TxLinked(th'[t])
         /\ n < Len(th[t]) => th'[t] # << >> /\ Head(th'[t]) = th[t][n + 1]
         /\ n = Len(th[t]) => th'[t] = << >>
         /\ Doing(th'[t]) = "bwControl" => th[t][n].do = "bwTable"
         /\ Doing(th'[t]) = "rxArmed" => th[t][n].do = "rxCss" /\ Head(th'[t]).arg = th[t][n].arg
<1>1. th[t] \in Seq(Steps) /\ th'[t] = SubSeq(th[t], n + 1, Len(th[t]))
  BY DEF CallsTyped, Skip
<1> QED
  BY <1>1, RestLands, Zenon

\* Two calls in a row keep the order, if the second begins at its beginning.
LEMMA ConcatLinked ==
  ASSUME NEW c \in Seq(Steps), NEW d \in Seq(Steps), Linked(c), Linked(d),
         Doing(c) \notin {"bwControl", "rxArmed"}, Doing(d) \notin {"bwControl", "rxArmed"}
  PROVE  /\ c \o d \in Seq(Steps) /\ Linked(c \o d)
         /\ Doing(c \o d) \notin {"bwControl", "rxArmed"}
         /\ TxLinked(c) /\ TxLinked(d) => TxLinked(c \o d)
<1> DEFINE e == c \o d
           m == Len(c)
           l == Len(d)
<1>1. e \in Seq(Steps) /\ Len(e) = m + l
  BY ConcatProperties
<1>2. \A i \in 1..(m + l) : e[i] = IF i <= m THEN c[i] ELSE d[i - m]
  BY ConcatProperties
<1>3. m \in Nat /\ l \in Nat
  BY LenProperties
<1> HIDE DEF e, m, l
<1>4. ASSUME NEW i \in 1..m PROVE i \in 1..(m + l) /\ e[i] = c[i]
  <2>1. i \in 1..(m + l) /\ i <= m
    BY <1>3
  <2> QED
    BY <1>2, <2>1
<1>5. ASSUME NEW i \in 1..l PROVE i + m \in 1..(m + l) /\ e[i + m] = d[i]
  <2>1. i + m \in 1..(m + l) /\ ~(i + m <= m) /\ (i + m) - m = i
    BY <1>3
  <2> QED
    BY <1>2, <2>1
<1>6. ASSUME NEW k \in 1..(m + l), k <= m PROVE Alike(c, k, e, k)
  <2>1. k \in 1..m /\ e[k] = c[k]
    BY <1>3, <1>4, <1>6
  <2>2. ASSUME NEW j \in 1..3, k + j <= m PROVE k + j <= m + l /\ e[k + j] = c[k + j]
    <3>1. k + j \in 1..m /\ k + j <= m + l
      BY <1>3, <2>2
    <3> QED
      BY <1>4, <3>1
  <2>3. ASSUME k > 1 PROVE e[k - 1] = c[k - 1]
    <3>1. k - 1 \in 1..m
      BY <1>3, <2>1, <2>3
    <3> QED
      BY <1>4, <3>1
  <2> QED
    BY <1>1, <2>1, <2>2, <2>3 DEF Alike, m
<1>7. ASSUME NEW i \in 1..l PROVE Alike(d, i, e, i + m)
  <2>1. i + m \in 1..(m + l) /\ e[i + m] = d[i]
    BY <1>5
  <2>2. ASSUME NEW j \in 1..3, i + j <= l PROVE (i + m) + j <= m + l /\ e[(i + m) + j] = d[i + j]
    <3>1. i + j \in 1..l /\ (i + m) + j <= m + l /\ (i + j) + m = (i + m) + j
      BY <1>3, <2>2
    <3>2. e[(i + j) + m] = d[i + j]
      BY <1>5, <3>1
    <3> QED
      BY <3>1, <3>2
  <2>3. \/ i > 1 /\ e[(i + m) - 1] = d[i - 1]
        \/ d[i].do \notin {"bwControl", "rxArmed"}
    <3>1. CASE i > 1
      <4>1. i - 1 \in 1..l /\ (i - 1) + m = (i + m) - 1
        BY <1>3, <3>1
      <4>2. e[(i - 1) + m] = d[i - 1]
        BY <1>5, <4>1
      <4> QED
        BY <3>1, <4>1, <4>2
    <3>2. CASE i = 1
      <4>1. l # 0
        BY <3>2, <1>3
      <4>2. d # << >>
        BY <4>1, EmptySeq DEF l
      <4> QED
        BY <3>2, <4>2, FirstStep
    <3> QED
      BY <3>1, <3>2, <1>3
  <2> QED
    BY <1>1, <2>1, <2>2, <2>3 DEF Alike, l
<1>8. ASSUME NEW k \in 1..(m + l), ~(k <= m) PROVE k - m \in 1..l /\ (k - m) + m = k
  BY <1>3, <1>8
<1>9. Linked(e)
  <2> SUFFICES ASSUME NEW k \in 1..(m + l) PROVE LinkAt(e, k)
    BY <1>1 DEF Linked
  <2>0. Len(c) \in Nat /\ Len(d) \in Nat /\ Len(e) \in Nat
    BY <1>1, <1>3, LenProperties
  <2>1. CASE k <= m
    <3>1. k \in 1..Len(c)
      BY <2>1, <1>3 DEF m
    <3>2. LinkAt(c, k)
      BY <3>1 DEF Linked
    <3> QED
      BY <2>0, <2>1, <3>2, <1>6, LinkMoves, Zenon
  <2>2. CASE ~(k <= m)
    <3>1. k - m \in 1..Len(d) /\ (k - m) + m = k
      BY <2>2, <1>8 DEF l
    <3>2. LinkAt(d, k - m)
      BY <3>1 DEF Linked
    <3>3. Alike(d, k - m, e, k)
      BY <3>1, <1>7 DEF l
    <3> QED
      BY <2>0, <3>2, <3>3, LinkMoves, Zenon
  <2> QED
    BY <2>1, <2>2
<1>10. ASSUME TxLinked(c), TxLinked(d) PROVE TxLinked(e)
  <2> SUFFICES ASSUME NEW k \in 1..(m + l), e[k].do = "txCss"
               PROVE  k + 1 <= m + l /\ e[k + 1].do = "rxCss"
    BY <1>1 DEF TxLinked
  <2>1. CASE k <= m
    <3>1. k \in 1..m /\ e[k] = c[k]
      BY <2>1, <1>3, <1>4
    <3>2. k + 1 <= m /\ c[k + 1].do = "rxCss"
      BY <3>1, <1>10 DEF TxLinked, m
    <3>3. k + 1 \in 1..m /\ k + 1 <= m + l
      BY <3>1, <3>2, <1>3
    <3> QED
      BY <3>2, <3>3, <1>4
  <2>2. CASE ~(k <= m)
    <3> DEFINE i == k - m
    <3>1. i \in 1..l /\ i + m = k
      BY <2>2, <1>8
    <3> HIDE DEF i
    <3>2. d[i].do = "txCss"
      BY <3>1, <1>5
    <3>3. i + 1 <= l /\ d[i + 1].do = "rxCss"
      BY <3>1, <3>2, <1>10 DEF TxLinked, l
    <3>4. i + 1 \in 1..l /\ (i + 1) + m = k + 1 /\ k + 1 <= m + l
      BY <3>1, <3>3, <1>3
    <3>5. e[(i + 1) + m] = d[i + 1]
      BY <3>4, <1>5
    <3> QED
      BY <3>3, <3>4, <3>5
  <2> QED
    BY <2>1, <2>2
<1>11. Doing(e) \notin {"bwControl", "rxArmed"}
  <2>1. CASE c = << >>
    <3>1. e = d
      BY <2>1, ConcatEmptySeq DEF e
    <3> QED
      BY <3>1
  <2>2. CASE c # << >>
    <3>1. 1 \in 1..m /\ Doing(c) = c[1].do
      BY <2>2, FirstStep DEF m
    <3>2. e[1] = c[1] /\ 1 \in 1..(m + l)
      BY <3>1, <1>4
    <3>3. e # << >>
      BY <1>1, <1>3, <3>2
    <3>4. Doing(e) = e[1].do
      BY <3>3, <1>1, FirstStep
    <3> QED
      BY <3>1, <3>2, <3>4
  <2> QED
    BY <2>1, <2>2
<1> QED
  BY <1>1, <1>9, <1>10, <1>11 DEF e

\* A step by its fields.
LEMMA DoIs ==
  ASSUME NEW what, NEW arg, NEW rest
  PROVE  /\ Do(what, arg, rest).do = what /\ Do(what, arg, rest).arg = arg
         /\ Do(what, arg, rest).rest = rest
  BY DEF Do

\* A call that begins with the first step of a function.
Begins(c) == Doing(c) \notin {"bwControl", "rxArmed"}

\* at1846s_api_set_frequency() in order.
LEMMA FrequencyLinked ==
  ASSUME NEW f \in Freqs, NEW c, c = at1846s_api_set_frequency(f)
  PROVE  Linked(c) /\ TxLinked(c) /\ Begins(c)
<1>1. c = << Do("frequency", f, 0) >>
  BY DEF at1846s_api_set_frequency
<1>2. Len(c) = 1 /\ c[1].do = "frequency" /\ c[1].rest = 0 /\ c # << >> /\ Head(c) = c[1]
  BY <1>1, DoIs
<1>3. \A k \in 1..1 : k = 1
  OBVIOUS
<1>4. LinkAt(c, 1)
  BY <1>2 DEF LinkAt
<1> QED
  BY <1>2, <1>3, <1>4 DEF Linked, TxLinked, Begins, Doing

\* at1846s_api_set_bandwidth() in order.
LEMMA BandwidthLinked ==
  ASSUME NEW b \in Bandwidths, NEW c, c = at1846s_api_set_bandwidth(b)
  PROVE  Linked(c) /\ TxLinked(c) /\ Begins(c)
<1>1. c = << Do("bwTable", 0, 3), Do("bwControl", b, 2), Do("reapply", 0, 1), Do("select", 0, 0) >>
  BY DEF at1846s_api_set_bandwidth
<1>2. Len(c) = 4 /\ c # << >> /\ Head(c) = c[1]
  BY <1>1
<1>3. /\ c[1].do = "bwTable" /\ c[1].rest = 3 /\ c[2].do = "bwControl" /\ c[2].rest = 2
      /\ c[3].do = "reapply" /\ c[4].do = "select" /\ c[4].rest = 0
  BY <1>1, DoIs
<1>4. LinkAt(c, 1)
  BY <1>2, <1>3 DEF LinkAt
<1>5. LinkAt(c, 2)
  BY <1>2, <1>3 DEF LinkAt
<1>6. LinkAt(c, 3)
  BY <1>2, <1>3 DEF LinkAt
<1>7. LinkAt(c, 4)
  BY <1>2, <1>3 DEF LinkAt
<1>8. \A k \in 1..4 : k = 1 \/ k = 2 \/ k = 3 \/ k = 4
  OBVIOUS
<1> QED
  BY <1>2, <1>3, <1>4, <1>5, <1>6, <1>7, <1>8 DEF Linked, TxLinked, Begins, Doing

\* The receiver's code, in order.
LEMMA RxLinked ==
  ASSUME NEW r \in Css, NEW c, c = radio_state_set_rx_css(r)
  PROVE  /\ Linked(c) /\ TxLinked(c) /\ Begins(c)
         /\ r # Dcs => c # << >> /\ Doing(c) = "rxCss"
<1>1. CASE r = Dcs
  <2>1. c = << >>
    BY <1>1 DEF radio_state_set_rx_css
  <2>2. Len(c) = 0
    BY <2>1
  <2>3. \A k \in 1..0 : FALSE
    OBVIOUS
  <2> QED
    BY <1>1, <2>1, <2>2, <2>3 DEF Linked, TxLinked, Begins, Doing
<1>2. CASE r # Dcs
  <2>1. c = << Do("rxCss", r, 1), Do("rxArmed", r, 0) >>
    BY <1>2 DEF radio_state_set_rx_css
  <2>2. Len(c) = 2 /\ c # << >> /\ Head(c) = c[1]
    BY <2>1
  <2>3. /\ c[1].do = "rxCss" /\ c[1].rest = 1 /\ c[1].arg = r
        /\ c[2].do = "rxArmed" /\ c[2].arg = r
    BY <2>1, DoIs
  <2>4. LinkAt(c, 1)
    BY <2>2, <2>3 DEF LinkAt
  <2>5. LinkAt(c, 2)
    BY <2>2, <2>3 DEF LinkAt
  <2>6. \A k \in 1..2 : k = 1 \/ k = 2
    OBVIOUS
  <2> QED
    BY <2>2, <2>3, <2>4, <2>5, <2>6 DEF Linked, TxLinked, Begins, Doing
<1> QED
  BY <1>1, <1>2

\* The transmitter's code alone.
LEMMA TxAlone ==
  ASSUME NEW x \in Css, NEW c, c = radio_state_set_tx_css(x)
  PROVE  Linked(c) /\ Begins(c) /\ \A k \in 1..Len(c) : k = Len(c)
<1>1. CASE x = Dcs
  <2>1. c = << >>
    BY <1>1 DEF radio_state_set_tx_css
  <2>2. Len(c) = 0
    BY <2>1
  <2>3. \A k \in 1..0 : FALSE
    OBVIOUS
  <2> QED
    BY <2>1, <2>2, <2>3 DEF Linked, Begins, Doing
<1>2. CASE x # Dcs
  <2>1. c = << Do("txCss", 0, 0) >>
    BY <1>2 DEF radio_state_set_tx_css
  <2>2. Len(c) = 1 /\ c # << >> /\ Head(c) = c[1] /\ c[1].do = "txCss" /\ c[1].rest = 0
    BY <2>1, DoIs
  <2>3. LinkAt(c, 1)
    BY <2>2 DEF LinkAt
  <2>4. \A k \in 1..1 : k = 1
    OBVIOUS
  <2> QED
    BY <2>2, <2>3, <2>4 DEF Linked, Begins, Doing
<1> QED
  BY <1>1, <1>2

\* The two codes, in order; without DCS codes the transmitter's reset of the tone is followed by the
\* receiver's.
LEMMA CssLinked ==
  ASSUME NEW x \in Css, NEW r \in Css, NEW c, c = radio_state_set_tx_css(x) \o radio_state_set_rx_css(r)
  PROVE  /\ c \in Seq(Steps) /\ Linked(c) /\ Begins(c)
         /\ Dcs \notin Css => TxLinked(c)
<1> DEFINE T == radio_state_set_tx_css(x)
           R == radio_state_set_rx_css(r)
<1>1. T \in Seq(Steps) /\ R \in Seq(Steps)
  BY TxCall, RxCall
<1>2. Linked(T) /\ Begins(T) /\ Linked(R) /\ Begins(R)
  BY TxAlone, RxLinked
<1>3. c \in Seq(Steps) /\ Linked(c) /\ Begins(c)
  <2> HIDE DEF T, R
  <2>1. c = T \o R
    BY DEF T, R
  <2>2. /\ Doing(T) \notin {"bwControl", "rxArmed"} /\ Doing(R) \notin {"bwControl", "rxArmed"}
    BY <1>2 DEF Begins
  <2>3. T \o R \in Seq(Steps) /\ Linked(T \o R) /\ Doing(T \o R) \notin {"bwControl", "rxArmed"}
    BY <1>1, <1>2, <2>2, ConcatLinked
  <2> QED
    BY <2>1, <2>3 DEF Begins
<1>4. ASSUME Dcs \notin Css PROVE TxLinked(c)
  <2>1. /\ T = << Do("txCss", 0, 0) >>
        /\ R = << Do("rxCss", r, 1), Do("rxArmed", r, 0) >>
    BY <1>4 DEF radio_state_set_tx_css, radio_state_set_rx_css
  <2>2. Len(T) = 1 /\ Len(R) = 2 /\ R[1].do = "rxCss" /\ R[2].do = "rxArmed"
    BY <2>1, DoIs
  <2> HIDE DEF T, R
  <2>3. Len(c) = 3 /\ c[2].do = "rxCss" /\ c[3].do = "rxArmed"
    <3>1. c = T \o R
      BY DEF T, R
    <3>0. Len(T \o R) = Len(T) + Len(R)
      BY <1>1, ConcatProperties
    <3>9. \A i \in 1..(Len(T) + Len(R)) :
            (T \o R)[i] = IF i <= Len(T) THEN T[i] ELSE R[i - Len(T)]
      BY <1>1, ConcatProperties
    <3>2. /\ Len(T \o R) = 1 + 2
          /\ \A i \in 1..(1 + 2) : (T \o R)[i] = IF i <= 1 THEN T[i] ELSE R[i - 1]
      BY <2>2, <3>0, <3>9, Zenon
    <3>3. 2 \in 1..(1 + 2) /\ 3 \in 1..(1 + 2) /\ ~(2 <= 1) /\ ~(3 <= 1) /\ 2 - 1 = 1 /\ 3 - 1 = 2
      OBVIOUS
    <3>4. Len(T \o R) = 3
      BY <3>2
    <3>5. (T \o R)[2] = R[1] /\ (T \o R)[3] = R[2]
      BY <3>2, <3>3
    <3> QED
      BY <2>2, <3>1, <3>4, <3>5, Zenon
  <2>4. \A k \in 1..3 : k = 1 \/ k = 2 \/ k = 3
    OBVIOUS
  <2> QED
    BY <2>3, <2>4 DEF TxLinked
<1> QED
  BY <1>3, <1>4

\* Every call is in order and begins at its beginning.
LEMMA CallLinked ==
  ASSUME NEW t \in Threads, Call(t)
  PROVE  \E c \in Seq(Steps) : /\ th' = [th EXCEPT ![t] = c]
                               /\ Linked(c) /\ Begins(c) /\ (Dcs \notin Css => TxLinked(c))
<1>1. CASE \E f \in Freqs, b \in Bandwidths, tx, rx \in Css :
             th' = [th EXCEPT ![t] = ApplyChannel(f, b, tx, rx)]
  <2>1. PICK f \in Freqs, b \in Bandwidths, tx \in Css, rx \in Css :
          th' = [th EXCEPT ![t] = ApplyChannel(f, b, tx, rx)]
    BY <1>1
  <2> DEFINE F == at1846s_api_set_frequency(f)
             B == at1846s_api_set_bandwidth(b)
             T == radio_state_set_tx_css(tx)
             R == radio_state_set_rx_css(rx)
             C == T \o R
  <2>2. F \in Seq(Steps) /\ B \in Seq(Steps) /\ T \in Seq(Steps) /\ R \in Seq(Steps)
    BY FrequencyCall, BandwidthCall, TxCall, RxCall
  <2>3. Linked(F) /\ Begins(F) /\ TxLinked(F) /\ Linked(B) /\ Begins(B) /\ TxLinked(B)
    BY FrequencyLinked, BandwidthLinked
  <2>4. C \in Seq(Steps) /\ Linked(C) /\ Begins(C) /\ (Dcs \notin Css => TxLinked(C))
    BY CssLinked
  <2>5. ApplyChannel(f, b, tx, rx) = ((F \o B) \o T) \o R
    BY DEF ApplyChannel
  <2> HIDE DEF F, B, T, R
  <2>6. F \o B \in Seq(Steps) /\ Linked(F \o B) /\ Begins(F \o B) /\ TxLinked(F \o B)
    BY <2>2, <2>3, ConcatLinked DEF Begins
  <2>7. ((F \o B) \o T) \o R = (F \o B) \o C
    BY <2>2, <2>6, ConcatAssociative DEF C
  <2> DEFINE D == F \o B
  <2> HIDE DEF C, D
  <2>8. D \in Seq(Steps) /\ Linked(D) /\ Begins(D) /\ TxLinked(D)
    BY <2>6 DEF D
  <2>9. D \o C \in Seq(Steps) /\ Linked(D \o C) /\ Begins(D \o C)
    BY <2>4, <2>8, ConcatLinked DEF Begins
  <2>10. Dcs \notin Css => TxLinked(D \o C)
    BY <2>4, <2>8, ConcatLinked DEF Begins
  <2>11. ApplyChannel(f, b, tx, rx) = D \o C
    BY <2>5, <2>7 DEF D
  <2> QED
    BY <2>1, <2>9, <2>10, <2>11
<1>2. CASE \E c \in Css : th' = [th EXCEPT ![t] = ApplyCss(c)]
  BY <1>2, CssLinked DEF ApplyCss
<1>3. CASE \E b \in Bandwidths : th' = [th EXCEPT ![t] = at1846s_api_set_bandwidth(b)]
  BY <1>3, BandwidthCall, BandwidthLinked
<1>4. CASE \E f \in Freqs : th' = [th EXCEPT ![t] = at1846s_api_set_frequency(f)]
  BY <1>4, FrequencyCall, FrequencyLinked
<1> QED
  BY <1>1, <1>2, <1>3, <1>4 DEF Call

-----------------------------------------------------------------------------
(* One caller: the page.                                                    *)

\* A section other than the page table stays on the page it finds, through or failed.
LEMMA SectionPages ==
  ASSUME NEW s \in States, NEW step \in Steps, step.do \in Sections \ {"bwTable"}
  PROVE  /\ Sent(s, Writes(step)).chip.page = s.chip.page
         /\ Sent(s, Writes(step)).bank.current = s.bank.current
         /\ \A i \in 1..Len(Writes(step)) :
              /\ Broken(s, Writes(step), i).chip.page = s.chip.page
              /\ Broken(s, Writes(step), i).bank.current = s.bank.current
<1> DEFINE ws == Writes(step)
           W(u, n, i) == IF i <= n THEN at1846s_write_reg_locked(u, ws[i]) ELSE u
           Same(u) == u \in States /\ u.chip.page = s.chip.page /\ u.bank.current = s.bank.current
<1>1. Len(ws) \in 1..4 /\ \A i \in 1..Len(ws) : IsWord(ws[i])
  BY WordSections
<1> HIDE DEF ws
<1>2. ASSUME NEW n \in 0..Len(ws) PROVE Same(WriteFirst(n, s, ws))
  <2>1. \A u : \A i \in 1..4 : Same(u) => Same(W(u, n, i))
    <3> SUFFICES ASSUME NEW u, NEW i \in 1..4, Same(u) PROVE Same(W(u, n, i))
      OBVIOUS
    <3>1. CASE i <= n
      <4>1. IsWord(ws[i])
        BY <1>1, <3>1
      <4> QED
        BY <3>1, <4>1, WriteWordTyped
    <3>2. CASE ~(i <= n)
      BY <3>2
    <3> QED
      BY <3>1, <3>2
  <2>2. WriteFirst(n, s, ws) = W(W(W(W(s, n, 1), n, 2), n, 3), n, 4)
    BY DEF WriteFirst
  <2>3. Same(s)
    OBVIOUS
  <2> HIDE DEF W, Same
  <2>4. Same(W(s, n, 1))
    BY <2>1, <2>3
  <2>5. Same(W(W(s, n, 1), n, 2))
    BY <2>1, <2>4
  <2>6. Same(W(W(W(s, n, 1), n, 2), n, 3))
    BY <2>1, <2>5
  <2>7. Same(W(W(W(W(s, n, 1), n, 2), n, 3), n, 4))
    BY <2>1, <2>6
  <2> QED
    BY <2>2, <2>7
<1>3. Sent(s, ws).chip.page = s.chip.page /\ Sent(s, ws).bank.current = s.bank.current
  <2>1. Len(ws) \in 0..Len(ws)
    BY <1>1
  <2> QED
    BY <1>2, <2>1 DEF Sent
<1>4. ASSUME NEW i \in 1..Len(ws)
      PROVE  /\ Broken(s, ws, i).chip.page = s.chip.page
             /\ Broken(s, ws, i).bank.current = s.bank.current
  <2>1. i - 1 \in 0..Len(ws) /\ IsWord(ws[i])
    BY <1>1
  <2>2. Same(WriteFirst(i - 1, s, ws))
    BY <1>2, <2>1
  <2> QED
    BY <2>1, <2>2, AnnounceWord DEF Broken
<1> QED
  BY <1>3, <1>4 DEF ws

\* A bandwidth that was set, or is about to be, means page 0 is selected.
Pages(t) == asked.bw # Unknown \/ Doing(th[t]) = "bwControl" => chip.page = 0 /\ bank.current = 0

PageInv(t) == RadioInv /\ Linked(th[t]) /\ Pages(t)

\* What the section of a thread is, and what is left of its call after it.
LEMMA SectionIs ==
  ASSUME RadioInv, NEW t \in Threads, Linked(th[t]), Busy(t, Sections)
  PROVE  /\ th[t] # << >> /\ th[t] \in Seq(Steps) /\ Now \in States
         /\ Head(th[t]) = th[t][1] /\ Head(th[t]) \in Steps /\ Head(th[t]).do \in Sections
         /\ Doing(th[t]) = Head(th[t]).do /\ Len(th[t]) \in Nat /\ 1 <= Len(th[t])
         /\ 1 + Head(th[t]).rest \in 1..4 /\ 1 + Head(th[t]).rest <= Len(th[t])
         /\ Head(th[t]).rest # 0 => th[t][1 + Head(th[t]).rest].do \in {"select", "rxArmed"}
         /\ Head(th[t]).rest = 0 => Head(th[t]).do \notin {"bwTable", "rxCss"}
<1>1. th[t] # << >> /\ Head(th[t]).do \in Sections
  BY DEF Busy
<1>2. th[t] \in Seq(Steps) /\ Now \in States
  BY NowState DEF RadioInv, CallsTyped
<1>3. /\ Len(th[t]) \in Nat /\ 1 <= Len(th[t])
      /\ Head(th[t]) = th[t][1] /\ th[t][1] \in Steps /\ Doing(th[t]) = th[t][1].do
  BY <1>1, <1>2, FirstStep
<1> QED
  BY <1>1, <1>2, <1>3, SkipFits

\* A section that is through.
LEMMA DonePages ==
  ASSUME NEW t \in Threads, PageInv(t), SectionDone(t) PROVE Linked(th'[t]) /\ Pages(t)'
<1> DEFINE step == Head(th[t])
           u == Sent(Now, Writes(step))
<1>1. /\ Busy(t, Sections) /\ chip' = u.chip /\ bank' = u.bank
      /\ asked' = Settles(step) /\ Skip(t, 1)
  BY DEF SectionDone
<1>2. /\ step \in Steps /\ step.do \in Sections /\ Now \in States /\ th[t] # << >>
      /\ Doing(th[t]) = step.do /\ th[t][1] = step /\ 1 <= Len(th[t])
  BY <1>1, SectionIs DEF PageInv
<1>3. Linked(th'[t]) /\ (Doing(th'[t]) = "bwControl" => step.do = "bwTable")
  BY <1>1, <1>2, Landing DEF PageInv, RadioInv
<1> HIDE DEF step
<1>4. CASE step.do = "bwTable"
  <2>1. Writes(step) = Table
    BY <1>4 DEF Writes, at1846s_bw_regs, Table
  <2>2. u.chip.page = 0 /\ u.bank.current = 0
    BY <1>2, <2>1, TableIs, TableSent DEF Sent
  <2> QED
    BY <1>1, <1>3, <2>2 DEF Pages
<1>5. CASE step.do # "bwTable"
  <2>1. u.chip.page = chip.page /\ u.bank.current = bank.current
    BY <1>2, <1>5, SectionPages DEF Now
  <2>2. asked'.bw # Unknown => asked.bw # Unknown \/ step.do = "bwControl"
    BY <1>1 DEF Settles
  <2>3. asked'.bw # Unknown => chip.page = 0 /\ bank.current = 0
    BY <1>2, <2>2 DEF PageInv, Pages
  <2> HIDE DEF u
  <2> QED
    BY <1>1, <1>3, <1>5, <2>1, <2>3 DEF Pages
<1> QED
  BY <1>4, <1>5

\* A section that fails: what it leaves on another page leaves no bandwidth set.
LEMMA FailsPages ==
  ASSUME NEW t \in Threads, PageInv(t), SectionFails(t) PROVE Linked(th'[t]) /\ Pages(t)'
<1> DEFINE step == Head(th[t])
<1>1. PICK i \in 1..Len(Writes(step)) :
        chip' = Broken(Now, Writes(step), i).chip /\ bank' = Broken(Now, Writes(step), i).bank
  BY DEF SectionFails
<1>2. Busy(t, Sections) /\ asked' = Leaves(step) /\ Skip(t, 1 + step.rest)
  BY DEF SectionFails
<1>3. /\ step \in Steps /\ step.do \in Sections /\ Now \in States /\ th[t] # << >>
      /\ Doing(th[t]) = step.do /\ th[t][1] = step
      /\ 1 + step.rest \in 1..4 /\ 1 + step.rest <= Len(th[t])
      /\ step.rest # 0 => th[t][1 + step.rest].do \in {"select", "rxArmed"}
      /\ step.rest = 0 => step.do \notin {"bwTable", "rxCss"}
  BY <1>2, SectionIs DEF PageInv
<1> DEFINE n == 1 + step.rest
<1>4. n \in Nat /\ 1 <= n /\ (step.rest = 0 => n = 1)
  BY <1>3
<1>5. CallsTyped /\ Linked(th[t])
  BY DEF PageInv, RadioInv
<1>6. Linked(th'[t]) /\ (Doing(th'[t]) = "bwControl" => th[t][n].do = "bwTable")
  <2> HIDE DEF n
  <2>1. n <= Len(th[t]) /\ Skip(t, n)
    BY <1>2, <1>3 DEF n
  <2> QED
    BY <1>3, <1>4, <1>5, <2>1, Landing
<1>7. Doing(th'[t]) # "bwControl"
  <2>1. CASE step.rest = 0
    <3>1. th[t][n] = step
      BY <1>3, <1>4, <2>1
    <3> QED
      BY <1>3, <1>6, <2>1, <3>1
  <2>2. CASE step.rest # 0
    BY <1>3, <1>6, <2>2
  <2> QED
    BY <2>1, <2>2
<1> HIDE DEF step
<1>8. CASE step.do \in {"bwTable", "bwControl"}
  <2>1. asked'.bw = Unknown
    <3>1. asked \in [freq : Int, bw : Int, css : Int]
      BY <1>5 DEF CallsTyped
    <3> QED
      BY <1>2, <1>8, <3>1 DEF Leaves
  <2> QED
    BY <1>6, <1>7, <2>1 DEF Pages
<1>9. CASE step.do \notin {"bwTable", "bwControl"}
  <2>1. chip'.page = chip.page /\ bank'.current = bank.current
    BY <1>1, <1>3, <1>9, SectionPages DEF Now
  <2>2. asked'.bw = asked.bw
    <3>1. asked \in [freq : Int, bw : Int, css : Int]
      BY <1>5 DEF CallsTyped
    <3> QED
      BY <1>2, <1>9, <3>1 DEF Leaves
  <2> QED
    BY <1>6, <1>7, <2>1, <2>2 DEF Pages, PageInv
<1> QED
  BY <1>8, <1>9

\* What leaves chip and bandwidth alone keeps it, if no bandwidth is about to be set.
LEMMA AsidePages ==
  ASSUME NEW t \in Threads, PageInv(t), UNCHANGED <<chip, bank>>, asked'.bw = asked.bw,
         Doing(th'[t]) # "bwControl" \/ th'[t] = th[t]
  PROVE  Pages(t)'
  BY DEF PageInv, Pages

\* The steps outside of the lock.
LEMMA OutsideLands ==
  ASSUME RadioInv, NEW t \in Threads, Linked(th[t]), Reapply(t) \/ RxArmed(t)
  PROVE  /\ Linked(th'[t]) /\ Doing(th'[t]) \notin {"bwControl", "rxArmed"}
         /\ TxLinked(th[t]) => TxLinked(th'[t])
<1>1. th[t] # << >> /\ CallsTyped /\ th[t] \in Seq(Steps)
  BY DEF RadioInv, CallsTyped, Reapply, RxArmed, Busy
<1>2. 1 <= Len(th[t]) /\ Head(th[t]) = th[t][1]
  BY <1>1, FirstStep
<1>3. CASE RxArmed(t)
  <2>1. Skip(t, 1) /\ th[t][1].do = "rxArmed"
    BY <1>2, <1>3 DEF RxArmed, Busy
  <2> QED
    BY <1>1, <1>2, <2>1, Landing
<1>4. CASE Reapply(t)
  <2>1. th[t][1].do = "reapply" /\ (Skip(t, 1) \/ Skip(t, 2))
    BY <1>2, <1>4 DEF Reapply, Busy
  <2>2. 2 <= Len(th[t]) /\ th[t][2].do = "select"
    BY <1>1, <2>1, SkipFits
  <2>3. CASE Skip(t, 1)
    BY <1>1, <1>2, <2>1, <2>3, Landing
  <2>4. CASE Skip(t, 2)
    BY <1>1, <2>2, <2>4, Landing
  <2> QED
    BY <2>1, <2>3, <2>4
<1> QED
  BY <1>3, <1>4

\* A call that begins.
LEMMA CallBegins ==
  ASSUME RadioInv, NEW t \in Threads, Call(t)
  PROVE  /\ th[t] = << >> /\ Linked(th'[t]) /\ Doing(th'[t]) \notin {"bwControl", "rxArmed"}
         /\ Dcs \notin Css => TxLinked(th'[t])
<1>1. PICK c \in Seq(Steps) : /\ th' = [th EXCEPT ![t] = c]
                              /\ Linked(c) /\ Begins(c) /\ (Dcs \notin Css => TxLinked(c))
  BY CallLinked
<1>2. th'[t] = c
  BY <1>1 DEF RadioInv, CallsTyped
<1>3. th[t] = << >>
  BY DEF Call
<1> QED
  BY <1>1, <1>2, <1>3 DEF Begins

\* What the squelch thread, the air and a new threshold leave alone.
LEMMA OthersLeave ==
  ASSUME NEW t, SetSquelch(t) \/ SquelchPoll \/ AirChanges \/ UNCHANGED vars
  PROVE  UNCHANGED <<chip, bank, rx_css_active, th, asked, torn>>
  BY DEF SetSquelch, SquelchPoll, PollNoise, PollFlagsGood, PollBadFlags, PollFlags, PollWrongPage,
         AirChanges, vars, driver

\* Every step keeps it, if there is one caller.
LEMMA PageStep ==
  ASSUME NEW t, Threads = {t}, PageInv(t), [Next]_vars PROVE PageInv(t)'
<1>1. RadioInv'
  BY StepKeeps DEF PageInv
<1>2. t \in Threads
  OBVIOUS
<1>3. CASE Call(t)
  <2>1. Linked(th'[t]) /\ Doing(th'[t]) # "bwControl"
    BY <1>2, <1>3, CallBegins DEF PageInv
  <2>2. UNCHANGED <<chip, bank, asked>>
    BY <1>3 DEF Call, driver
  <2> QED
    BY <1>1, <1>2, <2>1, <2>2, AsidePages DEF PageInv
<1>4. CASE SectionDone(t)
  BY <1>1, <1>2, <1>4, DonePages DEF PageInv
<1>5. CASE SectionFails(t)
  BY <1>1, <1>2, <1>5, FailsPages DEF PageInv
<1>6. CASE Reapply(t) \/ RxArmed(t)
  <2>1. Linked(th'[t]) /\ Doing(th'[t]) # "bwControl"
    BY <1>2, <1>6, OutsideLands DEF PageInv
  <2>2. UNCHANGED <<chip, bank>> /\ asked'.bw = asked.bw
    <3>1. asked \in [freq : Int, bw : Int, css : Int]
      BY DEF PageInv, RadioInv, CallsTyped
    <3> QED
      BY <1>6, <3>1 DEF Reapply, RxArmed, driver
  <2> QED
    BY <1>1, <1>2, <2>1, <2>2, AsidePages DEF PageInv
<1>7. CASE SetSquelch(t) \/ SquelchPoll \/ AirChanges \/ UNCHANGED vars
  <2>1. UNCHANGED <<chip, bank, th, asked>>
    BY <1>7, OthersLeave
  <2>2. Linked(th'[t])
    BY <2>1 DEF PageInv
  <2> QED
    BY <1>1, <1>2, <2>1, <2>2, AsidePages DEF PageInv
<1>8. CASE CallNext
  <2>1. Call(t) \/ SetSquelch(t) \/ CallStep(t)
    BY <1>8 DEF CallNext
  <2> QED
    BY <2>1, <1>3, <1>4, <1>5, <1>6, <1>7 DEF CallStep
<1> QED
  BY <1>7, <1>8 DEF Next

\* After main() no call is under way.
LEMMA NoneCalls == ASSUME Init, NEW t \in Threads PROVE th[t] = << >> /\ Linked(th[t]) /\ TxLinked(th[t])
<1>1. th[t] = << >> /\ Len(th[t]) = 0
  BY DEF Init
<1>2. \A k \in 1..0 : FALSE
  OBVIOUS
<1> QED
  BY <1>1, <1>2 DEF Linked, TxLinked

\* One caller: a bandwidth that was set has put driver and chip back on page 0, whatever a table
\* that stopped half way had left selected.
THEOREM PageComesBack ==
  ASSUME NEW CONSTANT t, Threads = {t} PROVE Spec => []PageReturns
<1>1. Init => PageInv(t)
  <2> SUFFICES ASSUME Init PROVE PageInv(t)
    OBVIOUS
  <2>1. RadioInv /\ Linked(th[t]) /\ th[t] = << >>
    BY Started, NoneCalls
  <2>2. chip.page = 0 /\ bank.current = 0
    BY DEF Init
  <2> QED
    BY <2>1, <2>2 DEF PageInv, Pages
<1>2. PageInv(t) /\ [Next]_vars => PageInv(t)'
  BY PageStep
<1>3. PageInv(t) => PageReturns
  BY DEF PageInv, Pages, PageReturns
<1> QED
  BY <1>1, <1>2, <1>3, PTL DEF Spec

-----------------------------------------------------------------------------
(* One caller: the tone detector.                                           *)

Waits == asked.css # Unknown /\ rx_css_active

\* What of the detector stands at which step of a call: between a bandwidth table and
\* at1846s_reapply_rx_css_select() the tone, between the transmitter's code and the receiver's the
\* selection; with the receiver's code written, the tone it was asked for.
Stands(t) ==
  ~torn =>
    /\ Doing(th[t]) = "rxArmed" =>
         /\ chip.reg["CTCSS2"] = Head(th[t]).arg
         /\ Head(th[t]).arg # 0 => chip.reg["VOICE_SEL"] = 1
    /\ Waits /\ Doing(th[t]) \notin {"bwControl", "reapply", "select", "rxArmed"} =>
         chip.reg["VOICE_SEL"] = 1
    /\ Waits /\ Doing(th[t]) \notin {"rxCss", "rxArmed"} => chip.reg["CTCSS2"] = asked.css

DetectorInv(t) == RadioInv /\ Linked(th[t]) /\ TxLinked(th[t]) /\ Stands(t)

\* at1846s_reapply_rx_css_select() selects the detector.
LEMMA SelectSent ==
  ASSUME NEW s, Good(s), NEW step \in Steps, step.do = "select", NEW u, u = Sent(s, Writes(step))
  PROVE  u.chip.reg["VOICE_SEL"] = 1
<1> DEFINE ws == << [VOICE_SEL |-> 1] >>
<1>1. Writes(step) = ws
  BY DEF Writes, reapply_writes
<1>2. \A i \in 1..1 : IsWord(ws[i])
  BY <1>1, WordSections DEF Sections
<1>3. DOMAIN ws[1] = {"VOICE_SEL"} /\ ws[1]["VOICE_SEL"] = 1 /\ Len(ws) = 1 /\ "VOICE_SEL" \in Reg
  BY DEF Reg
<1> HIDE DEF ws
<1>4. u = WriteFirst(1, s, ws)
  BY <1>1, <1>3 DEF Sent
<1> QED
  BY <1>2, <1>3, <1>4, WriteFirstTakes

\* The receiver's code writes its tone, and selects the detector for it.
LEMMA RxSent ==
  ASSUME NEW s, Good(s), NEW step \in Steps, step.do = "rxCss", NEW u, u = Sent(s, Writes(step))
  PROVE  /\ u.chip.reg["CTCSS2"] = step.arg
         /\ step.arg # 0 => u.chip.reg["VOICE_SEL"] = 1
<1>0. "VOICE_SEL" \in Reg /\ "CTCSS2" \in Reg
  BY DEF Reg
<1>1. CASE step.arg = 0
  <2> DEFINE ws == << [CTCSS2 |-> 0] >>
  <2>1. Writes(step) = ws
    BY <1>1 DEF Writes, rx_ctcss_writes
  <2>2. \A i \in 1..1 : IsWord(ws[i])
    BY <2>1, WordSections DEF Sections
  <2>3. DOMAIN ws[1] = {"CTCSS2"} /\ ws[1]["CTCSS2"] = 0 /\ Len(ws) = 1
    OBVIOUS
  <2> HIDE DEF ws
  <2>4. u = WriteFirst(1, s, ws)
    BY <2>1, <2>3 DEF Sent
  <2> QED
    BY <1>0, <1>1, <2>2, <2>3, <2>4, WriteFirstTakes
<1>2. CASE step.arg # 0
  <2> DEFINE ws == << [CTCSS2 |-> step.arg], [VOICE_SEL |-> 1] >>
  <2>1. Writes(step) = ws
    BY <1>2 DEF Writes, rx_ctcss_writes
  <2>2. \A i \in 1..2 : IsWord(ws[i])
    BY <2>1, WordSections DEF Sections
  <2>3. /\ DOMAIN ws[1] = {"CTCSS2"} /\ ws[1]["CTCSS2"] = step.arg
        /\ DOMAIN ws[2] = {"VOICE_SEL"} /\ ws[2]["VOICE_SEL"] = 1 /\ Len(ws) = 2
    OBVIOUS
  <2> HIDE DEF ws
  <2>4. u = WriteFirst(2, s, ws)
    BY <2>1, <2>3 DEF Sent
  <2>5. u.chip.reg["CTCSS2"] = step.arg
    BY <1>0, <2>2, <2>3, <2>4, WriteFirstTakes
  <2>6. u.chip.reg["VOICE_SEL"] = 1
    BY <1>0, <2>2, <2>3, <2>4, WriteFirstTakes
  <2> QED
    BY <2>5, <2>6
<1> QED
  BY <1>1, <1>2

\* A section that is through.
LEMMA DoneStands ==
  ASSUME NEW t \in Threads, DetectorInv(t), SectionDone(t)
  PROVE  Linked(th'[t]) /\ TxLinked(th'[t]) /\ Stands(t)'
<1> DEFINE step == Head(th[t])
           u == Sent(Now, Writes(step))
           d == Doing(th'[t])
<1>1. /\ Busy(t, Sections) /\ chip' = u.chip /\ bank' = u.bank
      /\ asked' = Settles(step) /\ Skip(t, 1) /\ UNCHANGED <<rx_css_active, torn>>
  BY DEF SectionDone
<1>2. /\ step \in Steps /\ step.do \in Sections /\ Now \in States /\ th[t] # << >>
      /\ Doing(th[t]) = step.do /\ th[t][1] = step /\ 1 <= Len(th[t]) /\ th[t] \in Seq(Steps)
      /\ CallsTyped /\ Linked(th[t]) /\ TxLinked(th[t]) /\ Len(th[t]) \in Nat
  BY <1>1, SectionIs DEF DetectorInv, RadioInv
<1>3. /\ Linked(th'[t]) /\ TxLinked(th'[t])
      /\ 1 < Len(th[t]) => th'[t] # << >> /\ Head(th'[t]) = th[t][2]
      /\ d = "rxArmed" => step.do = "rxCss" /\ Head(th'[t]).arg = step.arg
  <2>1. 1 + 1 = 2 /\ 1 <= 1 /\ 1 \in Nat
    OBVIOUS
  <2> QED
    BY <1>1, <1>2, <2>1, Landing
<1>4. /\ step.do = "bwTable" => d = "bwControl"
      /\ step.do = "bwControl" => d = "reapply"
      /\ step.do = "txCss" => d = "rxCss"
      /\ step.do = "rxCss" => d = "rxArmed"
  <2>1. 1 \in 1..Len(th[t]) /\ 1 + 1 = 2
    BY <1>2
  <2>2. LinkAt(th[t], 1)
    BY <1>2, <2>1 DEF Linked
  <2>3. /\ step.do = "bwTable" => 1 + 3 <= Len(th[t]) /\ th[t][2].do = "bwControl"
        /\ step.do = "bwControl" => 1 + 2 <= Len(th[t]) /\ th[t][2].do = "reapply"
        /\ step.do = "rxCss" => 1 + 1 <= Len(th[t]) /\ th[t][2].do = "rxArmed"
    BY <1>2, <2>1, <2>2 DEF LinkAt
  <2>4. step.do = "txCss" => 1 + 1 <= Len(th[t]) /\ th[t][2].do = "rxCss"
    BY <1>2, <2>1 DEF TxLinked
  <2>5. 1 < Len(th[t]) => d = th[t][2].do
    BY <1>3 DEF Doing
  <2> HIDE DEF step, d
  <2>6. step.do \in {"bwTable", "bwControl", "txCss", "rxCss"} => 1 < Len(th[t])
    BY <1>2, <2>3, <2>4
  <2> QED
    BY <2>3, <2>4, <2>5, <2>6
<1>5. asked'.css = asked.css
  <2>1. asked \in [freq : Int, bw : Int, css : Int]
    BY <1>2 DEF CallsTyped
  <2> HIDE DEF step
  <2> QED
    BY <1>1, <2>1 DEF Settles
<1>6. ASSUME ~torn PROVE Good(Now) /\ Now.chip.reg = chip.reg
  BY <1>6 DEF DetectorInv, RadioInv, Now
<1> HIDE DEF step, u
<1>7. ASSUME ~torn, NEW r \in Reg, Spares(step, r) PROVE chip'.reg[r] = chip.reg[r]
  <2>1. u.chip.reg[r] = Now.chip.reg[r]
    BY <1>2, <1>6, <1>7, SectionLeaves DEF u
  <2> QED
    BY <1>1, <1>6, <1>7, <2>1
<1>8. "VOICE_SEL" \in Reg /\ "CTCSS2" \in Reg
  BY DEF Reg
<1> DEFINE a == Head(th'[t]).arg
<1> HIDE DEF d, a
<1>9. ASSUME ~torn
      PROVE  /\ d = "rxArmed" => /\ chip'.reg["CTCSS2"] = a
                                 /\ a # 0 => chip'.reg["VOICE_SEL"] = 1
             /\ Waits /\ d \notin {"bwControl", "reapply", "select", "rxArmed"} =>
                  chip'.reg["VOICE_SEL"] = 1
             /\ Waits /\ d \notin {"rxCss", "rxArmed"} => chip'.reg["CTCSS2"] = asked.css
  <2>1. /\ Waits /\ step.do \notin {"bwControl", "reapply", "select", "rxArmed"} =>
             chip.reg["VOICE_SEL"] = 1
        /\ Waits /\ step.do \notin {"rxCss", "rxArmed"} => chip.reg["CTCSS2"] = asked.css
    BY <1>2, <1>9 DEF DetectorInv, Stands
  <2>2. d = "rxArmed" => step.do = "rxCss" /\ a = step.arg
    BY <1>3 DEF a
  <2>3. CASE step.do = "frequency"
    <3>1. chip'.reg["VOICE_SEL"] = chip.reg["VOICE_SEL"] /\ chip'.reg["CTCSS2"] = chip.reg["CTCSS2"]
      BY <1>7, <1>8, <1>9, <2>3 DEF Spares
    <3> QED
      BY <2>1, <2>2, <2>3, <3>1
  <2>4. CASE step.do = "bwTable"
    <3>1. chip'.reg["CTCSS2"] = chip.reg["CTCSS2"]
      BY <1>7, <1>8, <1>9, <2>4 DEF Spares
    <3> QED
      BY <1>4, <2>1, <2>2, <2>4, <3>1
  <2>5. CASE step.do = "bwControl"
    <3>1. chip'.reg["CTCSS2"] = chip.reg["CTCSS2"]
      BY <1>7, <1>8, <1>9, <2>5 DEF Spares
    <3> QED
      BY <1>4, <2>1, <2>2, <2>5, <3>1
  <2>6. CASE step.do = "select"
    <3>1. chip'.reg["CTCSS2"] = chip.reg["CTCSS2"]
      BY <1>7, <1>8, <1>9, <2>6 DEF Spares
    <3>2. chip'.reg["VOICE_SEL"] = 1
      BY <1>1, <1>2, <1>6, <1>9, <2>6, SelectSent DEF u
    <3> QED
      BY <2>1, <2>2, <2>6, <3>1, <3>2
  <2>7. CASE step.do = "txCss"
    <3>1. chip'.reg["VOICE_SEL"] = chip.reg["VOICE_SEL"]
      BY <1>7, <1>8, <1>9, <2>7 DEF Spares
    <3> QED
      BY <1>4, <2>1, <2>2, <2>7, <3>1
  <2>8. CASE step.do = "rxCss"
    <3>1. chip'.reg["CTCSS2"] = step.arg /\ (step.arg # 0 => chip'.reg["VOICE_SEL"] = 1)
      BY <1>1, <1>2, <1>6, <1>9, <2>8, RxSent DEF u
    <3> QED
      BY <1>4, <2>2, <2>8, <3>1
  <2> QED
    BY <1>2, <2>3, <2>4, <2>5, <2>6, <2>7, <2>8 DEF Sections
<1>10. torn' = torn /\ (Waits' <=> Waits)
  BY <1>1, <1>5 DEF Waits
<1> QED
  BY <1>3, <1>5, <1>9, <1>10 DEF Stands, d, a

\* A section that fails: it leaves no tone set, or it was about the frequency.
LEMMA FailsStands ==
  ASSUME NEW t \in Threads, DetectorInv(t), SectionFails(t)
  PROVE  Linked(th'[t]) /\ TxLinked(th'[t]) /\ Stands(t)'
<1> DEFINE step == Head(th[t])
           d == Doing(th'[t])
           n == 1 + step.rest
<1>1. PICK i \in 1..Len(Writes(step)) :
        LET s == Broken(Now, Writes(step), i)
        IN  /\ chip' = s.chip /\ bank' = s.bank
            /\ torn' = (torn \/ s.chip.page # 0 \/ s.bank.current # 0)
  BY DEF SectionFails
<1> DEFINE u == Broken(Now, Writes(step), i)
<1>2. /\ Busy(t, Sections) /\ asked' = Leaves(step) /\ Skip(t, 1 + step.rest)
      /\ UNCHANGED rx_css_active
  BY DEF SectionFails
<1>3. /\ step \in Steps /\ step.do \in Sections /\ Now \in States /\ th[t] # << >>
      /\ Doing(th[t]) = step.do /\ th[t][1] = step /\ th[t] \in Seq(Steps)
      /\ 1 + step.rest \in 1..4 /\ 1 + step.rest <= Len(th[t])
      /\ step.rest # 0 => th[t][1 + step.rest].do \in {"select", "rxArmed"}
      /\ step.rest = 0 => step.do \notin {"bwTable", "rxCss"}
      /\ CallsTyped /\ Linked(th[t]) /\ TxLinked(th[t])
  BY <1>2, SectionIs DEF DetectorInv, RadioInv
<1>4. n \in Nat /\ 1 <= n /\ (step.rest = 0 => n = 1)
  BY <1>3
<1>5. Linked(th'[t]) /\ TxLinked(th'[t]) /\ (d = "rxArmed" => th[t][n].do = "rxCss")
  <2> HIDE DEF n
  <2>1. n <= Len(th[t]) /\ Skip(t, n)
    BY <1>2, <1>3 DEF n
  <2> QED
    BY <1>3, <1>4, <2>1, Landing
<1>6. d # "rxArmed"
  <2>1. CASE step.rest = 0
    <3>1. th[t][n] = step
      BY <1>3, <1>4, <2>1
    <3> QED
      BY <1>3, <1>5, <2>1, <3>1
  <2>2. CASE step.rest # 0
    BY <1>3, <1>5, <2>2
  <2> QED
    BY <2>1, <2>2
<1>7. torn' = (torn \/ u.chip.page # 0 \/ u.bank.current # 0) /\ chip' = u.chip
  BY <1>1
<1> HIDE DEF step, u, d
<1>8. CASE step.do # "frequency"
  <2>1. asked'.css = Unknown
    <3>1. asked \in [freq : Int, bw : Int, css : Int]
      BY <1>3 DEF CallsTyped
    <3> QED
      BY <1>2, <1>8, <3>1 DEF Leaves
  <2> QED
    BY <1>5, <1>6, <2>1 DEF Stands, Waits, d
<1>9. CASE step.do = "frequency"
  <2>1. asked'.css = asked.css
    <3>1. asked \in [freq : Int, bw : Int, css : Int]
      BY <1>3 DEF CallsTyped
    <3> QED
      BY <1>2, <1>9, <3>1 DEF Leaves
  <2>2. ASSUME ~torn'
        PROVE  /\ ~torn
               /\ chip'.reg["VOICE_SEL"] = chip.reg["VOICE_SEL"]
               /\ chip'.reg["CTCSS2"] = chip.reg["CTCSS2"]
    <3>1. ~torn /\ u.chip.page = 0 /\ u.bank.current = 0
      BY <1>7, <2>2, Zenon
    <3>2. Good(Now) /\ Now.chip.reg = chip.reg
      BY <3>1 DEF DetectorInv, RadioInv, Now
    <3>3. \A r \in Reg : Spares(step, r) => u.chip.reg[r] = chip.reg[r]
      BY <3>1, <3>2, <1>3, SectionLeaves DEF u
    <3>4. /\ Spares(step, "VOICE_SEL") /\ Spares(step, "CTCSS2")
          /\ "VOICE_SEL" \in Reg /\ "CTCSS2" \in Reg
      BY <1>9 DEF Spares, Reg
    <3>5. chip'.reg["VOICE_SEL"] = chip.reg["VOICE_SEL"] /\ chip'.reg["CTCSS2"] = chip.reg["CTCSS2"]
      BY <3>3, <3>4, <1>7
    <3> QED
      BY <3>1, <3>5
  <2>3. ASSUME ~torn', Waits
        PROVE  chip.reg["VOICE_SEL"] = 1 /\ chip.reg["CTCSS2"] = asked.css
    <3>1. ~torn
      BY <2>2, <2>3
    <3> QED
      BY <3>1, <2>3, <1>3, <1>9 DEF DetectorInv, Stands
  <2>4. Waits' <=> Waits
    BY <1>2, <2>1 DEF Waits
  <2> QED
    BY <1>5, <1>6, <2>1, <2>2, <2>3, <2>4 DEF Stands, d
<1> QED
  BY <1>8, <1>9

\* The look at rx_css_active without the lock: nobody waits for a tone, or the select follows.
LEMMA ReapplyStands ==
  ASSUME NEW t \in Threads, DetectorInv(t), Reapply(t) PROVE Stands(t)'
<1>1. /\ th[t] # << >> /\ Head(th[t]).do = "reapply" /\ Skip(t, IF rx_css_active THEN 1 ELSE 2)
      /\ UNCHANGED <<chip, rx_css_active, asked, torn>>
  BY DEF Reapply, Busy, driver
<1>2. /\ CallsTyped /\ th[t] \in Seq(Steps) /\ Linked(th[t]) /\ Doing(th[t]) = "reapply"
      /\ Doing(th'[t]) # "rxArmed"
  BY <1>1, OutsideLands DEF DetectorInv, RadioInv, CallsTyped, Doing
<1>3. rx_css_active => Doing(th'[t]) = "select"
  <2> SUFFICES ASSUME rx_css_active PROVE Doing(th'[t]) = "select"
    OBVIOUS
  <2>1. th[t][1].do = "reapply" /\ Len(th[t]) \in Nat /\ 1 <= Len(th[t])
    BY <1>1, <1>2, FirstStep
  <2>2. 2 <= Len(th[t]) /\ th[t][2].do = "select"
    BY <1>1, <1>2, <2>1, SkipFits
  <2>3. Skip(t, 1) /\ 1 + 1 = 2 /\ 1 < Len(th[t]) /\ 1 \in Nat /\ 1 <= 1
    BY <1>1, <2>1, <2>2
  <2>4. th'[t] # << >> /\ Head(th'[t]) = th[t][2]
    BY <1>1, <1>2, <2>1, <2>3, Landing
  <2> QED
    BY <2>2, <2>4 DEF Doing
<1>4. ~torn /\ Waits => chip.reg["CTCSS2"] = asked.css
  BY <1>2 DEF DetectorInv, Stands
<1>5. (Waits' <=> Waits) /\ torn' = torn /\ (Waits => rx_css_active)
  BY <1>1 DEF Waits
<1> QED
  BY <1>1, <1>2, <1>3, <1>4, <1>5 DEF Stands

\* Arming the tone squelch: from here on it waits for the tone that was written.
LEMMA ArmedStands ==
  ASSUME NEW t \in Threads, DetectorInv(t), RxArmed(t) PROVE Stands(t)'
<1> DEFINE a == Head(th[t]).arg
<1>1. /\ th[t] # << >> /\ Doing(th[t]) = "rxArmed" /\ (rx_css_active' <=> a # 0)
      /\ asked' = [asked EXCEPT !.css = a] /\ UNCHANGED <<chip, torn>>
  BY DEF RxArmed, Busy, Doing
<1>2. asked'.css = a
  BY <1>1 DEF DetectorInv, RadioInv, CallsTyped
<1>3. Doing(th'[t]) # "rxArmed"
  BY OutsideLands DEF DetectorInv
<1>4. ~torn => chip.reg["CTCSS2"] = a /\ (a # 0 => chip.reg["VOICE_SEL"] = 1)
  BY <1>1 DEF DetectorInv, Stands
<1> HIDE DEF a
<1> QED
  BY <1>1, <1>2, <1>3, <1>4 DEF Stands, Waits

\* Every step keeps it, if there is one caller and no DCS code is asked for.
LEMMA DetectorStep ==
  ASSUME NEW t, Threads = {t}, Dcs \notin Css, DetectorInv(t), [Next]_vars PROVE DetectorInv(t)'
<1>1. RadioInv'
  BY StepKeeps DEF DetectorInv
<1>2. t \in Threads
  OBVIOUS
<1>3. CASE Call(t)
  <2>1. /\ th[t] = << >> /\ Linked(th'[t]) /\ TxLinked(th'[t]) /\ Doing(th'[t]) # "rxArmed"
    BY <1>2, <1>3, CallBegins DEF DetectorInv
  <2>2. UNCHANGED <<chip, rx_css_active, asked, torn>>
    BY <1>3 DEF Call, driver
  <2>3. Stands(t)'
    BY <2>1, <2>2 DEF DetectorInv, Stands, Doing, Waits
  <2> QED
    BY <1>1, <2>1, <2>3 DEF DetectorInv
<1>4. CASE SectionDone(t)
  BY <1>1, <1>2, <1>4, DoneStands DEF DetectorInv
<1>5. CASE SectionFails(t)
  BY <1>1, <1>2, <1>5, FailsStands DEF DetectorInv
<1>6. CASE Reapply(t)
  <2>1. Linked(th'[t]) /\ TxLinked(th'[t])
    BY <1>2, <1>6, OutsideLands DEF DetectorInv
  <2> QED
    BY <1>1, <1>2, <1>6, <2>1, ReapplyStands DEF DetectorInv
<1>7. CASE RxArmed(t)
  <2>1. Linked(th'[t]) /\ TxLinked(th'[t])
    BY <1>2, <1>7, OutsideLands DEF DetectorInv
  <2> QED
    BY <1>1, <1>2, <1>7, <2>1, ArmedStands DEF DetectorInv
<1>8. CASE SetSquelch(t) \/ SquelchPoll \/ AirChanges \/ UNCHANGED vars
  <2>1. UNCHANGED <<chip, rx_css_active, th, asked, torn>>
    BY <1>8, OthersLeave
  <2>2. Linked(th'[t]) /\ TxLinked(th'[t]) /\ Stands(t)'
    BY <2>1 DEF DetectorInv, Stands, Waits
  <2> QED
    BY <1>1, <2>2 DEF DetectorInv
<1>9. CASE CallNext
  <2>1. Call(t) \/ SetSquelch(t) \/ CallStep(t)
    BY <1>9 DEF CallNext
  <2> QED
    BY <2>1, <1>3, <1>4, <1>5, <1>6, <1>7, <1>8 DEF CallStep
<1> QED
  BY <1>8, <1>9 DEF Next

\* One caller, and no DCS codes (radio_state_set_rx_css() leaves the detector as it was for one,
\* after radio_state_set_tx_css() has reset it for a tone): between calls, while the squelch waits
\* for a tone, the chip detects that tone, whatever calls failed before, as long as no table
\* stopped half way.
THEOREM DetectorIsArmed ==
  ASSUME NEW CONSTANT t, Threads = {t}, Dcs \notin Css PROVE Spec => []DetectorStands
<1>1. Init => DetectorInv(t)
  <2> SUFFICES ASSUME Init PROVE DetectorInv(t)
    OBVIOUS
  <2>1. RadioInv /\ Linked(th[t]) /\ TxLinked(th[t]) /\ th[t] = << >>
    BY Started, NoneCalls
  <2>2. rx_css_active = FALSE
    BY DEF Init
  <2> QED
    BY <2>1, <2>2 DEF DetectorInv, Stands, Doing, Waits
<1>2. DetectorInv(t) /\ [Next]_vars => DetectorInv(t)'
  BY DetectorStep
<1>3. DetectorInv(t) => DetectorStands
  BY DEF DetectorInv, Stands, DetectorStands, Quiet, Doing, Waits
<1> QED
  BY <1>1, <1>2, <1>3, PTL DEF Spec
=============================================================================
