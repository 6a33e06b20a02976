------------------------------- MODULE At1846s --------------------------------
(***************************************************************************)
(* at1846s.c: the register pages of the transceiver and the driver's write *)
(* cache, the calls that program it, and the software squelch thread.      *)
(*                                                                         *)
(* Everything between i2c_lock and its release is one step, which may fail *)
(* at any of its transfers.  A call is a sequence of such steps and of the *)
(* steps outside of the lock; the callers' calls and the squelch thread    *)
(* interleave.                                                             *)
(*                                                                         *)
(* A register stands for the fields the driver changes: RX and BW are the  *)
(* low and the high byte of CONTROL; of CSS there is the tone of the       *)
(* detector (CTCSS2) and its selection (VOICE_SEL).  They are on page 0;   *)
(* what is written to page 1 shows nowhere, only its cache does.  main()   *)
(* has put the chip into FM RX.  A transfer that fails does not reach the  *)
(* chip.                                                                   *)
(***************************************************************************)
EXTENDS Integers, Sequences

CONSTANTS
  Threads,   \* the callers of radio_state
  Freqs, Bandwidths,
  Css,       \* what a channel or the settings may ask for: 0 is off, Dcs a DCS code
  Levels,    \* squelch thresholds
  NoiseMax,  \* the noise byte ranges over 0..NoiseMax
  Hysteresis,
  HoldPolls, \* AT1846S_CSS_HOLD_POLLS
  MaxFails   \* bound: locked sections of calls that fail

Dcs     == -1
Unknown == -1
Tones   == Css \ {0, Dcs}

ASSUME RadioAssumption ==
  /\ Freqs \cup Bandwidths \cup Levels \subseteq Nat
  /\ Css \subseteq Nat \cup {Dcs}
  /\ {NoiseMax, Hysteresis, HoldPolls, MaxFails} \subseteq Nat

VARIABLES
  chip,           \* [page, reg]: the selected page and the registers of page 0
  bank,           \* [current, cache]: current_bank and the write cache
  rx_css_active, css_miss_count,
  sq_threshold,
  sq_open,        \* the speaker is on; set_speaker() follows every change
  th,             \* per caller, the steps it has yet to do
  sq,             \* the squelch thread: "sleep", or "flags" between its two reads
  air,            \* [noise, tone] of what is received
  asked,          \* [freq, bw, css]: what the last call set, Unknown if it failed
  torn,           \* a page table has stopped half way
  fails           \* sections that failed

driver == <<bank, rx_css_active, css_miss_count, sq_threshold, sq_open>>
vars   == <<chip, driver, th, sq, air, asked, torn, fails>>

Reg == {"RX", "BW", "FREQ", "CTCSS2", "VOICE_SEL"}

\* After main().
Init ==
  \E f \in Freqs, b \in Bandwidths :
    LET tuned == [RX |-> 1, BW |-> b, FREQ |-> f, CTCSS2 |-> 0, VOICE_SEL |-> 0]
    IN  /\ chip = [page |-> 0, reg |-> tuned]
        /\ bank = [current |-> 0,
                   cache |-> [p \in {0, 1} |-> IF p = 0 THEN tuned
                                              ELSE [r \in Reg |-> Unknown]]]
        /\ rx_css_active = FALSE /\ css_miss_count = 0
        /\ sq_threshold \in Levels /\ sq_open = FALSE
        /\ th = [t \in Threads |-> << >>] /\ sq = "sleep"
        /\ air = [noise |-> NoiseMax, tone |-> 0]
        /\ asked = [freq |-> f, bw |-> b, css |-> 0]
        /\ torn = FALSE /\ fails = 0

-----------------------------------------------------------------------------
(* The locked helpers.  s is [chip, bank]; a write w gives a register its   *)
(* fields' values, a modify one of them, and a page select is [PAGE |-> p]. *)

IsPage(w) == DOMAIN w = {"PAGE"}
Onto(reg, w) == [r \in Reg |-> IF r \in DOMAIN w THEN w[r] ELSE reg[r]]

\* A modify of CONTROL reads the register and writes back its other byte.
at1846s_modify_reg_locked(s, w) ==
  IF DOMAIN w = {"RX"}
  THEN [RX |-> w.RX, BW |-> IF s.chip.page = 0 THEN s.chip.reg.BW ELSE Unknown]
  ELSE w

Cached(s, w) == \A r \in DOMAIN w : s.bank.cache[s.bank.current][r] = w[r]

\* Mutant: the cache is filled before the transfer.
Announce_CachesEarly(s, w) ==
  IF IsPage(w) THEN [s EXCEPT !.bank.current = w.PAGE]
  ELSE [s EXCEPT !.bank.cache[s.bank.current] = Onto(@, at1846s_modify_reg_locked(s, w))]

\* What a write leaves in the driver before its transfer: the page is taken
\* for selected.
Announce(s, w) == IF IsPage(w) THEN [s EXCEPT !.bank.current = w.PAGE] ELSE s

Selected(s, w) == [Announce(s, w) EXCEPT !.chip.page = w.PAGE]

\* It goes to the page the chip is on and is remembered for the page the driver
\* believes in.
Stored(s, word) ==
  [chip |-> IF s.chip.page = 0 THEN [s.chip EXCEPT !.reg = Onto(@, word)] ELSE s.chip,
   bank |-> [s.bank EXCEPT !.cache[s.bank.current] = Onto(@, word)]]

\* A redundant write is suppressed.
at1846s_write_reg_locked(s, w) ==
  LET word == at1846s_modify_reg_locked(s, w)
  IN  IF IsPage(w) THEN Selected(s, w) ELSE IF Cached(s, word) THEN s ELSE Stored(s, word)

\* The first n writes of a section; none has more than four.
WriteFirst(n, s, ws) ==
  LET Write(u, i) == IF i <= n THEN at1846s_write_reg_locked(u, ws[i]) ELSE u
  IN  Write(Write(Write(Write(s, 1), 2), 3), 4)

\* The locked sections: all writes, or those before the i-th, which fails.
Sent(s, ws)      == WriteFirst(Len(ws), s, ws)
Broken(s, ws, i) == Announce(WriteFirst(i - 1, s, ws), ws[i])

\* Mutant: the receiver is not switched on again.
set_frequency_writes_NoRearm(f) == << [RX |-> 0], [FREQ |-> f] >>

\* Mutant: the table ends on page 1.
at1846s_bw_regs_NoReturn == << [VOICE_SEL |-> 0], [PAGE |-> 1], << >> >>

set_frequency_writes(f) == << [RX |-> 0], [FREQ |-> f], [RX |-> 1] >>
at1846s_bw_regs       == << [VOICE_SEL |-> 0], [PAGE |-> 1], << >>, [PAGE |-> 0] >>
bandwidth_control(b)  == << [BW |-> b, RX |-> 0], [BW |-> b, RX |-> 1] >>
reapply_writes   == << [VOICE_SEL |-> 1] >>
tx_ctcss_writes  == << [CTCSS2 |-> 0] >>
rx_ctcss_writes(tone) == IF tone = 0 THEN << [CTCSS2 |-> 0] >>
                         ELSE << [CTCSS2 |-> tone], [VOICE_SEL |-> 1] >>

-----------------------------------------------------------------------------
(* Calls: each step says what it does, with which argument, and how many    *)
(* steps of the same API function are skipped if it fails.                  *)

Do(what, arg, rest) == [do |-> what, arg |-> arg, rest |-> rest]

\* Mutant: the detector is not selected again.
at1846s_api_set_bandwidth_NoReapply(b) == << Do("bwTable", 0, 1), Do("bwControl", b, 0) >>

at1846s_api_set_frequency(f) == << Do("frequency", f, 0) >>
at1846s_api_set_bandwidth(b) ==
  << Do("bwTable", 0, 3), Do("bwControl", b, 2), Do("reapply", 0, 1), Do("select", 0, 0) >>
radio_state_set_tx_css(c) == IF c = Dcs THEN << >> ELSE << Do("txCss", 0, 0) >>
radio_state_set_rx_css(c) == IF c = Dcs THEN << >>
                             ELSE << Do("rxCss", c, 1), Do("rxArmed", c, 0) >>

\* channel_controller's apply_to_radio(), the subscriber of the settings, and
\* fm_vfo_controller's retune.
ApplyChannel(f, b, tx, rx) ==
  at1846s_api_set_frequency(f) \o at1846s_api_set_bandwidth(b)
  \o radio_state_set_tx_css(tx) \o radio_state_set_rx_css(rx)
ApplyCss(c) == radio_state_set_tx_css(c) \o radio_state_set_rx_css(c)

Writes(step) ==
  CASE step.do = "frequency" -> set_frequency_writes(step.arg)
    [] step.do = "bwTable"   -> at1846s_bw_regs
    [] step.do = "bwControl" -> bandwidth_control(step.arg)
    [] step.do = "select"    -> reapply_writes
    [] step.do = "txCss"     -> tx_ctcss_writes
    [] step.do = "rxCss"     -> rx_ctcss_writes(step.arg)

Busy(t, what) == th[t] # << >> /\ Head(th[t]).do \in what
Skip(t, n)    == th' = [th EXCEPT ![t] = SubSeq(@, n + 1, Len(@))]
Now == [chip |-> chip, bank |-> bank]

Sections == {"frequency", "bwTable", "bwControl", "select", "txCss", "rxCss"}

\* What a section settles once it is through, and what its failure leaves open.
Settles(step) ==
  CASE step.do = "frequency" -> [asked EXCEPT !.freq = step.arg]
    [] step.do = "bwControl" -> [asked EXCEPT !.bw = step.arg]
    [] OTHER                 -> asked
Leaves(step) ==
  CASE step.do = "frequency" -> [asked EXCEPT !.freq = Unknown]
    [] step.do = "bwTable"   -> [asked EXCEPT !.bw = Unknown, !.css = Unknown]
    [] step.do = "bwControl" -> [asked EXCEPT !.bw = Unknown, !.css = Unknown]
    [] OTHER                 -> [asked EXCEPT !.css = Unknown]

SectionDone(t) ==
  /\ Busy(t, Sections)
  /\ LET s == Sent(Now, Writes(Head(th[t])))
     IN  chip' = s.chip /\ bank' = s.bank
  /\ asked' = Settles(Head(th[t]))
  /\ Skip(t, 1)
  /\ UNCHANGED <<rx_css_active, css_miss_count, sq_threshold, sq_open, sq, air, torn, fails>>

SectionFails(t) ==
  /\ Busy(t, Sections) /\ fails < MaxFails /\ fails' = fails + 1
  /\ \E i \in 1..Len(Writes(Head(th[t]))) :
       LET s == Broken(Now, Writes(Head(th[t])), i)
       IN  /\ chip' = s.chip /\ bank' = s.bank
           /\ torn' = (torn \/ s.chip.page # 0 \/ s.bank.current # 0)
  /\ asked' = Leaves(Head(th[t]))
  /\ Skip(t, 1 + Head(th[t]).rest)
  /\ UNCHANGED <<rx_css_active, css_miss_count, sq_threshold, sq_open, sq, air>>

\* at1846s_reapply_rx_css_select() looks at rx_css_active without the lock.
Reapply(t) ==
  /\ Busy(t, {"reapply"})
  /\ Skip(t, IF rx_css_active THEN 1 ELSE 2)
  /\ UNCHANGED <<chip, driver, sq, air, asked, torn, fails>>

\* Mutant: a tone of 0 does not disarm the tone squelch.
RxArmed_StaysArmed(t) ==
  /\ Busy(t, {"rxArmed"})
  /\ rx_css_active' = (rx_css_active \/ Head(th[t]).arg # 0)
  /\ css_miss_count' = 0
  /\ asked' = [asked EXCEPT !.css = Head(th[t]).arg]
  /\ Skip(t, 1)
  /\ UNCHANGED <<chip, bank, sq_threshold, sq_open, sq, air, torn, fails>>

\* The end of at1846s_api_set_rx_ctcss(), after it has released the lock.
RxArmed(t) ==
  /\ Busy(t, {"rxArmed"})
  /\ rx_css_active' = (Head(th[t]).arg # 0)
  /\ css_miss_count' = 0
  /\ asked' = [asked EXCEPT !.css = Head(th[t]).arg]
  /\ Skip(t, 1)
  /\ UNCHANGED <<chip, bank, sq_threshold, sq_open, sq, air, torn, fails>>

SetSquelch(t) ==
  /\ th[t] = << >>
  /\ sq_threshold' \in Levels
  /\ UNCHANGED <<chip, bank, rx_css_active, css_miss_count, sq_open, th, sq, air, asked, torn, fails>>

Call(t) ==
  /\ th[t] = << >>
  /\ \/ \E f \in Freqs, b \in Bandwidths, tx, rx \in Css :
          th' = [th EXCEPT ![t] = ApplyChannel(f, b, tx, rx)]
     \/ \E c \in Css : th' = [th EXCEPT ![t] = ApplyCss(c)]
     \/ \E b \in Bandwidths : th' = [th EXCEPT ![t] = at1846s_api_set_bandwidth(b)]
     \/ \E f \in Freqs : th' = [th EXCEPT ![t] = at1846s_api_set_frequency(f)]
  /\ UNCHANGED <<chip, driver, sq, air, asked, torn, fails>>

-----------------------------------------------------------------------------
(* The squelch thread.                                                      *)

\* With the open squelch's hysteresis.
carrier_open == air.noise < (IF sq_open THEN sq_threshold + Hysteresis ELSE sq_threshold)

\* The detector's answer; on the wrong page the read shows something else.
css_detected == chip.reg.VOICE_SEL = 1 /\ air.tone # 0 /\ chip.reg.CTCSS2 = air.tone

\* A poll reads the noise; without a carrier, or without a tone to wait for,
\* that decides.
PollNoise ==
  /\ sq = "sleep"
  /\ chip.page = 0
  /\ IF carrier_open /\ rx_css_active
     THEN sq' = "flags" /\ UNCHANGED <<sq_open, css_miss_count>>
     ELSE /\ sq_open' = carrier_open
          /\ css_miss_count' = IF carrier_open THEN css_miss_count ELSE 0
          /\ UNCHANGED sq
  /\ UNCHANGED <<chip, bank, rx_css_active, sq_threshold, th, air, asked, torn, fails>>

\* Mutant: an open squelch does not count the misses.
PollFlags_HoldsOn(detected) ==
  /\ sq = "flags" /\ sq' = "sleep"
  /\ sq_open' = (detected \/ sq_open)
  /\ css_miss_count' = IF detected THEN 0 ELSE css_miss_count
  /\ UNCHANGED <<chip, bank, rx_css_active, sq_threshold, th, air, asked, torn, fails>>

\* The flags are read; an open squelch rides out HoldPolls misses.
PollFlags(detected) ==
  /\ sq = "flags" /\ sq' = "sleep"
  /\ IF detected THEN sq_open' = TRUE /\ css_miss_count' = 0
     ELSE IF sq_open /\ css_miss_count < HoldPolls
     THEN sq_open' = TRUE /\ css_miss_count' = css_miss_count + 1
     ELSE sq_open' = FALSE /\ UNCHANGED css_miss_count
  /\ UNCHANGED <<chip, bank, rx_css_active, sq_threshold, th, air, asked, torn, fails>>

\* A failed read of the flags counts as no tone, and on the wrong page a read
\* shows anything.
PollBadFlags ==
  \/ PollFlags(FALSE)
  \/ chip.page # 0 /\ PollFlags(TRUE)

\* On the wrong page the noise is anything too.
PollWrongPage ==
  /\ sq = "sleep" /\ chip.page # 0
  /\ \/ sq' = "flags" /\ rx_css_active /\ UNCHANGED <<sq_open, css_miss_count>>
     \/ sq_open' = FALSE /\ css_miss_count' = 0 /\ UNCHANGED sq
     \/ ~rx_css_active /\ sq_open' = TRUE /\ UNCHANGED <<css_miss_count, sq>>
  /\ UNCHANGED <<chip, bank, rx_css_active, sq_threshold, th, air, asked, torn, fails>>

PollFlagsGood == chip.page = 0 /\ PollFlags(css_detected)

\* What is received changes.
AirChanges ==
  /\ air' \in [noise : 0..NoiseMax, tone : {0} \cup Tones]
  /\ UNCHANGED <<chip, driver, th, sq, asked, torn, fails>>

-----------------------------------------------------------------------------
CallStep(t) == SectionDone(t) \/ SectionFails(t) \/ Reapply(t) \/ RxArmed(t)

SquelchPoll == PollNoise \/ PollFlagsGood \/ PollBadFlags \/ PollWrongPage

CallNext == \E t \in Threads : Call(t) \/ SetSquelch(t) \/ CallStep(t)

Next == CallNext \/ SquelchPoll \/ AirChanges

\* The calls alone: the squelch thread only reads the chip.
CallSpec == Init /\ [][CallNext]_vars

\* Not every read of the squelch thread fails.
Fairness == SF_vars(PollNoise) /\ SF_vars(PollFlagsGood)

Spec == Init /\ [][Next]_vars /\ Fairness

-----------------------------------------------------------------------------
Field == [Reg -> Freqs \cup Bandwidths \cup Tones \cup {0, 1, Unknown}]

\* The variables' types; the misses of the tone are counted no further than
\* the hold time (the squelch thread's css_miss_count).
TypeOK ==
  /\ chip \in [page : {0, 1}, reg : Field]
  /\ bank \in [current : {0, 1}, cache : [{0, 1} -> Field]]
  /\ rx_css_active \in BOOLEAN /\ css_miss_count \in 0..HoldPolls
  /\ sq_threshold \in Levels /\ sq_open \in BOOLEAN
  /\ \A t \in Threads : Len(th[t]) <= 8
  /\ sq \in {"sleep", "flags"}
  /\ air \in [noise : 0..NoiseMax, tone : {0} \cup Tones]
  /\ torn \in BOOLEAN /\ fails \in 0..MaxFails

Quiet == \A t \in Threads : th[t] = << >>

\* Whatever transfers failed, a write is suppressed only if the chip holds its
\* value already (the write cache of at1846s_write_reg_locked), as long as no
\* page table stopped half way; nothing leaves its type.
CacheTrue ==
  TypeOK /\ (~torn => \A r \in Reg : chip.reg[r] = bank.cache[0][r])

\* Between calls, while the squelch waits for a tone, the chip detects that
\* tone: neither the TX code's reset of CTCSS2 nor a bandwidth table's reset of
\* VOICE_SEL is left standing (set_tx_ctcss before set_rx_ctcss, and
\* at1846s_reapply_rx_css_select).
DetectorStands ==
  Quiet /\ ~torn /\ asked.css # Unknown /\ rx_css_active =>
    chip.reg.VOICE_SEL = 1 /\ chip.reg.CTCSS2 = asked.css

\* Between calls the chip is on the frequency and the bandwidth of the last
\* calls that succeeded, with its receiver on, whatever failed before them.
FrequencyTook ==
  Quiet /\ ~torn /\ asked.freq # Unknown /\ asked.bw # Unknown =>
    chip.reg.FREQ = asked.freq /\ chip.reg.BW = asked.bw /\ chip.reg.RX = 1

\* A bandwidth that was set selects page 0 again, whatever a table that stopped
\* half way had left selected (at1846s_bw_*_regs end with the select of page 0).
PageReturns == asked.bw # Unknown => chip.page = 0 /\ bank.current = 0

\* The same without the exception: set_frequency() returned 0, so the chip is
\* on that frequency.
FrequencyAnswers == Quiet /\ asked.freq # Unknown => chip.reg.FREQ = asked.freq

Carrier   == air.noise < sq_threshold
NoCarrier == air.noise >= sq_threshold + Hysteresis
WrongTone == Quiet /\ asked.css \in Tones /\ air.tone # asked.css
RightTone == Quiet /\ (asked.css = 0 \/ (asked.css \in Tones /\ air.tone = asked.css))

\* A squelch whose carrier is gone for good, or whose carrier has another tone
\* for good, closes for good: the hysteresis and the hold time end.
SquelchCloses ==
  /\ <>[](~torn /\ NoCarrier) => <>[]~sq_open
  /\ <>[](~torn /\ WrongTone) => <>[]~sq_open

\* A carrier with the tone that was asked for, or any while none is, opens the
\* squelch, also after calls that failed and were repeated.
SquelchOpens == <>[](~torn /\ Carrier /\ RightTone) => []<>sq_open

=============================================================================
