------------------------------ MODULE BusProofs ------------------------------
(***************************************************************************)
(* Proofs about the drivers of the two chips and their bus: the panel's    *)
(* cache and what the panel has agree for every matrix and every window;   *)
(* the baseband's driver knows whether its chip has power, with and        *)
(* without the table of the other IF, whatever fails; and a transfer of    *)
(* the bit-banged SPI exchanges every byte, for bytes of any width, lists  *)
(* of any length and in any mode.                                          *)
(***************************************************************************)
EXTENDS Panel, HrC6000, SpiBitbang, FiniteSetTheorems, SequenceTheorems, TLAPS

-----------------------------------------------------------------------------
(* The panel: commands.                                                     *)

\* A register no command sets stays.
LEMMA AfterUnset ==
  ASSUME NEW commands, NEW n, NEW r \in PanelRegisters, \A i \in 1..n : commands[i].register # r
  PROVE  After(commands, n)[r] = chip[r]
  BY DEF After

\* A register one command sets has its value.
LEMMA AfterSet ==
  ASSUME NEW commands, NEW n, NEW r \in PanelRegisters, NEW i \in 1..n, commands[i].register = r,
         \A j \in 1..n : commands[j].register = r => j = i
  PROVE  After(commands, n)[r] = commands[i].value
<1> DEFINE c == CHOOSE j \in 1..n : commands[j].register = r
<1>1. c \in 1..n /\ commands[c].register = r
  OBVIOUS
<1>2. c = i
  BY <1>1
<1> HIDE DEF c
<1>3. After(commands, n)[r] = commands[c].value
  BY DEF After, c
<1> QED
  BY <1>2, <1>3

\* Commands leave a register file.
LEMMA AfterDomain == ASSUME NEW commands, NEW n PROVE DOMAIN After(commands, n) = PanelRegisters
  BY DEF After

\* One command, or two for different registers: what each register has afterwards.
LEMMA AfterOne ==
  ASSUME NEW register \in PanelRegisters, NEW value, NEW n \in 0..1, NEW r \in PanelRegisters
  PROVE  After(<<Command(register, value)>>, n)[r] =
           IF n = 1 /\ r = register THEN value ELSE chip[r]
<1> DEFINE cs == <<Command(register, value)>>
<1>1. cs[1].register = register /\ cs[1].value = value
  BY DEF Command
<1> HIDE DEF cs
<1>2. CASE n = 1 /\ r = register
  BY <1>1, <1>2, AfterSet DEF cs
<1>3. CASE ~(n = 1 /\ r = register)
  <2>1. \A i \in 1..n : cs[i].register # r
    BY <1>1, <1>3
  <2>2. After(cs, n)[r] = chip[r]
    BY <2>1, AfterUnset
  <2> QED
    BY <2>2, <1>3 DEF cs
<1> QED
  BY <1>2, <1>3

\* Of two commands for different registers each counts.
LEMMA AfterTwo ==
  ASSUME NEW first \in PanelRegisters, NEW v, NEW second \in PanelRegisters, NEW w,
         first # second, NEW n \in 0..2, NEW r \in PanelRegisters
  PROVE  After(<<Command(first, v), Command(second, w)>>, n)[r] =
           IF n >= 1 /\ r = first THEN v ELSE IF n = 2 /\ r = second THEN w ELSE chip[r]
<1> DEFINE cs == <<Command(first, v), Command(second, w)>>
<1>1. /\ cs[1].register = first /\ cs[1].value = v
      /\ cs[2].register = second /\ cs[2].value = w
  BY DEF Command
<1> HIDE DEF cs
<1>2. \A j \in 1..n : j = 1 \/ j = 2
  OBVIOUS
<1>3. CASE n >= 1 /\ r = first
  <2>1. \A j \in 1..n : cs[j].register = r => j = 1
    BY <1>1, <1>2, <1>3
  <2>2. 1 \in 1..n
    BY <1>3
  <2>3. After(cs, n)[r] = cs[1].value
    BY <2>1, <2>2, <1>1, <1>3, AfterSet
  <2> QED
    BY <2>3, <1>1, <1>3 DEF cs
<1>4. CASE n = 2 /\ r = second
  <2>1. \A j \in 1..n : cs[j].register = r => j = 2
    BY <1>1, <1>2, <1>4
  <2>2. After(cs, n)[r] = cs[2].value
    BY <2>1, <1>1, <1>4, AfterSet
  <2> QED
    BY <2>2, <1>1, <1>4 DEF cs
<1>5. CASE ~(n >= 1 /\ r = first) /\ ~(n = 2 /\ r = second)
  <2>1. \A i \in 1..n : cs[i].register # r
    BY <1>1, <1>2, <1>5
  <2>2. After(cs, n)[r] = chip[r]
    BY <2>1, AfterUnset
  <2> QED
    BY <2>2, <1>5 DEF cs
<1> QED
  BY <1>3, <1>4, <1>5

\* Of the initialisation only what a complete one has set matters.
LEMMA AfterInit ==
  ASSUME NEW r \in PanelRegisters
  PROVE  After(InitCommands, 4)[r] =
           CASE r = "orientation" -> panel.orientation
             [] r = "inverted" -> panel.inverted
             [] r \in {"gram", "on"} -> TRUE
             [] OTHER -> chip[r]
<1>1. /\ InitCommands[1].register = "orientation" /\ InitCommands[1].value = panel.orientation
      /\ InitCommands[2].register = "inverted" /\ InitCommands[2].value = panel.inverted
      /\ InitCommands[3].register = "gram" /\ InitCommands[3].value = TRUE
      /\ InitCommands[4].register = "on" /\ InitCommands[4].value = TRUE
  BY DEF InitCommands, Command
<1>2. \A j \in 1..4 : j = 1 \/ j = 2 \/ j = 3 \/ j = 4
  OBVIOUS
<1>3. CASE r = "orientation"
  BY <1>1, <1>2, <1>3, AfterSet
<1>4. CASE r = "inverted"
  <2>1. \A j \in 1..4 : InitCommands[j].register = r => j = 2
    BY <1>1, <1>2, <1>4
  <2>2. 2 \in 1..4 /\ InitCommands[2].register = r
    BY <1>1, <1>4
  <2>3. After(InitCommands, 4)[r] = InitCommands[2].value
    BY <2>1, <2>2, AfterSet
  <2> QED
    BY <2>3, <1>1, <1>4
<1>5. CASE r = "gram"
  <2>1. \A j \in 1..4 : InitCommands[j].register = r => j = 3
    BY <1>1, <1>2, <1>5
  <2>2. 3 \in 1..4 /\ InitCommands[3].register = r
    BY <1>1, <1>5
  <2>3. After(InitCommands, 4)[r] = InitCommands[3].value
    BY <2>1, <2>2, AfterSet
  <2> QED
    BY <2>3, <1>1, <1>5
<1>6. CASE r = "on"
  <2>1. \A j \in 1..4 : InitCommands[j].register = r => j = 4
    BY <1>1, <1>2, <1>6
  <2>2. 4 \in 1..4 /\ InitCommands[4].register = r
    BY <1>1, <1>6
  <2>3. After(InitCommands, 4)[r] = InitCommands[4].value
    BY <2>1, <2>2, AfterSet
  <2> QED
    BY <2>3, <1>1, <1>6
<1>7. CASE r \notin {"orientation", "inverted", "gram", "on"}
  <2>1. \A j \in 1..4 : InitCommands[j].register # r
    BY <1>1, <1>2, <1>7
  <2> QED
    BY <2>1, <1>7, AfterUnset
<1> QED
  BY <1>3, <1>4, <1>5, <1>6, <1>7

-----------------------------------------------------------------------------
(* The invariant.                                                           *)

\* What the driver's struct can hold.
PanelRecord ==
  [orientation : Orientations, inverted : BOOLEAN, blanking : BOOLEAN,
   last_window_valid : BOOLEAN, last : [col : Edges \cup {Scrambled}, row : Edges \cup {Scrambled}],
   brightness : 0..Full]

\* A display that came up has its memory cleared.
ClearedIfReady == panel_ready = "yes" /\ ~garbled => chip["gram"] = TRUE

\* Nothing is cached before that.
UncachedUntilReady == panel_ready = "not yet" => ~panel.last_window_valid

PanelInv ==
  /\ PanelAgrees
  /\ panel \in PanelRecord /\ torn \in BOOLEAN /\ garbled \in BOOLEAN
  /\ ClearedIfReady /\ UncachedUntilReady

\* What a transfer leaves as it was.
LEMMA SendKeeps ==
  ASSUME PanelInv, NEW commands, NEW n \in Nat, Send(commands, n)
  PROVE  /\ DOMAIN chip' = PanelRegisters
         /\ garbled' \in BOOLEAN
         /\ ~garbled' => ~garbled /\ chip' = After(commands, n)
<1>1. garbled' = (garbled \/ (inputs # {} /\ n > 0))
  BY DEF Send
<1>2. chip' = IF garbled' THEN Garbage ELSE After(commands, n)
  BY DEF Send
<1>3. DOMAIN Garbage = PanelRegisters
  BY DEF Garbage
<1> QED
  BY <1>1, <1>2, <1>3, AfterDomain

\* A call that leaves the lines alone keeps the invariant if it keeps what is about the panel.
PanelPart ==
  /\ DOMAIN chip = PanelRegisters
  /\ panel.last_window_valid => panel.last \in Windows
  /\ pulse \in 0..Full /\ panel_ready \in {"not yet", "yes", "failed"}
  /\ CacheIsPanel /\ LitIsOn
  /\ panel \in PanelRecord /\ torn \in BOOLEAN /\ garbled \in BOOLEAN
  /\ ClearedIfReady /\ UncachedUntilReady

\* A call of the display driver that keeps its part keeps the invariant.
LEMMA PanelPartKeeps ==
  ASSUME PanelInv, UNCHANGED pins, PanelPart'
  PROVE  PanelInv'
<1>1. inputs' = inputs /\ driven' = driven /\ scan' = scan
  BY DEF pins
<1>2. /\ inputs \subseteq 1..Rows /\ driven \subseteq 1..Cols
      /\ scan \in {"none", "failed", "exact", "ghosts"} /\ BusReturned
  BY DEF PanelInv, PanelAgrees, PanelTypeOK
<1>3. panel'.brightness \in 0..Full
  BY DEF PanelPart, PanelRecord
<1>4. PanelTypeOK'
  BY <1>1, <1>2, <1>3, Zenon DEF PanelPart, PanelTypeOK
<1>5. BusReturned'
  BY <1>1, <1>2, Zenon DEF BusReturned
<1> QED
  BY <1>4, <1>5, Zenon DEF PanelInv, PanelAgrees, PanelPart

\* The display driver's part of the invariant.
LEMMA PanelFacts == ASSUME PanelInv PROVE PanelPart
  BY DEF PanelInv, PanelPart, PanelAgrees, PanelTypeOK

-----------------------------------------------------------------------------
(* The driver's calls.                                                      *)

\* Off and full light are levels.
LEMMA Levels == Full \in Nat \ {0} /\ 0 \in 0..Full /\ Full \in 0..Full
  BY PanelAssumption DEF PanelAssumption

\* hx8353e_init() keeps the invariant wherever it stops.
LEMMA InitKeeps == ASSUME PanelInv, hx8353e_init PROVE PanelInv'
<1>1. PICK n \in 0..Len(InitCommands), pwm \in BOOLEAN :
        /\ Send(InitCommands, n)
        /\ panel_ready' = IF n = Len(InitCommands) /\ pwm THEN "yes" ELSE "failed"
        /\ pulse' = IF panel_ready' = "yes" THEN Full ELSE 0
        /\ UNCHANGED <<panel, pins, torn>> /\ panel_ready = "not yet"
  BY DEF hx8353e_init
<1>2. Len(InitCommands) = 4
  BY DEF InitCommands
<1>3. n \in Nat
  BY <1>2
<1>4. /\ DOMAIN chip' = PanelRegisters /\ garbled' \in BOOLEAN
      /\ ~garbled' => ~garbled /\ chip' = After(InitCommands, n)
  BY <1>1, <1>3, SendKeeps
<1>5. ASSUME panel_ready' = "yes", ~garbled'
      PROVE  /\ chip'["orientation"] = panel.orientation /\ chip'["inverted"] = panel.inverted
             /\ chip'["gram"] = TRUE /\ chip'["on"] = TRUE
  <2>1. n = 4
    BY <1>1, <1>2, <1>5
  <2>2. chip' = After(InitCommands, 4)
    BY <2>1, <1>4, <1>5
  <2> QED
    BY <2>2, AfterInit DEF PanelRegisters
<1>6. /\ panel' = panel /\ torn' = torn /\ pulse' \in 0..Full
      /\ panel_ready' \in {"yes", "failed"}
      /\ panel_ready' = "failed" => pulse' = 0
  BY <1>1, Levels
<1>7. ~panel.last_window_valid
  BY <1>1, PanelFacts DEF PanelPart, UncachedUntilReady
<1>8. CacheIsPanel'
  BY <1>5, <1>6, <1>7, Zenon DEF CacheIsPanel
<1>9. LitIsOn'
  <2>1. pulse' > 0 => panel_ready' = "yes"
    BY <1>6, Levels
  <2> QED
    BY <2>1, <1>5, Zenon DEF LitIsOn
<1>10. ClearedIfReady' /\ UncachedUntilReady'
  BY <1>5, <1>6, Zenon DEF ClearedIfReady, UncachedUntilReady
<1>11. PanelPart'
  BY <1>4, <1>6, <1>7, <1>8, <1>9, <1>10, PanelFacts, Zenon DEF PanelPart
<1> QED
  BY <1>1, <1>11, PanelPartKeeps

\* One command to a display that is up, for a register the cache or the light depends on.
LEMMA SettingKeeps ==
  ASSUME PanelInv, panel_ready = "yes",
         NEW register \in {"orientation", "inverted"}, NEW value, NEW n \in 0..1,
         Send(<<Command(register, value)>>, n),
         UNCHANGED <<panel_ready, pulse, pins>>,
         panel' \in PanelRecord, torn' \in BOOLEAN,
         n = 0 => panel' = panel,
         n = 1 =>
           /\ panel'.inverted = IF register = "inverted" THEN value ELSE panel.inverted
           /\ panel'.orientation = IF register = "orientation" THEN value ELSE panel.orientation
           /\ panel'.last = panel.last /\ (panel'.last_window_valid => panel.last_window_valid),
         panel'.last_window_valid /\ ~torn' => ~torn
  PROVE  PanelInv'
<1>0. n \in Nat /\ (n = 0 \/ n = 1) /\ PanelPart
  BY PanelFacts
<1>1. /\ DOMAIN chip' = PanelRegisters /\ garbled' \in BOOLEAN
      /\ ~garbled' => ~garbled /\ chip' = After(<<Command(register, value)>>, n)
  BY <1>0, SendKeeps
<1>2. ASSUME ~garbled', NEW r \in PanelRegisters
      PROVE  chip'[r] = IF n = 1 /\ r = register THEN value ELSE chip[r]
  <2>1. chip' = After(<<Command(register, value)>>, n)
    BY <1>1, <1>2
  <2>2. register \in PanelRegisters
    BY DEF PanelRegisters
  <2>3. After(<<Command(register, value)>>, n)[r] = IF n = 1 /\ r = register THEN value ELSE chip[r]
    BY <2>2, AfterOne
  <2> QED
    BY <2>1, <2>3
<1>3. ASSUME ~garbled'
      PROVE  /\ chip'["inverted"] = IF n = 1 /\ register = "inverted" THEN value ELSE chip["inverted"]
             /\ chip'["orientation"] =
                  IF n = 1 /\ register = "orientation" THEN value ELSE chip["orientation"]
             /\ \A r \in {"col", "row", "on", "gram"} : chip'[r] = chip[r]
  BY <1>2, <1>3 DEF PanelRegisters
<1>4. CacheIsPanel'
  <2> SUFFICES ASSUME ~garbled'
               PROVE  /\ panel'.inverted = chip'["inverted"]
                      /\ panel'.orientation = chip'["orientation"]
                      /\ panel'.last_window_valid /\ ~torn' =>
                           panel'.last = [col |-> chip'["col"], row |-> chip'["row"]]
    BY DEF CacheIsPanel
  <2>1. /\ panel.inverted = chip["inverted"] /\ panel.orientation = chip["orientation"]
        /\ panel.last_window_valid /\ ~torn => panel.last = [col |-> chip["col"], row |-> chip["row"]]
    BY <1>0, <1>1 DEF PanelPart, CacheIsPanel
  <2>2. chip'["col"] = chip["col"] /\ chip'["row"] = chip["row"]
    BY <1>3
  <2>3. CASE n = 0
    BY <2>1, <2>2, <2>3, <1>3
  <2>4. CASE n = 1
    BY <2>1, <2>2, <2>4, <1>3
  <2> QED
    BY <2>3, <2>4, <1>0
<1>5. LitIsOn' /\ ClearedIfReady'
  <2>1. ~garbled' => chip'["on"] = chip["on"] /\ chip'["gram"] = chip["gram"] /\ ~garbled
    BY <1>1, <1>3
  <2> QED
    BY <2>1, <1>0 DEF PanelPart, LitIsOn, ClearedIfReady
<1>6. panel'.last_window_valid => panel'.last \in Windows
  BY <1>0 DEF PanelPart
<1>7. UncachedUntilReady'
  BY DEF UncachedUntilReady
<1>8. pulse' \in 0..Full /\ panel_ready' \in {"not yet", "yes", "failed"}
  BY <1>0 DEF PanelPart
<1>9. PanelPart'
  BY <1>1, <1>4, <1>5, <1>6, <1>7, <1>8, Zenon DEF PanelPart
<1> QED
  BY <1>9, PanelPartKeeps

\* Inverting keeps it, the command sent or failed.
LEMMA InvertKeeps ==
  ASSUME PanelInv, NEW inverted \in BOOLEAN, hx8353e_set_inverted(inverted)
  PROVE  PanelInv'
<1>1. PICK n \in 0..1 :
        /\ panel_ready = "yes" /\ Send(Invert(inverted), n)
        /\ panel' = IF n = 1 THEN [panel EXCEPT !.inverted = inverted] ELSE panel
        /\ UNCHANGED <<panel_ready, pulse, pins, torn>>
  BY DEF hx8353e_set_inverted
<1>2. panel \in PanelRecord /\ torn \in BOOLEAN
  BY DEF PanelInv
<1>3. Send(<<Command("inverted", inverted)>>, n)
  BY <1>1 DEF Invert
<1>4. panel' \in PanelRecord
  BY <1>1, <1>2 DEF PanelRecord
<1>5. n = 1 => /\ panel'.inverted = inverted /\ panel'.orientation = panel.orientation
               /\ panel'.last = panel.last /\ panel'.last_window_valid = panel.last_window_valid
  BY <1>1, <1>2 DEF PanelRecord
<1>6. n = 0 => panel' = panel
  BY <1>1
<1> QED
  BY <1>1, <1>2, <1>3, <1>4, <1>5, <1>6, SettingKeeps

\* So does an orientation.
LEMMA OrientKeeps ==
  ASSUME PanelInv, NEW orientation \in Orientations, hx8353e_set_orientation(orientation)
  PROVE  PanelInv'
<1>1. PICK n \in 0..1 :
        /\ panel_ready = "yes" /\ Send(<<Command("orientation", orientation)>>, n)
        /\ panel' = IF n = 1
                    THEN [panel EXCEPT !.orientation = orientation, !.last_window_valid = FALSE]
                    ELSE panel
        /\ torn' = (torn /\ panel'.last_window_valid)
        /\ UNCHANGED <<panel_ready, pulse, pins>>
  BY DEF hx8353e_set_orientation
<1>2. panel \in PanelRecord /\ torn \in BOOLEAN
  BY DEF PanelInv
<1>3. panel' \in PanelRecord
  BY <1>1, <1>2 DEF PanelRecord
<1>4. n = 1 => /\ panel'.orientation = orientation /\ panel'.inverted = panel.inverted
               /\ panel'.last = panel.last /\ panel'.last_window_valid = FALSE
  BY <1>1, <1>2 DEF PanelRecord
<1>5. n = 0 => panel' = panel
  BY <1>1
<1>6. torn' \in BOOLEAN /\ (panel'.last_window_valid /\ ~torn' => ~torn)
  BY <1>1, <1>2, Zenon
<1> QED
  BY <1>1, <1>3, <1>4, <1>5, <1>6, SettingKeeps

\* So does blanking: the light goes before the panel.
LEMMA BlankKeeps == ASSUME PanelInv, hx8353e_blanking_on PROVE PanelInv'
<1> DEFINE off == FALSE
<1>0. PanelPart
  BY PanelFacts
<1>1. PICK n \in 0..1 :
        /\ pulse' # 0 => n = 0
        /\ Send(<<Command("on", off)>>, n)
  BY DEF hx8353e_blanking_on
<1> HIDE DEF off
<1>2. /\ panel_ready = "yes" /\ pulse' \in {0, pulse} /\ UNCHANGED <<panel_ready, pins>>
      /\ pulse' = 0 => /\ panel' = [panel EXCEPT !.blanking = TRUE, !.last_window_valid = FALSE]
                       /\ torn' = FALSE
      /\ pulse' # 0 => panel' = panel /\ torn' = torn
  BY DEF hx8353e_blanking_on, SetPulse
<1>3. n \in Nat /\ (n = 0 \/ n = 1)
  OBVIOUS
<1>4. /\ DOMAIN chip' = PanelRegisters /\ garbled' \in BOOLEAN
      /\ ~garbled' => ~garbled /\ chip' = After(<<Command("on", off)>>, n)
  BY <1>1, <1>3, SendKeeps
<1>5. ASSUME ~garbled', NEW r \in PanelRegisters
      PROVE  chip'[r] = IF n = 1 /\ r = "on" THEN off ELSE chip[r]
  <2>1. chip' = After(<<Command("on", off)>>, n) /\ "on" \in PanelRegisters
    BY <1>4, <1>5 DEF PanelRegisters
  <2> QED
    BY <2>1, AfterOne
<1>6. panel' \in PanelRecord /\ panel'.inverted = panel.inverted
      /\ panel'.orientation = panel.orientation /\ panel'.last = panel.last
      /\ (panel'.last_window_valid => panel.last_window_valid /\ torn' = torn)
  BY <1>0, <1>2 DEF PanelPart, PanelRecord
<1>7. torn' \in BOOLEAN /\ pulse' \in 0..Full /\ (pulse' > 0 => pulse' # 0 /\ pulse > 0)
  <2>1. torn' \in BOOLEAN
    BY <1>0, <1>2, Zenon DEF PanelPart
  <2>2. pulse \in 0..Full
    BY <1>0 DEF PanelPart
  <2> QED
    BY <2>1, <2>2, <1>2, Levels
<1>8. CacheIsPanel'
  <2>1. ~garbled' => \A r \in {"inverted", "orientation", "col", "row"} : chip'[r] = chip[r]
    BY <1>5 DEF PanelRegisters
  <2> QED
    BY <2>1, <1>0, <1>2, <1>4, <1>6 DEF PanelPart, CacheIsPanel
<1>9. LitIsOn' /\ ClearedIfReady'
  <2>1. ~garbled' => chip'["gram"] = chip["gram"] /\ (n = 0 => chip'["on"] = chip["on"])
    BY <1>5 DEF PanelRegisters
  <2> QED
    BY <2>1, <1>0, <1>1, <1>2, <1>4, <1>7 DEF PanelPart, LitIsOn, ClearedIfReady
<1>10. UncachedUntilReady'
  BY <1>2 DEF UncachedUntilReady
<1>11. panel'.last_window_valid => panel'.last \in Windows
  BY <1>0, <1>6 DEF PanelPart
<1>12. PanelPart'
  BY <1>0, <1>2, <1>4, <1>6, <1>7, <1>8, <1>9, <1>10, <1>11, Zenon DEF PanelPart
<1> QED
  BY <1>2, <1>12, PanelPartKeeps

\* So does unblanking: the panel comes before the light.
LEMMA UnblankKeeps == ASSUME PanelInv, hx8353e_blanking_off PROVE PanelInv'
<1> DEFINE on == TRUE
<1>0. PanelPart
  BY PanelFacts
<1>1. PICK n \in 0..2 :
        /\ panel_ready = "yes" /\ Send(Unblank, n)
        /\ panel' = [panel EXCEPT !.blanking = FALSE, !.last_window_valid = FALSE]
        /\ torn' = FALSE
        /\ IF n = 2 THEN SetPulse(panel.brightness) ELSE UNCHANGED pulse
        /\ UNCHANGED <<panel_ready, pins>>
  BY DEF hx8353e_blanking_off
<1>a. Unblank = <<Command("on", on), Command("inverted", panel.inverted)>>
  BY DEF Unblank
<1> HIDE DEF on
<1>2. n \in Nat
  OBVIOUS
<1>3. /\ DOMAIN chip' = PanelRegisters /\ garbled' \in BOOLEAN
      /\ ~garbled' => ~garbled /\ chip' = After(Unblank, n)
  BY <1>1, <1>2, SendKeeps
<1>4. ASSUME ~garbled', NEW r \in PanelRegisters
      PROVE  chip'[r] = IF n >= 1 /\ r = "on" THEN on
                        ELSE IF n = 2 /\ r = "inverted" THEN panel.inverted ELSE chip[r]
  <2>1. chip' = After(<<Command("on", on), Command("inverted", panel.inverted)>>, n)
    BY <1>3, <1>4, <1>a
  <2>2. "on" \in PanelRegisters /\ "inverted" \in PanelRegisters
    BY DEF PanelRegisters
  <2> QED
    BY <2>1, <2>2, AfterTwo
<1>5. /\ panel' \in PanelRecord /\ panel'.inverted = panel.inverted
      /\ panel'.orientation = panel.orientation /\ ~panel'.last_window_valid
      /\ panel.brightness \in 0..Full
  BY <1>0, <1>1 DEF PanelPart, PanelRecord
<1>6. pulse' \in 0..Full
  BY <1>0, <1>1, <1>5 DEF PanelPart, SetPulse
<1>7. ASSUME ~garbled'
      PROVE  /\ chip'["inverted"] \in {chip["inverted"], panel.inverted}
             /\ chip'["orientation"] = chip["orientation"] /\ chip'["gram"] = chip["gram"]
             /\ n = 2 => chip'["on"] = TRUE
             /\ chip'["on"] = chip["on"] \/ chip'["on"] = TRUE
  <2>1. /\ chip'["inverted"] \in {chip["inverted"], panel.inverted}
        /\ chip'["orientation"] = chip["orientation"] /\ chip'["gram"] = chip["gram"]
        /\ n = 2 => chip'["on"] = on
        /\ chip'["on"] = chip["on"] \/ chip'["on"] = on
    BY <1>4, <1>7 DEF PanelRegisters
  <2> QED
    BY <2>1 DEF on
<1>8. CacheIsPanel'
  BY <1>0, <1>1, <1>3, <1>5, <1>7 DEF PanelPart, CacheIsPanel
<1>9. LitIsOn' /\ ClearedIfReady'
  <2>1. ClearedIfReady'
    BY <1>0, <1>1, <1>3, <1>7, Zenon DEF PanelPart, ClearedIfReady
  <2>2. ASSUME pulse' > 0, ~garbled' PROVE chip'["on"] = TRUE
    <3>1. CASE n = 2
      BY <3>1, <2>2, <1>7
    <3>2. CASE n # 2
      BY <3>2, <2>2, <1>0, <1>1, <1>3, <1>7 DEF PanelPart, LitIsOn
    <3> QED
      BY <3>1, <3>2
  <2>3. ~garbled' => chip'["gram"] = TRUE
    BY <2>1, <1>1, Zenon DEF ClearedIfReady
  <2> QED
    BY <2>1, <2>2, <2>3, Zenon DEF LitIsOn
<1>10. PanelPart'
  BY <1>0, <1>1, <1>3, <1>5, <1>6, <1>8, <1>9, Zenon DEF PanelPart, UncachedUntilReady
<1> QED
  BY <1>1, <1>10, PanelPartKeeps

\* So does a level of the light.
LEMMA FadeKeeps ==
  ASSUME PanelInv, NEW level \in 0..Full, hx8353e_set_brightness(level)
  PROVE  PanelInv'
<1>0. PanelPart
  BY PanelFacts
<1>1. /\ panel_ready = "yes" /\ chip["on"] = TRUE
      /\ panel' = [panel EXCEPT !.brightness = level] /\ pulse' \in {level, pulse}
      /\ UNCHANGED <<chip, panel_ready, pins, torn, garbled>>
  BY DEF hx8353e_set_brightness, SetPulse
<1>2. /\ panel' \in PanelRecord /\ panel'.inverted = panel.inverted
      /\ panel'.orientation = panel.orientation /\ panel'.last = panel.last
      /\ panel'.last_window_valid = panel.last_window_valid
  BY <1>0, <1>1 DEF PanelPart, PanelRecord
<1>3. pulse' \in 0..Full
  BY <1>0, <1>1 DEF PanelPart
<1>4. CacheIsPanel'
  BY <1>0, <1>1, <1>2, Zenon DEF PanelPart, CacheIsPanel
<1>5. LitIsOn' /\ ClearedIfReady'
  BY <1>0, <1>1, Zenon DEF PanelPart, LitIsOn, ClearedIfReady
<1>6. PanelPart'
  BY <1>0, <1>1, <1>2, <1>3, <1>4, <1>5, Zenon DEF PanelPart, UncachedUntilReady
<1> QED
  BY <1>1, <1>6, PanelPartKeeps

\* So does a write to a window, wherever it stops.
LEMMA WriteKeeps ==
  ASSUME PanelInv, NEW w \in Windows, hx8353e_write(w)
  PROVE  PanelInv'
<1>0. PanelPart /\ panel_ready = "yes" /\ UNCHANGED <<panel_ready, pulse, pins>>
  BY PanelFacts DEF hx8353e_write
<1>1. CASE panel.last_window_valid /\ panel.last = w
  <2>1. Send(<<>>, 0) /\ UNCHANGED <<panel, torn>>
    BY <1>1 DEF hx8353e_write
  <2>2. /\ DOMAIN chip' = PanelRegisters /\ garbled' \in BOOLEAN
        /\ ~garbled' => ~garbled /\ chip' = After(<<>>, 0)
    BY <2>1, SendKeeps
  <2>3. ASSUME ~garbled', NEW r \in PanelRegisters PROVE chip'[r] = chip[r]
    <3>1. chip'[r] = After(<<>>, 0)[r]
      BY <2>2, <2>3
    <3>2. \A i \in 1..0 : <<>>[i].register # r
      OBVIOUS
    <3>3. After(<<>>, 0)[r] = chip[r]
      BY <3>2, AfterUnset
    <3> QED
      BY <3>1, <3>3
  <2>4. ~garbled' => \A r \in {"inverted", "orientation", "col", "row", "on", "gram"} : chip'[r] = chip[r]
    BY <2>3 DEF PanelRegisters
  <2>5. CacheIsPanel'
    BY <1>0, <2>1, <2>2, <2>4 DEF PanelPart, CacheIsPanel
  <2>6. LitIsOn' /\ ClearedIfReady'
    BY <1>0, <2>1, <2>2, <2>4 DEF PanelPart, LitIsOn, ClearedIfReady
  <2>7. PanelPart'
    BY <1>0, <2>1, <2>2, <2>5, <2>6, Zenon DEF PanelPart, UncachedUntilReady
  <2> QED
    BY <1>0, <2>7, PanelPartKeeps
<1>2. CASE ~(panel.last_window_valid /\ panel.last = w)
  <2>1. PICK n \in 0..2 :
          /\ Send(Window(w), n)
          /\ panel' = IF n = 2 THEN Cached(w) ELSE panel
          /\ torn' = IF n = 2 THEN FALSE ELSE torn \/ (n = 1)
    BY <1>2 DEF hx8353e_write
  <2>2. n \in Nat
    OBVIOUS
  <2>3. /\ DOMAIN chip' = PanelRegisters /\ garbled' \in BOOLEAN
        /\ ~garbled' => ~garbled /\ chip' = After(Window(w), n)
    BY <2>1, <2>2, SendKeeps
  <2>4. ASSUME ~garbled', NEW r \in PanelRegisters
        PROVE  chip'[r] = IF n >= 1 /\ r = "col" THEN w.col
                          ELSE IF n = 2 /\ r = "row" THEN w.row ELSE chip[r]
    <3>1. chip' = After(<<Command("col", w.col), Command("row", w.row)>>, n)
      BY <2>3, <2>4 DEF Window
    <3>2. "col" \in PanelRegisters /\ "row" \in PanelRegisters
      BY DEF PanelRegisters
    <3> QED
      BY <3>1, <3>2, AfterTwo
  <2>5. ASSUME ~garbled'
        PROVE  /\ \A r \in {"inverted", "orientation", "on", "gram"} : chip'[r] = chip[r]
               /\ n = 2 => chip'["col"] = w.col /\ chip'["row"] = w.row
               /\ n = 0 => chip'["col"] = chip["col"] /\ chip'["row"] = chip["row"]
    BY <2>4, <2>5 DEF PanelRegisters
  <2>6. w = [col |-> w.col, row |-> w.row] /\ w.col \in Edges /\ w.row \in Edges
    BY DEF Windows
  <2>7. /\ panel' \in PanelRecord /\ panel'.inverted = panel.inverted
        /\ panel'.orientation = panel.orientation
        /\ n = 2 => panel'.last = w
        /\ n # 2 => panel'.last = panel.last /\ panel'.last_window_valid = panel.last_window_valid
    BY <1>0, <2>1, <2>6 DEF PanelPart, PanelRecord, Cached
  <2>8. torn' \in BOOLEAN
    BY <1>0, <2>1 DEF PanelPart
  <2>9. CacheIsPanel'
    <3>1. CASE n = 2
      <4>1. panel'.last = [col |-> w.col, row |-> w.row]
        BY <3>1, <2>6, <2>7
      <4>2. ~garbled' => /\ chip'["inverted"] = chip["inverted"]
                         /\ chip'["orientation"] = chip["orientation"]
                         /\ chip'["col"] = w.col /\ chip'["row"] = w.row
        BY <3>1, <2>5
      <4> QED
        BY <4>1, <4>2, <1>0, <2>3, <2>7 DEF PanelPart, CacheIsPanel
    <3>2. CASE n = 1
      <4>1. n # 2
        BY <3>2
      <4>2. torn'
        BY <4>1, <3>2, <2>1, Zenon
      <4> QED
        BY <4>2, <1>0, <2>3, <2>5, <2>7 DEF PanelPart, CacheIsPanel
    <3>3. CASE n = 0
      BY <3>3, <1>0, <2>1, <2>3, <2>5, <2>7 DEF PanelPart, CacheIsPanel
    <3> QED
      BY <3>1, <3>2, <3>3
  <2>10. LitIsOn' /\ ClearedIfReady'
    BY <1>0, <2>3, <2>5 DEF PanelPart, LitIsOn, ClearedIfReady
  <2>11. panel'.last_window_valid => panel'.last \in Windows
    BY <1>0, <2>7 DEF PanelPart
  <2>12. PanelPart'
    BY <1>0, <2>3, <2>7, <2>8, <2>9, <2>10, <2>11, Zenon DEF PanelPart, UncachedUntilReady
  <2> QED
    BY <1>0, <2>12, PanelPartKeeps
<1> QED
  BY <1>1, <1>2

-----------------------------------------------------------------------------
(* The keypad's scan, and the theorem.                                      *)

\* So does the end of a scan of the keypad.
LEMMA ScanEndsKeeps ==
  ASSUME PanelInv, NEW rows \in SUBSET (1..Rows), NEW columns \in SUBSET (1..Cols),
         NEW how \in {"failed", "exact", "ghosts"}, ScanEnds(rows, columns, how),
         how # "failed" => rows = {} /\ columns = {}
  PROVE  PanelInv'
<1>1. /\ inputs' = rows /\ driven' = columns /\ scan' = how
      /\ UNCHANGED <<chip, panel, panel_ready, pulse, torn, garbled>>
  BY DEF ScanEnds
<1>2. PanelTypeOK' /\ BusReturned'
  BY <1>1 DEF PanelInv, PanelAgrees, PanelTypeOK, BusReturned
<1>3. CacheIsPanel' /\ LitIsOn' /\ ClearedIfReady' /\ UncachedUntilReady'
  BY <1>1, Zenon DEF PanelInv, PanelAgrees, CacheIsPanel, LitIsOn, ClearedIfReady, UncachedUntilReady
<1> QED
  BY <1>1, <1>2, <1>3, Zenon DEF PanelInv, PanelAgrees

\* So does every scan, wherever it stops.
LEMMA KeypadScanKeeps == ASSUME PanelInv, KeypadScan PROVE PanelInv'
<1>0. inputs \in SUBSET (1..Rows) /\ driven \in SUBSET (1..Cols)
  BY DEF PanelInv, PanelAgrees, PanelTypeOK
<1>1. CASE ForceLowFails
  <2>1. PICK r \in 1..Rows : ScanEnds({i \in inputs : i >= r}, driven, "failed")
    BY <1>1 DEF ForceLowFails
  <2>2. {i \in inputs : i >= r} \in SUBSET (1..Rows)
    BY <1>0
  <2> QED
    BY <2>1, <2>2, <1>0, ScanEndsKeeps
<1>2. CASE InputFails
  <2>1. PICK r \in 1..Rows : ScanEnds({i \in 1..Rows : i < r}, driven, "failed")
    BY <1>2 DEF InputFails
  <2>2. {i \in 1..Rows : i < r} \in SUBSET (1..Rows)
    OBVIOUS
  <2> QED
    BY <2>1, <2>2, <1>0, ScanEndsKeeps
<1>3. CASE DriveFails
  <2>1. PICK c \in 1..Cols : ScanEnds(1..Rows, {i \in driven : i >= c}, "failed")
    BY <1>3 DEF DriveFails
  <2>2. {i \in driven : i >= c} \in SUBSET (1..Cols) /\ 1..Rows \in SUBSET (1..Rows)
    BY <1>0
  <2> QED
    BY <2>1, <2>2, ScanEndsKeeps
<1>4. CASE ReleaseFails
  <2>1. PICK c \in 1..Cols : ScanEnds(1..Rows, {i \in driven : i > c} \cup {c}, "failed")
    BY <1>4 DEF ReleaseFails
  <2>2. {i \in driven : i > c} \cup {c} \in SUBSET (1..Cols) /\ 1..Rows \in SUBSET (1..Rows)
    BY <1>0
  <2> QED
    BY <2>1, <2>2, ScanEndsKeeps
<1>5. CASE HandBackFails
  <2>1. PICK r \in 1..Rows : ScanEnds({i \in 1..Rows : i >= r}, {}, "failed")
    BY <1>5 DEF HandBackFails
  <2>2. {i \in 1..Rows : i >= r} \in SUBSET (1..Rows) /\ {} \in SUBSET (1..Cols)
    OBVIOUS
  <2> QED
    BY <2>1, <2>2, ScanEndsKeeps
<1>6. CASE Scanned
  <2>1. PICK how \in {"exact", "ghosts"} : ScanEnds({}, {}, how)
    BY <1>6 DEF Scanned
  <2>2. {} \in SUBSET (1..Rows) /\ {} \in SUBSET (1..Cols)
    OBVIOUS
  <2> QED
    BY <2>1, <2>2, ScanEndsKeeps
<1> QED
  BY <1>1, <1>2, <1>3, <1>4, <1>5, <1>6 DEF KeypadScan

\* At boot the invariant holds.
LEMMA PanelInitInv == PanelInit => PanelInv
<1> SUFFICES ASSUME PanelInit PROVE PanelInv
  OBVIOUS
<1>1. /\ chip = [Garbage EXCEPT !["on"] = FALSE]
      /\ panel = [orientation |-> "rotated", inverted |-> FALSE, blanking |-> FALSE,
                  last_window_valid |-> FALSE, last |-> [col |-> Scrambled, row |-> Scrambled],
                  brightness |-> Full]
      /\ panel_ready = "not yet" /\ pulse = 0 /\ inputs = {} /\ driven = {} /\ scan = "none"
      /\ torn = FALSE /\ garbled = FALSE
  BY DEF PanelInit
<1>2. DOMAIN chip = PanelRegisters
  BY <1>1 DEF Garbage
<1>3. panel \in PanelRecord
  BY <1>1, Levels DEF PanelRecord, Orientations
<1>4. PanelTypeOK
  <2>1. /\ pulse \in 0..Full /\ panel.brightness \in 0..Full /\ ~panel.last_window_valid
        /\ inputs \subseteq 1..Rows /\ driven \subseteq 1..Cols
    BY <1>1, Levels
  <2> QED
    BY <2>1, <1>1, <1>2 DEF PanelTypeOK
<1>5. ~(pulse > 0) /\ panel_ready # "yes" /\ ~panel.last_window_valid
  <2>1. pulse = 0 /\ panel_ready = "not yet"
    BY <1>1
  <2>2. ~(pulse > 0)
    <3>1. pulse = 0
      BY <2>1
    <3>2. ~(0 > 0)
      OBVIOUS
    <3> QED
      BY <3>1, <3>2, Zenon
  <2>3. panel_ready # "yes"
    BY <2>1
  <2>4. panel.last_window_valid = FALSE
    BY <1>1, Zenon
  <2> QED
    BY <2>2, <2>3, <2>4, Zenon
<1>6. CacheIsPanel /\ LitIsOn /\ BusReturned /\ ClearedIfReady /\ UncachedUntilReady
  BY <1>1, <1>5 DEF CacheIsPanel, LitIsOn, BusReturned, ClearedIfReady, UncachedUntilReady
<1> QED
  BY <1>1, <1>3, <1>4, <1>6 DEF PanelInv, PanelAgrees

\* Every step keeps it.
LEMMA PanelStep == PanelInv /\ [PanelNext]_panelVars => PanelInv'
<1> SUFFICES ASSUME PanelInv, [PanelNext]_panelVars PROVE PanelInv'
  OBVIOUS
<1>1. CASE PanelNext
  BY <1>1, InitKeeps, InvertKeeps, OrientKeeps, BlankKeeps, UnblankKeeps, FadeKeeps,
     WriteKeeps, KeypadScanKeeps DEF PanelNext
<1>2. CASE UNCHANGED panelVars
  <2>1. UNCHANGED <<chip, panel, panel_ready, pulse, pins, torn, garbled>>
    BY <1>2 DEF panelVars
  <2>2. CacheIsPanel' /\ LitIsOn' /\ ClearedIfReady' /\ UncachedUntilReady'
    BY <2>1, Zenon DEF PanelInv, PanelAgrees, CacheIsPanel, LitIsOn, ClearedIfReady, UncachedUntilReady
  <2>3. PanelPart'
    BY <2>1, <2>2, PanelFacts, Zenon DEF PanelPart
  <2> QED
    BY <2>1, <2>3, PanelPartKeeps
<1> QED
  BY <1>1, <1>2

\* For every matrix and every window: the driver's cache is what the panel has, the light is
\* on only over a cleared panel that is on, and a scan without an error has given the lines back.
THEOREM PanelKept == PanelSpec => []PanelAgrees
<1>1. PanelSpec => []PanelInv
  BY PanelInitInv, PanelStep, PTL DEF PanelSpec
<1>2. PanelInv => PanelAgrees
  BY DEF PanelInv
<1> QED
  BY <1>1, <1>2, PTL

-----------------------------------------------------------------------------
(* The baseband chip and its driver.                                       *)

\* The initialisation tables are a finite sequence.
LEMMA SectionsLength == Len(Sections) \in Nat
<1>1. CASE IfOverride
  BY <1>1 DEF Sections
<1>2. CASE ~IfOverride
  BY <1>2 DEF Sections
<1> QED
  BY <1>1, <1>2

\* Powering up, at boot or later, keeps the promise whatever fails.
LEMMA BringUpKeeps ==
  ASSUME ChipAgrees, NEW call \in {"init", "power_up"}, BringUp(call)
  PROVE  /\ powered' \in BOOLEAN /\ pin' \in BOOLEAN /\ said'.ok \in BOOLEAN
         /\ hr_regs' \subseteq Tables \cup {"set_fm_rx", "set_audio_path"}
         /\ PowerAgrees' /\ AcceptedTook'
<1>0. /\ powered \in BOOLEAN /\ pin \in BOOLEAN /\ powered = pin /\ (~pin => hr_regs = {})
      /\ hr_regs \subseteq Tables \cup {"set_fm_rx", "set_audio_path"}
  BY DEF ChipAgrees, HrTypeOK, PowerAgrees
<1>1. PICK ok \in BOOLEAN, n \in 0..Len(Sections) :
        /\ hr_c6000_power_on(ok)
        /\ ~powered' => n = 0
        /\ hr_c6000_run_init_sequence(n)
        /\ Said(call, n = Len(Sections))
  BY DEF BringUp
<1> DEFINE sent == {Sections[i] : i \in 1..n}
<1>2. hr_regs' = hr_regs \cup sent
  BY <1>1 DEF hr_c6000_run_init_sequence
<1>3. sent \subseteq Tables
  BY SectionsLength DEF Tables
<1>4. powered' \in BOOLEAN /\ pin' \in BOOLEAN /\ powered' = pin' /\ (pin => pin')
  BY <1>0, <1>1, Zenon DEF hr_c6000_power_on
<1>5. ~pin' => hr_regs' = {}
  <2> SUFFICES ASSUME ~pin' PROVE hr_regs' = {}
    OBVIOUS
  <2>1. n = 0 /\ hr_regs = {}
    BY <1>0, <1>1, <1>4
  <2>2. sent = {}
    BY <2>1
  <2> QED
    BY <1>2, <2>1, <2>2
<1>6. said' = [call |-> call, ok |-> (n = Len(Sections))]
  BY <1>1 DEF Said
<1>7. said'.ok = (n = Len(Sections)) /\ said'.call = call
  BY <1>6
<1>8. n = Len(Sections) => Tables \subseteq hr_regs'
  BY <1>2 DEF Tables
<1>9. AcceptedTook'
  BY <1>7, <1>8 DEF AcceptedTook
<1>10. PowerAgrees'
  BY <1>4, <1>5 DEF PowerAgrees
<1> QED
  BY <1>0, <1>2, <1>3, <1>4, <1>7, <1>9, <1>10

\* So does a table that an operating call sends.
LEMMA TransferKeeps ==
  ASSUME ChipAgrees, NEW call \in {"set_fm_rx", "set_audio_path"}, Transfer(call),
         UNCHANGED <<hr_ready, powered, pin>>
  PROVE  ChipAgrees'
<1>0. /\ powered = pin /\ (~pin => hr_regs = {}) /\ HrTypeOK
      /\ hr_regs \subseteq Tables \cup {"set_fm_rx", "set_audio_path"}
  BY DEF ChipAgrees, HrTypeOK, PowerAgrees
<1>1. PICK ok \in BOOLEAN :
        /\ ok => powered
        /\ hr_regs' = IF ok /\ pin THEN hr_regs \cup {call} ELSE hr_regs
        /\ Said(call, ok)
  BY DEF Transfer
<1>2. said'.ok = ok /\ said'.call = call
  BY <1>1 DEF Said
<1>3. HrTypeOK'
  BY <1>0, <1>1, <1>2 DEF HrTypeOK
<1>4. PowerAgrees'
  BY <1>0, <1>1 DEF PowerAgrees
<1>5. AcceptedTook'
  BY <1>0, <1>1, <1>2 DEF AcceptedTook
<1> QED
  BY <1>3, <1>4, <1>5 DEF ChipAgrees

\* hr_c6000.c: data->powered is the pin, a chip without power has no registers, and every call
\* that returned 0 left in the chip what it was to leave there.
THEOREM ChipKnown == HrSpec => []ChipAgrees
<1>1. HrInit => ChipAgrees
  <2> SUFFICES ASSUME HrInit PROVE ChipAgrees
    OBVIOUS
  <2>1. said.call = "none" /\ said.ok = TRUE
    BY DEF HrInit
  <2>2. HrTypeOK
    BY <2>1 DEF HrInit, HrTypeOK
  <2>3. PowerAgrees
    BY DEF HrInit, PowerAgrees
  <2>4. AcceptedTook
    BY <2>1 DEF AcceptedTook
  <2> QED
    BY <2>2, <2>3, <2>4 DEF ChipAgrees
<1>2. ChipAgrees /\ [HrNext]_hrVars => ChipAgrees'
  <2> SUFFICES ASSUME ChipAgrees, [HrNext]_hrVars PROVE ChipAgrees'
    OBVIOUS
  <2>1. CASE hr_c6000_init
    <3>1. BringUp("init") /\ hr_ready' \in {"yes", "no"}
      BY <2>1 DEF hr_c6000_init
    <3> QED
      BY <3>1, BringUpKeeps DEF ChipAgrees, HrTypeOK
  <2>2. CASE hr_c6000_power_up
    <3>1. BringUp("power_up") /\ hr_ready' = "yes"
      BY <2>2 DEF hr_c6000_power_up
    <3> QED
      BY <3>1, BringUpKeeps DEF ChipAgrees, HrTypeOK
  <2>3. CASE hr_c6000_power_off
    <3>1. PICK ok \in BOOLEAN :
            /\ powered' = (powered /\ ~ok) /\ pin' = (pin /\ powered')
            /\ hr_regs' = IF pin' THEN hr_regs ELSE {}
            /\ Said("power_off", ok \/ ~powered)
      BY <2>3 DEF hr_c6000_power_off
    <3>2. powered \in BOOLEAN /\ pin \in BOOLEAN /\ powered = pin /\ HrTypeOK
      BY DEF ChipAgrees, HrTypeOK, PowerAgrees
    <3>3. powered' \in BOOLEAN /\ pin' \in BOOLEAN /\ powered' = pin' /\ (ok \/ ~powered) \in BOOLEAN
      BY <3>1, <3>2, Zenon
    <3>4. said' = [call |-> "power_off", ok |-> (ok \/ ~powered)]
      BY <3>1 DEF Said
    <3>5. said'.call = "power_off" /\ said'.ok \in BOOLEAN
      BY <3>3, <3>4
    <3>6. HrTypeOK' /\ AcceptedTook'
      BY <2>3, <3>1, <3>2, <3>3, <3>5 DEF HrTypeOK, AcceptedTook, hr_c6000_power_off
    <3>7. PowerAgrees'
      BY <3>1, <3>3 DEF PowerAgrees
    <3> QED
      BY <3>6, <3>7 DEF ChipAgrees
  <2>4. CASE hr_c6000_api_set_fm_rx
    BY <2>4, TransferKeeps DEF hr_c6000_api_set_fm_rx
  <2>5. CASE hr_c6000_api_set_audio_path
    BY <2>5, TransferKeeps DEF hr_c6000_api_set_audio_path
  <2>6. CASE Stub
    <3>1. PICK call \in Refused \cup Ignored, ok \in BOOLEAN : said' = [call |-> call, ok |-> ok]
      BY <2>6 DEF Stub, Said
    <3>2. said'.ok \in BOOLEAN /\ said'.call \in Refused \cup Ignored
      BY <3>1
    <3>3. AcceptedTook'
      BY <3>2 DEF AcceptedTook, Refused, Ignored
    <3> QED
      BY <2>6, <3>2, <3>3 DEF Stub, ChipAgrees, HrTypeOK, PowerAgrees
  <2>7. CASE UNCHANGED hrVars
    BY <2>7 DEF hrVars, ChipAgrees, HrTypeOK, PowerAgrees, AcceptedTook
  <2> QED
    BY <2>1, <2>2, <2>3, <2>4, <2>5, <2>6, <2>7 DEF HrNext
<1> QED
  BY <1>1, <1>2, PTL DEF HrSpec

-----------------------------------------------------------------------------
(* The bit-banged bus: how a list of buffers is walked.                     *)

Buffers == [len : Nat, null : BOOLEAN]

\* A place of a list, or the one behind its last.
Stands(list, at) ==
  /\ at \in (Nat \ {0}) \X Nat /\ at[1] <= Len(list) + 1
  /\ at[1] <= Len(list) => at[2] < Bytes(list[at[1]])
  /\ at[1] = Len(list) + 1 => at[2] = 0

\* A buffer has a byte's time at least.
LEMMA BytesType ==
  ASSUME NEW list \in Seq(Buffers), NEW b \in 1..Len(list)
  PROVE  Bytes(list[b]) \in Nat /\ Bytes(list[b]) > 0 /\ list[b].len \in Nat
<1>1. list[b] \in Buffers
  OBVIOUS
<1> QED
  BY <1>1 DEF Bytes, Buffers

\* The places are pairs of a buffer and a byte of it.
LEMMA PlaceMember ==
  ASSUME NEW list \in Seq(Buffers), NEW q
  PROVE  q \in Places(list) <=>
           /\ q \in (Nat \ {0}) \X Nat /\ q[1] <= Len(list) /\ q[2] < Bytes(list[q[1]])
<1>1. Len(list) \in Nat
  OBVIOUS
<1>2. ASSUME q \in Places(list)
      PROVE  q \in (Nat \ {0}) \X Nat /\ q[1] <= Len(list) /\ q[2] < Bytes(list[q[1]])
  <2>1. PICK b \in 1..Len(list) : q \in {b} \X (0..Bytes(list[b]) - 1)
    BY <1>2, Zenon DEF Places
  <2>2. Bytes(list[b]) \in Nat
    BY BytesType
  <2>3. q[1] = b /\ q[2] \in 0..Bytes(list[b]) - 1 /\ q = <<q[1], q[2]>>
    BY <2>1
  <2>4. q[1] \in Nat \ {0} /\ q[2] \in Nat /\ q[2] < Bytes(list[b]) /\ q[1] <= Len(list)
    BY <1>1, <2>2, <2>3
  <2>5. q \in (Nat \ {0}) \X Nat
    BY <2>3, <2>4
  <2> QED
    BY <2>3, <2>4, <2>5
<1>3. ASSUME q \in (Nat \ {0}) \X Nat, q[1] <= Len(list), q[2] < Bytes(list[q[1]])
      PROVE  q \in Places(list)
  <2>1. q = <<q[1], q[2]>> /\ q[1] \in Nat \ {0} /\ q[2] \in Nat
    BY <1>3
  <2>2. q[1] \in 1..Len(list)
    BY <1>1, <1>3, <2>1
  <2>3. Bytes(list[q[1]]) \in Nat
    BY <2>2, BytesType
  <2>4. q[2] \in 0..Bytes(list[q[1]]) - 1
    BY <1>3, <2>1, <2>3
  <2>5. q \in {q[1]} \X (0..Bytes(list[q[1]]) - 1)
    BY <2>1, <2>4
  <2> QED
    BY <2>2, <2>5, Zenon DEF Places
<1> QED
  BY <1>2, <1>3

\* A list has finitely many places.
LEMMA PlacesFinite ==
  ASSUME NEW list \in Seq(Buffers)
  PROVE  IsFiniteSet(Places(list)) /\ Cardinality(Places(list)) \in Nat
<1> DEFINE B == 1..Len(list)
           f == [b \in B |-> {b} \X (0..Bytes(list[b]) - 1)]
           T == {{b} \X (0..Bytes(list[b]) - 1) : b \in B}
<1>1. IsFiniteSet(B)
  <2>1. Len(list) \in Int
    OBVIOUS
  <2> QED
    BY <2>1, FS_Interval
<1>2. \A b \in B : IsFiniteSet({b} \X (0..Bytes(list[b]) - 1))
  <2> SUFFICES ASSUME NEW b \in B PROVE IsFiniteSet({b} \X (0..Bytes(list[b]) - 1))
    OBVIOUS
  <2>1. Bytes(list[b]) - 1 \in Int
    BY BytesType
  <2>2. IsFiniteSet(0..Bytes(list[b]) - 1)
    BY <2>1, FS_Interval
  <2>3. IsFiniteSet({b})
    BY FS_Singleton
  <2> QED
    BY <2>2, <2>3, FS_Product
<1>3. f \in Surjection(B, T)
  BY DEF Surjection
<1>4. IsFiniteSet(T)
  BY <1>1, <1>3, FS_Surjection
<1>5. IsFiniteSet(UNION T)
  <2>1. \A S \in T : IsFiniteSet(S)
    BY <1>2
  <2> HIDE DEF T
  <2> QED
    BY <1>4, <2>1, FS_UNION
<1> QED
  BY <1>5, FS_CardinalityType DEF Places

\* The places before one.
Passed(list, p) == {q \in Places(list) : Before(q, p)}

\* They are finitely many, too.
LEMMA PassedFinite ==
  ASSUME NEW list \in Seq(Buffers), NEW p
  PROVE  /\ IsFiniteSet(Passed(list, p)) /\ Rank(list, p) = Cardinality(Passed(list, p))
         /\ Rank(list, p) \in Nat /\ Rank(list, p) <= Cardinality(Places(list))
<1>1. Passed(list, p) \in SUBSET Places(list)
  BY DEF Passed
<1>2. IsFiniteSet(Places(list))
  BY PlacesFinite
<1>3. IsFiniteSet(Passed(list, p)) /\ Cardinality(Passed(list, p)) <= Cardinality(Places(list))
  BY <1>1, <1>2, FS_Subset
<1>4. Rank(list, p) = Cardinality(Passed(list, p))
  BY DEF Rank, Passed
<1> QED
  BY <1>3, <1>4, FS_CardinalityType

\* A walk begins at the first place.
LEMMA WalkBegins ==
  ASSUME NEW list \in Seq(Buffers)
  PROVE  Stands(list, <<1, 0>>) /\ Rank(list, <<1, 0>>) = 0
<1>1. Len(list) \in Nat
  OBVIOUS
<1>2. Stands(list, <<1, 0>>)
  <2>1. 1 <= Len(list) => 0 < Bytes(list[1])
    BY <1>1, BytesType
  <2> QED
    BY <1>1, <2>1 DEF Stands
<1>3. Passed(list, <<1, 0>>) = {}
  <2> SUFFICES ASSUME NEW q \in Places(list), Before(q, <<1, 0>>)
               PROVE  FALSE
    BY DEF Passed
  <2>1. q \in (Nat \ {0}) \X Nat
    BY PlaceMember
  <2> QED
    BY <2>1 DEF Before
<1> QED
  BY <1>2, <1>3, PassedFinite, FS_EmptySet

\* At a place of the list there is one left; behind the last all were passed.
LEMMA WalkLeft ==
  ASSUME NEW list \in Seq(Buffers), NEW at, Stands(list, at)
  PROVE  /\ Left(list, at) => at \in Places(list) /\ Rank(list, at) < Cardinality(Places(list))
         /\ ~Left(list, at) => Rank(list, at) = Cardinality(Places(list))
<1>1. Len(list) \in Nat /\ at \in (Nat \ {0}) \X Nat /\ at[1] \in Nat \ {0} /\ at[2] \in Nat
  BY DEF Stands
<1>2. ASSUME Left(list, at)
      PROVE  at \in Places(list) /\ Rank(list, at) < Cardinality(Places(list))
  <2>1. at \in Places(list)
    BY <1>1, <1>2, PlaceMember DEF Stands, Left
  <2>2. at \notin Passed(list, at)
    BY <1>1 DEF Passed, Before
  <2>3. Passed(list, at) \in SUBSET Places(list) /\ Passed(list, at) # Places(list)
    BY <2>1, <2>2 DEF Passed
  <2>4. Cardinality(Passed(list, at)) <= Cardinality(Places(list))
        /\ Cardinality(Passed(list, at)) # Cardinality(Places(list))
    BY <2>3, PlacesFinite, FS_Subset
  <2> QED
    BY <2>1, <2>4, PassedFinite, PlacesFinite
<1>3. ASSUME ~Left(list, at)
      PROVE  Rank(list, at) = Cardinality(Places(list))
  <2>1. Passed(list, at) = Places(list)
    <3> SUFFICES ASSUME NEW q \in Places(list) PROVE Before(q, at)
      BY DEF Passed
    <3>1. q[1] \in Nat /\ q[1] <= Len(list)
      BY PlaceMember
    <3> QED
      BY <1>1, <1>3, <3>1 DEF Left, Before
  <2> QED
    BY <2>1, PassedFinite
<1> QED
  BY <1>2, <1>3

\* A step takes the walk past just the place it was at.
LEMMA WalkGoesOn ==
  ASSUME NEW list \in Seq(Buffers), NEW at, Stands(list, at)
  PROVE  /\ Stands(list, NextPlace(list, at))
         /\ Left(list, at) => Rank(list, NextPlace(list, at)) = Rank(list, at) + 1
         /\ ~Left(list, at) => NextPlace(list, at) = at
<1>1. Len(list) \in Nat /\ at \in (Nat \ {0}) \X Nat /\ at[1] \in Nat \ {0} /\ at[2] \in Nat
      /\ at = <<at[1], at[2]>>
  BY DEF Stands
<1>2. ASSUME ~Left(list, at)
      PROVE  NextPlace(list, at) = at
  BY <1>2 DEF NextPlace
<1>3. ASSUME Left(list, at)
      PROVE  /\ Stands(list, NextPlace(list, at))
             /\ Rank(list, NextPlace(list, at)) = Rank(list, at) + 1
  <2> DEFINE b == at[1]
             o == at[2]
             next == NextPlace(list, at)
             n == Bytes(list[b])
  <2>1. b \in 1..Len(list) /\ o \in Nat /\ o < n
    BY <1>1, <1>3 DEF Left, Stands
  <2>2. n \in Nat /\ n > 0 /\ list[b].len \in Nat
    BY <2>1, BytesType
  <2>3. next = IF o + 1 = n THEN <<b + 1, 0>> ELSE <<b, o + 1>>
    BY <1>3, <2>1, <2>2 DEF NextPlace, Bytes
  <2> HIDE DEF next
  <2>4. Stands(list, next)
    <3>1. CASE o + 1 = n
      <4>1. b + 1 <= Len(list) => 0 < Bytes(list[b + 1])
        BY <1>1, <2>1, BytesType
      <4>2. next = <<b + 1, 0>> /\ next \in (Nat \ {0}) \X Nat /\ b + 1 <= Len(list) + 1
        BY <1>1, <2>1, <2>3, <3>1
      <4> QED
        BY <4>1, <4>2 DEF Stands
    <3>2. CASE o + 1 # n
      <4>1. next = <<b, o + 1>> /\ next \in (Nat \ {0}) \X Nat /\ o + 1 < n /\ b <= Len(list)
        BY <1>1, <2>1, <2>2, <2>3, <3>2
      <4> QED
        BY <1>1, <2>1, <4>1 DEF Stands
    <3> QED
      BY <3>1, <3>2
  <2>5. Passed(list, next) = Passed(list, at) \cup {at}
    <3>1. at \in Places(list)
      BY <1>3, WalkLeft
    <3>2. ASSUME NEW q \in Places(list)
          PROVE  Before(q, next) <=> Before(q, at) \/ q = at
      <4>1. q \in (Nat \ {0}) \X Nat /\ q[1] \in Nat /\ q[2] \in Nat /\ q = <<q[1], q[2]>>
            /\ q[2] < Bytes(list[q[1]])
        BY PlaceMember
      <4>2. q = at <=> q[1] = b /\ q[2] = o
        BY <1>1, <4>1
      <4>3. q[1] = b => q[2] < n
        BY <4>1
      <4>4. CASE o + 1 = n
        <5>1. next[1] = b + 1 /\ next[2] = 0
          BY <2>3, <4>4
        <5> QED
          BY <1>1, <2>2, <4>1, <4>2, <4>3, <4>4, <5>1 DEF Before
      <4>5. CASE o + 1 # n
        <5>1. next[1] = b /\ next[2] = o + 1
          BY <2>3, <4>5
        <5> QED
          BY <1>1, <4>1, <4>2, <5>1 DEF Before
      <4> QED
        BY <4>4, <4>5
    <3> QED
      BY <3>1, <3>2 DEF Passed
  <2>6. at \notin Passed(list, at)
    BY <1>1 DEF Passed, Before
  <2>7. Cardinality(Passed(list, next)) = Cardinality(Passed(list, at)) + 1
    BY <2>5, <2>6, PassedFinite, FS_AddElement
  <2> QED
    BY <2>4, <2>7, PassedFinite DEF next
<1> QED
  BY <1>2, <1>3

-----------------------------------------------------------------------------
(* A byte, bit by bit.                                                      *)

SpiPhases == {"idle", "clock", "select", "byte", "data", "lead", "sample", "trail", "store"}
BitPhases == {"data", "lead", "sample", "trail"}

SpiTypes ==
  /\ spi_init \in {"not yet", "ready", "failed"}
  /\ wires \in [clk : {0, 1}, mosi : {0, 1}, miso : {0, 1}, cs : {0, 1}]
  /\ spi_call \in [cpol : {0, 1}, cpha : BOOLEAN, lsb_first : BOOLEAN,
                   tx : TxLists \cup {<<>>}, rx : RxLists \cup {<<>>}]
  /\ xfer \in [at : SpiPhases, tx : Nat \X Nat, rx : Nat \X Nat, done : Nat, i : 0..Bits,
               out : Octets, in : Octets]
  /\ slave \in [gives : Octets, put : Nat, taken : Seq({0, 1})]

\* The slave has taken the first n bits of what is sent,
HasTaken(n) ==
  Len(slave.taken) = n /\ \A k \in 1..n : slave.taken[k] = xfer.out[Order(k - 1)]

\* and the driver sampled the first n of what the slave gives.
HasSeen(n) == \A k \in 0..n - 1 : xfer.in[Order(k)] = slave.gives[Order(k)]

\* How many bits were put out, taken and sampled, at each step of a bit.
ByteUnderWay ==
  xfer.at \in BitPhases =>
    /\ xfer.i < Bits /\ wires.cs = 1 /\ wires.miso = OnMiso(slave)
    /\ wires.clk = (IF xfer.at \in {"data", "lead"} THEN Idle ELSE Active)
    /\ slave.put = (IF spi_call.cpha /\ xfer.at \in {"data", "lead"} THEN xfer.i ELSE xfer.i + 1)
    /\ HasTaken(IF ~spi_call.cpha /\ xfer.at = "trail" THEN xfer.i + 1 ELSE xfer.i)
    /\ HasSeen(IF xfer.at = "data" \/ (spi_call.cpha /\ xfer.at \in {"lead", "sample"})
               THEN xfer.i ELSE xfer.i + 1)
    /\ xfer.at # "data" => wires.mosi = xfer.out[Order(xfer.i)]
    /\ xfer.at = "sample" => spi_call.cpha

\* Between the bytes, and between the calls.
ByteOver ==
  /\ xfer.at \in {"idle", "clock", "select"} =>
       wires.cs = 0 /\ slave.put = 0 /\ slave.taken = <<>>
  /\ xfer.at = "select" => wires.clk = Idle
  /\ xfer.at = "byte" =>
       wires.cs = 1 /\ wires.clk = Idle /\ slave.put = 0 /\ slave.taken = <<>>
  /\ xfer.at = "store" =>
       wires.cs = 1 /\ wires.clk = Idle /\ HasTaken(Bits) /\ HasSeen(Bits)

\* As many places of each list were passed as bytes exchanged.
Walks(list, at) ==
  /\ Stands(list, at)
  /\ Rank(list, at) = IF xfer.done < Cardinality(Places(list)) THEN xfer.done
                      ELSE Cardinality(Places(list))
ListsWalked ==
  /\ Walks(spi_call.tx, xfer.tx) /\ Walks(spi_call.rx, xfer.rx)
  /\ xfer.at = "idle" => ~Left(spi_call.tx, xfer.tx) /\ ~Left(spi_call.rx, xfer.rx)

ExchangeInv == SpiTypes /\ ByteUnderWay /\ ByteOver /\ ListsWalked

\* The fields, one by one.
LEMMA SpiFields ==
  ASSUME SpiTypes
  PROVE  /\ slave = [gives |-> slave.gives, put |-> slave.put, taken |-> slave.taken]
         /\ wires = [clk |-> wires.clk, mosi |-> wires.mosi, miso |-> wires.miso, cs |-> wires.cs]
         /\ wires.clk \in {0, 1} /\ wires.mosi \in {0, 1} /\ wires.miso \in {0, 1} /\ wires.cs \in {0, 1}
         /\ spi_call.cpol \in {0, 1} /\ spi_call.cpha \in BOOLEAN /\ spi_call.lsb_first \in BOOLEAN
         /\ xfer.i \in 0..Bits /\ xfer.out \in Octets /\ xfer.in \in Octets /\ xfer.done \in Nat
         /\ xfer.at \in SpiPhases
         /\ slave.gives \in Octets /\ slave.put \in Nat /\ slave.taken \in Seq({0, 1})
  BY DEF SpiTypes

\* A slave but for one field.
LEMMA SlaveExcept ==
  ASSUME NEW G, NEW P, NEW T, NEW s \in [gives : G, put : P, taken : T]
  PROVE  /\ \A x : [s EXCEPT !.taken = x] = [gives |-> s.gives, put |-> s.put, taken |-> x]
         /\ \A x : [s EXCEPT !.put = x] = [gives |-> s.gives, put |-> x, taken |-> s.taken]
  OBVIOUS

\* And but for two.
LEMMA SlaveExceptTwo ==
  ASSUME NEW G, NEW P, NEW T, NEW s \in [gives : G, put : P, taken : T], NEW x, NEW y
  PROVE  /\ [s EXCEPT !.gives = y, !.put = x] = [gives |-> y, put |-> x, taken |-> s.taken]
         /\ [s EXCEPT !.put = x, !.taken = y] = [gives |-> s.gives, put |-> x, taken |-> y]
<1>1. [s EXCEPT !.gives = y, !.put = x] = [gives |-> y, put |-> x, taken |-> s.taken]
  <2> DEFINE t == [s EXCEPT !.gives = y]
  <2>1. t = [gives |-> y, put |-> s.put, taken |-> s.taken]
    OBVIOUS
  <2>2. [s EXCEPT !.gives = y, !.put = x] = [t EXCEPT !.put = x]
    BY Zenon
  <2> HIDE DEF t
  <2>3. [t EXCEPT !.put = x] = [gives |-> y, put |-> x, taken |-> s.taken]
    BY <2>1
  <2> QED
    BY <2>2, <2>3
<1>2. [s EXCEPT !.put = x, !.taken = y] = [gives |-> s.gives, put |-> x, taken |-> y]
  <2> DEFINE t == [s EXCEPT !.put = x]
  <2>1. t = [gives |-> s.gives, put |-> x, taken |-> s.taken]
    OBVIOUS
  <2>2. [s EXCEPT !.put = x, !.taken = y] = [t EXCEPT !.taken = y]
    BY Zenon
  <2> HIDE DEF t
  <2>3. [t EXCEPT !.taken = y] = [gives |-> s.gives, put |-> x, taken |-> y]
    BY <2>1
  <2> QED
    BY <2>2, <2>3
<1> QED
  BY <1>1, <1>2

\* Either order goes over every bit once.
LEMMA Orders ==
  ASSUME NEW k \in 0..Bits - 1
  PROVE  /\ Order(k) \in 0..Bits - 1
         /\ \A j \in 0..Bits - 1 : Order(j) = Order(k) => j = k
         /\ Order(Order(k)) = k
<1>1. Bits \in Nat
  BY SpiAssumption
<1>2. CASE spi_call.lsb_first
  BY <1>1, <1>2 DEF Order
<1>3. CASE ~spi_call.lsb_first
  BY <1>1, <1>3 DEF Order
<1> QED
  BY <1>2, <1>3

\* What the slave has on its line is one of its bits, or none of them.
LEMMA OnMisoType ==
  ASSUME NEW s, s.gives \in Octets, s.put \in Nat
  PROVE  OnMiso(s) \in {0, 1} /\ (s.put \in 1..Bits => OnMiso(s) = s.gives[Order(s.put - 1)])
<1>1. Bits \in Nat
  BY SpiAssumption
<1>2. CASE s.put \in 1..Bits
  <2>1. s.put - 1 \in 0..Bits - 1
    BY <1>1, <1>2
  <2>2. Order(s.put - 1) \in 0..Bits - 1
    BY <2>1, Orders
  <2>3. s.gives[Order(s.put - 1)] \in {0, 1}
    BY <2>2 DEF Octets
  <2> QED
    BY <1>2, <2>3 DEF OnMiso
<1>3. CASE s.put \notin 1..Bits
  BY <1>3 DEF OnMiso
<1> QED
  BY <1>2, <1>3

\* The driver samples the bit the slave has put out last.
LEMMA SeesOneMore ==
  ASSUME SpiTypes, NEW i \in 0..Bits - 1, xfer.i = i, HasSeen(i), slave.put = i + 1,
         wires.miso = OnMiso(slave)
  PROVE  LET in == [xfer.in EXCEPT ![Order(xfer.i)] = wires.miso]
         IN  in \in Octets /\ \A k \in 0..(i + 1) - 1 : in[Order(k)] = slave.gives[Order(k)]
<1> DEFINE in == [xfer.in EXCEPT ![Order(i)] = wires.miso]
<1>1. Bits \in Nat /\ i \in Int
  BY SpiAssumption
<1>2. Order(i) \in 0..Bits - 1
  BY Orders
<1>3. wires.miso \in {0, 1} /\ xfer.in \in Octets /\ slave.gives \in Octets /\ slave.put \in Nat
  BY SpiFields
<1>4. in \in Octets
  BY <1>2, <1>3 DEF Octets
<1>5. wires.miso = slave.gives[Order(i)]
  <2>1. slave.put \in 1..Bits /\ slave.put - 1 = i
    BY <1>1
  <2> QED
    BY <1>3, <2>1, OnMisoType
<1>6. ASSUME NEW k \in 0..(i + 1) - 1
      PROVE  in[Order(k)] = slave.gives[Order(k)]
  <2>1. k \in 0..Bits - 1 /\ (k = i \/ k \in 0..i - 1)
    BY <1>1
  <2>2. Order(k) \in 0..Bits - 1
    BY <2>1, Orders
  <2>3. CASE k = i
    BY <1>2, <1>3, <1>5, <2>3 DEF Octets
  <2>4. CASE k \in 0..i - 1
    <3>1. k # i
      BY <1>1, <2>4
    <3>2. Order(k) # Order(i)
      BY <2>1, <3>1, Orders
    <3>3. in[Order(k)] = xfer.in[Order(k)]
      BY <1>3, <2>2, <3>2 DEF Octets
    <3> QED
      BY <2>4, <3>3 DEF HasSeen
  <2> QED
    BY <2>1, <2>3, <2>4
<1> QED
  BY <1>4, <1>6

\* The slave takes the bit that is on the line.
LEMMA TakesOneMore ==
  ASSUME SpiTypes, NEW i \in 0..Bits - 1, xfer.i = i, HasTaken(i),
         wires.mosi = xfer.out[Order(xfer.i)]
  PROVE  LET s == Takes(slave)
         IN  /\ s = [gives |-> slave.gives, put |-> slave.put, taken |-> s.taken]
             /\ s.taken \in Seq({0, 1}) /\ Len(s.taken) = i + 1
             /\ \A k \in 1..i + 1 : s.taken[k] = xfer.out[Order(k - 1)]
<1> DEFINE more == Append(slave.taken, wires.mosi)
<1>1. Bits \in Nat /\ i \in Nat
  BY SpiAssumption
<1>2. slave.taken \in Seq({0, 1}) /\ wires.mosi \in {0, 1} /\ Len(slave.taken) = i
  BY SpiFields DEF HasTaken
<1>3. /\ more \in Seq({0, 1}) /\ Len(more) = i + 1 /\ more[i + 1] = wires.mosi
      /\ \A k \in 1..i : more[k] = slave.taken[k]
  BY <1>1, <1>2, AppendProperties
<1>4. Takes(slave) = [gives |-> slave.gives, put |-> slave.put, taken |-> more]
  <2>1. slave \in [gives : Octets, put : Nat, taken : Seq({0, 1})]
    BY DEF SpiTypes
  <2>2. ASSUME NEW x
        PROVE  [slave EXCEPT !.taken = x] = [gives |-> slave.gives, put |-> slave.put, taken |-> x]
    BY <2>1, SlaveExcept, SMT
  <2>3. Takes(slave) = [slave EXCEPT !.taken = more]
    BY DEF Takes
  <2> HIDE DEF more
  <2> QED
    BY <2>2, <2>3
<1> HIDE DEF more
<1>5. ASSUME NEW k \in 1..i + 1
      PROVE  more[k] = xfer.out[Order(k - 1)]
  <2>1. CASE k = i + 1
    <3>1. k - 1 = i
      BY <1>1, <2>1
    <3> QED
      BY <1>3, <2>1, <3>1
  <2>2. CASE k # i + 1
    <3>1. k \in 1..i
      BY <1>1, <2>2
    <3> QED
      BY <1>3, <3>1 DEF HasTaken
  <2> QED
    BY <2>1, <2>2
<1> QED
  BY <1>3, <1>4, <1>5

-----------------------------------------------------------------------------
(* The steps.                                                               *)

\* An edge of the clock, while the chip is not selected and while it is.
LEMMA ClockMoves ==
  ASSUME SpiTypes, NEW clk \in {0, 1}, Clock(clk)
  PROVE  /\ wires' = [clk |-> clk, mosi |-> wires.mosi, miso |-> OnMiso(slave'), cs |-> wires.cs]
         /\ wires.cs = 0 => slave' = slave
         /\ wires.cs = 1 /\ clk # wires.clk /\ ((clk = Active) <=> spi_call.cpha) =>
              slave' = PutsOut(slave)
         /\ wires.cs = 1 /\ clk # wires.clk /\ ~((clk = Active) <=> spi_call.cpha) =>
              slave' = Takes(slave)
<1>1. wires' = [wires EXCEPT !.clk = clk, !.miso = OnMiso(slave')] /\ slave' = AfterEdge(clk)
  BY DEF Clock
<1>2. wires' = [clk |-> clk, mosi |-> wires.mosi, miso |-> OnMiso(slave'), cs |-> wires.cs]
  BY <1>1, SpiFields
<1>3. spi_call.cpha \in BOOLEAN
  BY SpiFields
<1>4. CASE wires.cs = 0
  <2>1. AfterEdge(clk) = slave /\ wires.cs # 1
    BY <1>4 DEF AfterEdge
  <2> QED
    BY <1>1, <1>2, <2>1
<1>5. CASE wires.cs # 0 /\ ((clk = Active) <=> spi_call.cpha)
  BY <1>1, <1>2, <1>3, <1>5 DEF AfterEdge
<1>6. CASE wires.cs # 0 /\ ~((clk = Active) <=> spi_call.cpha)
  BY <1>1, <1>2, <1>3, <1>6 DEF AfterEdge
<1> QED
  BY <1>4, <1>5, <1>6

\* The clock is at one of its two levels.
LEMMA ClockLevels ==
  ASSUME SpiTypes
  PROVE  Idle \in {0, 1} /\ Active \in {0, 1} /\ Idle # Active
  BY SpiFields DEF Idle, Active

\* The lists of a call are of buffers.
LEMMA CallLists ==
  ASSUME SpiTypes
  PROVE  spi_call.tx \in Seq(Buffers) /\ spi_call.rx \in Seq(Buffers)
<1>1. <<>> \in Seq(Buffers)
  OBVIOUS
<1>2. TxLists \subseteq Seq(Buffers) /\ RxLists \subseteq Seq(Buffers)
  BY SpiAssumption DEF Buffers
<1>3. spi_call.tx \in TxLists \cup {<<>>} /\ spi_call.rx \in RxLists \cup {<<>>}
  BY DEF SpiTypes
<1> QED
  BY <1>1, <1>2, <1>3

\* The walk stands still while a byte is under way.
LEMMA ListsKept ==
  ASSUME ListsWalked, spi_call' = spi_call, xfer'.tx = xfer.tx, xfer'.rx = xfer.rx,
         xfer'.done = xfer.done,
         xfer'.at = "idle" => ~Left(spi_call.tx, xfer.tx) /\ ~Left(spi_call.rx, xfer.rx)
  PROVE  ListsWalked'
<1>1. Walks(spi_call.tx, xfer.tx)' /\ Walks(spi_call.rx, xfer.rx)'
  BY DEF ListsWalked, Walks
<1>2. xfer'.at = "idle" => ~Left(spi_call.tx, xfer.tx)' /\ ~Left(spi_call.rx, xfer.rx)'
  BY DEF Left
<1> QED
  BY <1>1, <1>2 DEF ListsWalked

\* The pins are configured, or nothing happens.
LEMMA StillKeeps ==
  ASSUME ExchangeInv, spi_init' \in {"not yet", "ready", "failed"},
         wires' = wires, spi_call' = spi_call, xfer' = xfer, slave' = slave
  PROVE  ExchangeInv'
<1>1. SpiTypes'
  BY DEF ExchangeInv, SpiTypes
<1>2. ByteUnderWay'
  BY DEF ExchangeInv, ByteUnderWay, HasTaken, HasSeen, OnMiso, Idle, Active, Order
<1>3. ByteOver'
  BY DEF ExchangeInv, ByteOver, HasTaken, HasSeen, Idle, Order
<1>4. ListsWalked'
  BY ListsKept DEF ExchangeInv, ListsWalked
<1> QED
  BY <1>1, <1>2, <1>3, <1>4 DEF ExchangeInv

\* A call begins with both lists at their first place.
LEMMA StartKeeps == ASSUME ExchangeInv, NEW c \in SpiCalls, Start(c) PROVE ExchangeInv'
<1>1. /\ xfer.at = "idle" /\ spi_call' = c /\ UNCHANGED <<spi_init, wires, slave>>
      /\ xfer' = [xfer EXCEPT !.at = "clock", !.tx = <<1, 0>>, !.rx = <<1, 0>>, !.done = 0]
  BY DEF Start
<1>2. /\ xfer'.at = "clock" /\ xfer'.tx = <<1, 0>> /\ xfer'.rx = <<1, 0>> /\ xfer'.done = 0
  BY <1>1 DEF ExchangeInv, SpiTypes
<1>3. SpiTypes'
  <2>1. xfer' \in [at : SpiPhases, tx : Nat \X Nat, rx : Nat \X Nat, done : Nat, i : 0..Bits,
                   out : Octets, in : Octets]
    BY <1>1 DEF ExchangeInv, SpiTypes, SpiPhases
  <2>2. spi_call' \in [cpol : {0, 1}, cpha : BOOLEAN, lsb_first : BOOLEAN,
                       tx : TxLists \cup {<<>>}, rx : RxLists \cup {<<>>}]
    BY <1>1 DEF SpiCalls
  <2> QED
    BY <1>1, <2>1, <2>2 DEF ExchangeInv, SpiTypes
<1>4. ByteUnderWay' /\ ByteOver'
  BY <1>1, <1>2 DEF ExchangeInv, ByteUnderWay, ByteOver, BitPhases
<1>5. ListsWalked'
  <2>1. spi_call'.tx \in Seq(Buffers) /\ spi_call'.rx \in Seq(Buffers)
    <3>1. <<>> \in Seq(Buffers)
      OBVIOUS
    <3>2. TxLists \subseteq Seq(Buffers) /\ RxLists \subseteq Seq(Buffers)
      BY SpiAssumption DEF Buffers
    <3>3. spi_call'.tx \in TxLists /\ spi_call'.rx \in RxLists
      BY <1>1 DEF SpiCalls
    <3> QED
      BY <3>2, <3>3
  <2>2. /\ Stands(spi_call'.tx, <<1, 0>>) /\ Rank(spi_call'.tx, <<1, 0>>) = 0
        /\ Stands(spi_call'.rx, <<1, 0>>) /\ Rank(spi_call'.rx, <<1, 0>>) = 0
        /\ Cardinality(Places(spi_call'.tx)) \in Nat /\ Cardinality(Places(spi_call'.rx)) \in Nat
    BY <2>1, WalkBegins, PlacesFinite
  <2>3. Walks(spi_call.tx, xfer.tx)' /\ Walks(spi_call.rx, xfer.rx)'
    BY <1>2, <2>2 DEF Walks
  <2> QED
    BY <1>2, <2>3 DEF ListsWalked
<1> QED
  BY <1>3, <1>4, <1>5 DEF ExchangeInv

\* The clock takes the level of the call's mode while the chip is not selected.
LEMMA IdleClockKeeps == ASSUME ExchangeInv, IdleClock PROVE ExchangeInv'
<1>1. /\ xfer.at = "clock" /\ Clock(Idle) /\ UNCHANGED <<spi_init, spi_call>>
      /\ xfer' = [xfer EXCEPT !.at = "select"]
  BY DEF IdleClock
<1>2. /\ xfer'.at = "select" /\ xfer'.tx = xfer.tx /\ xfer'.rx = xfer.rx /\ xfer'.done = xfer.done
      /\ wires.cs = 0 /\ slave.put = 0 /\ slave.taken = <<>>
  BY <1>1 DEF ExchangeInv, SpiTypes, ByteOver
<1>3. /\ slave' = slave
      /\ wires' = [clk |-> Idle, mosi |-> wires.mosi, miso |-> OnMiso(slave'), cs |-> wires.cs]
  BY <1>1, <1>2, ClockMoves, ClockLevels DEF ExchangeInv
<1>4. SpiTypes'
  <2>1. xfer' \in [at : SpiPhases, tx : Nat \X Nat, rx : Nat \X Nat, done : Nat, i : 0..Bits,
                   out : Octets, in : Octets]
    BY <1>1 DEF ExchangeInv, SpiTypes, SpiPhases
  <2>2. wires' \in [clk : {0, 1}, mosi : {0, 1}, miso : {0, 1}, cs : {0, 1}]
    <3>1. OnMiso(slave) \in {0, 1}
      BY OnMisoType, SpiFields DEF ExchangeInv
    <3> QED
      BY <1>3, <3>1, ClockLevels, SpiFields DEF ExchangeInv
  <2> QED
    BY <1>1, <1>3, <2>1, <2>2 DEF ExchangeInv, SpiTypes
<1>5. ByteUnderWay' /\ ByteOver'
  BY <1>1, <1>2, <1>3 DEF ByteUnderWay, ByteOver, BitPhases, Idle
<1>6. ListsWalked'
  BY <1>1, <1>2, ListsKept DEF ExchangeInv
<1> QED
  BY <1>4, <1>5, <1>6 DEF ExchangeInv

\* The chip is selected.
LEMMA SelectKeeps == ASSUME ExchangeInv, Select PROVE ExchangeInv'
<1>1. /\ xfer.at = "select" /\ wires' = [wires EXCEPT !.cs = 1]
      /\ xfer' = [xfer EXCEPT !.at = "byte"] /\ UNCHANGED <<spi_init, spi_call, slave>>
  BY DEF Select
<1>2. /\ xfer'.at = "byte" /\ xfer'.tx = xfer.tx /\ xfer'.rx = xfer.rx /\ xfer'.done = xfer.done
      /\ wires'.cs = 1 /\ wires'.clk = Idle /\ slave.put = 0 /\ slave.taken = <<>>
  BY <1>1 DEF ExchangeInv, SpiTypes, ByteOver
<1>3. SpiTypes'
  <2>1. xfer' \in [at : SpiPhases, tx : Nat \X Nat, rx : Nat \X Nat, done : Nat, i : 0..Bits,
                   out : Octets, in : Octets]
    BY <1>1 DEF ExchangeInv, SpiTypes, SpiPhases
  <2>2. wires' \in [clk : {0, 1}, mosi : {0, 1}, miso : {0, 1}, cs : {0, 1}]
    BY <1>1 DEF ExchangeInv, SpiTypes
  <2> QED
    BY <1>1, <2>1, <2>2 DEF ExchangeInv, SpiTypes
<1>4. ByteUnderWay' /\ ByteOver'
  BY <1>1, <1>2 DEF ByteUnderWay, ByteOver, BitPhases, Idle
<1>5. ListsWalked'
  BY <1>1, <1>2, ListsKept DEF ExchangeInv
<1> QED
  BY <1>3, <1>4, <1>5 DEF ExchangeInv

\* The chip is deselected once both lists are exhausted.
LEMMA DeselectKeeps == ASSUME ExchangeInv, Deselect PROVE ExchangeInv'
<1>1. /\ xfer.at = "byte" /\ wires' = [wires EXCEPT !.cs = 0]
      /\ ~Left(spi_call.tx, xfer.tx) /\ ~Left(spi_call.rx, xfer.rx)
      /\ xfer' = [xfer EXCEPT !.at = "idle"] /\ UNCHANGED <<spi_init, spi_call, slave>>
  BY DEF Deselect
<1>2. /\ xfer'.at = "idle" /\ xfer'.tx = xfer.tx /\ xfer'.rx = xfer.rx /\ xfer'.done = xfer.done
      /\ wires'.cs = 0 /\ slave.put = 0 /\ slave.taken = <<>>
  BY <1>1 DEF ExchangeInv, SpiTypes, ByteOver
<1>3. SpiTypes'
  <2>1. xfer' \in [at : SpiPhases, tx : Nat \X Nat, rx : Nat \X Nat, done : Nat, i : 0..Bits,
                   out : Octets, in : Octets]
    BY <1>1 DEF ExchangeInv, SpiTypes, SpiPhases
  <2>2. wires' \in [clk : {0, 1}, mosi : {0, 1}, miso : {0, 1}, cs : {0, 1}]
    BY <1>1 DEF ExchangeInv, SpiTypes
  <2> QED
    BY <1>1, <2>1, <2>2 DEF ExchangeInv, SpiTypes
<1>4. ByteUnderWay' /\ ByteOver'
  BY <1>1, <1>2 DEF ByteUnderWay, ByteOver, BitPhases
<1>5. ListsWalked'
  BY <1>1, <1>2, ListsKept DEF ExchangeInv
<1> QED
  BY <1>3, <1>4, <1>5 DEF ExchangeInv

\* A byte is loaded, and the slave has one of its own ready.
LEMMA LoadByteKeeps == ASSUME ExchangeInv, LoadByte PROVE ExchangeInv'
<1>1. PICK out \in Octets, gives \in Octets :
        /\ xfer' = [xfer EXCEPT !.at = "data", !.i = 0, !.out = out, !.in = Zero]
        /\ slave' = [slave EXCEPT !.gives = gives, !.put = IF spi_call.cpha THEN @ ELSE @ + 1]
  BY DEF LoadByte
<1>2. /\ xfer.at = "byte" /\ wires' = [wires EXCEPT !.miso = OnMiso(slave')]
      /\ UNCHANGED <<spi_init, spi_call>>
  BY DEF LoadByte
<1>3. /\ wires.cs = 1 /\ wires.clk = Idle /\ slave.put = 0 /\ slave.taken = <<>>
      /\ spi_call.cpha \in BOOLEAN
  BY <1>2, SpiFields DEF ExchangeInv, ByteOver
<1>4. Bits \in Nat /\ Bits > 0 /\ Zero \in Octets
  BY SpiAssumption DEF Zero, Octets
<1>5. /\ xfer'.at = "data" /\ xfer'.i = 0 /\ xfer'.tx = xfer.tx /\ xfer'.rx = xfer.rx
      /\ xfer'.done = xfer.done
      /\ xfer' = [at |-> "data", tx |-> xfer.tx, rx |-> xfer.rx, done |-> xfer.done, i |-> 0,
                  out |-> out, in |-> Zero]
  BY <1>1 DEF ExchangeInv, SpiTypes
<1>6. /\ slave'.gives = gives /\ slave'.put = (IF spi_call.cpha THEN 0 ELSE 1)
      /\ slave'.taken = <<>>
      /\ slave' \in [gives : Octets, put : Nat, taken : Seq({0, 1})]
  <2>1. slave \in [gives : Octets, put : Nat, taken : Seq({0, 1})]
    BY DEF ExchangeInv, SpiTypes
  <2> DEFINE p == IF spi_call.cpha THEN 0 ELSE 1
  <2>2. slave' = [slave EXCEPT !.gives = gives, !.put = p]
    BY <1>1, <1>3
  <2>3. p \in Nat
    OBVIOUS
  <2> HIDE DEF p
  <2>4. slave' = [gives |-> gives, put |-> p, taken |-> <<>>]
    BY <1>3, <2>1, <2>2, SlaveExceptTwo
  <2>5. <<>> \in Seq({0, 1})
    OBVIOUS
  <2> QED
    BY <2>3, <2>4, <2>5 DEF p
<1>7. OnMiso(slave') \in {0, 1}
  BY <1>6, OnMisoType
<1>8. SpiTypes'
  <2>1. xfer' \in [at : SpiPhases, tx : Nat \X Nat, rx : Nat \X Nat, done : Nat, i : 0..Bits,
                   out : Octets, in : Octets]
    <3>1. xfer.tx \in Nat \X Nat /\ xfer.rx \in Nat \X Nat /\ xfer.done \in Nat
      BY DEF ExchangeInv, SpiTypes
    <3>2. 0 \in 0..Bits
      BY <1>4
    <3>3. "data" \in SpiPhases
      BY DEF SpiPhases
    <3> QED
      BY <1>4, <1>5, <3>1, <3>2, <3>3
  <2>2. wires' \in [clk : {0, 1}, mosi : {0, 1}, miso : {0, 1}, cs : {0, 1}]
    BY <1>2, <1>7 DEF ExchangeInv, SpiTypes
  <2> QED
    BY <1>2, <1>6, <2>1, <2>2 DEF ExchangeInv, SpiTypes
<1>9. wires'.cs = 1 /\ wires'.clk = Idle /\ wires'.miso = OnMiso(slave')
  BY <1>2, <1>3 DEF ExchangeInv, SpiTypes
<1>10. HasTaken(0)' /\ HasSeen(0)'
  BY <1>6 DEF HasTaken, HasSeen
<1>11. ByteUnderWay'
  <2>1. OnMiso(slave)' = OnMiso(slave')
    BY <1>2 DEF OnMiso, Order
  <2>2. Idle' = Idle /\ spi_call' = spi_call
    BY <1>2 DEF Idle
  <2> QED
    BY <1>4, <1>5, <1>6, <1>9, <1>10, <2>1, <2>2 DEF ByteUnderWay
<1>12. ByteOver'
  BY <1>5 DEF ByteOver
<1>13. ListsWalked'
  BY <1>2, <1>5, ListsKept DEF ExchangeInv
<1> QED
  BY <1>8, <1>11, <1>12, <1>13 DEF ExchangeInv

\* In the modes of CPHA 0 the driver samples before it sets the line.
LEMMA SetDataKeeps == ASSUME ExchangeInv, SetData PROVE ExchangeInv'
<1>1. /\ xfer.at = "data" /\ wires' = [wires EXCEPT !.mosi = xfer.out[Order(xfer.i)]]
      /\ xfer' = [(IF spi_call.cpha THEN xfer ELSE Sampled) EXCEPT !.at = "lead"]
      /\ UNCHANGED <<spi_init, spi_call, slave>>
  BY DEF SetData
<1>0. PICK i \in 0..Bits : xfer.i = i
  BY SpiFields DEF ExchangeInv
<1>2. /\ i \in 0..Bits - 1 /\ i \in Nat /\ wires.cs = 1 /\ wires.miso = OnMiso(slave)
      /\ wires.clk = Idle /\ HasTaken(i) /\ HasSeen(i) /\ spi_call.cpha \in BOOLEAN
      /\ slave.put = (IF spi_call.cpha THEN i ELSE i + 1)
  BY <1>0, <1>1, SpiFields, SpiAssumption DEF ExchangeInv, ByteUnderWay, BitPhases
<1>3. Order(i) \in 0..Bits - 1
  BY <1>2, Orders
<1>4. xfer.out[Order(i)] \in {0, 1}
  BY <1>3, SpiFields DEF ExchangeInv, Octets
<1>5. wires' = [clk |-> Idle, mosi |-> xfer.out[Order(i)], miso |-> OnMiso(slave), cs |-> 1]
  BY <1>0, <1>1, <1>2, SpiFields DEF ExchangeInv
<1>6. /\ xfer'.at = "lead" /\ xfer'.i = i /\ xfer'.tx = xfer.tx /\ xfer'.rx = xfer.rx
      /\ xfer'.done = xfer.done /\ xfer'.out = xfer.out /\ xfer'.in \in Octets
      /\ xfer' = [at |-> "lead", tx |-> xfer.tx, rx |-> xfer.rx, done |-> xfer.done, i |-> i,
                  out |-> xfer.out, in |-> xfer'.in]
      /\ \A k \in 0..(IF spi_call.cpha THEN i ELSE i + 1) - 1 :
           xfer'.in[Order(k)] = slave.gives[Order(k)]
  <2>1. CASE spi_call.cpha
    <3>1. xfer' = [xfer EXCEPT !.at = "lead"]
      BY <1>1, <2>1
    <3>2. xfer' = [at |-> "lead", tx |-> xfer.tx, rx |-> xfer.rx, done |-> xfer.done, i |-> i,
                   out |-> xfer.out, in |-> xfer.in]
      BY <1>0, <3>1 DEF ExchangeInv, SpiTypes
    <3> QED
      BY <1>2, <2>1, <3>2, SpiFields DEF ExchangeInv, HasSeen
  <2>2. CASE ~spi_call.cpha
    <3> DEFINE in == [xfer.in EXCEPT ![Order(xfer.i)] = wires.miso]
    <3>1. xfer' = [[xfer EXCEPT !.in = in] EXCEPT !.at = "lead"]
      BY <1>1, <2>2 DEF Sampled
    <3>2. in \in Octets /\ \A k \in 0..(i + 1) - 1 : in[Order(k)] = slave.gives[Order(k)]
      BY <1>0, <1>2, <2>2, SeesOneMore DEF ExchangeInv
    <3> HIDE DEF in
    <3>3. xfer' = [at |-> "lead", tx |-> xfer.tx, rx |-> xfer.rx, done |-> xfer.done, i |-> i,
                   out |-> xfer.out, in |-> in]
      BY <1>0, <3>1 DEF ExchangeInv, SpiTypes
    <3> QED
      BY <2>2, <3>2, <3>3
  <2> QED
    BY <1>2, <2>1, <2>2
<1>7. SpiTypes'
  <2>1. xfer' \in [at : SpiPhases, tx : Nat \X Nat, rx : Nat \X Nat, done : Nat, i : 0..Bits,
                   out : Octets, in : Octets]
    BY <1>6 DEF ExchangeInv, SpiTypes, SpiPhases
  <2>2. wires' \in [clk : {0, 1}, mosi : {0, 1}, miso : {0, 1}, cs : {0, 1}]
    BY <1>0, <1>1, <1>4 DEF ExchangeInv, SpiTypes
  <2> QED
    BY <1>1, <2>1, <2>2 DEF ExchangeInv, SpiTypes
<1>8. ByteUnderWay'
  <2>1. HasTaken(i)'
    BY <1>1, <1>2, <1>6 DEF HasTaken, Order
  <2>2. (spi_call.cpha => HasSeen(i)') /\ (~spi_call.cpha => HasSeen(i + 1)')
    BY <1>1, <1>6 DEF HasSeen, Order
  <2>3. OnMiso(slave)' = OnMiso(slave) /\ Idle' = Idle /\ spi_call' = spi_call
        /\ (xfer.out[Order(i)])' = xfer.out[Order(i)]
    BY <1>1, <1>6 DEF OnMiso, Idle, Order
  <2>4. /\ wires'.cs = 1 /\ wires'.clk = Idle /\ wires'.miso = OnMiso(slave)
        /\ wires'.mosi = xfer.out[Order(i)]
    BY <1>5
  <2>5. xfer'.i < Bits /\ slave'.put = (IF spi_call.cpha THEN i ELSE i + 1)
    BY <1>1, <1>2, <1>6, SpiAssumption
  <2>6. xfer'.at = "lead" /\ xfer'.i = i
    BY <1>6
  <2>7. CASE spi_call.cpha
    BY <2>1, <2>2, <2>3, <2>4, <2>5, <2>6, <2>7 DEF ByteUnderWay
  <2>8. CASE ~spi_call.cpha
    BY <2>1, <2>2, <2>3, <2>4, <2>5, <2>6, <2>8 DEF ByteUnderWay
  <2> QED
    BY <2>7, <2>8
<1>9. ByteOver'
  BY <1>6 DEF ByteOver
<1>10. ListsWalked'
  BY <1>1, <1>6, ListsKept DEF ExchangeInv
<1> QED
  BY <1>7, <1>8, <1>9, <1>10 DEF ExchangeInv

\* The slave puts a bit more on its line, or takes one more from the driver's.
LEMMA EdgeMoves ==
  ASSUME SpiTypes, NEW clk \in {0, 1}, Clock(clk), UNCHANGED <<spi_init, spi_call>>,
         wires.cs = 1, clk # wires.clk, NEW i \in 0..Bits - 1, xfer.i = i,
         NEW n \in {i, i + 1}, HasTaken(n), ~((clk = Active) <=> spi_call.cpha) => n = i,
         xfer'.out = xfer.out, wires.mosi = xfer.out[Order(xfer.i)]
  PROVE  /\ wires' \in [clk : {0, 1}, mosi : {0, 1}, miso : {0, 1}, cs : {0, 1}]
         /\ slave' \in [gives : Octets, put : Nat, taken : Seq({0, 1})]
         /\ wires'.clk = clk /\ wires'.mosi = wires.mosi /\ wires'.cs = 1
         /\ wires'.miso = OnMiso(slave)' /\ slave'.gives = slave.gives
         /\ ((clk = Active) <=> spi_call.cpha) => slave'.put = slave.put + 1 /\ HasTaken(n)'
         /\ ~((clk = Active) <=> spi_call.cpha) => slave'.put = slave.put /\ HasTaken(i + 1)'
<1>1. /\ wires' = [clk |-> clk, mosi |-> wires.mosi, miso |-> OnMiso(slave'), cs |-> wires.cs]
      /\ ((clk = Active) <=> spi_call.cpha) => slave' = PutsOut(slave)
      /\ ~((clk = Active) <=> spi_call.cpha) => slave' = Takes(slave)
  BY ClockMoves
<1>2. slave \in [gives : Octets, put : Nat, taken : Seq({0, 1})]
  BY DEF SpiTypes
<1>3. ASSUME (clk = Active) <=> spi_call.cpha
      PROVE  /\ slave' \in [gives : Octets, put : Nat, taken : Seq({0, 1})]
             /\ slave'.gives = slave.gives /\ slave'.put = slave.put + 1 /\ HasTaken(n)'
  <2>1. slave' = [slave EXCEPT !.put = slave.put + 1]
    BY <1>1, <1>3 DEF PutsOut
  <2>2. slave' = [gives |-> slave.gives, put |-> slave.put + 1, taken |-> slave.taken]
    BY <1>2, <2>1, SlaveExcept, SMT
  <2>3. slave.gives \in Octets /\ slave.put + 1 \in Nat /\ slave.taken \in Seq({0, 1})
    BY SpiFields
  <2>4. HasTaken(n)'
    BY <2>2 DEF HasTaken, Order
  <2> QED
    BY <2>2, <2>3, <2>4
<1>4. ASSUME ~((clk = Active) <=> spi_call.cpha)
      PROVE  /\ slave' \in [gives : Octets, put : Nat, taken : Seq({0, 1})]
             /\ slave'.gives = slave.gives /\ slave'.put = slave.put /\ HasTaken(i + 1)'
  <2> DEFINE s == Takes(slave)
  <2>0. HasTaken(i)
    BY <1>4
  <2>1. slave' = s
    BY <1>1, <1>4
  <2>2. /\ s = [gives |-> slave.gives, put |-> slave.put, taken |-> s.taken]
        /\ s.taken \in Seq({0, 1}) /\ Len(s.taken) = i + 1
        /\ \A k \in 1..i + 1 : s.taken[k] = xfer.out[Order(k - 1)]
    BY <2>0, TakesOneMore
  <2> HIDE DEF s
  <2>3. slave.gives \in Octets /\ slave.put \in Nat
    BY SpiFields
  <2>4. HasTaken(i + 1)'
    BY <2>1, <2>2 DEF HasTaken, Order
  <2>5. s.gives = slave.gives /\ s.put = slave.put
    BY <2>2
  <2>6. s \in [gives : Octets, put : Nat, taken : Seq({0, 1})]
    BY <2>2, <2>3
  <2> QED
    BY <2>1, <2>4, <2>5, <2>6
<1>5. slave' \in [gives : Octets, put : Nat, taken : Seq({0, 1})] /\ slave'.gives = slave.gives
  BY <1>3, <1>4
<1>6. OnMiso(slave') \in {0, 1} /\ OnMiso(slave') = OnMiso(slave)'
  <2>1. slave'.gives \in Octets /\ slave'.put \in Nat
    BY <1>5
  <2> QED
    BY <2>1, OnMisoType DEF OnMiso, Order
<1>7. wires' \in [clk : {0, 1}, mosi : {0, 1}, miso : {0, 1}, cs : {0, 1}]
  BY <1>1, <1>6, SpiFields
<1> QED
  BY <1>1, <1>3, <1>4, <1>5, <1>6, <1>7

\* The leading edge: the slave takes the bit (CPHA 0) or puts its own out (CPHA 1).
LEMMA LeadingEdgeKeeps == ASSUME ExchangeInv, LeadingEdge PROVE ExchangeInv'
<1>0. PICK i \in 0..Bits : xfer.i = i
  BY SpiFields DEF ExchangeInv
<1>1. /\ xfer.at = "lead" /\ Clock(Active) /\ UNCHANGED <<spi_init, spi_call>>
      /\ xfer' = [xfer EXCEPT !.at = IF spi_call.cpha THEN "sample" ELSE "trail"]
  BY DEF LeadingEdge
<1>2. /\ i \in 0..Bits - 1 /\ i \in Nat /\ i < Bits /\ wires.cs = 1 /\ wires.clk = Idle
      /\ HasTaken(i) /\ wires.mosi = xfer.out[Order(xfer.i)] /\ spi_call.cpha \in BOOLEAN
      /\ slave.put = (IF spi_call.cpha THEN i ELSE i + 1)
      /\ HasSeen(IF spi_call.cpha THEN i ELSE i + 1)
  BY <1>0, <1>1, SpiFields, SpiAssumption DEF ExchangeInv, ByteUnderWay, BitPhases
<1> DEFINE at == IF spi_call.cpha THEN "sample" ELSE "trail"
<1>3. /\ xfer'.at = at /\ xfer'.i = i /\ xfer'.tx = xfer.tx /\ xfer'.rx = xfer.rx
      /\ xfer'.done = xfer.done /\ xfer'.out = xfer.out /\ xfer'.in = xfer.in
      /\ xfer' \in [at : SpiPhases, tx : Nat \X Nat, rx : Nat \X Nat, done : Nat, i : 0..Bits,
                   out : Octets, in : Octets]
  <2>1. at \in SpiPhases
    BY DEF SpiPhases
  <2> HIDE DEF at
  <2> QED
    BY <1>0, <1>1, <2>1 DEF ExchangeInv, SpiTypes, at
<1>4. Active \in {0, 1} /\ Active # wires.clk /\ ((Active = Active) <=> spi_call.cpha) = spi_call.cpha
  BY <1>2, ClockLevels DEF ExchangeInv
<1>5. /\ wires' \in [clk : {0, 1}, mosi : {0, 1}, miso : {0, 1}, cs : {0, 1}]
      /\ slave' \in [gives : Octets, put : Nat, taken : Seq({0, 1})]
      /\ wires'.clk = Active /\ wires'.mosi = wires.mosi /\ wires'.cs = 1
      /\ wires'.miso = OnMiso(slave)' /\ slave'.gives = slave.gives
      /\ spi_call.cpha => slave'.put = slave.put + 1 /\ HasTaken(i)'
      /\ ~spi_call.cpha => slave'.put = slave.put /\ HasTaken(i + 1)'
  BY <1>0, <1>1, <1>2, <1>3, <1>4, EdgeMoves DEF ExchangeInv
<1>6. SpiTypes'
  BY <1>1, <1>3, <1>5 DEF ExchangeInv, SpiTypes
<1>7. HasSeen(IF spi_call.cpha THEN i ELSE i + 1)'
  BY <1>1, <1>2, <1>3, <1>5 DEF HasSeen, Order
<1>8. Active' = Active /\ spi_call' = spi_call /\ wires'.mosi = (xfer.out[Order(i)])'
  BY <1>0, <1>1, <1>2, <1>3, <1>5 DEF Active, Order
<1>9. ByteUnderWay'
  <2>1. CASE spi_call.cpha
    BY <1>2, <1>3, <1>5, <1>7, <1>8, <2>1 DEF ByteUnderWay
  <2>2. CASE ~spi_call.cpha
    BY <1>2, <1>3, <1>5, <1>7, <1>8, <2>2 DEF ByteUnderWay
  <2> QED
    BY <2>1, <2>2
<1>10. ByteOver'
  BY <1>3 DEF ByteOver
<1>11. ListsWalked'
  BY <1>1, <1>3, ListsKept DEF ExchangeInv
<1> QED
  BY <1>6, <1>9, <1>10, <1>11 DEF ExchangeInv

\* In the modes of CPHA 1 the driver samples between the edges.
LEMMA SampleBitKeeps == ASSUME ExchangeInv, SampleBit PROVE ExchangeInv'
<1>0. PICK i \in 0..Bits : xfer.i = i
  BY SpiFields DEF ExchangeInv
<1>1. /\ xfer.at = "sample" /\ xfer' = [Sampled EXCEPT !.at = "trail"]
      /\ UNCHANGED <<spi_init, wires, spi_call, slave>>
  BY DEF SampleBit
<1>2. /\ i \in 0..Bits - 1 /\ i \in Nat /\ i < Bits /\ wires.cs = 1 /\ wires.clk = Active
      /\ wires.miso = OnMiso(slave) /\ HasTaken(i) /\ HasSeen(i)
      /\ wires.mosi = xfer.out[Order(i)] /\ spi_call.cpha /\ slave.put = i + 1
  BY <1>0, <1>1, SpiFields, SpiAssumption DEF ExchangeInv, ByteUnderWay, BitPhases
<1> DEFINE in == [xfer.in EXCEPT ![Order(xfer.i)] = wires.miso]
<1>3. xfer' = [[xfer EXCEPT !.in = in] EXCEPT !.at = "trail"]
  BY <1>1 DEF Sampled
<1>4. in \in Octets /\ \A k \in 0..(i + 1) - 1 : in[Order(k)] = slave.gives[Order(k)]
  BY <1>0, <1>2, SeesOneMore DEF ExchangeInv
<1> HIDE DEF in
<1>5. xfer' = [at |-> "trail", tx |-> xfer.tx, rx |-> xfer.rx, done |-> xfer.done, i |-> i,
               out |-> xfer.out, in |-> in]
  BY <1>0, <1>3 DEF ExchangeInv, SpiTypes
<1>6. SpiTypes'
  <2>1. xfer' \in [at : SpiPhases, tx : Nat \X Nat, rx : Nat \X Nat, done : Nat, i : 0..Bits,
                   out : Octets, in : Octets]
    BY <1>4, <1>5 DEF ExchangeInv, SpiTypes, SpiPhases
  <2> QED
    BY <1>1, <2>1 DEF ExchangeInv, SpiTypes
<1>7. HasTaken(i)' /\ HasSeen(i + 1)'
  BY <1>1, <1>2, <1>4, <1>5 DEF HasTaken, HasSeen, Order
<1>8. /\ OnMiso(slave)' = OnMiso(slave) /\ Active' = Active /\ spi_call' = spi_call
      /\ (xfer.out[Order(i)])' = xfer.out[Order(i)] /\ wires' = wires /\ slave' = slave
  BY <1>1, <1>5 DEF OnMiso, Active, Order
<1>9. ByteUnderWay'
  <2>1. xfer'.at = "trail" /\ xfer'.i = i
    BY <1>5
  <2> QED
    BY <1>2, <1>7, <1>8, <2>1 DEF ByteUnderWay
<1>10. ByteOver'
  BY <1>5 DEF ByteOver
<1>11. ListsWalked'
  BY <1>1, <1>5, ListsKept DEF ExchangeInv
<1> QED
  BY <1>6, <1>9, <1>10, <1>11 DEF ExchangeInv

\* The trailing edge: the slave puts its next bit out (CPHA 0) or takes the driver's (CPHA 1).
LEMMA TrailingEdgeKeeps == ASSUME ExchangeInv, TrailingEdge PROVE ExchangeInv'
<1>0. PICK i \in 0..Bits : xfer.i = i
  BY SpiFields DEF ExchangeInv
<1>1. /\ xfer.at = "trail" /\ Clock(Idle) /\ UNCHANGED <<spi_init, spi_call>>
      /\ xfer' = [xfer EXCEPT !.i = @ + 1, !.at = IF xfer.i + 1 = Bits THEN "store" ELSE "data"]
  BY DEF TrailingEdge
<1>2. /\ i \in 0..Bits - 1 /\ i \in Nat /\ i < Bits /\ wires.cs = 1 /\ wires.clk = Active
      /\ wires.mosi = xfer.out[Order(xfer.i)] /\ spi_call.cpha \in BOOLEAN
      /\ slave.put = i + 1 /\ HasSeen(i + 1)
      /\ HasTaken(IF spi_call.cpha THEN i ELSE i + 1)
  BY <1>0, <1>1, SpiFields, SpiAssumption DEF ExchangeInv, ByteUnderWay, BitPhases
<1>a. PICK n \in {i, i + 1} : n = IF spi_call.cpha THEN i ELSE i + 1
  OBVIOUS
<1>b. HasTaken(n) /\ (spi_call.cpha => n = i) /\ (~spi_call.cpha => n = i + 1)
  BY <1>2, <1>a
<1> DEFINE at == IF i + 1 = Bits THEN "store" ELSE "data"
<1>3. /\ xfer'.at = at /\ xfer'.i = i + 1 /\ xfer'.tx = xfer.tx /\ xfer'.rx = xfer.rx
      /\ xfer'.done = xfer.done /\ xfer'.out = xfer.out /\ xfer'.in = xfer.in
      /\ xfer' \in [at : SpiPhases, tx : Nat \X Nat, rx : Nat \X Nat, done : Nat, i : 0..Bits,
                   out : Octets, in : Octets]
  <2>0. at \in SpiPhases
    BY DEF SpiPhases
  <2>1. i + 1 \in 0..Bits
    <3> HIDE DEF at
    <3> QED
      BY <1>2, SpiAssumption
  <2>2. xfer' = [xfer EXCEPT !.i = i + 1, !.at = at]
    BY <1>0, <1>1
  <2>3. xfer' = [at |-> at, tx |-> xfer.tx, rx |-> xfer.rx, done |-> xfer.done, i |-> i + 1,
                 out |-> xfer.out, in |-> xfer.in]
    <3> HIDE DEF at
    <3> QED
      BY <2>2 DEF ExchangeInv, SpiTypes
  <2> HIDE DEF at
  <2>4. xfer.tx \in Nat \X Nat /\ xfer.rx \in Nat \X Nat /\ xfer.done \in Nat
        /\ xfer.out \in Octets /\ xfer.in \in Octets
    BY DEF ExchangeInv, SpiTypes
  <2> QED
    BY <2>0, <2>1, <2>3, <2>4
<1>4. Idle \in {0, 1} /\ Idle # wires.clk /\ Idle # Active
  BY <1>2, ClockLevels DEF ExchangeInv
<1>5. /\ wires' \in [clk : {0, 1}, mosi : {0, 1}, miso : {0, 1}, cs : {0, 1}]
      /\ slave' \in [gives : Octets, put : Nat, taken : Seq({0, 1})]
      /\ wires'.clk = Idle /\ wires'.mosi = wires.mosi /\ wires'.cs = 1
      /\ wires'.miso = OnMiso(slave)' /\ slave'.gives = slave.gives
      /\ ~spi_call.cpha => slave'.put = slave.put + 1 /\ HasTaken(i + 1)'
      /\ spi_call.cpha => slave'.put = slave.put /\ HasTaken(i + 1)'
  <2>1. ~((Idle = Active) <=> spi_call.cpha) <=> spi_call.cpha
    BY <1>2, <1>4
  <2>2. ~((Idle = Active) <=> spi_call.cpha) => n = i
    BY <1>b, <2>1
  <2>3. xfer'.out = xfer.out /\ wires.mosi = xfer.out[Order(xfer.i)] /\ wires.cs = 1
    BY <1>2, <1>3
  <2>4. /\ wires' \in [clk : {0, 1}, mosi : {0, 1}, miso : {0, 1}, cs : {0, 1}]
        /\ slave' \in [gives : Octets, put : Nat, taken : Seq({0, 1})]
        /\ wires'.clk = Idle /\ wires'.mosi = wires.mosi /\ wires'.cs = 1
        /\ wires'.miso = OnMiso(slave)' /\ slave'.gives = slave.gives
        /\ ((Idle = Active) <=> spi_call.cpha) => slave'.put = slave.put + 1 /\ HasTaken(n)'
        /\ ~((Idle = Active) <=> spi_call.cpha) => slave'.put = slave.put /\ HasTaken(i + 1)'
    BY <1>0, <1>1, <1>2, <1>4, <1>b, <2>2, <2>3, EdgeMoves DEF ExchangeInv
  <2>5. n = i + 1 => HasTaken(n)' = HasTaken(i + 1)'
    BY DEF HasTaken
  <2> QED
    BY <1>b, <2>1, <2>4, <2>5
<1>6. SpiTypes'
  BY <1>1, <1>3, <1>5 DEF ExchangeInv, SpiTypes
<1>7. HasSeen(i + 1)' /\ HasTaken(i + 1)'
  <2>1. HasSeen(i + 1)'
    BY <1>1, <1>2, <1>3, <1>5 DEF HasSeen, Order
  <2>3. HasTaken(i + 1)'
    BY <1>2, <1>5
  <2> QED
    BY <2>1, <2>3
<1>8. Idle' = Idle /\ spi_call' = spi_call
  BY <1>1 DEF Idle
<1>9. slave'.put = (IF spi_call.cpha THEN i + 1 ELSE (i + 1) + 1)
  BY <1>2, <1>5
<1>10. CASE i + 1 = Bits
  <2>1. xfer'.at = "store"
    BY <1>3, <1>10
  <2>2. ByteUnderWay' /\ ByteOver'
    BY <1>5, <1>7, <1>8, <1>10, <2>1 DEF ByteUnderWay, ByteOver, BitPhases
  <2>3. ListsWalked'
    BY <1>1, <1>3, <2>1, ListsKept DEF ExchangeInv
  <2> QED
    BY <1>6, <2>2, <2>3 DEF ExchangeInv
<1>11. CASE i + 1 # Bits
  <2>1. xfer'.at = "data" /\ xfer'.i = i + 1 /\ i + 1 < Bits
    BY <1>2, <1>3, <1>11, SpiAssumption
  <2>2. ByteUnderWay'
    <3>1. CASE spi_call.cpha
      BY <1>5, <1>7, <1>8, <1>9, <2>1, <3>1 DEF ByteUnderWay
    <3>2. CASE ~spi_call.cpha
      BY <1>5, <1>7, <1>8, <1>9, <2>1, <3>2 DEF ByteUnderWay
    <3> QED
      BY <3>1, <3>2
  <2>3. ByteOver'
    BY <2>1 DEF ByteOver
  <2>4. ListsWalked'
    BY <1>1, <1>3, <2>1, ListsKept DEF ExchangeInv
  <2> QED
    BY <1>6, <2>2, <2>3, <2>4 DEF ExchangeInv
<1> QED
  BY <1>10, <1>11

\* A list goes on by a place, if it has one left, while the other may be exhausted.
LEMMA WalkStep ==
  ASSUME NEW list \in Seq(Buffers), NEW at, NEW done \in Nat, Stands(list, at),
         Rank(list, at) = (IF done < Cardinality(Places(list)) THEN done ELSE Cardinality(Places(list)))
  PROVE  LET next == NextPlace(list, at)
         IN  /\ Stands(list, next)
             /\ Rank(list, next) = (IF done + 1 < Cardinality(Places(list)) THEN done + 1
                                    ELSE Cardinality(Places(list)))
<1> DEFINE n == Cardinality(Places(list))
           next == NextPlace(list, at)
<1>1. n \in Nat /\ Rank(list, at) \in Nat
  BY PlacesFinite, PassedFinite
<1>2. /\ Left(list, at) => Rank(list, at) < n
      /\ ~Left(list, at) => Rank(list, at) = n
  BY WalkLeft
<1>3. /\ Stands(list, next)
      /\ Left(list, at) => Rank(list, next) = Rank(list, at) + 1
      /\ ~Left(list, at) => next = at
  BY WalkGoesOn
<1> HIDE DEF n, next
<1>4. Rank(list, at) = IF done < n THEN done ELSE n
  BY DEF n
<1>5. Rank(list, next) = IF done + 1 < n THEN done + 1 ELSE n
  <2>1. CASE Left(list, at)
    BY <1>1, <1>2, <1>3, <1>4, <2>1
  <2>2. CASE ~Left(list, at)
    BY <1>1, <1>2, <1>3, <1>4, <2>2
  <2> QED
    BY <2>1, <2>2
<1> QED
  BY <1>3, <1>5 DEF n, next

\* A byte is stored, and both lists go on.
LEMMA StoreByteKeeps == ASSUME ExchangeInv, StoreByte PROVE ExchangeInv'
<1>1. /\ xfer.at = "store" /\ slave' = [slave EXCEPT !.put = 0, !.taken = <<>>]
      /\ xfer' = [xfer EXCEPT !.at = "byte", !.done = @ + 1,
                              !.tx = NextPlace(spi_call.tx, @), !.rx = NextPlace(spi_call.rx, @)]
      /\ UNCHANGED <<spi_init, wires, spi_call>>
  BY DEF StoreByte
<1>2. wires.cs = 1 /\ wires.clk = Idle
  BY <1>1 DEF ExchangeInv, ByteOver
<1> DEFINE tx == NextPlace(spi_call.tx, xfer.tx)
           rx == NextPlace(spi_call.rx, xfer.rx)
<1>3. /\ xfer'.at = "byte" /\ xfer'.done = xfer.done + 1 /\ xfer'.tx = tx /\ xfer'.rx = rx
      /\ xfer' = [at |-> "byte", tx |-> tx, rx |-> rx, done |-> xfer.done + 1, i |-> xfer.i,
                  out |-> xfer.out, in |-> xfer.in]
  BY <1>1 DEF ExchangeInv, SpiTypes
<1> HIDE DEF tx, rx
<1>4. slave' = [gives |-> slave.gives, put |-> 0, taken |-> <<>>]
  <2>1. slave \in [gives : Octets, put : Nat, taken : Seq({0, 1})]
    BY DEF ExchangeInv, SpiTypes
  <2> QED
    BY <1>1, <2>1, SlaveExceptTwo
<1>5. Walks(spi_call.tx, xfer.tx)' /\ Walks(spi_call.rx, xfer.rx)'
  <2>1. spi_call.tx \in Seq(Buffers) /\ spi_call.rx \in Seq(Buffers) /\ xfer.done \in Nat
    BY CallLists, SpiFields DEF ExchangeInv
  <2>2. /\ Stands(spi_call.tx, tx)
        /\ Rank(spi_call.tx, tx) = (IF xfer.done + 1 < Cardinality(Places(spi_call.tx))
                                    THEN xfer.done + 1 ELSE Cardinality(Places(spi_call.tx)))
    BY <2>1, WalkStep DEF tx, ExchangeInv, ListsWalked, Walks
  <2>3. /\ Stands(spi_call.rx, rx)
        /\ Rank(spi_call.rx, rx) = (IF xfer.done + 1 < Cardinality(Places(spi_call.rx))
                                    THEN xfer.done + 1 ELSE Cardinality(Places(spi_call.rx)))
    BY <2>1, WalkStep DEF rx, ExchangeInv, ListsWalked, Walks
  <2> QED
    BY <1>1, <1>3, <2>2, <2>3 DEF Walks
<1>6. SpiTypes'
  <2>1. tx \in Nat \X Nat /\ rx \in Nat \X Nat
    BY <1>1, <1>3, <1>5 DEF Walks, Stands
  <2>2. xfer.i \in 0..Bits /\ xfer.out \in Octets /\ xfer.in \in Octets /\ xfer.done + 1 \in Nat
    BY SpiFields DEF ExchangeInv
  <2>3. xfer' \in [at : SpiPhases, tx : Nat \X Nat, rx : Nat \X Nat, done : Nat, i : 0..Bits,
                   out : Octets, in : Octets]
    BY <1>3, <2>1, <2>2 DEF SpiPhases
  <2>4. slave' \in [gives : Octets, put : Nat, taken : Seq({0, 1})]
    <3>1. slave.gives \in Octets /\ <<>> \in Seq({0, 1})
      BY SpiFields DEF ExchangeInv
    <3> QED
      BY <1>4, <3>1
  <2> QED
    BY <1>1, <2>3, <2>4 DEF ExchangeInv, SpiTypes
<1>7. ByteUnderWay' /\ ByteOver'
  <2>1. slave'.put = 0 /\ slave'.taken = <<>> /\ wires'.cs = 1 /\ wires'.clk = Idle'
    BY <1>1, <1>2, <1>4 DEF Idle
  <2> QED
    BY <1>3, <2>1 DEF ByteUnderWay, ByteOver, BitPhases
<1>8. ListsWalked'
  BY <1>3, <1>5 DEF ListsWalked
<1> QED
  BY <1>6, <1>7, <1>8 DEF ExchangeInv

\* Before the first call the bus rests and the lists are empty.
LEMMA ExchangeInvInit == SpiInit => ExchangeInv
<1> SUFFICES ASSUME SpiInit PROVE ExchangeInv
  OBVIOUS
<1>1. Zero \in Octets /\ Bits \in Nat
  BY SpiAssumption DEF Zero, Octets
<1>2. <<>> \in Seq(Buffers) /\ <<>> \in Seq({0, 1}) /\ Len(<<>>) = 0
  OBVIOUS
<1>3. SpiTypes
  <2>1. /\ spi_init \in {"not yet", "ready", "failed"}
        /\ wires \in [clk : {0, 1}, mosi : {0, 1}, miso : {0, 1}, cs : {0, 1}]
    BY DEF SpiInit
  <2>2. spi_call \in [cpol : {0, 1}, cpha : BOOLEAN, lsb_first : BOOLEAN,
                      tx : TxLists \cup {<<>>}, rx : RxLists \cup {<<>>}]
    BY DEF SpiInit
  <2>3. xfer \in [at : SpiPhases, tx : Nat \X Nat, rx : Nat \X Nat, done : Nat, i : 0..Bits,
                  out : Octets, in : Octets]
    <3>1. "idle" \in SpiPhases /\ <<1, 0>> \in Nat \X Nat /\ 0 \in 0..Bits
      BY <1>1 DEF SpiPhases
    <3> QED
      BY <1>1, <3>1 DEF SpiInit
  <2>4. slave \in [gives : Octets, put : Nat, taken : Seq({0, 1})]
    BY <1>1, <1>2 DEF SpiInit
  <2> QED
    BY <2>1, <2>2, <2>3, <2>4 DEF SpiTypes
<1>4. ByteUnderWay /\ ByteOver
  BY DEF SpiInit, ByteUnderWay, ByteOver, BitPhases
<1>5. ListsWalked
  <2> DEFINE none == <<>>
  <2>1. Stands(none, <<1, 0>>) /\ Rank(none, <<1, 0>>) = 0 /\ Cardinality(Places(none)) \in Nat
    BY <1>2, WalkBegins, PlacesFinite
  <2>2. ~Left(none, <<1, 0>>)
    BY <1>2 DEF Left
  <2> HIDE DEF none
  <2>3. spi_call.tx = none /\ spi_call.rx = none /\ xfer.tx = <<1, 0>> /\ xfer.rx = <<1, 0>>
        /\ xfer.done = 0
    BY DEF SpiInit, none
  <2> QED
    BY <2>1, <2>2, <2>3 DEF ListsWalked, Walks
<1> QED
  BY <1>3, <1>4, <1>5 DEF ExchangeInv

\* Every step keeps the invariant.
LEMMA ExchangeInvNext == ExchangeInv /\ [SpiNext]_spiVars => ExchangeInv'
<1> SUFFICES ASSUME ExchangeInv, [SpiNext]_spiVars
             PROVE  ExchangeInv'
  OBVIOUS
<1>0. spi_init \in {"not yet", "ready", "failed"}
  BY DEF ExchangeInv, SpiTypes
<1>1. CASE spi_bitbang_irq_init
  BY <1>1, StillKeeps DEF spi_bitbang_irq_init
<1>2. ASSUME NEW c \in SpiCalls, Start(c)
      PROVE  ExchangeInv'
  BY <1>2, StartKeeps
<1>3. CASE IdleClock
  BY <1>3, IdleClockKeeps
<1>4. CASE Select
  BY <1>4, SelectKeeps
<1>5. CASE LoadByte
  BY <1>5, LoadByteKeeps
<1>6. CASE SetData
  BY <1>6, SetDataKeeps
<1>7. CASE LeadingEdge
  BY <1>7, LeadingEdgeKeeps
<1>8. CASE SampleBit
  BY <1>8, SampleBitKeeps
<1>9. CASE TrailingEdge
  BY <1>9, TrailingEdgeKeeps
<1>10. CASE StoreByte
  BY <1>10, StoreByteKeeps
<1>11. CASE Deselect
  BY <1>11, DeselectKeeps
<1>12. CASE UNCHANGED spiVars
  BY <1>0, <1>12, StillKeeps DEF spiVars
<1> QED
  BY <1>1, <1>2, <1>3, <1>4, <1>5, <1>6, <1>7, <1>8, <1>9, <1>10, <1>11, <1>12
     DEF SpiNext, BitStep

\* Bytes that agree in every bit are one.
LEMMA SameOctet ==
  ASSUME NEW f \in Octets, NEW g \in Octets, \A b \in 0..Bits - 1 : f[b] = g[b]
  PROVE  f = g
<1>1. f = [b \in 0..Bits - 1 |-> f[b]] /\ g = [b \in 0..Bits - 1 |-> g[b]]
  BY DEF Octets
<1>2. [b \in 0..Bits - 1 |-> f[b]] = [b \in 0..Bits - 1 |-> g[b]]
  OBVIOUS
<1> QED
  BY <1>1, <1>2

\* The property follows: after the last bit both bytes are whole.
LEMMA ExchangeInvMeans == ExchangeInv => Exchanged
<1> SUFFICES ASSUME ExchangeInv PROVE Exchanged
  OBVIOUS
<1>1. Bits \in Nat
  BY SpiAssumption
<1>2. SpiTypeOK
  <2>1. Len(slave.taken) <= Bits
    <3>1. CASE xfer.at \in BitPhases
      BY <1>1, <3>1, SpiFields DEF ExchangeInv, ByteUnderWay, HasTaken
    <3>2. CASE xfer.at = "store"
      BY <1>1, <3>2 DEF ExchangeInv, ByteOver, HasTaken
    <3>3. CASE xfer.at \in {"idle", "clock", "select", "byte"}
      <4>1. slave.taken = <<>>
        BY <3>3 DEF ExchangeInv, ByteOver
      <4> QED
        BY <1>1, <4>1
    <3> QED
      BY <3>1, <3>2, <3>3, SpiFields DEF ExchangeInv, SpiPhases, BitPhases
  <2> QED
    BY <2>1 DEF SpiTypeOK, ExchangeInv, SpiTypes
<1>3. BytesExchanged
  <2>1. ASSUME xfer.at = "store"
        PROVE  xfer.in = slave.gives /\ slave.taken = [k \in 1..Bits |-> xfer.out[Order(k - 1)]]
    <3>1. HasTaken(Bits) /\ HasSeen(Bits)
      BY <2>1 DEF ExchangeInv, ByteOver
    <3>2. xfer.in \in Octets /\ slave.gives \in Octets /\ slave.taken \in Seq({0, 1})
      BY SpiFields DEF ExchangeInv
    <3>3. ASSUME NEW b \in 0..Bits - 1
          PROVE  xfer.in[b] = slave.gives[b]
      <4>1. Order(b) \in 0..Bits - 1 /\ Order(Order(b)) = b
        BY Orders
      <4> QED
        BY <3>1, <4>1 DEF HasSeen
    <3>4. xfer.in = slave.gives
      BY <3>2, <3>3, SameOctet
    <3>5. slave.taken = [k \in 1..Bits |-> xfer.out[Order(k - 1)]]
      <4> DEFINE s == slave.taken
      <4>1. s = [k \in 1..Bits |-> s[k]]
        <5>1. Len(s) = Bits /\ s \in Seq({0, 1})
          BY <3>1, <3>2 DEF HasTaken
        <5> HIDE DEF s
        <5> QED
          BY <5>1
      <4>2. \A k \in 1..Bits : s[k] = xfer.out[Order(k - 1)]
        BY <3>1 DEF HasTaken
      <4> HIDE DEF s
      <4> QED
        BY <4>1, <4>2 DEF s
    <3> QED
      BY <3>4, <3>5
  <2> QED
    BY <2>1 DEF BytesExchanged, ExchangeInv, ByteOver
<1>4. BuffersWalked
  BY DEF BuffersWalked, ExchangeInv, ListsWalked, Walks, ByteOver
<1> QED
  BY <1>2, <1>3, <1>4 DEF Exchanged

\* Every call of spi_bitbang_irq_transceive(), with bytes of any width, lists of any length and
\* in any mode after any other, exchanges every byte of both lists with the slave.
THEOREM EveryByteIsExchanged == SpiSpec => []Exchanged
<1>1. SpiInit => ExchangeInv
  BY ExchangeInvInit
<1>2. ExchangeInv /\ [SpiNext]_spiVars => ExchangeInv'
  BY ExchangeInvNext
<1>3. ExchangeInv => Exchanged
  BY ExchangeInvMeans
<1> QED
  BY <1>1, <1>2, <1>3, PTL DEF SpiSpec
=============================================================================
