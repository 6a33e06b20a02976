-------------------------------- MODULE Panel ---------------------------------
(***************************************************************************)
(* The display driver (drivers/hx8353e/display_hx8353e.c) and the keypad   *)
(* scan (drivers/kbd_matrix_shared_bus), which borrows the display's data  *)
(* lines as the rows of its matrix.  Both run on the LVGL thread, one call *)
(* after the other; any transfer, pin or PWM operation may fail.           *)
(***************************************************************************)
EXTENDS Integers, Sequences

CONSTANTS
  Rows,      \* rows 1..Rows of the matrix, data lines of the display
  Cols,      \* its columns, pins of its own
  Edges,     \* where a window may begin and end, on either axis
  Full,      \* the backlight's highest level, 0 is dark
  Scrambled  \* what a register has that nobody set

ASSUME PanelAssumption ==
  /\ Rows \in Nat \ {0} /\ Cols \in Nat \ {0} /\ Full \in Nat \ {0}
  /\ Scrambled \notin Edges \cup BOOLEAN

VARIABLES
  chip,      \* the panel's registers; gram: whether its memory was cleared
  panel,      \* the driver's struct hx8353e_data
  panel_ready,     \* what became of hx8353e_init()
  pulse,     \* the backlight's PWM
  inputs,    \* the rows left configured as inputs
  driven,    \* the columns left driven
  scan,      \* how the last scan of the keypad ended
  torn,      \* a window was sent only in part since the cached one
  garbled    \* a command was ever sent over lines that were inputs

pins == <<inputs, driven, scan>>
panelVars == <<chip, panel, panel_ready, pulse, pins, torn, garbled>>

Windows == [col : Edges, row : Edges]
Orientations == {"normal", "rotated"}
PanelRegisters   == {"orientation", "inverted", "col", "row", "on", "gram"}
Garbage     == [r \in PanelRegisters |-> Scrambled]

PanelInit ==
  /\ chip = [Garbage EXCEPT !["on"] = FALSE]
  /\ panel = [orientation |-> "rotated", inverted |-> FALSE, blanking |-> FALSE,
             last_window_valid |-> FALSE, last |-> [col |-> Scrambled, row |-> Scrambled],
             brightness |-> Full]
  /\ panel_ready = "not yet" /\ pulse = 0
  /\ inputs = {} /\ driven = {} /\ scan = "none"
  /\ torn = FALSE /\ garbled = FALSE

-----------------------------------------------------------------------------
(* Commands.  Each sets a register; a call sends several and returns at the *)
(* first that fails.                                                        *)

Command(register, value) == [register |-> register, value |-> value]

\* The registers after the first n commands, no two of which set the same.
After(commands, n) ==
  [r \in PanelRegisters |->
     IF \E i \in 1..n : commands[i].register = r
     THEN commands[CHOOSE i \in 1..n : commands[i].register = r].value
     ELSE chip[r]]

\* n of them were accepted.  Lines that are inputs carry something else, unnoticed;
\* what the panel is set to from then on is left open.
Send(commands, n) ==
  /\ n \in 0..Len(commands)
  /\ garbled' = (garbled \/ (inputs # {} /\ n > 0))
  /\ chip' = IF garbled' THEN Garbage ELSE After(commands, n)

\* pwm_set_pulse_dt().
SetPulse(level) == pulse' \in {level, pulse}

-----------------------------------------------------------------------------
(* The driver's calls.                                                      *)

InitCommands ==
  <<Command("orientation", panel.orientation), Command("inverted", panel.inverted),
    Command("gram", TRUE), Command("on", TRUE)>>

\* Without an error the clearing left the last line as the window.
hx8353e_init ==
  \E n \in 0..Len(InitCommands), pwm \in BOOLEAN :
    /\ panel_ready = "not yet"
    /\ Send(InitCommands, n)
    /\ panel_ready' = IF n = Len(InitCommands) /\ pwm THEN "yes" ELSE "failed"
    /\ pulse' = IF panel_ready' = "yes" THEN Full ELSE 0
    /\ UNCHANGED <<panel, pins, torn>>

Invert(inverted) == <<Command("inverted", inverted)>>

hx8353e_set_inverted(inverted) ==
  \E n \in 0..1 :
    /\ panel_ready = "yes" /\ Send(Invert(inverted), n)
    /\ panel' = IF n = 1 THEN [panel EXCEPT !.inverted = inverted] ELSE panel
    /\ UNCHANGED <<panel_ready, pulse, pins, torn>>

hx8353e_set_orientation(orientation) ==
  \E n \in 0..1 :
    /\ panel_ready = "yes" /\ Send(<<Command("orientation", orientation)>>, n)
    /\ panel' = IF n = 1
               THEN [panel EXCEPT !.orientation = orientation, !.last_window_valid = FALSE]
               ELSE panel
    /\ torn' = (torn /\ panel'.last_window_valid)
    /\ UNCHANGED <<panel_ready, pulse, pins>>

\* The backlight goes first.
hx8353e_blanking_on ==
  /\ panel_ready = "yes"
  /\ SetPulse(0)
  /\ \E n \in 0..1 :
       /\ pulse' # 0 => n = 0
       /\ Send(<<Command("on", FALSE)>>, n)
  /\ IF pulse' = 0
     THEN /\ panel' = [panel EXCEPT !.blanking = TRUE, !.last_window_valid = FALSE]
          /\ torn' = FALSE
     ELSE UNCHANGED <<panel, torn>>
  /\ UNCHANGED <<panel_ready, pins>>

Unblank == <<Command("on", TRUE), Command("inverted", panel.inverted)>>

\* Mutant: the backlight comes back whatever became of the commands.
hx8353e_blanking_off_LitFirst ==
  \E n \in 0..2 :
    /\ panel_ready = "yes" /\ Send(Unblank, n)
    /\ panel' = [panel EXCEPT !.blanking = FALSE, !.last_window_valid = FALSE]
    /\ torn' = FALSE
    /\ SetPulse(panel.brightness)
    /\ UNCHANGED <<panel_ready, pins>>

hx8353e_blanking_off ==
  \E n \in 0..2 :
    /\ panel_ready = "yes" /\ Send(Unblank, n)
    /\ panel' = [panel EXCEPT !.blanking = FALSE, !.last_window_valid = FALSE]
    /\ torn' = FALSE
    /\ IF n = 2 THEN SetPulse(panel.brightness) ELSE UNCHANGED pulse
    /\ UNCHANGED <<panel_ready, pins>>

\* From the fade timer; the firmware never fades a blanked display.
hx8353e_set_brightness(level) ==
  /\ panel_ready = "yes" /\ ~panel.blanking /\ chip["on"] = TRUE
  /\ panel' = [panel EXCEPT !.brightness = level]
  /\ SetPulse(level)
  /\ UNCHANGED <<chip, panel_ready, pins, torn, garbled>>

Window(w) == <<Command("col", w.col), Command("row", w.row)>>
Cached(w) == [panel EXCEPT !.last_window_valid = TRUE, !.last = w]

\* Mutant: the window is remembered before it is sent.
hx8353e_write_CachesFirst(w) ==
  /\ panel_ready = "yes" /\ ~panel.blanking
  /\ IF panel.last_window_valid /\ panel.last = w THEN Send(<<>>, 0) /\ UNCHANGED <<panel, torn>>
     ELSE \E n \in 0..2 : Send(Window(w), n) /\ panel' = Cached(w) /\ torn' = (n = 1)
  /\ UNCHANGED <<panel_ready, pulse, pins>>

\* The window is sent unless it is the one sent last; then the pixels, here not shown.
hx8353e_write(w) ==
  /\ panel_ready = "yes" /\ ~panel.blanking
  /\ IF panel.last_window_valid /\ panel.last = w THEN Send(<<>>, 0) /\ UNCHANGED <<panel, torn>>
     ELSE \E n \in 0..2 :
            /\ Send(Window(w), n)
            /\ panel' = IF n = 2 THEN Cached(w) ELSE panel
            /\ torn' = IF n = 2 THEN FALSE ELSE torn \/ (n = 1)
  /\ UNCHANGED <<panel_ready, pulse, pins>>

-----------------------------------------------------------------------------
(* kbd_matrix_shared_bus_scan().  The rows it got through when a pin fails  *)
(* keep their new direction, and so does a column that was not released.    *)

\* A column is read exactly if no other is driven: those before it were released.
Exact(left) == \A c \in 1..Cols : \A other \in left : other <= c

ScanEnds(rows, columns, how) ==
  /\ inputs' = rows /\ driven' = columns /\ scan' = how
  /\ UNCHANGED <<chip, panel, panel_ready, pulse, torn, garbled>>

ForceLowFails == \E r \in 1..Rows :
  ScanEnds({i \in inputs : i >= r}, driven, "failed")

InputFails == \E r \in 1..Rows :
  ScanEnds({i \in 1..Rows : i < r}, driven, "failed")

\* The columns before c were driven and released.
DriveFails == \E c \in 1..Cols :
  ScanEnds(1..Rows, {i \in driven : i >= c}, "failed")

ReleaseFails == \E c \in 1..Cols :
  ScanEnds(1..Rows, {i \in driven : i > c} \cup {c}, "failed")

HandBackFails == \E r \in 1..Rows :
  ScanEnds({i \in 1..Rows : i >= r}, {}, "failed")

\* Mutant: the last row is not handed back.
Scanned_KeepsRow == ScanEnds({Rows}, {}, IF Exact(driven) THEN "exact" ELSE "ghosts")

Scanned == ScanEnds({}, {}, IF Exact(driven) THEN "exact" ELSE "ghosts")

KeypadScan == ForceLowFails \/ InputFails \/ DriveFails \/ ReleaseFails \/ HandBackFails \/ Scanned

PanelNext ==
  \/ hx8353e_init
  \/ \E inverted \in BOOLEAN : hx8353e_set_inverted(inverted)
  \/ \E orientation \in Orientations : hx8353e_set_orientation(orientation)
  \/ hx8353e_blanking_on \/ hx8353e_blanking_off
  \/ \E level \in 0..Full : hx8353e_set_brightness(level)
  \/ \E w \in Windows : hx8353e_write(w)
  \/ panel_ready = "yes" /\ KeypadScan

PanelSpec == PanelInit /\ [][PanelNext]_panelVars

-----------------------------------------------------------------------------
PanelTypeOK ==
  /\ DOMAIN chip = PanelRegisters
  /\ panel.last_window_valid => panel.last \in Windows
  /\ panel.brightness \in 0..Full /\ pulse \in 0..Full
  /\ inputs \subseteq 1..Rows /\ driven \subseteq 1..Cols
  /\ panel_ready \in {"not yet", "yes", "failed"}
  /\ scan \in {"none", "failed", "exact", "ghosts"}

\* What the driver takes the panel's registers to be they are, whichever of its
\* commands failed, unless one half of a window was sent or a scan left lines as inputs.
CacheIsPanel ==
  panel_ready = "yes" /\ ~garbled =>
    /\ panel.inverted = chip["inverted"]
    /\ panel.orientation = chip["orientation"]
    /\ panel.last_window_valid /\ ~torn => panel.last = [col |-> chip["col"], row |-> chip["row"]]

\* The backlight never shines on a panel that is off, or whose memory is still as
\* it was at power-up.
LitIsOn == pulse > 0 /\ ~garbled => chip["on"] = TRUE /\ chip["gram"] = TRUE

\* A scan that reports no error has given the lines back and drives no column, whatever
\* the scans before it left: nothing is garbled until the next error, and one scan
\* after an error at most reports keys that are not pressed.
BusReturned == scan # "failed" => inputs = {} /\ driven = {}

\* The driver, the panel and the lines they share with the keypad agree, whichever transfer or
\* pin failed.
PanelAgrees == PanelTypeOK /\ CacheIsPanel /\ LitIsOn /\ BusReturned
=============================================================================
