------------------------------- MODULE AppShell --------------------------------
(***************************************************************************)
(* The shell of the user interface: app_input.c turns keys into actions,   *)
(* app.c queues and dispatches them over its frame stack, the quick menu   *)
(* and the levels of the Settings screen.  The same Up, Down and OK keys   *)
(* reach LVGL's keypad directly, which moves the focus and clicks rows in  *)
(* whatever group app.c has attached to it.                                *)
(*                                                                         *)
(* The LVGL thread repeats a pass (display.c): scan the keypad, drain the  *)
(* queue and attach a group, run LVGL's timers (key input among them),     *)
(* sleep.  A key event reaches its two listeners, one after the other,     *)
(* through the input thread, which has the same priority: between any two  *)
(* steps of a pass, and at the latest while it sleeps.  Time is counted in *)
(* passes.                                                                 *)
(***************************************************************************)
EXTENDS Integers, Sequences, FiniteSets

CONSTANTS
  Keys,        \* the keys in use; "DIGIT" stands for the digits and Star
  MaxHeld,     \* bound on keys held at the same time
  Detents,     \* bound on the encoder detents reported at once
  QueueLen,    \* UI_EVENT_QUEUE_LEN
  StackDepth,  \* UI_FRAME_STACK_DEPTH
  BootDwell,   \* BOOT_DWELL_MS in passes
  MenuDwell,   \* the quick menu's DISMISS_MS in passes
  LongPress    \* SK1_LONG_PRESS_MS in passes

AllKeys == {"BACK", "UP", "DOWN", "OK", "SK1", "SK2", "DIGIT"}
LvglKeys == {"UP", "DOWN", "OK"}      \* input-codes of the lvgl_keypad node
Actions == AllKeys \cup {"ENCODER", "SCAN_START"}
Roots == {"FM_VFO", "FM_CHANNEL"}
Frames == Roots \cup {"SETTINGS", "ZONES"}

ASSUME ShellAssumption ==
  /\ Keys \subseteq AllKeys
  /\ {MaxHeld, QueueLen, StackDepth, BootDwell, MenuDwell, LongPress} \subseteq Nat \ {0}
  /\ Detents \in Nat
  /\ StackDepth >= 2

VARIABLES
  down,              \* keys held, as of the last keypad scan
  changed,           \* the key reported by the last scan, as a set
  inbox,             \* the scanned key event the input thread has not handled
  held,              \* passes since the presses of Up and SK1
  s_sk2_held,
  ui_events,
  phase,             \* where the LVGL thread is in its pass
  s_frame_stack,     \* <<>> until the boot splash is gone
  visible,           \* frames without LV_OBJ_FLAG_HIDDEN
  boot,              \* passes to the end of the boot splash, Off when gone
  menu,              \* the quick menu is shown
  dismiss,           \* passes until its timer fires, Off while paused
  s_in_rows_level,
  s_attached_group,
  indev,             \* LVGL's keypad
  scan,              \* the screen whose scan is on, "NONE" if idle
  entry,             \* the roots with a digit entry in progress
  acted              \* history: app.c did something on the latest OK

inputVars == <<down, changed, inbox, held, s_sk2_held>>
frameVars == <<s_frame_stack, visible, boot>>
menuVars  == <<menu, dismiss>>
lvglVars  == <<s_attached_group, indev>>
rootVars  == <<scan, entry>>
vars == <<inputVars, ui_events, phase, frameVars, menuVars, s_in_rows_level,
          lvglVars, rootVars, acted>>

Off == -1
Event == [key : AllKeys, pressed : BOOLEAN]

Init ==
  /\ down = {} /\ changed = {} /\ inbox = <<>> /\ s_sk2_held = FALSE
  /\ held = [k \in {"UP", "SK1"} |-> 0]
  /\ ui_events = <<>>
  /\ phase = "scan"
  /\ s_frame_stack = <<>> /\ visible = {} /\ boot = BootDwell
  /\ menu = FALSE /\ dismiss = Off
  /\ s_in_rows_level = FALSE
  /\ s_attached_group = "none"
  /\ indev = [events |-> <<>>, last |-> [key |-> "OK", pressed |-> FALSE],
              key |-> "OK", pressed |-> FALSE, wait |-> FALSE]
  /\ scan = "NONE" /\ entry = {}
  /\ acted = FALSE

Top == s_frame_stack[Len(s_frame_stack)]
OnTop(id) == s_frame_stack # <<>> /\ Top = id
Root == s_frame_stack[1]

-----------------------------------------------------------------------------
(* The input thread: app_input.c and LVGL's listener.                       *)

\* Mutant: the queue takes one action too many.
Post_OneMore(actions) ==
  ui_events' = LET all == ui_events \o actions
               IN  IF Len(all) > QueueLen + 1 THEN SubSeq(all, 1, QueueLen + 1) ELSE all

\* app_post_action(), an action at a time: dropped if the queue is full.
Post(actions) ==
  ui_events' = LET all == ui_events \o actions
               IN  IF Len(all) > QueueLen THEN SubSeq(all, 1, QueueLen) ELSE all

\* The action a key event posts.  Long presses count at the release.
PostedBy(e) ==
  IF e.key = "SK1"
  THEN IF ~e.pressed /\ held["SK1"] = LongPress THEN <<"SK1">> ELSE <<>>
  ELSE IF e.pressed THEN <<e.key>>
  ELSE IF e.key = "UP" /\ ~s_sk2_held /\ held["UP"] = LongPress THEN <<"SCAN_START">>
  ELSE <<>>

handle_key_event(e) ==
  /\ Post(PostedBy(e))
  /\ s_sk2_held' = IF e.key = "SK2" THEN e.pressed ELSE s_sk2_held
  /\ held' = [k \in DOMAIN held |-> IF k = e.key THEN 0 ELSE held[k]]

lvgl_keypad_event(e) ==
  indev' = IF e.key \in LvglKeys THEN [indev EXCEPT !.events = Append(@, e)] ELSE indev

\* The input thread runs the callbacks of an event to their end.
Deliver ==
  /\ inbox # <<>>
  /\ inbox' = <<>>
  /\ handle_key_event(Head(inbox)) /\ lvgl_keypad_event(Head(inbox))
  /\ acted' = (acted /\ Head(inbox) # [key |-> "OK", pressed |-> TRUE])
  /\ UNCHANGED <<down, changed, phase, frameVars, menuVars, s_in_rows_level,
                 s_attached_group, rootVars>>

\* The encoder's interrupt-driven driver reports one or more detents.
Encoder ==
  /\ \E n \in 1..Detents : Post([i \in 1..n |-> "ENCODER"])
  /\ UNCHANGED <<inputVars, phase, frameVars, menuVars, s_in_rows_level, lvglVars,
                 rootVars, acted>>

-----------------------------------------------------------------------------
(* Frames and the quick menu.                                               *)

app_push_screen(id) ==
  IF Len(s_frame_stack) >= StackDepth THEN UNCHANGED frameVars
  ELSE /\ s_frame_stack' = Append(s_frame_stack, id)
       /\ visible' = (visible \ {Top}) \cup {id}
       /\ UNCHANGED boot

\* Mutant: the popped frame is not hidden.
app_pop_screen_StaysShown ==
  IF Len(s_frame_stack) <= 1 THEN UNCHANGED frameVars
  ELSE /\ s_frame_stack' = SubSeq(s_frame_stack, 1, Len(s_frame_stack) - 1)
       /\ visible' = visible \cup {s_frame_stack[Len(s_frame_stack) - 1]}
       /\ UNCHANGED boot

app_pop_screen ==
  IF Len(s_frame_stack) <= 1 THEN UNCHANGED frameVars
  ELSE /\ s_frame_stack' = SubSeq(s_frame_stack, 1, Len(s_frame_stack) - 1)
       /\ visible' = (visible \ {Top}) \cup {s_frame_stack[Len(s_frame_stack) - 1]}
       /\ UNCHANGED boot

app_switch_screen(id) ==
  /\ boot' = Off
  /\ s_frame_stack' = <<id>>
  /\ visible' = (IF s_frame_stack = <<>> THEN visible ELSE visible \ {Top}) \cup {id}

\* A FOCUSED event of a menu row resets the timer, running or not; only a
\* running one can tell.
DismissReset == IF dismiss = Off THEN Off ELSE MenuDwell

\* Mutant: the timer is reset and stays paused.
overlay_quickmenu_show_Paused == menu' = TRUE /\ dismiss' = DismissReset

overlay_quickmenu_show == menu' = TRUE /\ dismiss' = MenuDwell

\* The focus goes back to the row that had it.  The timer runs on.
overlay_quickmenu_hide ==
  /\ menu' = FALSE
  /\ dismiss' = IF menu THEN DismissReset ELSE dismiss

-----------------------------------------------------------------------------
(* app_tick().                                                              *)

\* "Any key interrupts" a scan: Up and a long press of it are swallowed, Down
\* reverses the scan, SK2 passes, everything else ends it.
scan_intercept_action(a) ==
  /\ scan # "NONE" /\ a # "SK2"
  /\ scan' = IF a \in {"UP", "SCAN_START", "DOWN"} THEN scan ELSE "NONE"
  /\ UNCHANGED <<frameVars, menuVars, s_in_rows_level, entry>>

\* Mutant: Back closes the menu and goes on to the frame below.
CloseMenu_AndFrame ==
  /\ menu
  /\ overlay_quickmenu_hide /\ app_pop_screen
  /\ UNCHANGED <<s_in_rows_level, rootVars>>

\* What one layer of the screen does with Back, topmost layer first.
CloseMenu ==
  /\ menu
  /\ overlay_quickmenu_hide
  /\ UNCHANGED <<frameVars, s_in_rows_level, rootVars>>

screen_settings_exit_rows_level ==
  /\ ~menu /\ OnTop("SETTINGS") /\ s_in_rows_level
  /\ s_in_rows_level' = FALSE
  /\ UNCHANGED <<frameVars, menuVars, rootVars>>

EntryOnTop == s_frame_stack # <<>> /\ Top \in entry

CancelEntry ==
  /\ ~menu /\ EntryOnTop
  /\ entry' = entry \ {Top}
  /\ UNCHANGED <<frameVars, menuVars, s_in_rows_level, scan>>

\* Mutant: the root toggles with an entry in progress.
ToggleRoot_InEntry ==
  /\ ~menu /\ Len(s_frame_stack) = 1
  /\ app_switch_screen(IF Root = "FM_VFO" THEN "FM_CHANNEL" ELSE "FM_VFO")
  /\ UNCHANGED <<menuVars, s_in_rows_level, rootVars>>

ToggleRoot ==
  /\ ~menu /\ Len(s_frame_stack) = 1 /\ ~EntryOnTop
  /\ app_switch_screen(IF Root = "FM_VFO" THEN "FM_CHANNEL" ELSE "FM_VFO")
  /\ UNCHANGED <<menuVars, s_in_rows_level, rootVars>>

LeaveFrame ==
  /\ ~menu /\ Len(s_frame_stack) # 1
  /\ ~(OnTop("SETTINGS") /\ s_in_rows_level)
  /\ app_pop_screen
  /\ UNCHANGED <<menuVars, s_in_rows_level, rootVars>>

Back == CloseMenu \/ screen_settings_exit_rows_level \/ CancelEntry \/ ToggleRoot \/ LeaveFrame

\* A digit starts, continues or completes an entry, or is refused.
EntryDigit ==
  /\ \E active \in BOOLEAN : entry' = IF active THEN entry \cup {Top} ELSE entry \ {Top}
  /\ UNCHANGED <<frameVars, scan>>

OpenSettings == app_push_screen("SETTINGS") /\ UNCHANGED rootVars

StartScan(target) == scan' = target /\ UNCHANGED <<frameVars, entry>>

Ignored == UNCHANGED <<frameVars, rootVars>>

fm_vfo_handle_action(a) ==
  CASE a = "OK" -> OpenSettings
    [] a = "DIGIT" -> EntryDigit
    [] a = "SCAN_START" -> StartScan("FM_VFO")
    [] OTHER -> Ignored

fm_channel_handle_action(a) ==
  CASE a = "OK" /\ EntryOnTop -> entry' = entry \ {Top} /\ UNCHANGED <<frameVars, scan>>
    [] a = "OK" /\ ~EntryOnTop -> OpenSettings
    [] a = "DIGIT" -> EntryDigit
    [] a = "SCAN_START" -> StartScan("FM_CHANNEL")
    [] OTHER -> Ignored

zones_handle_action(a) ==
  IF a = "OK" THEN app_pop_screen /\ UNCHANGED rootVars ELSE Ignored

\* Mutant: forwarded below an open menu as well.
ForwardsTo_BelowMenu(id) == OnTop(id)

\* The frame an action is forwarded to: LVGL has the keys while the menu is up.
ForwardsTo(id) == ~menu /\ OnTop(id)

Forward(a) ==
  /\ CASE ForwardsTo("FM_VFO") -> fm_vfo_handle_action(a)
       [] ForwardsTo("FM_CHANNEL") -> fm_channel_handle_action(a)
       [] ForwardsTo("ZONES") -> zones_handle_action(a)
       [] OTHER -> Ignored
  /\ UNCHANGED <<menuVars, s_in_rows_level>>

\* SK2 opens the Zones from Channel mode, a scan or not.
OpenZones ==
  /\ IF OnTop("FM_CHANNEL") THEN app_push_screen("ZONES") ELSE UNCHANGED frameVars
  /\ UNCHANGED <<menuVars, s_in_rows_level, rootVars>>

ShowMenu == overlay_quickmenu_show /\ UNCHANGED <<frameVars, s_in_rows_level, rootVars>>

dispatch_action(a) ==
  \/ scan_intercept_action(a)
  \/ /\ scan = "NONE" \/ a = "SK2"
     /\ CASE a = "BACK" -> Back
          [] a = "SK1" -> ShowMenu
          [] a = "SK2" -> OpenZones
          [] OTHER -> Forward(a)

Drain ==
  /\ phase = "tick" /\ ui_events # <<>>
  /\ ui_events' = Tail(ui_events)
  /\ dispatch_action(Head(ui_events))
  /\ acted' = IF Head(ui_events) = "OK" THEN <<frameVars, rootVars>>' # <<frameVars, rootVars>>
              ELSE acted
  /\ UNCHANGED <<inputVars, phase, lvglVars>>

\* The group the keypad belongs to now.
TargetGroup ==
  IF menu THEN "menu"
  ELSE IF OnTop("SETTINGS") THEN IF s_in_rows_level THEN "rows" ELSE "tabs"
  ELSE "none"

\* Mutant: a group is only ever replaced, not detached.
update_indev_group_attachment_NoDetach ==
  IF TargetGroup = s_attached_group \/ TargetGroup = "none" THEN UNCHANGED lvglVars
  ELSE s_attached_group' = TargetGroup /\ indev' = [indev EXCEPT !.wait = TRUE]

\* Mutant: no wait for the release of the key that brought the group up.
update_indev_group_attachment_NoWait ==
  s_attached_group' = TargetGroup /\ UNCHANGED indev

update_indev_group_attachment ==
  IF TargetGroup = s_attached_group THEN UNCHANGED lvglVars
  ELSE /\ s_attached_group' = TargetGroup
       /\ indev' = [indev EXCEPT !.wait = @ \/ TargetGroup # "none"]

EndTick ==
  /\ phase = "tick" /\ ui_events = <<>>
  /\ phase' = "lvgl"
  /\ update_indev_group_attachment
  /\ UNCHANGED <<inputVars, ui_events, frameVars, menuVars, s_in_rows_level, rootVars,
                 acted>>

-----------------------------------------------------------------------------
(* lv_timer_handler(): its timers in any order, the key input once a pass.  *)

boot_timer_cb ==
  /\ phase \in {"lvgl", "sleep"} /\ boot = 0
  /\ app_switch_screen("FM_VFO")
  /\ UNCHANGED <<inputVars, ui_events, phase, menuVars, s_in_rows_level, lvglVars,
                 rootVars, acted>>

dismiss_cb ==
  /\ phase \in {"lvgl", "sleep"} /\ dismiss = 0
  /\ menu' = FALSE /\ dismiss' = Off
  /\ UNCHANGED <<inputVars, ui_events, phase, frameVars, s_in_rows_level, lvglVars,
                 rootVars, acted>>

\* The next event, or the last one again if there is none.
NextEvent == IF indev.events = <<>> THEN indev.last ELSE Head(indev.events)

\* indev_keypad_proc(): a press is swallowed while LVGL waits for a release;
\* the release ends the wait and is no click.  Without a group nothing is seen.
Skipped(e) == indev.wait /\ e.pressed
WasPressed == indev.pressed /\ ~indev.wait
Seen(e)    == ~Skipped(e) /\ s_attached_group # "none"

AfterRead(e) ==
  LET unwaited == IF Skipped(e) THEN indev
                  ELSE [indev EXCEPT !.wait = FALSE, !.pressed = WasPressed]
      seen == IF Seen(e) THEN [unwaited EXCEPT !.key = e.key, !.pressed = e.pressed]
              ELSE unwaited
  IN  [seen EXCEPT !.last = e,
                   !.events = IF @ = <<>> THEN <<>> ELSE Tail(@)]

Clicks(e) == Seen(e) /\ ~e.pressed /\ WasPressed /\ indev.key = "OK"

\* Up and Down move the focus, once more for each repetition while held.
MovesFocus(e) == Seen(e) /\ e.pressed /\ e.key # "OK"

\* row_cb() of the menu: a click closes it and stops the timer.
MenuRowCb(e) ==
  \/ /\ s_attached_group = "menu" /\ Clicks(e)
     /\ menu' = FALSE /\ dismiss' = Off
  \/ /\ s_attached_group = "menu" /\ MovesFocus(e)
     /\ dismiss' = DismissReset /\ UNCHANGED menu
  \/ /\ s_attached_group = "menu" => ~Clicks(e) /\ (MovesFocus(e) => WasPressed)
     /\ UNCHANGED menuVars

KeyInput ==
  /\ phase = "lvgl"
  /\ phase' = IF Len(indev.events) <= 1 THEN "sleep" ELSE "lvgl"
  /\ indev' = AfterRead(NextEvent)
  /\ MenuRowCb(NextEvent)
  \* tab_button_cb() enters the rows of the tab
  /\ s_in_rows_level' = (s_in_rows_level \/ (s_attached_group = "tabs" /\ Clicks(NextEvent)))
  /\ UNCHANGED <<inputVars, ui_events, frameVars, s_attached_group, rootVars, acted>>

-----------------------------------------------------------------------------
(* The loop of lvgl_thread().                                               *)

\* kbd_matrix_shared_bus_scan(): a debounced key takes two scans to change, and
\* at most one key does so in a scan.
KeyChange(k) ==
  /\ k \notin changed
  /\ changed' = {k}
  /\ k \in down \/ Cardinality(down) < MaxHeld
  /\ down' = IF k \in down THEN down \ {k} ELSE down \cup {k}
  /\ inbox' = <<[key |-> k, pressed |-> k \notin down]>>

Scan ==
  /\ phase = "scan" /\ phase' = "tick"
  /\ \/ UNCHANGED <<down, inbox>> /\ changed' = {}
     \/ \E k \in Keys : KeyChange(k)
  /\ UNCHANGED <<held, s_sk2_held, ui_events, frameVars, menuVars, s_in_rows_level,
                 lvglVars, rootVars, acted>>

\* k_msleep(50): the input thread gets through what was scanned, timers age.
Sleep ==
  /\ phase = "sleep" /\ phase' = "scan"
  /\ inbox = <<>> /\ boot # 0 /\ dismiss # 0
  /\ boot' = IF boot = Off THEN Off ELSE boot - 1
  /\ dismiss' = IF dismiss = Off THEN Off ELSE dismiss - 1
  /\ held' = [k \in DOMAIN held |-> IF k \in down /\ held[k] < LongPress
                                    THEN held[k] + 1 ELSE held[k]]
  /\ UNCHANGED <<down, changed, inbox, s_sk2_held, ui_events, s_frame_stack, visible, menu,
                 s_in_rows_level, lvglVars, rootVars, acted>>

Pass == Scan \/ Drain \/ EndTick \/ boot_timer_cb \/ dismiss_cb \/ KeyInput \/ Sleep

Next == Pass \/ Deliver \/ Encoder

\* The loop goes round, LVGL's timers fire and the input thread runs.
Fairness == WF_vars(Pass) /\ WF_vars(Deliver)

Spec == Init /\ [][Next]_vars /\ Fairness

-----------------------------------------------------------------------------
(* Properties.                                                              *)

TypeOK ==
  /\ down \subseteq Keys /\ changed \subseteq Keys
  /\ inbox \in Seq(Event) /\ Len(inbox) <= 1
  /\ held \in [{"UP", "SK1"} -> 0..LongPress]
  /\ s_sk2_held \in BOOLEAN
  /\ ui_events \in Seq(Actions) /\ Len(ui_events) <= QueueLen
  /\ phase \in {"scan", "tick", "lvgl", "sleep"}
  /\ s_frame_stack \in Seq(Frames) /\ Len(s_frame_stack) <= StackDepth
  /\ visible \subseteq Frames
  /\ boot \in Off..BootDwell
  /\ menu \in BOOLEAN /\ dismiss \in Off..MenuDwell
  /\ s_in_rows_level \in BOOLEAN
  /\ s_attached_group \in {"none", "menu", "tabs", "rows"}
  /\ indev \in [events : Seq(Event), last : Event, key : LvglKeys,
                pressed : BOOLEAN, wait : BOOLEAN]
  /\ scan \in {"NONE"} \cup Roots
  /\ entry \subseteq Roots
  /\ acted \in BOOLEAN

\* Exactly the topmost frame is shown, no frame is on the Back stack twice, and
\* at its bottom is one of the two operating screens; nothing has left its type, the
\* queue and the stack their lengths.
OnlyTopShown ==
  /\ TypeOK
  /\ boot # Off <=> s_frame_stack = <<>>
  /\ visible = IF s_frame_stack = <<>> THEN {} ELSE {Top}
  /\ s_frame_stack # <<>> => Root \in Roots
  /\ \A i, j \in DOMAIN s_frame_stack : s_frame_stack[i] = s_frame_stack[j] => i = j

\* A scan started by a key runs on, or under the Zones of, the screen that ticks
\* it, and never below the quick menu: its keys are the ones the operator sees.
ScanUnderItsScreen ==
  scan # "NONE" =>
    /\ s_frame_stack # <<>> /\ Root = scan
    /\ Top \in {scan, "ZONES"}
    /\ ~menu

\* A digit entry belongs to the operating screen at the root: one that is in
\* progress is never left behind on the other screen.
EntryOnItsRoot == entry # {} => s_frame_stack # <<>> /\ entry = {Root}

\* The Settings screen reopens at its tabs: its rows level never outlives it,
\* whichever LVGL click was still on its way when it was left.
RowsOnlyInSettings == s_in_rows_level => OnTop("SETTINGS")

\* The comment in update_indev_group_attachment(): the OK press that opened a
\* screen must not also click on it.  LVGL never clicks for an OK press that
\* app.c has acted on, whatever order its two listeners got it in.
OneEffect == phase = "lvgl" /\ Clicks(NextEvent) => ~acted

\* One key at a time, and none of those LVGL moves the focus with.
OneKey == Cardinality(down) <= 1 /\ down \cap LvglKeys \subseteq {"OK"}

\* The comment is right for an operator who leaves the keys LVGL moves the focus
\* with alone and presses one key at a time, also when the queue drops an event.
OneKeyOneEffect == []OneKey => []OneEffect

\* The layers Back can close, over the operating screen or the boot splash at the bottom.
Layers == (IF s_frame_stack = <<>> THEN 1 ELSE Len(s_frame_stack)) + Cardinality(entry)
          + (IF menu THEN 1 ELSE 0) + (IF s_in_rows_level THEN 1 ELSE 0)
          + (IF scan # "NONE" THEN 1 ELSE 0)

\* Each Back the shell handles closes exactly one layer, be it the quick menu over the
\* splash.  On a bare root it swaps the roots, and on a bare splash it does nothing.
BackClosesOne ==
  [][ Drain /\ Head(ui_events) = "BACK" =>
        IF Layers > 1 THEN Layers' = Layers - 1
        ELSE Layers' = Layers /\ (s_frame_stack # <<>> => Root' # Root) ]_vars

\* With all keys released the quick menu goes away, as long as the loop goes round.
MenuCloses == <>[](down = {}) /\ []<>(phase = "sleep") => <>[]~menu
=============================================================================
