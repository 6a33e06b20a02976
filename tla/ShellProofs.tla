------------------------------ MODULE ShellProofs ------------------------------
(***************************************************************************)
(* Proofs about AppShell, for every set of keys, length of the queue,      *)
(* depth of the stack and of the timers: frames, scans, digit entries and  *)
(* the rows of Settings fit together.                                      *)
(***************************************************************************)
EXTENDS AppShell, FiniteSetTheorems, SequenceTheorems, TLAPS

-----------------------------------------------------------------------------
(* The stacks there are: Settings is opened over either operating screen,   *)
(* the Zones over Channel mode only, and nothing over those.                *)

Stacks == {<<>>} \cup {<<r>> : r \in Roots} \cup {<<r, "SETTINGS">> : r \in Roots}
          \cup {<<"FM_CHANNEL", "ZONES">>}

Above == {"SETTINGS", "ZONES"}

\* The three shapes of a stack.
LEMMA StackShapes ==
  ASSUME s_frame_stack \in Stacks
  PROVE  \/ s_frame_stack = <<>> /\ Len(s_frame_stack) = 0
         \/ \E r \in Roots : s_frame_stack = <<r>> /\ Len(s_frame_stack) = 1 /\ Root = r /\ Top = r
         \/ \E r \in Roots, f \in Above :
              /\ s_frame_stack = <<r, f>> /\ Len(s_frame_stack) = 2 /\ Root = r /\ Top = f
              /\ f = "ZONES" => r = "FM_CHANNEL"
<1>1. CASE s_frame_stack = <<>>
  BY <1>1
<1>2. ASSUME NEW r \in Roots, s_frame_stack = <<r>>
      PROVE  Len(s_frame_stack) = 1 /\ Root = r /\ Top = r
  BY <1>2 DEF Root, Top
<1>3. ASSUME NEW r \in Roots, NEW f \in Above, s_frame_stack = <<r, f>>
      PROVE  Len(s_frame_stack) = 2 /\ Root = r /\ Top = f
  BY <1>3 DEF Root, Top
<1>4. ASSUME NEW r \in Roots, s_frame_stack = <<r, "SETTINGS">>
      PROVE  \E f \in Above : s_frame_stack = <<r, f>> /\ (f = "ZONES" => r = "FM_CHANNEL")
  BY <1>4 DEF Above
<1>5. CASE s_frame_stack = <<"FM_CHANNEL", "ZONES">>
  <2>1. "FM_CHANNEL" \in Roots /\ "ZONES" \in Above
    BY DEF Roots, Above
  <2> QED
    BY <1>3, <1>5, <2>1
<1> QED
  BY <1>1, <1>2, <1>3, <1>4, <1>5 DEF Stacks

\* What the properties and the types need to know of a stack.
LEMMA StackFacts ==
  ASSUME s_frame_stack \in Stacks
  PROVE  /\ s_frame_stack \in Seq(Frames) /\ Len(s_frame_stack) <= 2
         /\ s_frame_stack # <<>> => Root \in Roots /\ Top \in Frames
         /\ \A i, j \in DOMAIN s_frame_stack : s_frame_stack[i] = s_frame_stack[j] => i = j
<1>1. CASE s_frame_stack = <<>>
  BY <1>1
<1>2. ASSUME NEW r \in Roots, s_frame_stack = <<r>>, Root = r, Top = r
      PROVE  /\ s_frame_stack \in Seq(Frames) /\ Len(s_frame_stack) <= 2
             /\ Root \in Roots /\ Top \in Frames
             /\ \A i, j \in DOMAIN s_frame_stack : s_frame_stack[i] = s_frame_stack[j] => i = j
  BY <1>2 DEF Frames
<1>3. ASSUME NEW r \in Roots, NEW f \in Above, s_frame_stack = <<r, f>>, Root = r, Top = f
      PROVE  /\ s_frame_stack \in Seq(Frames) /\ Len(s_frame_stack) <= 2
             /\ Root \in Roots /\ Top \in Frames
             /\ \A i, j \in DOMAIN s_frame_stack : s_frame_stack[i] = s_frame_stack[j] => i = j
  <2>1. r \in Frames /\ f \in Frames /\ r # f
    BY DEF Frames, Roots, Above
  <2> QED
    BY <1>3, <2>1
<1> QED
  BY <1>1, <1>2, <1>3, StackShapes

\* What every push and pop of the shell comes to.
LEMMA PushIsPair ==
  ASSUME NEW r \in Frames, NEW f \in Frames
  PROVE  Append(<<r>>, f) = <<r, f>>
<1>1. <<r>> \in Seq(Frames) /\ Len(<<r>>) = 1 /\ <<r, f>> \in Seq(Frames) /\ Len(<<r, f>>) = 2
  OBVIOUS
<1>2. /\ Append(<<r>>, f) \in Seq(Frames) /\ Len(Append(<<r>>, f)) = 2
      /\ Append(<<r>>, f)[1] = r /\ Append(<<r>>, f)[2] = f
  BY <1>1, AppendProperties
<1>3. \A i \in 1..Len(Append(<<r>>, f)) : Append(<<r>>, f)[i] = <<r, f>>[i]
  BY <1>2
<1> QED
  BY <1>1, <1>2, <1>3, SeqEqual

\* Taking the top of two frames leaves the root.
LEMMA PopIsRoot ==
  ASSUME NEW r \in Frames, NEW f \in Frames
  PROVE  SubSeq(<<r, f>>, 1, Len(<<r, f>>) - 1) = <<r>>
<1> DEFINE sub == SubSeq(<<r, f>>, 1, 1)
<1>1. <<r>> \in Seq(Frames) /\ Len(<<r>>) = 1 /\ Len(<<r, f>>) = 2
  OBVIOUS
<1>2. \A i \in 1..1 : <<r, f>>[i] \in Frames
  OBVIOUS
<1>3. sub \in Seq(Frames) /\ Len(sub) = 1 /\ sub[1] = r
  BY <1>2, SubSeqProperties
<1>4. \A i \in 1..Len(sub) : sub[i] = <<r>>[i]
  BY <1>3
<1>5. sub = <<r>>
  BY <1>1, <1>3, <1>4, SeqEqual
<1> QED
  BY <1>1, <1>5

-----------------------------------------------------------------------------
(* The inductive invariant.                                                 *)

ShownFrames ==
  /\ s_frame_stack \in Stacks
  /\ boot # Off <=> s_frame_stack = <<>>
  /\ visible = IF s_frame_stack = <<>> THEN {} ELSE {Top}

Screens == ShownFrames /\ ScanUnderItsScreen /\ EntryOnItsRoot /\ RowsOnlyInSettings

\* LVGL clicks on the tabs of Settings only under Settings: what app.c attached in its tick stays
\* on the screen for the rest of the pass.
TabsShown == phase = "lvgl" /\ s_attached_group = "tabs" => OnTop("SETTINGS")

\* The stack over one root, after a push, a pop or a switch.
OneFrame(r) == s_frame_stack = <<r>> /\ visible = {r}
TwoFrames(r, f) == s_frame_stack = <<r, f>> /\ visible = {f}

\* A root alone is a stack the shell shows.
LEMMA OneFrameShown ==
  ASSUME NEW r \in Roots, OneFrame(r)', boot' = Off
  PROVE  ShownFrames' /\ s_frame_stack' # <<>> /\ Root' = r /\ Top' = r
<1>1. s_frame_stack' # <<>> /\ Root' = r /\ Top' = r
  BY DEF OneFrame, Root, Top
<1>2. s_frame_stack' \in Stacks
  BY DEF OneFrame, Stacks
<1> QED
  BY <1>1, <1>2 DEF OneFrame, ShownFrames

\* So is a frame over its root.
LEMMA TwoFramesShown ==
  ASSUME NEW r \in Roots, NEW f \in Above, f = "ZONES" => r = "FM_CHANNEL",
         TwoFrames(r, f)', boot' = Off
  PROVE  ShownFrames' /\ s_frame_stack' # <<>> /\ Root' = r /\ Top' = f
<1>1. s_frame_stack' # <<>> /\ Root' = r /\ Top' = f
  BY DEF TwoFrames, Root, Top
<1>2. s_frame_stack' \in Stacks
  BY DEF TwoFrames, Stacks, Above
<1> QED
  BY <1>1, <1>2 DEF TwoFrames, ShownFrames

\* A push over a root adds a frame, whatever the depth the firmware is built with.
LEMMA PushStep ==
  ASSUME ShownFrames, NEW r \in Roots, s_frame_stack = <<r>>, Top = r,
         NEW f \in Above, app_push_screen(f)
  PROVE  TwoFrames(r, f)' /\ boot' = boot
<1>1. ~(Len(s_frame_stack) >= StackDepth)
  BY ShellAssumption
<1>2. s_frame_stack' = Append(<<r>>, f) /\ visible' = (visible \ {r}) \cup {f} /\ boot' = boot
  BY <1>1 DEF app_push_screen
<1>3. r \in Frames /\ f \in Frames
  BY DEF Frames, Above
<1>4. visible = {r}
  BY DEF ShownFrames
<1> QED
  BY <1>2, <1>3, <1>4, PushIsPair DEF TwoFrames

\* app_pop_screen() goes back to the root.
LEMMA PopStep ==
  ASSUME ShownFrames, NEW r \in Roots, NEW f \in Above, s_frame_stack = <<r, f>>, Top = f,
         app_pop_screen
  PROVE  OneFrame(r)' /\ boot' = boot
<1>1. ~(Len(s_frame_stack) <= 1)
  OBVIOUS
<1>2. /\ s_frame_stack' = SubSeq(<<r, f>>, 1, Len(<<r, f>>) - 1)
      /\ visible' = (visible \ {f}) \cup {s_frame_stack[Len(s_frame_stack) - 1]}
      /\ boot' = boot
  BY <1>1 DEF app_pop_screen
<1>3. r \in Frames /\ f \in Frames
  BY DEF Frames, Above
<1>4. visible = {f} /\ s_frame_stack[Len(s_frame_stack) - 1] = r
  BY DEF ShownFrames
<1> QED
  BY <1>2, <1>3, <1>4, PopIsRoot DEF OneFrame

\* app_switch_screen() leaves the new root alone.
LEMMA SwitchStep ==
  ASSUME ShownFrames, s_frame_stack = <<>> \/ (s_frame_stack = <<Top>>),
         NEW id \in Roots, app_switch_screen(id)
  PROVE  OneFrame(id)' /\ boot' = Off
  BY DEF ShownFrames, app_switch_screen, OneFrame

\* The properties on a stack the step leaves alone follow from those on the rest.
LEMMA SameFrames ==
  ASSUME Screens, UNCHANGED <<s_frame_stack, visible>>, boot' # Off <=> boot # Off
  PROVE  /\ ShownFrames' /\ Root' = Root /\ Top' = Top
         /\ \A id \in Frames : OnTop(id)' <=> OnTop(id)
  BY DEF Screens, ShownFrames, Root, Top, OnTop

-----------------------------------------------------------------------------
(* The actions app_tick() dispatches, one lemma per handler.                *)

ScreenTypes ==
  /\ boot \in Off..BootDwell
  /\ menu \in BOOLEAN /\ dismiss \in Off..MenuDwell
  /\ s_in_rows_level \in BOOLEAN
  /\ scan \in {"NONE"} \cup Roots
  /\ entry \subseteq Roots

Fits == Screens /\ ScreenTypes

\* The dwell times are times.
LEMMA DismissTypes == DismissReset \in Off..MenuDwell /\ MenuDwell \in Off..MenuDwell
  BY ShellAssumption DEF DismissReset, Off

\* A key a running scan takes keeps the frames fitting (scan_intercept_action).
LEMMA InterceptFits ==
  ASSUME Fits, NEW a, scan_intercept_action(a)
  PROVE  Fits'
<1>1. /\ UNCHANGED <<s_frame_stack, visible, boot, menu, dismiss, s_in_rows_level, entry>>
      /\ scan' \in {scan, "NONE"}
  BY DEF scan_intercept_action, frameVars, menuVars
<1>2. ShownFrames' /\ Root' = Root /\ Top' = Top /\ \A id \in Frames : OnTop(id)' <=> OnTop(id)
  BY <1>1, SameFrames DEF Fits
<1>3. ScanUnderItsScreen' /\ EntryOnItsRoot'
  BY <1>1, <1>2 DEF Fits, Screens, ScanUnderItsScreen, EntryOnItsRoot
<1>4. RowsOnlyInSettings'
  BY <1>1, <1>2 DEF Fits, Screens, RowsOnlyInSettings, Frames
<1>5. ScreenTypes'
  BY <1>1 DEF Fits, ScreenTypes
<1> QED
  BY <1>2, <1>3, <1>4, <1>5 DEF Fits, Screens

\* Back without a scan, a layer at a time; the menu goes first.
LEMMA CloseMenuFits ==
  ASSUME Fits, CloseMenu
  PROVE  Fits'
<1>1. /\ UNCHANGED <<s_frame_stack, visible, boot, s_in_rows_level, entry, scan>>
      /\ menu' = FALSE /\ dismiss' \in {dismiss, DismissReset}
  BY DEF CloseMenu, overlay_quickmenu_hide, frameVars, rootVars
<1>2. ShownFrames' /\ Root' = Root /\ Top' = Top /\ \A id \in Frames : OnTop(id)' <=> OnTop(id)
  BY <1>1, SameFrames DEF Fits
<1>3. ScanUnderItsScreen' /\ EntryOnItsRoot'
  BY <1>1, <1>2 DEF Fits, Screens, ScanUnderItsScreen, EntryOnItsRoot
<1>4. RowsOnlyInSettings'
  BY <1>1, <1>2 DEF Fits, Screens, RowsOnlyInSettings, Frames
<1>5. ScreenTypes'
  BY <1>1, DismissTypes DEF Fits, ScreenTypes
<1> QED
  BY <1>2, <1>3, <1>4, <1>5 DEF Fits, Screens

\* Leaving the rows of the settings keeps them fitting.
LEMMA ExitRowsFits ==
  ASSUME Fits, screen_settings_exit_rows_level
  PROVE  Fits'
<1>1. /\ UNCHANGED <<s_frame_stack, visible, boot, menu, dismiss, entry, scan>>
      /\ s_in_rows_level' = FALSE
  BY DEF screen_settings_exit_rows_level, frameVars, rootVars, menuVars
<1>2. ShownFrames' /\ Root' = Root /\ Top' = Top /\ \A id \in Frames : OnTop(id)' <=> OnTop(id)
  BY <1>1, SameFrames DEF Fits
<1>3. ScanUnderItsScreen' /\ EntryOnItsRoot'
  BY <1>1, <1>2 DEF Fits, Screens, ScanUnderItsScreen, EntryOnItsRoot
<1>4. RowsOnlyInSettings' /\ ScreenTypes'
  BY <1>1 DEF Fits, RowsOnlyInSettings, ScreenTypes
<1> QED
  BY <1>2, <1>3, <1>4 DEF Fits, Screens

\* Whatever a digit, an OK or a Back does to the entry of the operating screen on top.
LEMMA EntryFits ==
  ASSUME Fits, s_frame_stack # <<>>, Top \in Roots, entry' \in {entry \cup {Top}, entry \ {Top}},
         UNCHANGED <<frameVars, menuVars, s_in_rows_level, scan>>
  PROVE  Fits'
<1>1. UNCHANGED <<s_frame_stack, visible, boot, menu, dismiss, s_in_rows_level, scan>>
  BY DEF frameVars, menuVars
<1>2. ShownFrames' /\ Root' = Root /\ Top' = Top /\ \A id \in Frames : OnTop(id)' <=> OnTop(id)
  BY <1>1, SameFrames DEF Fits
<1>3. Root = Top
  <2>1. s_frame_stack \in Stacks
    BY DEF Fits, Screens, ShownFrames
  <2>2. ASSUME NEW r \in Roots, NEW f \in Above, Top = f PROVE FALSE
    BY <2>2 DEF Roots, Above
  <2> QED
    BY <2>1, <2>2, StackShapes
<1>4. ScanUnderItsScreen' /\ EntryOnItsRoot'
  BY <1>1, <1>2, <1>3 DEF Fits, Screens, ScanUnderItsScreen, EntryOnItsRoot
<1>5. RowsOnlyInSettings'
  BY <1>1, <1>2 DEF Fits, Screens, RowsOnlyInSettings, Frames
<1>6. ScreenTypes'
  BY <1>1 DEF Fits, ScreenTypes
<1> QED
  BY <1>2, <1>4, <1>5, <1>6 DEF Fits, Screens

\* So does cancelling a digit entry.
LEMMA CancelEntryFits ==
  ASSUME Fits, CancelEntry
  PROVE  Fits'
<1>1. s_frame_stack # <<>> /\ Top \in Roots
  BY DEF CancelEntry, EntryOnTop, Fits, ScreenTypes
<1>2. entry' = entry \ {Top} /\ UNCHANGED <<frameVars, menuVars, s_in_rows_level, scan>>
  BY DEF CancelEntry
<1> QED
  BY <1>1, <1>2, EntryFits

\* A stack of one root without an entry is replaced by the other root.
LEMMA ToggleRootFits ==
  ASSUME Fits, scan = "NONE", ToggleRoot
  PROVE  Fits'
<1>0. s_frame_stack \in Stacks /\ ShownFrames
  BY DEF Fits, Screens, ShownFrames
<1>1. PICK r \in Roots : s_frame_stack = <<r>> /\ Root = r /\ Top = r
  BY <1>0, StackShapes DEF ToggleRoot
<1>2. PICK id \in Roots : app_switch_screen(id)
  BY DEF ToggleRoot, Roots
<1>3. OneFrame(id)' /\ boot' = Off
  BY <1>0, <1>1, <1>2, SwitchStep
<1>4. ShownFrames'
  BY <1>3, OneFrameShown
<1>5. entry = {} /\ s_in_rows_level = FALSE
  <2>1. entry = {}
    BY <1>1 DEF ToggleRoot, EntryOnTop, Fits, Screens, EntryOnItsRoot
  <2>2. Top # "SETTINGS"
    BY <1>1 DEF Roots
  <2> QED
    BY <2>1, <2>2 DEF Fits, Screens, RowsOnlyInSettings, OnTop, ScreenTypes
<1>6. UNCHANGED <<menu, dismiss, s_in_rows_level, scan, entry>>
  BY DEF ToggleRoot, menuVars, rootVars
<1>7. ScanUnderItsScreen' /\ EntryOnItsRoot' /\ RowsOnlyInSettings'
  BY <1>5, <1>6 DEF ScanUnderItsScreen, EntryOnItsRoot, RowsOnlyInSettings
<1>8. ScreenTypes'
  BY <1>3, <1>6, ShellAssumption DEF Fits, ScreenTypes, Off
<1> QED
  BY <1>4, <1>7, <1>8 DEF Fits, Screens

\* A frame above a root is left: without scan or rows, the root's entry stays where it was.
LEMMA PopFits ==
  ASSUME Fits, scan = "NONE", ~(OnTop("SETTINGS") /\ s_in_rows_level), Len(s_frame_stack) # 1,
         app_pop_screen, UNCHANGED <<menuVars, s_in_rows_level, rootVars>>
  PROVE  Fits'
<1>0. s_frame_stack \in Stacks /\ ShownFrames
  BY DEF Fits, Screens, ShownFrames
<1>1. UNCHANGED <<menu, dismiss, s_in_rows_level, scan, entry>> /\ s_in_rows_level = FALSE
  BY DEF menuVars, rootVars, Fits, Screens, RowsOnlyInSettings, ScreenTypes
<1>2. CASE s_frame_stack = <<>>
  <2>1. UNCHANGED <<s_frame_stack, visible, boot>>
    BY <1>2 DEF app_pop_screen, frameVars
  <2>2. ShownFrames' /\ Root' = Root /\ Top' = Top
    BY <2>1, SameFrames DEF Fits
  <2> QED
    BY <1>1, <2>1, <2>2 DEF Fits, Screens, ScanUnderItsScreen, EntryOnItsRoot, RowsOnlyInSettings,
                            ScreenTypes
<1>3. ASSUME NEW r \in Roots, NEW f \in Above, s_frame_stack = <<r, f>>, Root = r, Top = f
      PROVE  Fits'
  <2>1. OneFrame(r)' /\ boot' = boot
    BY <1>0, <1>3, PopStep
  <2>2. boot = Off /\ s_frame_stack # <<>>
    BY <1>0, <1>3 DEF ShownFrames
  <2>3. ShownFrames' /\ s_frame_stack' # <<>> /\ Root' = r
    BY <2>1, <2>2, OneFrameShown
  <2>4. ScanUnderItsScreen' /\ EntryOnItsRoot' /\ RowsOnlyInSettings'
    BY <1>1, <1>3, <2>3 DEF Fits, Screens, ScanUnderItsScreen, EntryOnItsRoot, RowsOnlyInSettings
  <2>5. ScreenTypes'
    BY <1>1, <2>1 DEF Fits, ScreenTypes
  <2> QED
    BY <2>3, <2>4, <2>5 DEF Fits, Screens
<1> QED
  BY <1>0, <1>2, <1>3, StackShapes

\* A frame is opened over a root: Settings without a scan, the Zones also with one of Channel mode.
LEMMA PushFits ==
  ASSUME Fits, NEW r \in Roots, OnTop(r), NEW f \in Above, f = "ZONES" => r = "FM_CHANNEL",
         f = "SETTINGS" => scan = "NONE",
         app_push_screen(f), UNCHANGED <<menuVars, s_in_rows_level, rootVars>>
  PROVE  Fits'
<1>0. s_frame_stack \in Stacks /\ ShownFrames
  BY DEF Fits, Screens, ShownFrames
<1>1. UNCHANGED <<menu, dismiss, s_in_rows_level, scan, entry>>
  BY DEF menuVars, rootVars
<1>2. s_frame_stack = <<r>> /\ Root = r /\ Top = r
  <2>1. s_frame_stack # <<>> /\ Top = r /\ r \notin Above
    BY DEF OnTop, Roots, Above
  <2> QED
    BY <1>0, <2>1, StackShapes
<1>3. TwoFrames(r, f)' /\ boot' = boot
  BY <1>0, <1>2, PushStep
<1>4. boot = Off /\ s_frame_stack # <<>>
  BY <1>0, <1>2 DEF ShownFrames
<1>5. ShownFrames' /\ s_frame_stack' # <<>> /\ Root' = r /\ Top' = f
  BY <1>3, <1>4, TwoFramesShown
<1>6. s_in_rows_level = FALSE
  <2>1. ~OnTop("SETTINGS")
    BY <1>2 DEF OnTop, Roots
  <2> QED
    BY <2>1 DEF Fits, Screens, RowsOnlyInSettings, ScreenTypes
<1>7. ScanUnderItsScreen'
  BY <1>1, <1>2, <1>5 DEF Fits, Screens, ScanUnderItsScreen, Above
<1>8. EntryOnItsRoot' /\ RowsOnlyInSettings'
  BY <1>1, <1>2, <1>4, <1>5, <1>6 DEF Fits, Screens, EntryOnItsRoot, RowsOnlyInSettings
<1>9. ScreenTypes'
  BY <1>1, <1>3 DEF Fits, ScreenTypes
<1> QED
  BY <1>5, <1>7, <1>8, <1>9 DEF Fits, Screens

\* Nothing but the quick menu comes or goes.
LEMMA ShowMenuFits ==
  ASSUME Fits, scan = "NONE", ShowMenu
  PROVE  Fits'
<1>1. /\ UNCHANGED <<s_frame_stack, visible, boot, s_in_rows_level, entry, scan>>
      /\ menu' = TRUE /\ dismiss' = MenuDwell
  BY DEF ShowMenu, overlay_quickmenu_show, frameVars, rootVars
<1>2. ShownFrames' /\ Root' = Root /\ Top' = Top /\ \A id \in Frames : OnTop(id)' <=> OnTop(id)
  BY <1>1, SameFrames DEF Fits
<1>3. ScanUnderItsScreen' /\ EntryOnItsRoot'
  BY <1>1, <1>2 DEF Fits, Screens, ScanUnderItsScreen, EntryOnItsRoot
<1>4. RowsOnlyInSettings'
  BY <1>1, <1>2 DEF Fits, Screens, RowsOnlyInSettings, Frames
<1>5. ScreenTypes'
  BY <1>1, DismissTypes DEF Fits, ScreenTypes
<1> QED
  BY <1>2, <1>3, <1>4, <1>5 DEF Fits, Screens

\* A scan starts on the operating screen on top, without a menu over it.
LEMMA StartScanFits ==
  ASSUME Fits, ~menu, NEW r \in Roots, OnTop(r), StartScan(r),
         UNCHANGED <<menuVars, s_in_rows_level>>
  PROVE  Fits'
<1>0. s_frame_stack \in Stacks
  BY DEF Fits, Screens, ShownFrames
<1>1. UNCHANGED <<s_frame_stack, visible, boot, menu, dismiss, s_in_rows_level, entry>> /\ scan' = r
  BY DEF StartScan, frameVars, menuVars
<1>2. ShownFrames' /\ Root' = Root /\ Top' = Top /\ \A id \in Frames : OnTop(id)' <=> OnTop(id)
  BY <1>1, SameFrames DEF Fits
<1>3. Root = r /\ Top = r /\ s_frame_stack # <<>>
  <2>1. s_frame_stack # <<>> /\ Top = r /\ r \notin Above
    BY DEF OnTop, Roots, Above
  <2> QED
    BY <1>0, <2>1, StackShapes
<1>4. ScanUnderItsScreen' /\ EntryOnItsRoot'
  BY <1>1, <1>2, <1>3 DEF Fits, Screens, ScanUnderItsScreen, EntryOnItsRoot
<1>5. RowsOnlyInSettings'
  BY <1>1, <1>2 DEF Fits, Screens, RowsOnlyInSettings, Frames
<1>6. ScreenTypes'
  BY <1>1 DEF Fits, ScreenTypes
<1> QED
  BY <1>2, <1>4, <1>5, <1>6 DEF Fits, Screens

\* So does a key nobody handles.
LEMMA IgnoredFits ==
  ASSUME Fits, Ignored, UNCHANGED <<menuVars, s_in_rows_level>>
  PROVE  Fits'
<1>1. UNCHANGED <<s_frame_stack, visible, boot, menu, dismiss, s_in_rows_level, entry, scan>>
  BY DEF Ignored, frameVars, menuVars, rootVars
<1>2. ShownFrames' /\ Root' = Root /\ Top' = Top /\ \A id \in Frames : OnTop(id)' <=> OnTop(id)
  BY <1>1, SameFrames DEF Fits
<1> QED
  BY <1>1, <1>2 DEF Fits, Screens, ScanUnderItsScreen, EntryOnItsRoot, RowsOnlyInSettings,
                    ScreenTypes, Frames

\* The handlers of the frames, for an action that no scan has intercepted.
LEMMA ForwardFits ==
  ASSUME Fits, scan = "NONE", NEW a, Forward(a)
  PROVE  Fits'
<1>0. UNCHANGED <<menuVars, s_in_rows_level>>
  BY DEF Forward
<1>1. \/ ForwardsTo("FM_VFO") /\ fm_vfo_handle_action(a)
      \/ ForwardsTo("FM_CHANNEL") /\ fm_channel_handle_action(a)
      \/ ForwardsTo("ZONES") /\ zones_handle_action(a)
      \/ Ignored
  BY DEF Forward
<1>2. ASSUME NEW r \in Roots, ForwardsTo(r), OpenSettings PROVE Fits'
  <2>1. OnTop(r) /\ "SETTINGS" \in Above /\ "SETTINGS" # "ZONES"
    BY <1>2 DEF ForwardsTo, Above
  <2> QED
    BY <1>0, <1>2, <2>1, PushFits DEF OpenSettings
<1>3. ASSUME NEW r \in Roots, ForwardsTo(r), entry' \in {entry \cup {Top}, entry \ {Top}},
             UNCHANGED <<frameVars, scan>>
      PROVE  Fits'
  BY <1>0, <1>3, EntryFits DEF ForwardsTo, OnTop
<1>4. ASSUME NEW r \in Roots, ForwardsTo(r), EntryDigit PROVE Fits'
  <2>1. entry' \in {entry \cup {Top}, entry \ {Top}} /\ UNCHANGED <<frameVars, scan>>
    BY <1>4 DEF EntryDigit
  <2> QED
    BY <1>3, <1>4, <2>1
<1>5. ASSUME NEW r \in Roots, ForwardsTo(r), StartScan(r) PROVE Fits'
  BY <1>0, <1>5, StartScanFits DEF ForwardsTo
<1>6. CASE Ignored
  BY <1>0, <1>6, IgnoredFits
<1>7. "FM_VFO" \in Roots /\ "FM_CHANNEL" \in Roots
  BY DEF Roots
<1>8. CASE ForwardsTo("FM_VFO") /\ fm_vfo_handle_action(a)
  <2>1. OpenSettings \/ EntryDigit \/ StartScan("FM_VFO") \/ Ignored
    BY <1>8 DEF fm_vfo_handle_action
  <2> QED
    BY <1>2, <1>4, <1>5, <1>6, <1>7, <1>8, <2>1
<1>9. CASE ForwardsTo("FM_CHANNEL") /\ fm_channel_handle_action(a)
  <2>1. \/ OpenSettings \/ EntryDigit \/ StartScan("FM_CHANNEL") \/ Ignored
        \/ entry' = entry \ {Top} /\ UNCHANGED <<frameVars, scan>>
    BY <1>9 DEF fm_channel_handle_action
  <2> QED
    BY <1>2, <1>3, <1>4, <1>5, <1>6, <1>7, <1>9, <2>1
<1>10. CASE ForwardsTo("ZONES") /\ zones_handle_action(a)
  <2>1. (app_pop_screen /\ UNCHANGED rootVars) \/ Ignored
    BY <1>10 DEF zones_handle_action
  <2>2. OnTop("ZONES") /\ ~OnTop("SETTINGS")
    BY <1>10 DEF ForwardsTo, OnTop
  <2>3. Len(s_frame_stack) # 1
    <3>1. s_frame_stack \in Stacks /\ "ZONES" \notin Roots
      BY DEF Fits, Screens, ShownFrames, Roots
    <3> QED
      BY <2>2, <3>1, StackShapes DEF OnTop
  <2> QED
    BY <1>0, <1>6, <2>1, <2>2, <2>3, PopFits
<1> QED
  BY <1>1, <1>6, <1>8, <1>9, <1>10

\* So does every action of the queue (dispatch_action).
LEMMA DispatchFits ==
  ASSUME Fits, NEW a, dispatch_action(a)
  PROVE  Fits'
<1>1. \/ scan_intercept_action(a)
      \/ scan = "NONE" /\ (Back \/ ShowMenu \/ Forward(a))
      \/ OpenZones
  BY DEF dispatch_action
<1>2. CASE scan = "NONE" /\ Back
  <2>1. ASSUME LeaveFrame PROVE Fits'
    BY <1>2, <2>1, PopFits DEF LeaveFrame
  <2> QED
    BY <1>2, <2>1, CloseMenuFits, ExitRowsFits, CancelEntryFits, ToggleRootFits DEF Back
<1>3. CASE OpenZones
  <2>0. UNCHANGED <<menuVars, s_in_rows_level, rootVars>>
    BY <1>3 DEF OpenZones
  <2>1. CASE OnTop("FM_CHANNEL") /\ app_push_screen("ZONES")
    <3>1. "FM_CHANNEL" \in Roots /\ "ZONES" \in Above /\ "ZONES" # "SETTINGS"
      BY DEF Roots, Above
    <3> QED
      BY <2>0, <2>1, <3>1, PushFits
  <2>2. CASE UNCHANGED frameVars
    BY <2>0, <2>2, IgnoredFits DEF Ignored
  <2> QED
    BY <1>3, <2>1, <2>2 DEF OpenZones
<1> QED
  BY <1>1, <1>2, <1>3, InterceptFits, ShowMenuFits, ForwardFits

-----------------------------------------------------------------------------
(* LVGL's timers and the input thread.                                      *)

\* So does the end of the boot screen.
LEMMA BootFits ==
  ASSUME Fits, boot_timer_cb
  PROVE  Fits'
<1>1. ShownFrames /\ s_frame_stack = <<>> /\ app_switch_screen("FM_VFO") /\ "FM_VFO" \in Roots
  BY DEF Fits, Screens, ShownFrames, boot_timer_cb, Off, Roots
<1>2. OneFrame("FM_VFO")' /\ boot' = Off
  BY <1>1, SwitchStep
<1>3. ShownFrames'
  BY <1>1, <1>2, OneFrameShown
<1>4. scan = "NONE" /\ entry = {} /\ s_in_rows_level = FALSE
  BY <1>1 DEF Fits, Screens, ScanUnderItsScreen, EntryOnItsRoot, RowsOnlyInSettings, OnTop,
              ScreenTypes
<1>5. UNCHANGED <<menu, dismiss, s_in_rows_level, scan, entry>>
  BY DEF boot_timer_cb, menuVars, rootVars
<1>6. ScanUnderItsScreen' /\ EntryOnItsRoot' /\ RowsOnlyInSettings'
  BY <1>4, <1>5 DEF ScanUnderItsScreen, EntryOnItsRoot, RowsOnlyInSettings
<1>7. ScreenTypes'
  BY <1>2, <1>5, ShellAssumption DEF Fits, ScreenTypes, Off
<1> QED
  BY <1>3, <1>6, <1>7 DEF Fits, Screens

\* Time, LVGL's clicks and the closing of the menu leave the frames alone; rows are entered only
\* on Settings.
LEMMA TimersFit ==
  ASSUME Fits, UNCHANGED <<s_frame_stack, visible, scan, entry>>,
         boot' \in Off..BootDwell, boot' # Off <=> boot # Off,
         menu' \in BOOLEAN, menu' => menu, dismiss' \in Off..MenuDwell,
         s_in_rows_level' \in BOOLEAN, s_in_rows_level' => s_in_rows_level \/ OnTop("SETTINGS")
  PROVE  Fits'
<1>1. ShownFrames' /\ Root' = Root /\ Top' = Top /\ \A id \in Frames : OnTop(id)' <=> OnTop(id)
  BY SameFrames DEF Fits
<1>2. ScanUnderItsScreen' /\ EntryOnItsRoot'
  BY <1>1 DEF Fits, Screens, ScanUnderItsScreen, EntryOnItsRoot
<1>3. RowsOnlyInSettings'
  BY <1>1 DEF Fits, Screens, RowsOnlyInSettings, Frames
<1>4. ScreenTypes'
  BY DEF Fits, ScreenTypes
<1> QED
  BY <1>1, <1>2, <1>3, <1>4 DEF Fits, Screens

-----------------------------------------------------------------------------
(* The types of the input side: LVGL only ever gets the keys of its node.   *)

LvglEvent == [key : LvglKeys, pressed : BOOLEAN]
Keypad == [events : Seq(LvglEvent), last : LvglEvent, key : LvglKeys,
           pressed : BOOLEAN, wait : BOOLEAN]

QueueOK == ui_events \in Seq(Actions) /\ Len(ui_events) <= QueueLen
KeysOK ==
  /\ down \subseteq Keys /\ changed \subseteq Keys
  /\ inbox \in Seq(Event) /\ Len(inbox) <= 1
  /\ held \in [{"UP", "SK1"} -> 0..LongPress]
  /\ s_sk2_held \in BOOLEAN
LvglOK == s_attached_group \in {"none", "menu", "tabs", "rows"} /\ indev \in Keypad
InputTypes ==
  /\ KeysOK /\ QueueOK /\ LvglOK
  /\ phase \in {"scan", "tick", "lvgl", "sleep"}
  /\ acted \in BOOLEAN

ShellInv == InputTypes /\ Fits /\ TabsShown

\* The invariant gives every variable its type.
LEMMA InvTypes == ShellInv => TypeOK
<1> SUFFICES ASSUME ShellInv PROVE TypeOK
  OBVIOUS
<1>1. s_frame_stack \in Seq(Frames) /\ Len(s_frame_stack) <= StackDepth /\ visible \subseteq Frames
  <2>1. s_frame_stack \in Stacks
    BY DEF ShellInv, Fits, Screens, ShownFrames
  <2> QED
    BY <2>1, StackFacts, ShellAssumption DEF ShellInv, Fits, Screens, ShownFrames
<1>2. indev \in [events : Seq(Event), last : Event, key : LvglKeys, pressed : BOOLEAN,
                 wait : BOOLEAN]
  <2>1. LvglEvent \subseteq Event
    BY DEF LvglEvent, Event, LvglKeys, AllKeys
  <2>2. Seq(LvglEvent) \subseteq Seq(Event)
    BY <2>1, SeqMonotonic
  <2> QED
    BY <2>1, <2>2 DEF ShellInv, InputTypes, LvglOK, Keypad
<1> QED
  BY <1>1, <1>2 DEF ShellInv, InputTypes, KeysOK, QueueOK, LvglOK, Fits, ScreenTypes, TypeOK

\* app_post_action(): what does not fit is dropped.
LEMMA PostOK ==
  ASSUME QueueOK, NEW actions \in Seq(Actions), Post(actions)
  PROVE  QueueOK'
<1> DEFINE all == ui_events \o actions
<1>1. all \in Seq(Actions) /\ Len(all) \in Nat
  BY ConcatProperties DEF QueueOK
<1>2. QueueLen \in Nat \ {0}
  BY ShellAssumption
<1>3. CASE Len(all) > QueueLen
  <2>1. \A i \in 1..QueueLen : all[i] \in Actions
    BY <1>1, <1>2, <1>3, ElementOfSeq
  <2>2. SubSeq(all, 1, QueueLen) \in Seq(Actions) /\ Len(SubSeq(all, 1, QueueLen)) = QueueLen
    <3> HIDE DEF all
    <3>1. 1 \in Int /\ QueueLen \in Int /\ 1 <= QueueLen
      BY <1>2
    <3> QED
      BY <2>1, <3>1, SubSeqProperties
  <2> QED
    BY <1>2, <1>3, <2>2 DEF Post, QueueOK
<1>4. CASE ~(Len(all) > QueueLen)
  BY <1>1, <1>2, <1>4 DEF Post, QueueOK
<1> QED
  BY <1>3, <1>4

\* An event posts actions.
LEMMA PostedOK ==
  ASSUME NEW e \in Event
  PROVE  PostedBy(e) \in Seq(Actions)
<1>1. <<>> \in Seq(Actions)
  OBVIOUS
<1>2. "SK1" \in Actions /\ e.key \in Actions /\ "SCAN_START" \in Actions
  BY DEF Event, Actions, AllKeys
<1>3. <<"SK1">> \in Seq(Actions) /\ <<e.key>> \in Seq(Actions) /\ <<"SCAN_START">> \in Seq(Actions)
  BY <1>2
<1> QED
  BY <1>1, <1>3 DEF PostedBy

\* Delivering an input event keeps the types of the input side.
LEMMA DeliverTypes ==
  ASSUME InputTypes, Deliver
  PROVE  InputTypes'
<1> DEFINE e == Head(inbox)
<1>1. e \in Event /\ inbox' = <<>>
  BY HeadTailProperties DEF Deliver, InputTypes, KeysOK
<1>2. Post(PostedBy(e)) /\ UNCHANGED <<down, changed, phase, s_attached_group>>
  BY DEF Deliver, handle_key_event
<1>3. QueueOK'
  BY <1>1, <1>2, PostedOK, PostOK DEF InputTypes
<1>4. s_sk2_held' \in BOOLEAN
  BY <1>1 DEF Deliver, handle_key_event, InputTypes, KeysOK, Event
<1>5. held' \in [{"UP", "SK1"} -> 0..LongPress]
  BY ShellAssumption DEF Deliver, handle_key_event, InputTypes, KeysOK
<1>6. KeysOK'
  BY <1>1, <1>2, <1>4, <1>5 DEF InputTypes, KeysOK
<1>7. indev' \in Keypad
  <2>1. indev \in Keypad
    BY DEF InputTypes, LvglOK
  <2>2. CASE e.key \in LvglKeys
    <3>1. e \in LvglEvent
      BY <1>1, <2>2 DEF Event, LvglEvent
    <3>2. Append(indev.events, e) \in Seq(LvglEvent)
      BY <2>1, <3>1, AppendProperties DEF Keypad
    <3>3. indev' = [indev EXCEPT !.events = Append(@, e)]
      BY <2>2 DEF Deliver, lvgl_keypad_event
    <3> QED
      BY <2>1, <3>2, <3>3 DEF Keypad
  <2>3. CASE e.key \notin LvglKeys
    BY <2>1, <2>3 DEF Deliver, lvgl_keypad_event
  <2> QED
    BY <2>2, <2>3
<1>8. LvglOK'
  BY <1>2, <1>7 DEF InputTypes, LvglOK
<1>9. acted' \in BOOLEAN
  BY DEF Deliver
<1> QED
  BY <1>2, <1>3, <1>6, <1>8, <1>9 DEF InputTypes

\* So does a turn of the encoder.
LEMMA EncoderTypes ==
  ASSUME InputTypes, Encoder
  PROVE  InputTypes'
<1>1. PICK n \in 1..Detents : Post([i \in 1..n |-> "ENCODER"])
  BY DEF Encoder
<1>2. n \in Nat /\ "ENCODER" \in Actions
  BY ShellAssumption DEF Actions
<1>3. [i \in 1..n |-> "ENCODER"] \in Seq(Actions)
  BY <1>2
<1>4. QueueOK'
  BY <1>1, <1>3, PostOK DEF InputTypes
<1> QED
  BY <1>4 DEF Encoder, InputTypes, KeysOK, LvglOK, inputVars, lvglVars

\* indev_keypad_proc() repeats the last event or takes the next one.
LEMMA KeyInputTypes ==
  ASSUME InputTypes, KeyInput
  PROVE  InputTypes'
<1> DEFINE e == NextEvent
<1>1. indev \in Keypad
  BY DEF InputTypes, LvglOK
<1>2. e \in LvglEvent
  BY <1>1, HeadTailProperties DEF NextEvent, Keypad
<1>3. indev' = AfterRead(e)
  BY DEF KeyInput
<1>4. (IF indev.events = <<>> THEN <<>> ELSE Tail(indev.events)) \in Seq(LvglEvent)
  BY <1>1, HeadTailProperties DEF Keypad
<1> DEFINE unwaited == IF Skipped(e) THEN indev
                       ELSE [indev EXCEPT !.wait = FALSE, !.pressed = WasPressed]
           seen == IF Seen(e) THEN [unwaited EXCEPT !.key = e.key, !.pressed = e.pressed]
                   ELSE unwaited
<1>5. unwaited \in Keypad /\ unwaited.events = indev.events
  <2>1. WasPressed \in BOOLEAN
    BY <1>1 DEF WasPressed, Keypad
  <2>2. CASE Skipped(e)
    BY <1>1, <2>2
  <2>3. CASE ~Skipped(e)
    <3>1. unwaited = [indev EXCEPT !.wait = FALSE, !.pressed = WasPressed]
      BY <2>3
    <3> HIDE DEF unwaited
    <3> QED
      BY <1>1, <2>1, <3>1 DEF Keypad
  <2> QED
    BY <2>2, <2>3
<1>6. seen \in Keypad /\ seen.events = indev.events
  <2> HIDE DEF unwaited
  <2> QED
    BY <1>2, <1>5 DEF Keypad, LvglEvent
<1>7. indev' = [seen EXCEPT !.last = e, !.events = IF @ = <<>> THEN <<>> ELSE Tail(@)]
  BY <1>3 DEF AfterRead
<1>8. indev' \in Keypad
  <2> HIDE DEF seen, e
  <2> QED
    BY <1>2, <1>4, <1>6, <1>7 DEF Keypad
<1> QED
  BY <1>8 DEF KeyInput, InputTypes, KeysOK, QueueOK, LvglOK, inputVars

\* So does a scan of the keys.
LEMMA ScanTypes ==
  ASSUME InputTypes, Scan
  PROVE  InputTypes'
<1>1. ASSUME NEW k \in Keys, KeyChange(k) PROVE KeysOK'
  <2>1. [key |-> k, pressed |-> k \notin down] \in Event
    BY ShellAssumption DEF Event
  <2>2. inbox' \in Seq(Event) /\ Len(inbox') = 1
    BY <1>1, <2>1 DEF KeyChange
  <2> QED
    BY <1>1, <2>2 DEF KeyChange, Scan, InputTypes, KeysOK
<1>2. ASSUME UNCHANGED <<down, inbox>>, changed' = {} PROVE KeysOK'
  BY <1>2 DEF Scan, InputTypes, KeysOK
<1>3. KeysOK'
  BY <1>1, <1>2 DEF Scan
<1> QED
  BY <1>3 DEF Scan, InputTypes, QueueOK, LvglOK, lvglVars

-----------------------------------------------------------------------------
(* The invariant and what it is for.                                        *)

\* At boot the invariant holds.
LEMMA InitInv == Init => ShellInv
<1> SUFFICES ASSUME Init PROVE ShellInv
  OBVIOUS
<1>1. KeysOK
  <2>1. held \in [{"UP", "SK1"} -> 0..LongPress]
    BY ShellAssumption DEF Init
  <2>2. <<>> \in Seq(Event) /\ Len(<<>>) <= 1
    OBVIOUS
  <2>3. s_sk2_held \in BOOLEAN
    BY Zenon DEF Init
  <2> QED
    BY <2>1, <2>2, <2>3 DEF Init, KeysOK
<1>5. QueueOK
  <2>1. <<>> \in Seq(Actions) /\ Len(<<>>) = 0 /\ QueueLen >= 0
    BY ShellAssumption
  <2> QED
    BY <2>1 DEF Init, QueueOK
<1>2. LvglOK
  BY DEF Init, LvglOK, Keypad, LvglEvent, LvglKeys
<1>3. ShownFrames
  BY ShellAssumption DEF Init, ShownFrames, Stacks, Off
<1>4. ScreenTypes
  <2>1. BootDwell \in Off..BootDwell /\ Off \in Off..MenuDwell
    BY ShellAssumption DEF Off
  <2> QED
    BY <2>1, Zenon DEF Init, ScreenTypes
<1> QED
  BY <1>1, <1>2, <1>3, <1>4, <1>5 DEF Init, ShellInv, InputTypes, Fits, Screens, ScanUnderItsScreen,
     EntryOnItsRoot, RowsOnlyInSettings, TabsShown

\* Every step of the shell keeps it.
LEMMA NextInv == ShellInv /\ [Next]_vars => ShellInv'
<1> SUFFICES ASSUME ShellInv, [Next]_vars PROVE ShellInv'
  OBVIOUS
<1> USE DEF inputVars, frameVars, menuVars, lvglVars, rootVars
<1>0. InputTypes /\ Fits /\ TabsShown
  BY DEF ShellInv
\* A step that leaves the screens and what is attached alone.
<1>1. ASSUME UNCHANGED <<s_frame_stack, visible, boot, menu, dismiss, s_in_rows_level, scan, entry>>
      PROVE  Fits' /\ (OnTop("SETTINGS")' <=> OnTop("SETTINGS"))
  <2>1. Fits'
    BY <1>0, <1>1, IgnoredFits DEF Ignored
  <2> QED
    BY <1>1, <2>1 DEF OnTop, Top
<1>2. CASE Scan
  BY <1>0, <1>1, <1>2, ScanTypes DEF Scan, ShellInv, TabsShown
<1>3. CASE Drain
  <2>1. Fits'
    BY <1>0, <1>3, DispatchFits DEF Drain
  <2>2. QueueOK'
    <3>1. ui_events \in Seq(Actions) /\ ui_events # <<>> /\ Len(ui_events) <= QueueLen
          /\ ui_events' = Tail(ui_events)
      BY <1>0, <1>3 DEF Drain, InputTypes, QueueOK
    <3>2. ui_events' \in Seq(Actions) /\ Len(ui_events') = Len(ui_events) - 1
      BY <3>1, HeadTailProperties
    <3> QED
      BY <3>1, <3>2, ShellAssumption DEF QueueOK
  <2>3. acted' \in BOOLEAN
    <3>1. CASE Head(ui_events) = "OK"
      BY <1>3, <3>1 DEF Drain
    <3>2. CASE Head(ui_events) # "OK"
      BY <1>0, <1>3, <3>2 DEF Drain, InputTypes
    <3> QED
      BY <3>1, <3>2
  <2>4. InputTypes'
    BY <1>0, <1>3, <2>2, <2>3 DEF Drain, InputTypes, KeysOK, LvglOK
  <2> QED
    BY <1>3, <2>1, <2>4 DEF Drain, ShellInv, TabsShown
<1>4. CASE EndTick
  <2>1. Fits' /\ (OnTop("SETTINGS")' <=> OnTop("SETTINGS"))
    BY <1>1, <1>4 DEF EndTick
  <2>2. s_attached_group' = TargetGroup /\ TargetGroup \in {"none", "menu", "tabs", "rows"}
    BY <1>4 DEF EndTick, update_indev_group_attachment, TargetGroup
  <2>3. indev' \in Keypad
    <3>1. indev \in Keypad /\ indev.wait \in BOOLEAN
      BY <1>0 DEF InputTypes, LvglOK, Keypad
    <3>2. indev' = indev \/ indev' = [indev EXCEPT !.wait = @ \/ TargetGroup # "none"]
      BY <1>4 DEF EndTick, update_indev_group_attachment
    <3>3. (indev.wait \/ TargetGroup # "none") \in BOOLEAN
      OBVIOUS
    <3> QED
      BY <3>1, <3>2, <3>3 DEF Keypad
  <2>4. InputTypes'
    BY <1>0, <1>4, <2>2, <2>3 DEF EndTick, InputTypes, KeysOK, QueueOK, LvglOK
  <2>5. TargetGroup = "tabs" => OnTop("SETTINGS")
    BY DEF TargetGroup
  <2> QED
    BY <2>1, <2>2, <2>4, <2>5 DEF ShellInv, TabsShown
<1>5. CASE boot_timer_cb
  <2>1. Fits'
    BY <1>0, <1>5, BootFits
  <2>2. InputTypes'
    BY <1>0, <1>5 DEF boot_timer_cb, InputTypes, KeysOK, QueueOK, LvglOK
  <2>3. ~OnTop("SETTINGS")
    BY <1>0, <1>5 DEF boot_timer_cb, Fits, Screens, ShownFrames, OnTop, Off
  <2>4. TabsShown'
    BY <1>0, <1>5, <2>3 DEF boot_timer_cb, TabsShown
  <2> QED
    BY <2>1, <2>2, <2>4 DEF ShellInv
<1>6. CASE dismiss_cb
  <2>0. /\ UNCHANGED <<s_frame_stack, visible, boot, scan, entry, s_in_rows_level>>
        /\ menu' = FALSE /\ dismiss' = Off
    BY <1>6 DEF dismiss_cb
  <2>4. Off \in Off..MenuDwell
    BY ShellAssumption DEF Off
  <2>5. boot' \in Off..BootDwell /\ s_in_rows_level' \in BOOLEAN
    BY <1>0, <2>0 DEF Fits, ScreenTypes
  <2>1. Fits'
    BY <1>0, <2>0, <2>4, <2>5, TimersFit
  <2>2. InputTypes'
    BY <1>0, <1>6 DEF dismiss_cb, InputTypes, KeysOK, QueueOK, LvglOK
  <2>3. TabsShown'
    BY <1>0, <1>6 DEF dismiss_cb, TabsShown, OnTop, Top
  <2> QED
    BY <2>1, <2>2, <2>3 DEF ShellInv
<1>7. CASE KeyInput
  <2>1. InputTypes'
    BY <1>0, <1>7, KeyInputTypes
  <2>2. UNCHANGED <<s_frame_stack, visible, boot, scan, entry, s_attached_group>>
        /\ phase = "lvgl"
    BY <1>7 DEF KeyInput
  <2>3. menu' \in BOOLEAN /\ (menu' => menu) /\ dismiss' \in Off..MenuDwell
    <3>1. menu \in BOOLEAN /\ dismiss \in Off..MenuDwell
      BY <1>0 DEF Fits, ScreenTypes
    <3>2. Off \in Off..MenuDwell
      BY ShellAssumption DEF Off
    <3>3. (menu' = FALSE \/ menu' = menu) /\ dismiss' \in {Off, DismissReset, dismiss}
      BY <1>7, Zenon DEF KeyInput, MenuRowCb
    <3>4. dismiss' \in Off..MenuDwell
      BY <3>1, <3>2, <3>3, DismissTypes
    <3>5. menu' \in BOOLEAN
      BY <3>1, <3>3
    <3>6. CASE menu' = FALSE
      BY <3>4, <3>5, <3>6
    <3>7. CASE menu' = menu
      BY <3>4, <3>5, <3>7, Zenon
    <3> QED
      BY <3>3, <3>6, <3>7
  <2>4. s_in_rows_level' = (s_in_rows_level \/ (s_attached_group = "tabs" /\ Clicks(NextEvent)))
    BY <1>7 DEF KeyInput
  <2>5. s_in_rows_level' \in BOOLEAN /\ (s_in_rows_level' => s_in_rows_level \/ OnTop("SETTINGS"))
    BY <1>0, <2>2, <2>4 DEF TabsShown
  <2>6. Fits'
    BY <1>0, <2>2, <2>3, <2>5, TimersFit DEF Fits, ScreenTypes
  <2>7. TabsShown'
    BY <1>0, <2>2 DEF TabsShown, OnTop, Top
  <2> QED
    BY <2>1, <2>6, <2>7 DEF ShellInv
<1>8. CASE Sleep
  <2>1. held' \in [{"UP", "SK1"} -> 0..LongPress]
    BY <1>0, <1>8, ShellAssumption DEF Sleep, InputTypes, KeysOK
  <2>2. boot' \in Off..BootDwell /\ (boot' # Off <=> boot # Off) /\ dismiss' \in Off..MenuDwell
    BY <1>0, <1>8, ShellAssumption DEF Sleep, Fits, ScreenTypes, Off
  <2>3. Fits'
    BY <1>0, <1>8, <2>2, TimersFit DEF Sleep, Fits, ScreenTypes
  <2>4. InputTypes'
    BY <1>0, <1>8, <2>1 DEF Sleep, InputTypes, KeysOK, QueueOK, LvglOK
  <2> QED
    BY <1>8, <2>3, <2>4 DEF Sleep, ShellInv, TabsShown
<1>9. CASE Deliver
  <2>1. Fits' /\ (OnTop("SETTINGS")' <=> OnTop("SETTINGS"))
    BY <1>1, <1>9 DEF Deliver
  <2> QED
    BY <1>0, <1>9, <2>1, DeliverTypes DEF Deliver, ShellInv, TabsShown
<1>10. CASE Encoder
  <2>1. Fits' /\ (OnTop("SETTINGS")' <=> OnTop("SETTINGS"))
    BY <1>1, <1>10 DEF Encoder
  <2> QED
    BY <1>0, <1>10, <2>1, EncoderTypes DEF Encoder, ShellInv, TabsShown
<1>11. CASE UNCHANGED vars
  <2>1. Fits' /\ (OnTop("SETTINGS")' <=> OnTop("SETTINGS"))
    BY <1>1, <1>11 DEF vars
  <2> QED
    BY <1>0, <1>11, <2>1 DEF vars, ShellInv, InputTypes, KeysOK, QueueOK, LvglOK, TabsShown
<1> QED
  BY <1>2, <1>3, <1>4, <1>5, <1>6, <1>7, <1>8, <1>9, <1>10, <1>11 DEF Next, Pass

\* The inductive invariant of the shell's loop, its input thread and LVGL's timers.
THEOREM ShellInvariant == Spec => []ShellInv
  BY InitInv, NextInv, PTL DEF Spec

\* app.c's frame stack: only the topmost frame is shown and none is on the stack twice.
THEOREM FramesFit == Spec => []OnlyTopShown
<1>1. ShellInv => OnlyTopShown
  BY InvTypes, StackFacts DEF ShellInv, Fits, Screens, ShownFrames, OnlyTopShown
<1> QED
  BY <1>1, ShellInvariant, PTL

\* A scan runs under the screen that ticks it, and never below the quick menu.
THEOREM ScansFit == Spec => []ScanUnderItsScreen
<1>1. ShellInv => ScanUnderItsScreen
  BY DEF ShellInv, Fits, Screens
<1> QED
  BY <1>1, ShellInvariant, PTL

\* A digit entry is never left behind on the other operating screen.
THEOREM EntriesFit == Spec => []EntryOnItsRoot
<1>1. ShellInv => EntryOnItsRoot
  BY DEF ShellInv, Fits, Screens
<1> QED
  BY <1>1, ShellInvariant, PTL

\* s_in_rows_level of screen_settings.c never outlives the screen.
THEOREM RowsFit == Spec => []RowsOnlyInSettings
<1>1. ShellInv => RowsOnlyInSettings
  BY DEF ShellInv, Fits, Screens
<1> QED
  BY <1>1, ShellInvariant, PTL

-----------------------------------------------------------------------------
(* Back.                                                                    *)

\* How many frames are shown, the splash counted as one, and how many entries are in progress.
Depth == IF s_frame_stack = <<>> THEN 1 ELSE Len(s_frame_stack)
Entries == IF entry = {} THEN 0 ELSE 1

\* A set of at most one element has none or one.
LEMMA AtMostOne ==
  ASSUME NEW S, NEW x, S # {} => S = {x}
  PROVE  Cardinality(S) = IF S = {} THEN 0 ELSE 1
<1>1. CASE S = {}
  BY <1>1, FS_EmptySet
<1>2. CASE S = {x}
  <2>1. Cardinality({x}) = 1 /\ {x} # {}
    BY FS_Singleton
  <2> QED
    BY <1>2, <2>1
<1> QED
  BY <1>1, <1>2

\* The layers of a screen that fits together, before and after a step.
LEMMA LayersSum ==
  ASSUME Fits, Fits'
  PROVE  /\ Layers = Depth + Entries + (IF menu THEN 1 ELSE 0)
                     + (IF s_in_rows_level THEN 1 ELSE 0) + (IF scan # "NONE" THEN 1 ELSE 0)
         /\ Layers' = Depth' + Entries' + (IF menu' THEN 1 ELSE 0)
                      + (IF s_in_rows_level' THEN 1 ELSE 0) + (IF scan' # "NONE" THEN 1 ELSE 0)
<1>1. (entry # {} => entry = {Root}) /\ (entry' # {} => entry' = {Root'})
  BY DEF Fits, Screens, EntryOnItsRoot
<1>2. Cardinality(entry) = Entries
  BY <1>1, AtMostOne DEF Entries
<1>3. Cardinality(entry') = Entries'
  BY <1>1, AtMostOne DEF Entries
<1> QED
  BY <1>2, <1>3 DEF Layers, Depth

\* There is always something at the bottom.
LEMMA DepthPositive ==
  ASSUME Fits
  PROVE  Depth \in {1, 2} /\ (Len(s_frame_stack) = 1 => Depth = 1)
<1>1. s_frame_stack \in Stacks
  BY DEF Fits, Screens, ShownFrames
<1> QED
  BY <1>1, StackShapes DEF Depth

\* What a Back does to the layers.
ClosesOne ==
  IF Layers > 1 THEN Layers' = Layers - 1
  ELSE Layers' = Layers /\ (s_frame_stack # <<>> => Root' # Root)

\* Back ends a scan and does nothing else.
LEMMA BackEndsScan ==
  ASSUME Fits, Fits', scan_intercept_action("BACK")
  PROVE  ClosesOne
<1>1. scan # "NONE" /\ scan' = "NONE"
  BY DEF scan_intercept_action
<1>2. UNCHANGED <<s_frame_stack, entry, menu, s_in_rows_level>>
  BY DEF scan_intercept_action, frameVars, menuVars
<1>3. Depth' = Depth /\ Entries' = Entries
  BY <1>2 DEF Depth, Entries
<1>4. /\ Layers = Depth + Entries + (IF menu THEN 1 ELSE 0)
                   + (IF s_in_rows_level THEN 1 ELSE 0) + 1
      /\ Layers' = Depth + Entries + (IF menu THEN 1 ELSE 0)
                    + (IF s_in_rows_level THEN 1 ELSE 0) + 0
  BY <1>1, <1>2, <1>3, LayersSum
<1> QED
  BY <1>4, DepthPositive DEF ClosesOne, Entries

\* Without a scan it closes the quick menu first.
LEMMA BackClosesMenu ==
  ASSUME Fits, Fits', CloseMenu
  PROVE  ClosesOne
<1>1. menu = TRUE /\ menu' = FALSE
  BY DEF CloseMenu, overlay_quickmenu_hide, Fits, ScreenTypes
<1>2. UNCHANGED <<s_frame_stack, entry, s_in_rows_level, scan>>
  BY DEF CloseMenu, frameVars, rootVars
<1>3. Depth' = Depth /\ Entries' = Entries
  BY <1>2 DEF Depth, Entries
<1>4. /\ Layers = Depth + Entries + 1
                   + (IF s_in_rows_level THEN 1 ELSE 0) + (IF scan # "NONE" THEN 1 ELSE 0)
      /\ Layers' = Depth + Entries + 0
                   + (IF s_in_rows_level THEN 1 ELSE 0) + (IF scan # "NONE" THEN 1 ELSE 0)
  BY <1>1, <1>2, <1>3, LayersSum
<1> QED
  BY <1>4, DepthPositive DEF ClosesOne, Entries

\* Then the rows of Settings.
LEMMA BackLeavesRows ==
  ASSUME Fits, Fits', screen_settings_exit_rows_level
  PROVE  ClosesOne
<1>1. s_in_rows_level = TRUE /\ s_in_rows_level' = FALSE
  BY DEF screen_settings_exit_rows_level, Fits, ScreenTypes
<1>2. UNCHANGED <<s_frame_stack, entry, menu, scan>>
  BY DEF screen_settings_exit_rows_level, frameVars, rootVars, menuVars
<1>3. Depth' = Depth /\ Entries' = Entries
  BY <1>2 DEF Depth, Entries
<1>4. /\ Layers = Depth + Entries + (IF menu THEN 1 ELSE 0)
                   + 1 + (IF scan # "NONE" THEN 1 ELSE 0)
      /\ Layers' = Depth + Entries + (IF menu THEN 1 ELSE 0)
                   + 0 + (IF scan # "NONE" THEN 1 ELSE 0)
  BY <1>1, <1>2, <1>3, LayersSum
<1> QED
  BY <1>4, DepthPositive DEF ClosesOne, Entries

\* The digit entry of a root goes before the root does.
LEMMA BackCancelsEntry ==
  ASSUME Fits, Fits', CancelEntry
  PROVE  ClosesOne
<1>1. entry # {} /\ entry = {Root} /\ Top \in entry /\ entry' = entry \ {Top}
  BY DEF CancelEntry, EntryOnTop, Fits, Screens, EntryOnItsRoot
<1>2. UNCHANGED <<s_frame_stack, s_in_rows_level, menu, scan>>
  BY DEF CancelEntry, frameVars, menuVars
<1>3. Depth' = Depth /\ Entries = 1 /\ Entries' = 0
  BY <1>1, <1>2 DEF Depth, Entries
<1>4. /\ Layers = Depth + 1 + (IF menu THEN 1 ELSE 0)
                   + (IF s_in_rows_level THEN 1 ELSE 0) + (IF scan # "NONE" THEN 1 ELSE 0)
      /\ Layers' = Depth + 0 + (IF menu THEN 1 ELSE 0)
                   + (IF s_in_rows_level THEN 1 ELSE 0) + (IF scan # "NONE" THEN 1 ELSE 0)
  BY <1>2, <1>3, LayersSum
<1> QED
  BY <1>4, DepthPositive DEF ClosesOne

\* A bare root is swapped for the other one.
LEMMA BackSwapsRoots ==
  ASSUME Fits, Fits', scan = "NONE", ToggleRoot
  PROVE  ClosesOne
<1>0. s_frame_stack \in Stacks /\ ShownFrames
  BY DEF Fits, Screens, ShownFrames
<1>1. PICK r \in Roots : s_frame_stack = <<r>> /\ Root = r /\ Top = r
  BY <1>0, StackShapes DEF ToggleRoot
<1>2. PICK id \in Roots : app_switch_screen(id) /\ id # r
  BY <1>1 DEF ToggleRoot, Roots
<1>3. OneFrame(id)'
  BY <1>0, <1>1, <1>2, SwitchStep
<1>4. Root' = id /\ Depth' = 1 /\ Depth = 1
  BY <1>1, <1>3 DEF OneFrame, Root, Depth
<1>5. entry = {} /\ s_in_rows_level = FALSE /\ menu = FALSE
  <2>1. entry = {}
    BY <1>1 DEF ToggleRoot, EntryOnTop, Fits, Screens, EntryOnItsRoot
  <2>2. Top # "SETTINGS"
    BY <1>1 DEF Roots
  <2> QED
    BY <2>1, <2>2 DEF ToggleRoot, Fits, Screens, RowsOnlyInSettings, OnTop, ScreenTypes
<1>6. UNCHANGED <<menu, s_in_rows_level, scan, entry>>
  BY DEF ToggleRoot, menuVars, rootVars
<1>7. Entries = 0 /\ Entries' = 0
  BY <1>5, <1>6 DEF Entries
<1>8. Layers = 1 /\ Layers' = 1
  BY <1>4, <1>5, <1>6, <1>7, LayersSum
<1> QED
  BY <1>1, <1>2, <1>4, <1>8 DEF ClosesOne

\* A frame over a root goes; under the splash there is nothing to go.
LEMMA BackLeavesFrame ==
  ASSUME Fits, Fits', scan = "NONE", LeaveFrame
  PROVE  ClosesOne
<1>0. s_frame_stack \in Stacks /\ ShownFrames
  BY DEF Fits, Screens, ShownFrames
<1>1. s_in_rows_level = FALSE /\ menu = FALSE
  BY DEF LeaveFrame, Fits, Screens, RowsOnlyInSettings, ScreenTypes
<1>2. UNCHANGED <<menu, s_in_rows_level, scan, entry>> /\ app_pop_screen
  BY DEF LeaveFrame, menuVars, rootVars
<1>3. Entries' = Entries
  BY <1>2 DEF Entries
<1>4. Layers = Depth + Entries + 0 + 0 + 0 /\ Layers' = Depth' + Entries + 0 + 0 + 0
  BY <1>1, <1>2, <1>3, LayersSum
<1>5. CASE s_frame_stack = <<>>
  <2>1. s_frame_stack' = s_frame_stack
    BY <1>2, <1>5 DEF app_pop_screen, frameVars
  <2>2. Depth = 1 /\ Depth' = 1 /\ Entries = 0
    BY <1>5, <2>1 DEF Depth, Entries, Fits, Screens, EntryOnItsRoot
  <2> QED
    BY <1>4, <1>5, <2>2 DEF ClosesOne
<1>6. ASSUME NEW r \in Roots, NEW f \in Above, s_frame_stack = <<r, f>>, Top = f
      PROVE  ClosesOne
  <2>1. OneFrame(r)'
    BY <1>0, <1>2, <1>6, PopStep
  <2>2. Depth = 2 /\ Depth' = 1
    BY <1>6, <2>1 DEF OneFrame, Depth
  <2> QED
    BY <1>4, <2>2 DEF ClosesOne, Entries
<1> QED
  BY <1>0, <1>5, <1>6, StackShapes DEF LeaveFrame

\* Each Back app.c dispatches closes one layer, swaps two bare roots or, under the bare splash,
\* does nothing: from any state of the shell.
THEOREM BackClosesOneLayer == Spec => BackClosesOne
<1>1. ASSUME ShellInv, ShellInv', Drain, Head(ui_events) = "BACK"
      PROVE  ClosesOne
  <2>1. Fits /\ Fits'
    BY <1>1 DEF ShellInv
  <2>2. scan_intercept_action("BACK") \/ (scan = "NONE" /\ Back)
    BY <1>1 DEF Drain, dispatch_action
  <2>3. CASE scan_intercept_action("BACK")
    BY <2>1, <2>3, BackEndsScan
  <2>4. CASE scan = "NONE" /\ Back
    BY <2>1, <2>4, BackClosesMenu, BackLeavesRows, BackCancelsEntry, BackSwapsRoots,
       BackLeavesFrame DEF Back
  <2> QED
    BY <2>2, <2>3, <2>4
<1>2. ShellInv /\ ShellInv' /\ [Next]_vars =>
        [Drain /\ Head(ui_events) = "BACK" => ClosesOne]_vars
  BY <1>1
<1> QED
  BY <1>2, ShellInvariant, PTL DEF Spec, BackClosesOne, ClosesOne

-----------------------------------------------------------------------------
(* One key at a time.                                                       *)

Queued(a) == \E i \in 1..Len(ui_events) : ui_events[i] = a

OkComes == inbox # <<>> /\ Head(inbox).key = "OK"

\* What a scan found is handled before the next one.
InboxAgrees ==
  inbox # <<>> =>
    /\ phase # "scan" /\ changed = {Head(inbox).key} /\ Head(inbox).key \notin {"UP", "DOWN"}
    /\ down = IF Head(inbox).pressed THEN {Head(inbox).key} ELSE {}

\* A press is in the queue until the tick of the pass after its own, with only the encoder behind it.
QueueAgrees ==
  /\ scan = "NONE"
  /\ \A a \in {"SCAN_START", "UP", "DOWN"} : ~Queued(a)
  /\ \A k \in {"OK", "BACK", "SK2", "DIGIT"} :
       Queued(k) => k \in down /\ (k \in changed \/ phase = "tick")
  /\ \A i, j \in 1..Len(ui_events) : i < j /\ ui_events[i] = "OK" => ui_events[j] = "ENCODER"
  /\ Queued("OK") => inbox = <<>>

\* LVGL has at most one event of OK to read; what it read last is what came before that.
LvglAgrees ==
  /\ Len(indev.events) <= 1
  /\ indev.events # <<>> =>
       /\ Head(indev.events).key = "OK" /\ (Head(indev.events).pressed <=> "OK" \in down)
       /\ ~OkComes /\ ("OK" \in changed \/ phase \in {"tick", "lvgl"})
  /\ indev.key = "OK" /\ indev.last.key = "OK"
  /\ indev.last.pressed <=> (("OK" \in down) <=> (indev.events = <<>> /\ ~OkComes))
  /\ s_attached_group # "none" /\ ~indev.last.pressed => indev.wait \/ ~indev.pressed

\* Settings is left in a tick that handles no OK.
TabsAgree ==
  s_attached_group = "tabs" =>
    \/ OnTop("SETTINGS")
    \/ phase = "tick" /\ ~Queued("OK") /\ ~(OkComes /\ Head(inbox).pressed)

\* From the action on an OK to its release, LVGL waits, has no group, or is about to.
Parked ==
  acted /\ (indev.last.pressed \/ indev.events # <<>>) =>
    \/ s_attached_group = "none" \/ indev.wait
    \/ /\ phase = "tick" /\ TargetGroup # s_attached_group /\ inbox = <<>>
       /\ \A i \in 1..Len(ui_events) : ui_events[i] = "ENCODER"

OneKeyInv == InboxAgrees /\ QueueAgrees /\ LvglAgrees /\ TabsAgree /\ Parked

\* Two keys are never down.
LEMMA KeysAlone ==
  ASSUME NEW S \in SUBSET Keys, Cardinality(S) <= 1, S \cap LvglKeys \subseteq {"OK"}
  PROVE  (\A j, k \in S : j = k) /\ "UP" \notin S /\ "DOWN" \notin S
<1>1. IsFiniteSet(AllKeys)
  <2>1. IsFiniteSet({"BACK"})
    BY FS_Singleton
  <2>2. IsFiniteSet({"BACK"} \cup {"UP"})
    BY <2>1, FS_AddElement
  <2>3. IsFiniteSet(({"BACK"} \cup {"UP"}) \cup {"DOWN"})
    BY <2>2, FS_AddElement
  <2>4. IsFiniteSet({"BACK", "UP", "DOWN"} \cup {"OK"})
    <3>1. {"BACK", "UP", "DOWN"} = ({"BACK"} \cup {"UP"}) \cup {"DOWN"}
      OBVIOUS
    <3> QED
      BY <2>3, <3>1, FS_AddElement
  <2>5. IsFiniteSet({"SK1"}) /\ IsFiniteSet({"SK1"} \cup {"SK2"})
    BY FS_Singleton, FS_AddElement
  <2>6. IsFiniteSet(({"SK1"} \cup {"SK2"}) \cup {"DIGIT"})
    BY <2>5, FS_AddElement
  <2>7. AllKeys = ({"BACK", "UP", "DOWN"} \cup {"OK"}) \cup (({"SK1"} \cup {"SK2"}) \cup {"DIGIT"})
    BY DEF AllKeys
  <2> QED
    BY <2>4, <2>6, <2>7, FS_Union
<1>2. IsFiniteSet(S)
  BY <1>1, FS_Subset, ShellAssumption
<1>3. ASSUME NEW j \in S, NEW k \in S, j # k PROVE FALSE
  <2>1. IsFiniteSet({j}) /\ Cardinality({j}) = 1 /\ k \notin {j}
    BY <1>3, FS_Singleton
  <2>a. Cardinality({j} \cup {k}) = Cardinality({j}) + 1
    BY <2>1, FS_AddElement, Zenon
  <2>2. Cardinality({j} \cup {k}) = 2
    BY <2>1, <2>a
  <2>3. {j} \cup {k} \subseteq S
    BY <1>3
  <2>4. Cardinality({j} \cup {k}) <= Cardinality(S) /\ Cardinality(S) \in Nat
    BY <1>2, <2>3, FS_Subset, FS_CardinalityType
  <2> QED
    BY <2>2, <2>4
<1> QED
  BY <1>3 DEF LvglKeys

\* app_post_action() appends what it has room for.
LEMMA PostAdds ==
  ASSUME QueueOK, NEW actions \in Seq(Actions), Post(actions)
  PROVE  /\ ui_events' \in Seq(Actions) /\ Len(ui_events) <= Len(ui_events')
         /\ \A i \in 1..Len(ui_events) : ui_events'[i] = ui_events[i]
         /\ \A i \in 1..Len(ui_events') :
              i > Len(ui_events) =>
                i - Len(ui_events) \in 1..Len(actions) /\ ui_events'[i] = actions[i - Len(ui_events)]
<1> DEFINE all == ui_events \o actions
<1>1. all \in Seq(Actions) /\ Len(all) = Len(ui_events) + Len(actions) /\ Len(all) \in Nat
      /\ \A i \in 1..Len(all) : all[i] = IF i <= Len(ui_events) THEN ui_events[i]
                                         ELSE actions[i - Len(ui_events)]
  BY ConcatProperties DEF QueueOK
<1>2. QueueLen \in Nat \ {0} /\ Len(ui_events) \in Nat /\ Len(actions) \in Nat /\ Len(ui_events) <= QueueLen
  BY ShellAssumption DEF QueueOK
<1>3. /\ ui_events' \in Seq(Actions) /\ Len(ui_events') \in Nat
      /\ Len(ui_events) <= Len(ui_events') /\ Len(ui_events') <= Len(all)
      /\ \A i \in 1..Len(ui_events') : ui_events'[i] = all[i]
  <2>1. CASE Len(all) > QueueLen
    <3>1. ui_events' = SubSeq(all, 1, QueueLen)
      BY <2>1 DEF Post
    <3> HIDE DEF all
    <3>2. 1 \in Int /\ QueueLen \in Int /\ 1 <= QueueLen
      BY <1>2
    <3>3. \A i \in 1..QueueLen : all[i] \in Actions
      BY <1>1, <1>2, <2>1, ElementOfSeq
    <3>4. /\ ui_events' \in Seq(Actions) /\ Len(ui_events') = QueueLen
          /\ \A i \in 1..QueueLen : ui_events'[i] = all[i]
      BY <3>1, <3>2, <3>3, SubSeqProperties
    <3> QED
      BY <1>2, <2>1, <3>4
  <2>2. CASE ~(Len(all) > QueueLen)
    <3>1. ui_events' = all
      BY <2>2 DEF Post
    <3> HIDE DEF all
    <3> QED
      BY <1>1, <1>2, <3>1
  <2> QED
    BY <2>1, <2>2
<1> HIDE DEF all
<1> QED
  BY <1>1, <1>2, <1>3

\* What the queue holds after an action was taken from it.
LEMMA TakenFrom ==
  ASSUME QueueOK, ui_events # <<>>, ui_events' = Tail(ui_events)
  PROVE  /\ \A i \in 1..Len(ui_events') : i + 1 \in 1..Len(ui_events) /\ ui_events'[i] = ui_events[i + 1]
         /\ 1 \in 1..Len(ui_events) /\ Head(ui_events) = ui_events[1]
         /\ \A a : Queued(a)' => Queued(a)
<1>1. ui_events \in Seq(Actions) /\ Len(ui_events) \in Nat /\ Len(ui_events) > 0
  BY DEF QueueOK
<1>2. Len(ui_events') = Len(ui_events) - 1 /\ \A i \in 1..Len(ui_events') : ui_events'[i] = ui_events[i + 1]
  BY <1>1
<1>3. \A i \in 1..Len(ui_events') : i + 1 \in 1..Len(ui_events) /\ ui_events'[i] = ui_events[i + 1]
  BY <1>1, <1>2
<1>4. 1 \in 1..Len(ui_events) /\ Head(ui_events) = ui_events[1]
  BY <1>1
<1> QED
  BY <1>3, <1>4 DEF Queued

\* What the invariant of the shell says of the input side.
LEMMA InputFacts ==
  ASSUME ShellInv
  PROVE  /\ QueueOK /\ down \subseteq Keys /\ indev \in Keypad /\ RowsOnlyInSettings
         /\ inbox # <<>> => Head(inbox) \in Event
         /\ phase \in {"scan", "tick", "lvgl", "sleep"}
         /\ s_attached_group \in {"none", "menu", "tabs", "rows"}
         /\ boot # Off <=> s_frame_stack = <<>>
<1>1. inbox \in Seq(Event) /\ Len(inbox) <= 1
  BY DEF ShellInv, InputTypes, KeysOK
<1>2. inbox # <<>> => Head(inbox) \in Event
  BY <1>1, HeadTailProperties
<1> QED
  BY <1>2 DEF ShellInv, InputTypes, KeysOK, LvglOK, Fits, Screens, ShownFrames

\* What a scan without a second key finds.
LEMMA ScanFinds ==
  ASSUME ShellInv, ShellInv', OneKeyInv, OneKey, OneKey', NEW k \in Keys, KeyChange(k), phase = "scan"
  PROVE  /\ inbox' = <<[key |-> k, pressed |-> k \notin down]>> /\ changed' = {k}
         /\ k \notin {"UP", "DOWN"} /\ k \notin changed
         /\ (k \in down /\ down = {k} /\ down' = {}) \/ (k \notin down /\ down = {} /\ down' = {k})
<1>1. /\ \A i, j \in down : i = j
      /\ \A i, j \in down' : i = j
      /\ {"UP", "DOWN"} \cap (down \cup down') = {}
  <2>1. down \in SUBSET Keys /\ down' \in SUBSET Keys
    BY DEF ShellInv, InputTypes, KeysOK
  <2>2. (\A i, j \in down : i = j) /\ "UP" \notin down /\ "DOWN" \notin down
    BY <2>1, KeysAlone DEF OneKey
  <2>3. (\A i, j \in down' : i = j) /\ "UP" \notin down' /\ "DOWN" \notin down'
    BY <2>1, KeysAlone DEF OneKey
  <2> QED
    BY <2>2, <2>3
<1>2. CASE k \in down
  <2>1. down' = down \ {k} /\ down = {k}
    BY <1>1, <1>2 DEF KeyChange
  <2> QED
    BY <1>1, <1>2, <2>1 DEF KeyChange
<1>3. CASE k \notin down
  <2>1. down' = down \cup {k} /\ k \in down'
    BY <1>3 DEF KeyChange
  <2>2. down = {} /\ down' = {k}
    BY <1>1, <1>3, <2>1
  <2> QED
    BY <1>1, <1>3, <2>1, <2>2 DEF KeyChange
<1> QED
  BY <1>2, <1>3

\* The scanned key.
LEMMA InboxStep ==
  ASSUME ShellInv, ShellInv', OneKeyInv, OneKey, OneKey', [Next]_vars
  PROVE  InboxAgrees'
<1> USE DEF inputVars
<1>1. CASE Scan
  <2>1. inbox = <<>> /\ phase = "scan" /\ phase' = "tick"
    BY <1>1 DEF Scan, OneKeyInv, InboxAgrees
  <2>2. ASSUME NEW k \in Keys, KeyChange(k) PROVE InboxAgrees'
    <3>1. inbox' = <<[key |-> k, pressed |-> k \notin down]>>
      BY <2>1, <2>2, ScanFinds
    <3>2. Head(inbox').key = k /\ Head(inbox').pressed = (k \notin down)
      BY <3>1
    <3> QED
      BY <2>1, <2>2, <3>2, ScanFinds DEF InboxAgrees
  <2> QED
    BY <1>1, <2>1, <2>2 DEF Scan, InboxAgrees
<1>2. CASE Deliver
  BY <1>2 DEF Deliver, InboxAgrees
<1>3. CASE Sleep
  BY <1>3 DEF Sleep, InboxAgrees
<1>4. CASE Drain \/ EndTick \/ boot_timer_cb \/ dismiss_cb \/ KeyInput \/ Encoder \/ UNCHANGED vars
  <2>1. UNCHANGED <<inbox, changed, down>> /\ (phase' = "scan" => phase = "scan")
    BY <1>4 DEF Drain, EndTick, boot_timer_cb, dismiss_cb, KeyInput, Encoder, vars
  <2> QED
    BY <2>1 DEF OneKeyInv, InboxAgrees
<1> QED
  BY <1>1, <1>2, <1>3, <1>4 DEF Next, Pass

\* What a turn of the encoder adds to the queue.
LEMMA EncoderAdds ==
  ASSUME QueueOK, NEW n \in 1..Detents, Post([i \in 1..n |-> "ENCODER"])
  PROVE  /\ Len(ui_events) \in Nat /\ Len(ui_events') \in Nat
         /\ \A i \in 1..Len(ui_events) : ui_events'[i] = ui_events[i]
         /\ \A i \in 1..Len(ui_events') : i > Len(ui_events) => ui_events'[i] = "ENCODER"
         /\ \A a : Queued(a)' => Queued(a) \/ a = "ENCODER"
<1> DEFINE actions == [i \in 1..n |-> "ENCODER"]
<1>1. actions \in Seq(Actions) /\ Len(actions) \in Nat /\ \A i \in 1..Len(actions) : actions[i] = "ENCODER"
  <2>1. n \in Nat /\ "ENCODER" \in Actions
    BY ShellAssumption DEF Actions
  <2> QED
    BY <2>1
<1>2. Post(actions)
  OBVIOUS
<1> HIDE DEF actions
<1>3. /\ ui_events' \in Seq(Actions)
      /\ \A i \in 1..Len(ui_events) : ui_events'[i] = ui_events[i]
      /\ \A i \in 1..Len(ui_events') :
           i > Len(ui_events) =>
             i - Len(ui_events) \in 1..Len(actions) /\ ui_events'[i] = actions[i - Len(ui_events)]
  BY <1>1, <1>2, PostAdds
<1>4. \A i \in 1..Len(ui_events') : i > Len(ui_events) => ui_events'[i] = "ENCODER"
  <2> SUFFICES ASSUME NEW i \in 1..Len(ui_events'), i > Len(ui_events)
               PROVE  ui_events'[i] = "ENCODER"
    OBVIOUS
  <2>1. i - Len(ui_events) \in 1..Len(actions) /\ ui_events'[i] = actions[i - Len(ui_events)]
    BY <1>3
  <2> QED
    BY <1>1, <2>1
<1>5. Len(ui_events) \in Nat /\ Len(ui_events') \in Nat
  BY <1>3 DEF QueueOK
<1>6. ASSUME NEW a, Queued(a)', ~Queued(a) PROVE a = "ENCODER"
  <2>1. PICK i \in 1..Len(ui_events') : ui_events'[i] = a
    BY <1>6 DEF Queued
  <2> QED
    BY <1>3, <1>4, <1>5, <1>6, <2>1 DEF Queued
<1> QED
  BY <1>3, <1>4, <1>5, <1>6

\* What a key posts.
LEMMA PostedOne ==
  ASSUME NEW e \in Event, e.key \notin {"UP", "DOWN"}
  PROVE  /\ PostedBy(e) \in Seq(Actions) /\ Len(PostedBy(e)) \in {0, 1}
         /\ Len(PostedBy(e)) = 1 =>
              \/ PostedBy(e)[1] = "SK1"
              \/ e.pressed /\ PostedBy(e)[1] = e.key /\ e.key \in {"OK", "BACK", "SK2", "DIGIT"}
<1>1. PostedBy(e) \in Seq(Actions)
  BY PostedOK
<1>2. PostedBy(e) = <<>> \/ PostedBy(e) = <<"SK1">> \/ (PostedBy(e) = <<e.key>> /\ e.pressed /\ e.key # "SK1")
  BY DEF PostedBy
<1>3. e.key \in AllKeys
  BY DEF Event
<1> QED
  BY <1>1, <1>2, <1>3 DEF AllKeys

\* The screens' actions.
LEMMA Forwarded ==
  ASSUME NEW a, Forward(a)
  PROVE  /\ UNCHANGED <<menuVars, s_in_rows_level>>
         /\ \/ ForwardsTo("FM_VFO") /\ fm_vfo_handle_action(a)
            \/ ForwardsTo("FM_CHANNEL") /\ fm_channel_handle_action(a)
            \/ ForwardsTo("ZONES") /\ zones_handle_action(a)
            \/ Ignored
  BY DEF Forward

\* No scan is started or stopped: there is no long press of Up.
LEMMA DrainScan ==
  ASSUME Drain, scan = "NONE", Head(ui_events) # "SCAN_START"
  PROVE  scan' = "NONE"
<1> DEFINE a == Head(ui_events)
<1> USE DEF frameVars, menuVars, rootVars
<1>1. dispatch_action(a) /\ ~scan_intercept_action(a)
  BY DEF Drain, scan_intercept_action
<1>2. CASE a = "BACK"
  <2>1. Back
    BY <1>1, <1>2 DEF dispatch_action
  <2> QED
    BY <2>1 DEF Back, CloseMenu, screen_settings_exit_rows_level, CancelEntry, ToggleRoot, LeaveFrame
<1>3. CASE a = "SK1"
  BY <1>1, <1>3 DEF dispatch_action, ShowMenu
<1>4. CASE a = "SK2"
  BY <1>1, <1>4 DEF dispatch_action, OpenZones
<1>5. CASE a \notin {"BACK", "SK1", "SK2"}
  <2>1. Forward(a)
    BY <1>1, <1>5 DEF dispatch_action
  <2>2. CASE fm_vfo_handle_action(a)
    <3>1. OpenSettings \/ EntryDigit \/ Ignored
      BY <2>2 DEF fm_vfo_handle_action
    <3> QED
      BY <3>1 DEF OpenSettings, EntryDigit, Ignored
  <2>3. CASE fm_channel_handle_action(a)
    <3>1. OpenSettings \/ EntryDigit \/ Ignored \/ scan' = scan
      BY <2>3 DEF fm_channel_handle_action
    <3> QED
      BY <3>1 DEF OpenSettings, EntryDigit, Ignored
  <2>4. CASE zones_handle_action(a) \/ Ignored
    BY <2>4 DEF zones_handle_action, Ignored
  <2> QED
    BY <2>1, <2>2, <2>3, <2>4, Forwarded
<1> QED
  BY <1>2, <1>3, <1>4, <1>5

\* The queue.
LEMMA QueueStep ==
  ASSUME ShellInv, ShellInv', OneKeyInv, OneKey, OneKey', [Next]_vars
  PROVE  QueueAgrees'
<1> USE DEF inputVars
<1>0. QueueAgrees /\ QueueOK /\ InboxAgrees
  BY InputFacts DEF OneKeyInv
<1>1. CASE Scan
  <2>1. inbox = <<>> /\ phase = "scan" /\ phase' = "tick" /\ UNCHANGED <<ui_events, scan>>
    BY <1>0, <1>1 DEF Scan, InboxAgrees, rootVars
  <2>2. ASSUME NEW k \in Keys, KeyChange(k) PROVE QueueAgrees'
    <3>1. \A q \in {"OK", "BACK", "SK2", "DIGIT"} : ~Queued(q)
      BY <1>0, <2>1, <2>2, ScanFinds DEF QueueAgrees
    <3> QED
      BY <1>0, <2>1, <3>1 DEF QueueAgrees, Queued
  <2>3. ASSUME UNCHANGED <<down, inbox>> PROVE QueueAgrees'
    BY <1>0, <2>1, <2>3 DEF QueueAgrees, Queued
  <2> QED
    BY <1>1, <2>2, <2>3 DEF Scan
<1>2. CASE Drain
  <2>1. UNCHANGED <<down, changed, inbox, phase>> /\ ui_events' = Tail(ui_events) /\ ui_events # <<>>
    BY <1>2 DEF Drain
  <2>2. Queued(Head(ui_events)) /\ \A a : Queued(a)' => Queued(a)
    BY <1>0, <2>1, TakenFrom DEF Queued
  <2>3. scan' = "NONE"
    BY <1>0, <1>2, <2>2, DrainScan DEF QueueAgrees
  <2>4. \A i, j \in 1..Len(ui_events') : i < j /\ ui_events'[i] = "OK" => ui_events'[j] = "ENCODER"
    BY <1>0, <2>1, TakenFrom DEF QueueAgrees
  <2> QED
    BY <1>0, <2>1, <2>2, <2>3, <2>4 DEF QueueAgrees
<1>3. CASE Deliver
  <2> DEFINE e == Head(inbox)
  <2>1. inbox # <<>> /\ inbox' = <<>> /\ UNCHANGED <<down, changed, phase, scan>> /\ Post(PostedBy(e))
    BY <1>3 DEF Deliver, handle_key_event, rootVars
  <2>2. e \in Event /\ e.key \notin {"UP", "DOWN"} /\ ~Queued("OK")
    BY <1>0, <2>1, InputFacts DEF InboxAgrees, QueueAgrees
  <2>3. e.pressed => down = {e.key} /\ changed = {e.key}
    BY <1>0, <2>1 DEF InboxAgrees
  <2> DEFINE actions == PostedBy(e)
  <2>4. /\ actions \in Seq(Actions) /\ Len(actions) \in {0, 1}
        /\ Len(actions) = 1 => \/ actions[1] = "SK1"
                               \/ e.pressed /\ actions[1] = e.key /\ e.key \in {"OK", "BACK", "SK2", "DIGIT"}
    BY <2>2, PostedOne
  <2>5. Post(actions)
    BY <2>1
  <2> HIDE DEF actions, e
  <2>6. /\ Len(ui_events) \in Nat /\ Len(ui_events') \in Nat
        /\ \A i \in 1..Len(ui_events) : ui_events'[i] = ui_events[i]
        /\ \A i \in 1..Len(ui_events') :
             i > Len(ui_events) => i = Len(ui_events) + 1 /\ Len(actions) = 1 /\ ui_events'[i] = actions[1]
    BY <1>0, <2>4, <2>5, PostAdds DEF QueueOK
  <2>7. \A a : Queued(a)' =>
          \/ Queued(a) \/ a = "SK1"
          \/ e.pressed /\ a = e.key /\ e.key \in {"OK", "BACK", "SK2", "DIGIT"}
    <3> SUFFICES ASSUME NEW a, Queued(a)', ~Queued(a)
                 PROVE  a = "SK1" \/ (e.pressed /\ a = e.key /\ e.key \in {"OK", "BACK", "SK2", "DIGIT"})
      OBVIOUS
    <3>1. PICK i \in 1..Len(ui_events') : ui_events'[i] = a
      BY DEF Queued
    <3>2. i > Len(ui_events)
      BY <2>6, <3>1 DEF Queued
    <3> QED
      BY <2>4, <2>6, <3>1, <3>2
  <2>8. \A i, j \in 1..Len(ui_events') : i < j /\ ui_events'[i] = "OK" => ui_events'[j] = "ENCODER"
    BY <2>2, <2>6 DEF Queued
  <2> QED
    BY <1>0, <2>1, <2>3, <2>7, <2>8 DEF QueueAgrees
<1>4. CASE Encoder
  <2>1. PICK n \in 1..Detents : Post([i \in 1..n |-> "ENCODER"])
    BY <1>4 DEF Encoder
  <2>3. UNCHANGED <<down, changed, inbox, phase, scan>>
    BY <1>4 DEF Encoder, rootVars
  <2>4. /\ Len(ui_events) \in Nat /\ Len(ui_events') \in Nat
        /\ \A i \in 1..Len(ui_events) : ui_events'[i] = ui_events[i]
        /\ \A i \in 1..Len(ui_events') : i > Len(ui_events) => ui_events'[i] = "ENCODER"
        /\ \A a : Queued(a)' => Queued(a) \/ a = "ENCODER"
    BY <1>0, <2>1, EncoderAdds
  <2>6. \A i, j \in 1..Len(ui_events') : i < j /\ ui_events'[i] = "OK" => ui_events'[j] = "ENCODER"
    <3> SUFFICES ASSUME NEW i \in 1..Len(ui_events'), NEW j \in 1..Len(ui_events'), i < j,
                        ui_events'[i] = "OK"
                 PROVE  ui_events'[j] = "ENCODER"
      OBVIOUS
    <3>1. i \in 1..Len(ui_events) /\ ui_events[i] = "OK"
      BY <2>4
    <3>2. CASE j > Len(ui_events)
      BY <2>4, <3>2
    <3>3. CASE ~(j > Len(ui_events))
      BY <1>0, <2>4, <3>1, <3>3 DEF QueueAgrees
    <3> QED
      BY <3>2, <3>3
  <2> QED
    BY <1>0, <2>3, <2>4, <2>6 DEF QueueAgrees
<1>5. CASE EndTick
  <2>1. ui_events' = <<>> /\ scan' = scan
    BY <1>5 DEF EndTick, rootVars
  <2> QED
    BY <1>0, <2>1 DEF QueueAgrees, Queued
<1>6. CASE boot_timer_cb \/ dismiss_cb \/ KeyInput \/ Sleep \/ UNCHANGED vars
  <2>1. /\ UNCHANGED <<ui_events, scan, down, changed, inbox>>
        /\ phase # "tick" \/ phase' = phase
    BY <1>6 DEF boot_timer_cb, dismiss_cb, KeyInput, Sleep, vars, rootVars
  <2> QED
    BY <1>0, <2>1 DEF QueueAgrees, Queued
<1> QED
  BY <1>1, <1>2, <1>3, <1>4, <1>5, <1>6 DEF Next, Pass

\* What an update of the keypad's group does to LVGL.
LEMMA AttachFacts ==
  ASSUME indev \in Keypad, EndTick
  PROVE  /\ phase = "tick" /\ phase' = "lvgl" /\ s_attached_group' = TargetGroup
         /\ UNCHANGED <<inbox, down, changed, acted>>
         /\ indev'.events = indev.events /\ indev'.last = indev.last /\ indev'.key = indev.key
         /\ indev'.pressed = indev.pressed /\ (indev.wait => indev'.wait)
         /\ \/ TargetGroup = s_attached_group
            \/ TargetGroup = "none"
            \/ indev'.wait
<1>1. \/ TargetGroup = s_attached_group /\ s_attached_group' = s_attached_group /\ indev' = indev
      \/ s_attached_group' = TargetGroup /\ indev' = [indev EXCEPT !.wait = @ \/ TargetGroup # "none"]
  BY DEF EndTick, update_indev_group_attachment, lvglVars
<1>2. CASE TargetGroup = s_attached_group /\ s_attached_group' = s_attached_group /\ indev' = indev
  BY <1>2 DEF EndTick, inputVars
<1>3. CASE s_attached_group' = TargetGroup /\ indev' = [indev EXCEPT !.wait = @ \/ TargetGroup # "none"]
  <2> DEFINE w == indev.wait \/ TargetGroup # "none"
  <2>1. indev' = [indev EXCEPT !.wait = w]
    BY <1>3
  <2>2. (indev.wait => w) /\ (TargetGroup = "none" \/ w)
    OBVIOUS
  <2> HIDE DEF w
  <2>3. /\ indev'.events = indev.events /\ indev'.last = indev.last /\ indev'.key = indev.key
        /\ indev'.pressed = indev.pressed /\ indev'.wait = w
    BY <2>1 DEF Keypad
  <2> QED
    BY <1>3, <2>2, <2>3 DEF EndTick, inputVars
<1> QED
  BY <1>1, <1>2, <1>3

\* Nothing follows a single event.
LEMMA TailOfOne ==
  ASSUME NEW es \in Seq(LvglEvent), Len(es) <= 1, es # <<>>
  PROVE  Tail(es) = <<>>
<1>1. PICK n \in Nat : n = Len(es) /\ n # 0
  BY EmptySeq, LenProperties
<1>2. n = 1
  BY <1>1
<1>3. Tail(es) \in Seq(LvglEvent) /\ Len(Tail(es)) = Len(es) - 1
  BY HeadTailProperties
<1>4. Len(Tail(es)) = 0
  BY <1>1, <1>2, <1>3
<1> QED
  BY <1>3, <1>4, EmptySeq

\* What LVGL reads with one event at most, all of OK.
LEMMA ReadFacts ==
  ASSUME indev \in Keypad, LvglAgrees, KeyInput, NEW e, e = NextEvent
  PROVE  /\ indev'.events = <<>> /\ indev'.last = e /\ indev'.key = "OK" /\ e.key = "OK"
         /\ e.pressed \in BOOLEAN
         /\ s_attached_group # "none" /\ ~e.pressed => ~indev'.pressed
         /\ indev.wait /\ e.pressed => indev'.wait
         /\ UNCHANGED <<inbox, down, changed, s_attached_group, acted>>
<1>1. indev' = AfterRead(e)
  BY DEF KeyInput
<1>2. indev.events \in Seq(LvglEvent) /\ Len(indev.events) <= 1 /\ e \in LvglEvent
  <2>1. indev.events \in Seq(LvglEvent) /\ indev.last \in LvglEvent
    BY DEF Keypad
  <2> QED
    BY <2>1, HeadTailProperties DEF LvglAgrees, NextEvent
<1>3. e.key = "OK" /\ e.pressed \in BOOLEAN
  BY <1>2 DEF LvglAgrees, NextEvent, LvglEvent
<1>4. indev.events # <<>> => Tail(indev.events) = <<>>
  BY <1>2, TailOfOne
<1> DEFINE unwaited == IF Skipped(e) THEN indev
                       ELSE [indev EXCEPT !.wait = FALSE, !.pressed = WasPressed]
           seen == IF Seen(e) THEN [unwaited EXCEPT !.key = e.key, !.pressed = e.pressed]
                   ELSE unwaited
           es == IF indev.events = <<>> THEN <<>> ELSE Tail(indev.events)
<1>5. /\ unwaited \in Keypad /\ unwaited.events = indev.events /\ unwaited.key = indev.key
      /\ Skipped(e) => unwaited = indev
  <2>1. WasPressed \in BOOLEAN
    BY DEF WasPressed, Keypad
  <2>2. CASE Skipped(e)
    BY <2>2
  <2>3. CASE ~Skipped(e)
    <3>1. unwaited = [indev EXCEPT !.wait = FALSE, !.pressed = WasPressed]
      BY <2>3
    <3> HIDE DEF unwaited
    <3> QED
      BY <2>1, <2>3, <3>1 DEF Keypad
  <2> QED
    BY <2>2, <2>3
<1>6. /\ seen \in Keypad /\ seen.events = indev.events /\ seen.key = "OK"
      /\ Seen(e) => seen.pressed = e.pressed
      /\ Skipped(e) => seen = indev
  <2> HIDE DEF unwaited
  <2>1. CASE Seen(e)
    <3>1. seen = [unwaited EXCEPT !.key = e.key, !.pressed = e.pressed]
      BY <2>1
    <3> HIDE DEF seen
    <3>2. seen \in Keypad /\ seen.events = indev.events /\ seen.key = "OK" /\ seen.pressed = e.pressed
      BY <1>2, <1>3, <1>5, <3>1 DEF Keypad, LvglEvent
    <3> QED
      BY <2>1, <3>2 DEF Seen
  <2>2. CASE ~Seen(e)
    <3>1. seen = unwaited
      BY <2>2
    <3> HIDE DEF seen
    <3> QED
      BY <1>5, <2>2, <3>1 DEF LvglAgrees
  <2> QED
    BY <2>1, <2>2
<1>7. indev' = [seen EXCEPT !.last = e, !.events = es]
  <2>1. indev' = [seen EXCEPT !.last = e, !.events = IF @ = <<>> THEN <<>> ELSE Tail(@)]
    BY <1>1 DEF AfterRead
  <2> HIDE DEF seen
  <2> QED
    BY <1>6, <2>1
<1>8. es = <<>>
  BY <1>4
<1> HIDE DEF seen, es, unwaited
<1>9. /\ indev'.events = <<>> /\ indev'.last = e /\ indev'.key = "OK"
      /\ indev'.pressed = seen.pressed /\ indev'.wait = seen.wait
  BY <1>6, <1>7, <1>8 DEF Keypad
<1>10. s_attached_group # "none" /\ ~e.pressed => Seen(e)
  BY DEF Seen, Skipped
<1>11. indev.wait /\ e.pressed => Skipped(e)
  BY DEF Skipped
<1>12. UNCHANGED <<inbox, down, changed, s_attached_group, acted>>
  BY DEF KeyInput, inputVars
<1> QED
  BY <1>3, <1>6, <1>9, <1>10, <1>11, <1>12

\* What a key event brings LVGL.
LEMMA DeliverFacts ==
  ASSUME ShellInv, OneKeyInv, Deliver, NEW e, e = Head(inbox)
  PROVE  /\ inbox # <<>> /\ inbox' = <<>> /\ e \in Event
         /\ UNCHANGED <<down, changed, phase, s_attached_group, menu, s_frame_stack, s_in_rows_level>>
         /\ indev'.last = indev.last /\ indev'.key = indev.key
         /\ indev'.pressed = indev.pressed /\ indev'.wait = indev.wait
         /\ e.key # "OK" => ~OkComes /\ indev' = indev /\ (acted' => acted)
         /\ e.key = "OK" =>
              /\ OkComes /\ indev.events = <<>> /\ indev'.events = <<e>> /\ changed = {"OK"}
              /\ down = IF e.pressed THEN {"OK"} ELSE {}
              /\ acted' => acted /\ ~e.pressed
<1>1. inbox # <<>> /\ inbox' = <<>> /\ e \in Event
      /\ UNCHANGED <<down, changed, phase, s_attached_group, menu, s_frame_stack, s_in_rows_level>>
  BY InputFacts DEF Deliver, frameVars, menuVars
<1>2. acted' = (acted /\ e # [key |-> "OK", pressed |-> TRUE]) /\ lvgl_keypad_event(e)
  BY DEF Deliver
<1>3. e.key \notin {"UP", "DOWN"} /\ changed = {e.key}
      /\ down = IF e.pressed THEN {e.key} ELSE {}
  BY <1>1 DEF OneKeyInv, InboxAgrees
<1>4. CASE e.key # "OK"
  <2>1. indev' = indev
    BY <1>2, <1>3, <1>4 DEF lvgl_keypad_event, LvglKeys
  <2> QED
    BY <1>1, <1>2, <1>4, <2>1 DEF OkComes
<1>5. CASE e.key = "OK"
  <2>1. OkComes /\ indev.events = <<>>
    BY <1>1, <1>5 DEF OneKeyInv, LvglAgrees, OkComes
  <2>2. indev' = [indev EXCEPT !.events = Append(indev.events, e)]
    BY <1>2, <1>5 DEF lvgl_keypad_event, LvglKeys
  <2>3. Append(indev.events, e) = <<e>>
    BY <2>1
  <2>4. indev' = [indev EXCEPT !.events = <<e>>]
    BY <2>2, <2>3
  <2>5. /\ indev'.events = <<e>> /\ indev'.last = indev.last /\ indev'.key = indev.key
        /\ indev'.pressed = indev.pressed /\ indev'.wait = indev.wait
    BY <2>4, InputFacts DEF Keypad
  <2>6. e.pressed => e = [key |-> "OK", pressed |-> TRUE]
    BY <1>1, <1>5 DEF Event
  <2> QED
    BY <1>1, <1>2, <1>3, <1>5, <2>1, <2>5, <2>6
<1> QED
  BY <1>4, <1>5

\* LVGL.
LEMMA LvglStep ==
  ASSUME ShellInv, ShellInv', OneKeyInv, OneKey, OneKey', [Next]_vars
  PROVE  LvglAgrees'
<1>0. LvglAgrees /\ InboxAgrees /\ indev \in Keypad
  BY InputFacts DEF OneKeyInv
<1>1. CASE Scan
  <2>1. inbox = <<>> /\ phase = "scan" /\ phase' = "tick" /\ UNCHANGED <<indev, s_attached_group>>
    BY <1>0, <1>1 DEF Scan, InboxAgrees, lvglVars
  <2>2. ASSUME NEW k \in Keys, KeyChange(k) PROVE LvglAgrees'
    <3>1. inbox' = <<[key |-> k, pressed |-> k \notin down]>>
      BY <2>1, <2>2, ScanFinds
    <3>2. inbox' # <<>> /\ Head(inbox').key = k
      BY <3>1
    <3>3. OkComes' <=> k = "OK"
      BY <3>2 DEF OkComes
    <3>4. "OK" \in down' <=> (("OK" \in down) <=> k # "OK")
      BY <2>1, <2>2, ScanFinds
    <3>5. ~OkComes /\ (indev.events # <<>> => k # "OK")
      BY <1>0, <2>1, <2>2, ScanFinds DEF OkComes, LvglAgrees
    <3>6. indev'.events = indev.events /\ indev'.last = indev.last /\ indev'.key = indev.key
          /\ indev'.pressed = indev.pressed /\ indev'.wait = indev.wait
      BY <2>1
    <3> QED
      BY <1>0, <2>1, <3>3, <3>4, <3>5, <3>6 DEF LvglAgrees
  <2>3. ASSUME UNCHANGED <<down, inbox>> PROVE LvglAgrees'
    BY <1>0, <2>1, <2>3 DEF LvglAgrees, OkComes
  <2> QED
    BY <1>1, <2>2, <2>3 DEF Scan
<1>2. CASE Deliver
  <2> DEFINE e == Head(inbox)
  <2>1. ~OkComes'
    BY <1>2, DeliverFacts DEF OkComes
  <2>2. CASE e.key # "OK"
    BY <1>0, <1>2, <2>1, <2>2, DeliverFacts DEF LvglAgrees
  <2>3. CASE e.key = "OK"
    <3>1. indev'.events = <<e>> /\ changed' = {"OK"} /\ down' = (IF e.pressed THEN {"OK"} ELSE {})
          /\ down' = down /\ OkComes /\ indev.events = <<>>
      BY <1>2, <2>3, DeliverFacts
    <3>2. indev'.events # <<>> /\ Len(indev'.events) = 1 /\ Head(indev'.events) = e
      BY <3>1
    <3> HIDE DEF e
    <3>3. "OK" \in down' <=> e.pressed
      BY <3>1
    <3> QED
      BY <1>0, <1>2, <2>1, <2>3, <3>1, <3>2, <3>3, DeliverFacts DEF LvglAgrees, e
  <2> QED
    BY <2>2, <2>3
<1>3. CASE EndTick
  <2>1. OkComes' <=> OkComes
    BY <1>0, <1>3, AttachFacts DEF OkComes
  <2>2. s_attached_group' # "none" /\ ~indev'.last.pressed => indev'.wait \/ ~indev'.pressed
    BY <1>0, <1>3, AttachFacts DEF LvglAgrees
  <2> QED
    BY <1>0, <1>3, <2>1, <2>2, AttachFacts DEF LvglAgrees
<1>4. CASE KeyInput
  <2>1. PICK e : e = NextEvent
    OBVIOUS
  <2>2. OkComes' <=> OkComes
    BY <1>0, <1>4, <2>1, ReadFacts DEF OkComes
  <2>3. indev'.last.pressed <=> (("OK" \in down') <=> (indev'.events = <<>> /\ ~OkComes'))
    <3>1. indev'.last = e /\ indev'.events = <<>> /\ down' = down
      BY <1>0, <1>4, <2>1, ReadFacts
    <3>2. CASE indev.events = <<>>
      <4>1. e = indev.last
        BY <2>1, <3>2 DEF NextEvent
      <4> QED
        BY <1>0, <2>2, <3>1, <3>2, <4>1 DEF LvglAgrees
    <3>3. CASE indev.events # <<>>
      <4>1. e = Head(indev.events)
        BY <2>1, <3>3 DEF NextEvent
      <4> QED
        BY <1>0, <2>2, <3>1, <3>3, <4>1 DEF LvglAgrees
    <3> QED
      BY <3>2, <3>3
  <2>4. Len(indev'.events) <= 1
    <3>1. indev'.events = <<>> /\ Len(<<>>) <= 1
      BY <1>0, <1>4, <2>1, ReadFacts
    <3> QED
      BY <3>1
  <2> QED
    BY <1>0, <1>4, <2>1, <2>3, <2>4, ReadFacts DEF LvglAgrees
<1>5. CASE Drain \/ boot_timer_cb \/ dismiss_cb \/ Sleep \/ Encoder \/ UNCHANGED vars
  <2>1. /\ UNCHANGED <<indev, s_attached_group, inbox, down, changed>>
        /\ phase \in {"tick", "lvgl"} => phase' = phase
    BY <1>5 DEF Drain, boot_timer_cb, dismiss_cb, Sleep, Encoder, vars, inputVars, lvglVars
  <2>2. OkComes' <=> OkComes
    BY <2>1 DEF OkComes
  <2> QED
    BY <1>0, <2>1, <2>2 DEF LvglAgrees
<1> QED
  BY <1>1, <1>2, <1>3, <1>4, <1>5 DEF Next, Pass

\* Settings is only left by Back.
LEMMA DrainLeaves ==
  ASSUME Drain, scan = "NONE", OnTop("SETTINGS"), ~OnTop("SETTINGS")'
  PROVE  Head(ui_events) = "BACK"
<1> DEFINE a == Head(ui_events)
<1> USE DEF frameVars
<1>1. dispatch_action(a) /\ ~scan_intercept_action(a)
  BY DEF Drain, scan_intercept_action
<1>2. UNCHANGED s_frame_stack => FALSE
  BY DEF OnTop, Top
<1>3. CASE a = "SK1"
  BY <1>1, <1>2, <1>3 DEF dispatch_action, ShowMenu
<1>4. CASE a = "SK2"
  BY <1>1, <1>2, <1>4 DEF dispatch_action, OpenZones, OnTop
<1>5. CASE a \notin {"BACK", "SK1", "SK2"}
  <2>1. Forward(a)
    BY <1>1, <1>5 DEF dispatch_action
  <2> QED
    BY <1>2, <2>1, Forwarded DEF ForwardsTo, OnTop, Ignored
<1> QED
  BY <1>3, <1>4, <1>5

\* Leaving Settings.
LEMMA TabsStep ==
  ASSUME ShellInv, ShellInv', OneKeyInv, OneKey, OneKey', [Next]_vars
  PROVE  TabsAgree'
<1>0. TabsAgree /\ QueueAgrees /\ InboxAgrees /\ QueueOK
  BY InputFacts DEF OneKeyInv
<1>1. CASE Drain
  <2>1. /\ UNCHANGED <<inbox, phase, s_attached_group>> /\ phase = "tick"
        /\ ui_events # <<>> /\ ui_events' = Tail(ui_events)
    BY <1>1 DEF Drain, inputVars, lvglVars
  <2>2. Queued(Head(ui_events)) /\ \A a : Queued(a)' => Queued(a)
    BY <1>0, <2>1, TakenFrom DEF Queued
  <2>3. CASE OnTop("SETTINGS") /\ ~OnTop("SETTINGS")'
    <3>1. "BACK" \in down
      BY <1>0, <1>1, <2>2, <2>3, DrainLeaves DEF QueueAgrees
    <3>2. "OK" \notin down
      <4>1. down \in SUBSET Keys
        BY DEF ShellInv, InputTypes, KeysOK
      <4>2. \A j, k \in down : j = k
        BY <4>1, KeysAlone DEF OneKey
      <4> QED
        BY <3>1, <4>2
    <3>3. ~Queued("OK") /\ ~(OkComes /\ Head(inbox).pressed)
      BY <1>0, <3>2 DEF QueueAgrees, InboxAgrees, OkComes
    <3>4. ~(OkComes /\ Head(inbox).pressed)'
      BY <2>1, <3>3 DEF OkComes
    <3> QED
      BY <2>1, <2>2, <3>3, <3>4 DEF TabsAgree
  <2>4. CASE ~OnTop("SETTINGS")
    <3>1. OkComes' <=> OkComes
      BY <2>1 DEF OkComes
    <3> QED
      BY <1>0, <2>1, <2>2, <2>4, <3>1 DEF TabsAgree
  <2>5. CASE OnTop("SETTINGS")'
    BY <2>5 DEF TabsAgree
  <2> QED
    BY <2>3, <2>4, <2>5
<1>2. CASE EndTick
  <2>1. s_attached_group' = TargetGroup /\ UNCHANGED s_frame_stack
    BY <1>2, InputFacts, AttachFacts DEF EndTick, frameVars
  <2>2. TargetGroup = "tabs" => OnTop("SETTINGS")
    BY DEF TargetGroup
  <2> QED
    BY <2>1, <2>2 DEF TabsAgree, OnTop, Top
<1>3. CASE boot_timer_cb
  <2>1. s_frame_stack = <<>>
    BY <1>3, InputFacts DEF boot_timer_cb, Off
  <2> QED
    BY <1>0, <1>3, <2>1 DEF boot_timer_cb, TabsAgree, OnTop, lvglVars
<1>4. CASE Deliver
  <2> DEFINE e == Head(inbox)
  <2>1. UNCHANGED <<phase, s_attached_group, s_frame_stack>> /\ ~OkComes' /\ e \in Event
    BY <1>4, DeliverFacts DEF OkComes
  <2>2. OnTop("SETTINGS")' <=> OnTop("SETTINGS")
    BY <2>1 DEF OnTop, Top
  <2>3. ASSUME ~Queued("OK"), ~(OkComes /\ e.pressed) PROVE ~Queued("OK")'
    <3>1. Post(PostedBy(e)) /\ e.key \notin {"UP", "DOWN"} /\ inbox # <<>>
      BY <1>0, <1>4 DEF Deliver, handle_key_event, InboxAgrees
    <3> DEFINE actions == PostedBy(e)
    <3>2. /\ actions \in Seq(Actions) /\ Len(actions) \in {0, 1}
          /\ Len(actions) = 1 => actions[1] = "SK1" \/ (e.pressed /\ actions[1] = e.key)
      BY <2>1, <3>1, PostedOne
    <3>3. Post(actions)
      BY <3>1
    <3>4. e.pressed => e.key # "OK"
      BY <2>3, <3>1 DEF OkComes
    <3> HIDE DEF actions, e
    <3>5. Len(actions) = 1 => actions[1] # "OK"
      BY <3>2, <3>4
    <3> QED
      <4> SUFFICES ASSUME NEW i \in 1..Len(ui_events'), ui_events'[i] = "OK" PROVE FALSE
        BY DEF Queued
      <4>1. Len(ui_events) \in Nat /\ Len(ui_events') \in Nat
        BY <1>0, <3>2, <3>3, PostAdds DEF QueueOK
      <4>2. CASE i <= Len(ui_events)
        BY <1>0, <2>3, <3>2, <3>3, <4>1, <4>2, PostAdds DEF Queued
      <4>3. CASE i > Len(ui_events)
        <5>1. i - Len(ui_events) \in 1..Len(actions) /\ ui_events'[i] = actions[i - Len(ui_events)]
          BY <1>0, <3>2, <3>3, <4>3, PostAdds
        <5>2. Len(actions) = 1 /\ i - Len(ui_events) = 1
          BY <3>2, <4>1, <5>1
        <5> QED
          BY <3>5, <5>1, <5>2
      <4> QED
        BY <4>1, <4>2, <4>3
  <2> QED
    BY <1>0, <2>1, <2>2, <2>3 DEF TabsAgree
<1>5. CASE Encoder
  <2>1. UNCHANGED <<phase, s_attached_group, s_frame_stack, inbox>>
    BY <1>5 DEF Encoder, frameVars, lvglVars, inputVars
  <2>2. (OnTop("SETTINGS")' <=> OnTop("SETTINGS")) /\ (OkComes' <=> OkComes)
    BY <2>1 DEF OnTop, Top, OkComes
  <2>3. PICK n \in 1..Detents : Post([i \in 1..n |-> "ENCODER"])
    BY <1>5 DEF Encoder
  <2>4. Queued("OK")' => Queued("OK")
    BY <1>0, <2>3, EncoderAdds
  <2> QED
    BY <1>0, <2>1, <2>2, <2>4 DEF TabsAgree
<1>6. CASE Scan \/ dismiss_cb \/ KeyInput \/ Sleep \/ UNCHANGED vars
  <2>1. /\ UNCHANGED <<s_attached_group, s_frame_stack>>
        /\ phase = "tick" => UNCHANGED <<phase, ui_events, inbox>>
    BY <1>6 DEF Scan, dismiss_cb, KeyInput, Sleep, vars, frameVars, lvglVars, inputVars
  <2>2. OnTop("SETTINGS")' <=> OnTop("SETTINGS")
    BY <2>1 DEF OnTop, Top
  <2> QED
    BY <1>0, <2>1, <2>2 DEF TabsAgree, Queued, OkComes
<1> QED
  BY <1>1, <1>2, <1>3, <1>4, <1>5, <1>6 DEF Next, Pass

\* An OK that does something leaves no group, or one the keypad is not attached to yet.
LEMMA OkActs ==
  ASSUME ShellInv, OneKeyInv, Drain, Head(ui_events) = "OK", acted', s_attached_group # "none"
  PROVE  (TargetGroup # s_attached_group)'
<1> USE DEF frameVars, menuVars, rootVars
<1>1. ui_events # <<>> /\ ui_events' = Tail(ui_events) /\ QueueOK
  BY InputFacts DEF Drain
<1>2. Queued("OK")
  BY <1>1, TakenFrom DEF Queued
<1>3. scan = "NONE"
  BY DEF OneKeyInv, QueueAgrees
<1>4. Forward("OK")
  BY <1>3 DEF Drain, dispatch_action, scan_intercept_action
<1>5. <<frameVars, rootVars>>' # <<frameVars, rootVars>> /\ UNCHANGED s_attached_group
  BY DEF Drain, lvglVars
<1>6. ForwardsTo("FM_VFO") \/ ForwardsTo("FM_CHANNEL") \/ ForwardsTo("ZONES")
  BY <1>4, <1>5, Forwarded DEF Ignored
<1>7. ~menu /\ ~OnTop("SETTINGS")
  BY <1>6 DEF ForwardsTo, OnTop
<1>8. ~s_in_rows_level
  BY <1>7, InputFacts DEF RowsOnlyInSettings
<1>9. UNCHANGED <<menu, s_in_rows_level>>
  BY <1>4, Forwarded
<1>10. TargetGroup' \in {"none", "tabs"}
  BY <1>7, <1>8, <1>9 DEF TargetGroup
<1>11. s_attached_group # "tabs"
  BY <1>2, <1>7 DEF OneKeyInv, TabsAgree
<1> QED
  BY <1>5, <1>10, <1>11

\* The encoder changes no screen while no scan is on.
LEMMA EncoderIgnored ==
  ASSUME Drain, scan = "NONE", Head(ui_events) = "ENCODER"
  PROVE  UNCHANGED <<s_frame_stack, menu, s_in_rows_level>>
<1> USE DEF frameVars, menuVars, rootVars
<1>1. Forward("ENCODER")
  BY DEF Drain, dispatch_action, scan_intercept_action
<1>2. fm_vfo_handle_action("ENCODER") \/ fm_channel_handle_action("ENCODER")
      \/ zones_handle_action("ENCODER") \/ Ignored
  BY <1>1, Forwarded
<1>3. Ignored
  BY <1>2 DEF fm_vfo_handle_action, fm_channel_handle_action, zones_handle_action
<1> QED
  BY <1>1, <1>3, Forwarded DEF Ignored

\* What the keypad reads next is its last event or one that is queued.
LEMMA ReadsOf ==
  ASSUME NextEvent.pressed
  PROVE  indev.last.pressed \/ indev.events # <<>>
  BY DEF NextEvent

\* LVGL waits for the release of an OK that was acted on.
LEMMA ParkedStep ==
  ASSUME ShellInv, ShellInv', OneKeyInv, OneKey, OneKey', [Next]_vars
  PROVE  Parked'
<1> DEFINE Pending == indev.last.pressed \/ indev.events # <<>>
           Waits   == s_attached_group = "none" \/ indev.wait
           Spun    == \A i \in 1..Len(ui_events) : ui_events[i] = "ENCODER"
           Leaves  == phase = "tick" /\ TargetGroup # s_attached_group /\ inbox = <<>> /\ Spun
<1>p. Parked <=> (acted /\ Pending => Waits \/ Leaves)
  BY DEF Parked
<1>q. Parked' <=> (acted' /\ Pending' => Waits' \/ Leaves')
  BY DEF Parked
<1>0. /\ Parked /\ LvglAgrees /\ QueueAgrees /\ InboxAgrees /\ QueueOK /\ indev \in Keypad
      /\ scan = "NONE"
  BY InputFacts DEF OneKeyInv, QueueAgrees
<1>1. CASE Drain
  <2>1. /\ UNCHANGED <<inbox, phase, s_attached_group, indev>> /\ phase = "tick"
        /\ ui_events # <<>> /\ ui_events' = Tail(ui_events)
    BY <1>1 DEF Drain, inputVars, lvglVars
  <2>2. /\ \A i \in 1..Len(ui_events') : i + 1 \in 1..Len(ui_events) /\ ui_events'[i] = ui_events[i + 1]
        /\ 1 \in 1..Len(ui_events) /\ Head(ui_events) = ui_events[1]
    BY <1>0, <2>1, TakenFrom
  <2>3. CASE Head(ui_events) = "OK"
    <3>1. Queued("OK")
      BY <2>2, <2>3 DEF Queued
    <3>2. inbox = <<>>
      BY <1>0, <3>1 DEF QueueAgrees
    <3>3. \A j \in 1..Len(ui_events) : 1 < j => ui_events[j] = "ENCODER"
      BY <1>0, <2>2, <2>3 DEF QueueAgrees
    <3>4. Spun'
      <4> SUFFICES ASSUME NEW i \in 1..Len(ui_events') PROVE ui_events'[i] = "ENCODER"
        OBVIOUS
      <4>1. i + 1 \in 1..Len(ui_events) /\ ui_events'[i] = ui_events[i + 1]
        BY <2>2
      <4>2. i \in Int /\ i >= 1
        OBVIOUS
      <4> QED
        BY <3>3, <4>1, <4>2
    <3>5. acted' /\ ~Waits' => (TargetGroup # s_attached_group)'
      BY <1>1, <2>1, <2>3, OkActs
    <3> QED
      BY <1>q, <2>1, <3>2, <3>4, <3>5
  <2>4. CASE Head(ui_events) # "OK"
    <3>1. acted' = acted
      BY <1>1, <2>4 DEF Drain
    <3>2. (Pending' <=> Pending) /\ (Waits' <=> Waits)
      BY <2>1
    <3>3. ASSUME Leaves PROVE Leaves'
      <4>1. Head(ui_events) = "ENCODER"
        BY <2>2, <3>3
      <4>2. UNCHANGED <<s_frame_stack, menu, s_in_rows_level>>
        BY <1>0, <1>1, <4>1, EncoderIgnored
      <4>3. TargetGroup' = TargetGroup
        BY <4>2 DEF TargetGroup, OnTop, Top
      <4>4. Spun'
        BY <2>2, <3>3
      <4> QED
        BY <2>1, <3>3, <4>3, <4>4
    <3> HIDE DEF Pending, Waits, Leaves, Spun
    <3> QED
      BY <1>0, <1>p, <1>q, <3>1, <3>2, <3>3
  <2> QED
    BY <2>3, <2>4
<1>2. CASE Deliver
  <2>1. PICK e : e = Head(inbox)
    OBVIOUS
  <2>2. ~Leaves
    BY <1>2, DeliverFacts
  <2>3. Waits => Waits'
    BY <1>2, DeliverFacts
  <2>4. ASSUME acted', Pending' PROVE acted /\ Pending
    <3>1. CASE e.key # "OK"
      BY <1>2, <2>1, <2>4, <3>1, DeliverFacts
    <3>2. CASE e.key = "OK"
      <4>1. /\ OkComes /\ acted /\ ~e.pressed
            /\ down = IF e.pressed THEN {"OK"} ELSE {}
        BY <1>2, <2>1, <2>4, <3>2, DeliverFacts
      <4>2. "OK" \notin down
        BY <4>1
      <4> QED
        BY <1>0, <4>1, <4>2 DEF LvglAgrees
    <3> QED
      BY <3>1, <3>2
  <2> HIDE DEF Pending, Waits, Leaves
  <2> QED
    BY <1>0, <1>p, <1>q, <2>2, <2>3, <2>4
<1>3. CASE Encoder
  <2>1. UNCHANGED <<inbox, phase, s_attached_group, indev, acted, s_frame_stack, menu, s_in_rows_level>>
    BY <1>3 DEF Encoder, frameVars, menuVars, lvglVars, inputVars
  <2>2. TargetGroup' = TargetGroup
    BY <2>1 DEF TargetGroup, OnTop, Top
  <2>3. ASSUME Spun PROVE Spun'
    <3>1. PICK n \in 1..Detents : Post([i \in 1..n |-> "ENCODER"])
      BY <1>3 DEF Encoder
    <3>2. /\ Len(ui_events) \in Nat /\ Len(ui_events') \in Nat
          /\ \A i \in 1..Len(ui_events) : ui_events'[i] = ui_events[i]
          /\ \A i \in 1..Len(ui_events') : i > Len(ui_events) => ui_events'[i] = "ENCODER"
      BY <1>0, <3>1, EncoderAdds
    <3> QED
      BY <2>3, <3>2
  <2> HIDE DEF Spun
  <2> QED
    BY <1>0, <1>p, <1>q, <2>1, <2>2, <2>3
<1>4. CASE EndTick
  <2>1. /\ s_attached_group' = TargetGroup /\ acted' = acted
        /\ indev'.events = indev.events /\ indev'.last = indev.last
        /\ (indev.wait => indev'.wait)
        /\ TargetGroup = s_attached_group \/ TargetGroup = "none" \/ indev'.wait
    BY <1>0, <1>4, AttachFacts
  <2>2. Pending' <=> Pending
    BY <2>1
  <2>3. Waits \/ Leaves => Waits'
    BY <2>1
  <2> HIDE DEF Pending, Waits, Leaves
  <2> QED
    BY <1>0, <1>p, <1>q, <2>1, <2>2, <2>3
<1>5. CASE KeyInput
  <2>1. PICK e : e = NextEvent
    OBVIOUS
  <2>2. /\ indev'.events = <<>> /\ indev'.last = e
        /\ indev.wait /\ e.pressed => indev'.wait
        /\ UNCHANGED <<s_attached_group, acted>>
    BY <1>0, <1>5, <2>1, ReadFacts
  <2>3. Pending' <=> e.pressed
    BY <2>2
  <2>4. e.pressed => Pending
    BY <2>1, ReadsOf
  <2>5. ~Leaves
    BY <1>5 DEF KeyInput
  <2>6. Waits /\ e.pressed => Waits'
    BY <2>2
  <2> HIDE DEF Pending, Waits, Leaves
  <2> QED
    BY <1>0, <1>p, <1>q, <2>2, <2>3, <2>4, <2>5, <2>6
<1>6. CASE Scan \/ boot_timer_cb \/ dismiss_cb \/ Sleep
  <2>1. UNCHANGED <<s_attached_group, indev, acted>> /\ phase # "tick"
    BY <1>6 DEF Scan, boot_timer_cb, dismiss_cb, Sleep, lvglVars
  <2> QED
    BY <1>0, <2>1 DEF Parked
<1>7. CASE UNCHANGED vars
  BY <1>0, <1>7 DEF vars, inputVars, frameVars, menuVars, lvglVars, Parked, TargetGroup, OnTop, Top
<1> QED
  BY <1>1, <1>2, <1>3, <1>4, <1>5, <1>6, <1>7 DEF Next, Pass

\* It holds at the start.
LEMMA OneKeyInit ==
  ASSUME Init
  PROVE  OneKeyInv
<1>1. /\ indev.events = <<>> /\ ~indev.last.pressed /\ indev.last.key = "OK" /\ indev.key = "OK"
      /\ inbox = <<>> /\ ui_events = <<>> /\ down = {} /\ scan = "NONE" /\ ~acted
      /\ s_attached_group = "none"
  BY DEF Init
<1>2. Len(indev.events) <= 1 /\ \A a : ~Queued(a)
  BY <1>1 DEF Queued
<1>3. InboxAgrees /\ TabsAgree /\ Parked
  BY <1>1 DEF InboxAgrees, TabsAgree, Parked
<1>4. QueueAgrees
  BY <1>1, <1>2 DEF QueueAgrees
<1>5. LvglAgrees
  BY <1>1, <1>2 DEF LvglAgrees, OkComes
<1> QED
  BY <1>3, <1>4, <1>5 DEF OneKeyInv

\* What it is for: LVGL clicks for no OK that was acted on.
LEMMA ClicksUnacted ==
  ASSUME OneKeyInv
  PROVE  OneEffect
<1> SUFFICES ASSUME phase = "lvgl", Clicks(NextEvent), acted PROVE FALSE
  BY DEF OneEffect
<1>1. s_attached_group # "none" /\ ~NextEvent.pressed /\ indev.pressed /\ ~indev.wait
  BY DEF Clicks, Seen, WasPressed
<1>2. indev.events # <<>>
  BY <1>1 DEF OneKeyInv, LvglAgrees, NextEvent
<1> QED
  BY <1>1, <1>2 DEF OneKeyInv, Parked

\* The comment in update_indev_group_attachment(): whoever presses one key at a time, and
\* none that moves LVGL's focus, never clicks with an OK that app.c acted on.
THEOREM OneKeyHasOneEffect == Spec => OneKeyOneEffect
<1>1. Init => OneKeyInv
  BY OneKeyInit
<1>2. ASSUME OneKeyInv, ShellInv, ShellInv', OneKey, OneKey', [Next]_vars
      PROVE  OneKeyInv'
  <2>1. InboxAgrees' /\ QueueAgrees' /\ LvglAgrees'
    BY <1>2, InboxStep, QueueStep, LvglStep
  <2>2. TabsAgree' /\ Parked'
    BY <1>2, TabsStep, ParkedStep
  <2> QED
    BY <2>1, <2>2 DEF OneKeyInv
<1>3. OneKeyInv => OneEffect
  BY ClicksUnacted
<1> QED
  BY <1>1, <1>2, <1>3, ShellInvariant, PTL DEF Spec, OneKeyOneEffect
=============================================================================
