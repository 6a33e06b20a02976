------------------------------- MODULE Backlight -------------------------------
(***************************************************************************)
(* src/backlight.c: fading the display's brightness.  Two threads set new  *)
(* targets without a lock, the higher one preempting the other between any *)
(* two of its assignments, and a timer interrupt that steps the level      *)
(* comes between any two as well.  A thread is the number of its priority, *)
(* a larger one preempts.  When within a fade a tick comes is left open.   *)
(***************************************************************************)
EXTENDS Integers

CONSTANTS
  Threads,   \* the callers of backlight_set_pct()
  Pcts       \* the levels they ask for, in percent

ASSUME BacklightAssumption == Threads \subseteq Nat /\ Pcts \subseteq 0..100

VARIABLES
  s_current_raw,      \* the level, also what the PWM has
  s_fade_start_raw,
  s_fade_target_raw,
  fading,             \* s_fade_timer runs
  call,               \* per thread: the point backlight_set_pct() has reached, its target_raw
  asked               \* targets of the calls since one began with no other under way

backlightVars == <<s_current_raw, s_fade_start_raw, s_fade_target_raw, fading, call, asked>>

Raws  == 0..255
IdleCall  == [at |-> "idle", raw |-> 0]
Calls == [at : {"idle", "compare", "start", "target", "timer"}, raw : Raws]

\* DIV_ROUND_CLOSEST(pct * 255, 100)
Raw(pct) == (pct * 255 + 50) \div 100

BacklightInit ==
  /\ s_current_raw = 0 /\ s_fade_start_raw = 0 /\ s_fade_target_raw = 0
  /\ fading = FALSE
  /\ call = [t \in Threads |-> IdleCall]
  /\ asked = {}

NoCall   == \A t \in Threads : call[t].at = "idle"
Runs(t) == \A u \in Threads : u > t => call[u].at = "idle"
CallAt(t, point) == Runs(t) /\ call[t].at = point
Goto(t, point) == call' = [call EXCEPT ![t].at = point]
Return(t) == call' = [call EXCEPT ![t] = IdleCall]

-----------------------------------------------------------------------------
(* backlight_set_pct().                                                     *)

\* Mutant: the fade in flight is only cancelled when a new one starts.
backlight_set_pct_NoCancel(t, pct) ==
  /\ Runs(t) /\ call[t].at = "idle"
  /\ call' = [call EXCEPT ![t] = [at |-> "compare", raw |-> Raw(pct)]]
  /\ asked' = (IF NoCall THEN {} ELSE asked) \cup {Raw(pct)}
  /\ UNCHANGED <<s_current_raw, s_fade_start_raw, s_fade_target_raw, fading>>

\* k_timer_stop(): the new target is approached from wherever the level is.
backlight_set_pct(t, pct) ==
  /\ Runs(t) /\ call[t].at = "idle"
  /\ call' = [call EXCEPT ![t] = [at |-> "compare", raw |-> Raw(pct)]]
  /\ asked' = (IF NoCall THEN {} ELSE asked) \cup {Raw(pct)}
  /\ fading' = FALSE
  /\ UNCHANGED <<s_current_raw, s_fade_start_raw, s_fade_target_raw>>

Compare(t) ==
  /\ CallAt(t, "compare")
  /\ IF call[t].raw = s_current_raw THEN Return(t) ELSE Goto(t, "start")
  /\ UNCHANGED <<s_current_raw, s_fade_start_raw, s_fade_target_raw, fading, asked>>

SetStart(t) ==
  /\ CallAt(t, "start") /\ Goto(t, "target")
  /\ s_fade_start_raw' = s_current_raw
  /\ UNCHANGED <<s_current_raw, s_fade_target_raw, fading, asked>>

SetTarget(t) ==
  /\ CallAt(t, "target") /\ Goto(t, "timer")
  /\ s_fade_target_raw' = call[t].raw
  /\ UNCHANGED <<s_current_raw, s_fade_start_raw, fading, asked>>

StartTimer(t) ==
  /\ CallAt(t, "timer") /\ Return(t)
  /\ fading' = TRUE
  /\ UNCHANGED <<s_current_raw, s_fade_start_raw, s_fade_target_raw, asked>>

CallStep(t) == Compare(t) \/ SetStart(t) \/ SetTarget(t) \/ StartTimer(t)

-----------------------------------------------------------------------------
(* fade_timer_cb().  cos_q1() never reaches 1, and the product is truncated *)
(* towards zero: the eased level stays short of the target by at least one. *)

Eased(start, target) ==
  IF target > start THEN start..(target - 1)
  ELSE IF target < start THEN (target + 1)..start
  ELSE {start}

\* The eased level at the end, 0.9994 of the way.
Ended(start, target) ==
  IF target > start THEN target - 1 ELSE IF target < start THEN target + 1 ELSE start

FadeStep ==
  /\ fading
  /\ s_current_raw' \in Eased(s_fade_start_raw, s_fade_target_raw)
  /\ UNCHANGED <<s_fade_start_raw, s_fade_target_raw, fading, call, asked>>

\* Mutant: the timer is not stopped at the end.
FadeEnd_RunsOn ==
  /\ fading
  /\ s_current_raw' = Ended(s_fade_start_raw, s_fade_target_raw)
  /\ UNCHANGED <<s_fade_start_raw, s_fade_target_raw, fading, call, asked>>

FadeEnd ==
  /\ fading /\ fading' = FALSE
  /\ s_current_raw' = Ended(s_fade_start_raw, s_fade_target_raw)
  /\ UNCHANGED <<s_fade_start_raw, s_fade_target_raw, call, asked>>

BacklightNext ==
  \/ \E t \in Threads, pct \in Pcts : backlight_set_pct(t, pct)
  \/ \E t \in Threads : CallStep(t)
  \/ FadeStep
  \/ FadeEnd

\* Threads get to run, and time passes: a fade that is not redirected ends.
BacklightFairness == WF_backlightVars(FadeEnd) /\ \A t \in Threads : WF_backlightVars(CallStep(t))

BacklightSpec == BacklightInit /\ [][BacklightNext]_backlightVars /\ BacklightFairness

-----------------------------------------------------------------------------
BacklightTypeOK ==
  /\ s_current_raw \in Raws /\ s_fade_start_raw \in Raws /\ s_fade_target_raw \in Raws
  /\ fading \in BOOLEAN
  /\ call \in [Threads -> Calls]
  /\ asked \subseteq Raws

Near(raw, target) == raw \in (target - 1)..(target + 1)

\* Once no fade runs and no call is under way, the level is, but for one raw step,
\* what one of the calls asked for that overlapped last: no fade is left between
\* two targets, whichever assignments of the two threads and the timer mixed.
SettledNearTarget ==
  ~fading /\ NoCall /\ asked # {} => \E target \in asked : Near(s_current_raw, target)

\* Every fade comes to its end or is redirected by another call.
FadeSettles == []<>(~fading \/ ~NoCall)

\* backlight_set_pct() of two threads against the fade's timer: what a fade ends at is where a
\* call sent it.
FadeArrives == BacklightTypeOK /\ SettledNearTarget
=============================================================================
