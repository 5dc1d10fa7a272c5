---------------------------- MODULE PlaybackClock ----------------------------
(***************************************************************************)
(* Where the video is, and what a PsVideoView and the full-screen          *)
(* controllers it presents show of it: the skip buttons, the slider and    *)
(* the time label, against a player that seeks asynchronously and an item  *)
(* whose duration is unknown until it is ready.                            *)
(*                                                                         *)
(* A seek is only asked for; until the player lands, currentTime() may     *)
(* still answer the old position, and a newer seek replaces the one in     *)
(* flight.  The controller is a new one each time, with a slider and a     *)
(* label that have shown nothing yet.                                      *)
(*                                                                         *)
(* Times are in half milliseconds, so that cutting a time down to          *)
(* milliseconds is visible; that Float rounds the slider's value is        *)
(* abstracted.  Left to the other modules: layers, players that are        *)
(* replaced, when a start comes (PlayerSession), speeds (PlaybackSettings).*)
(* What those do to playback and to the screens is WatchedScreens.         *)
(***************************************************************************)
EXTENDS Integers, TimeLabel

CONSTANTS
  Durations,    \* what a ready item may last
  Playheads,    \* positions playback may reach and a drag may ask for
  Nothing,      \* no seek in flight
  MaxTime       \* bound: no skip forward beyond this in an endless item

Indefinite == -1          \* CMTime.indefinite; its seconds are NaN
Time == Nat

ASSUME ClockAssumption ==
  /\ Durations \subseteq Time \cup {Indefinite}
  /\ Playheads \subseteq Time
  /\ Nothing \notin Int
  /\ MaxTime \in Time

VARIABLES
  screen,       \* the surface in front, or the transition between the two
  status,       \* AVPlayerItem.status
  duration,     \* the duration of the item
  now,          \* the position of the player
  target,       \* the time a seek in flight asks for, or Nothing
  playing,      \* AVPlayer.isPlaying
  observed,     \* observed[s]: s has its periodic observer
  selected,     \* selected[s]: s's play button shows "pause"
  slider,       \* slider[s]: maximum and value of s's UISlider, from 0
  label,        \* label[s]: the two times s's label reads
  crash         \* the process has aborted

playerVars == <<status, duration, now, target, playing>>
shownVars  == <<slider, label>>
vars == <<screen, playerVars, observed, selected, shownVars, crash>>

Surfaces == {"view", "controller"}
Second == 2000

-----------------------------------------------------------------------------
(* What AVFoundation, UIKit and CMTime do *)

(* a > b for the seconds of b: every comparison with NaN is false *)
Exceeds(a, b) == b # Indefinite /\ a > b

(* CMTimeMake(Int64(seconds * 1000), 1000) *)
ToMilliseconds(t) == t - (t % 2)

(* seek(to:): it replaces the seek in flight *)
Seek(t) == target' = ToMilliseconds(t)

(* what currentTime() may answer *)
CurrentTime == {now} \cup (IF target = Nothing THEN {} ELSE {target})

(* where a seek may land: the default tolerance is unlimited *)
Landings(t) ==
  {x \in {t, duration} \cup Playheads : x \in Time /\ ~Exceeds(x, duration)}

(* UISlider keeps its value within its range *)
SetMaximum(sl, m) == [max |-> m, value |-> IF sl.value > m THEN m ELSE sl.value]
SetValue(sl, v)   == [sl EXCEPT !.value = IF v > sl.max THEN sl.max ELSE v]

FirstSlider == [max |-> Second, value |-> 0]      \* a UISlider goes from 0 to 1
FirstLabel  == [position |-> FormatTime(0), end |-> FormatTime(0)]

-----------------------------------------------------------------------------
(* The controls of the screen in front *)

(* Slip: the new time is not compared with the duration *)
SkipForwardUnclamped(s, t) ==
  /\ Seek(t + 15 * Second)
  /\ selected' = [selected EXCEPT ![s] = @ /\ ~Exceeds(t + 15 * Second, duration)]

(* forwardAction once currentTime() has answered t *)
SkipForward(s, t) ==
  \/ /\ Exceeds(t + 15 * Second, duration)
     /\ Seek(duration)
     /\ selected' = [selected EXCEPT ![s] = FALSE]
  \/ /\ ~Exceeds(t + 15 * Second, duration)
     /\ Seek(t + 15 * Second)
     /\ UNCHANGED selected

ForwardAction(s) ==
  /\ screen = s
  /\ \E t \in CurrentTime :
       /\ duration = Indefinite => t + 15 * Second <= MaxTime
       /\ SkipForward(s, t)
  /\ UNCHANGED <<screen, status, duration, now, playing, observed, shownVars, crash>>

(* Slip: a time before the start is not replaced by the start *)
SkipBackUnclamped(t) == Seek(t - 5 * Second)

SkipBack(t) == Seek(IF t < 5 * Second THEN 0 ELSE t - 5 * Second)

BackwardAction(s) ==
  /\ screen = s
  /\ \E t \in CurrentTime : SkipBack(t)
  /\ UNCHANGED <<screen, status, duration, now, playing, observed, selected, shownVars, crash>>

(* The finger moves the slider to v *)
SliderAction(s) ==
  /\ screen = s
  /\ \E v \in {x \in Playheads \cup {slider[s].max} : x <= slider[s].max} :
       /\ slider' = [slider EXCEPT ![s] = SetValue(@, v)]
       /\ Seek(v)
  /\ UNCHANGED <<screen, status, duration, now, playing, observed, selected, label, crash>>

(* playAction of the view looks at its button *)
ViewPlay ==
  /\ screen = "view"
  /\ playing' = ~selected["view"]
  /\ selected' = [selected EXCEPT !["view"] = ~@]
  /\ observed' = [observed EXCEPT !["view"] = @ \/ ~selected["view"]]
  /\ UNCHANGED <<screen, status, duration, now, target, shownVars, crash>>

(* playAction of the controller looks at the player *)
ControllerPlay ==
  /\ screen = "controller"
  /\ playing' = ~playing
  /\ selected' = [selected EXCEPT !["controller"] = ~playing]
  /\ observed' = [observed EXCEPT !["controller"] = @ \/ ~playing]
  /\ UNCHANGED <<screen, status, duration, now, target, shownVars, crash>>

(* A speed picked from the menu starts the player *)
SetVideoSpeed(s) ==
  /\ screen = s
  /\ playing' = TRUE
  /\ selected' = [selected EXCEPT ![s] = TRUE]
  /\ UNCHANGED <<screen, status, duration, now, target, observed, shownVars, crash>>

-----------------------------------------------------------------------------
(* Full screen and back *)

(* The controller's place is empty, or taken by a new one *)
NewController ==
  /\ slider' = [slider EXCEPT !["controller"] = FirstSlider]
  /\ label' = [label EXCEPT !["controller"] = FirstLabel]

(* removeObservers, and a controller that has shown nothing *)
FullScreenAction ==
  /\ screen = "view"
  /\ screen' = "entering"
  /\ observed' = [s \in Surfaces |-> FALSE]
  /\ NewController
  /\ selected' = [selected EXCEPT !["controller"] = FALSE]
  /\ UNCHANGED <<playerVars, crash>>

(* Slip: the observer is registered even if the video does not play *)
ViewDidAppearWatching ==
  /\ screen = "entering"
  /\ screen' = "controller"
  /\ observed' = [observed EXCEPT !["controller"] = TRUE]
  /\ selected' = [selected EXCEPT !["controller"] = playing]
  /\ UNCHANGED <<playerVars, shownVars, crash>>

ViewDidAppear ==
  /\ screen = "entering"
  /\ screen' = "controller"
  /\ observed' = [observed EXCEPT !["controller"] = playing]
  /\ selected' = [selected EXCEPT !["controller"] = playing]
  /\ UNCHANGED <<playerVars, shownVars, crash>>

BackAction ==
  /\ screen = "controller"
  /\ screen' = "leaving"
  /\ observed' = [observed EXCEPT !["controller"] = FALSE]
  /\ UNCHANGED <<playerVars, selected, shownVars, crash>>

(* The controller is not seen again *)
ViewDismissed ==
  /\ screen = "leaving"
  /\ screen' = "view"
  /\ observed' = [observed EXCEPT !["view"] = playing]
  /\ selected' = [s \in Surfaces |-> s = "view" /\ playing]
  /\ NewController
  /\ UNCHANGED <<playerVars, crash>>

-----------------------------------------------------------------------------
(* The player and its item *)

(* replaceCurrentItem, seek(to: .zero), play() *)
PlayNextVideo ==
  /\ status' = "loading"
  /\ duration' = Indefinite
  /\ now' = 0
  /\ Seek(0)
  /\ playing' = TRUE
  /\ UNCHANGED <<screen, observed, selected, shownVars, crash>>

ItemReady ==
  /\ status = "loading"
  /\ status' = "ready"
  /\ duration' \in Durations
  /\ UNCHANGED <<screen, now, target, playing, observed, selected, shownVars, crash>>

ItemFails ==
  /\ status # "failed"
  /\ status' = "failed"
  /\ duration' = Indefinite
  /\ playing' = FALSE
  /\ UNCHANGED <<screen, now, target, observed, selected, shownVars, crash>>

(* An item that is not ready may drop the seek *)
SeekEnds ==
  /\ target # Nothing
  /\ target' = Nothing
  /\ \/ status = "ready" /\ now' \in Landings(target)
     \/ status # "ready" /\ UNCHANGED now
  /\ UNCHANGED <<screen, status, duration, playing, observed, selected, shownVars, crash>>

Advance ==
  /\ playing
  /\ status = "ready"
  /\ now' \in {x \in Playheads : x > now /\ ~Exceeds(x, duration)}
  /\ UNCHANGED <<screen, status, duration, target, playing, observed, selected, shownVars, crash>>

(* The end of the item, an interruption, paused by the system *)
StopsOnItsOwn ==
  /\ playing
  /\ playing' = FALSE
  /\ \/ UNCHANGED now
     \/ status = "ready" /\ duration # Indefinite /\ now' = duration
  /\ UNCHANGED <<screen, status, duration, target, observed, selected, shownVars, crash>>

(* A controller that is in front, or was, stops the player and clears its *)
(* button                                                                 *)
AppMovedToBackground ==
  /\ playing' = FALSE
  /\ selected' = [selected EXCEPT !["controller"] = FALSE]
  /\ UNCHANGED <<screen, status, duration, now, target, observed, shownVars, crash>>

(* The start of a view that was replaced before its second was over taps    *)
(* play on the shared player, by a button and for an observer of its own    *)
LateStart ==
  /\ playing' \in BOOLEAN
  /\ UNCHANGED <<screen, status, duration, now, target, observed, selected, shownVars, crash>>

-----------------------------------------------------------------------------
(* The periodic observer *)

(* Slip: the value is assigned before the range *)
MoveSliderEarly(sl, t) == SetMaximum(SetValue(sl, t), duration)

MoveSlider(sl, t) == SetValue(SetMaximum(sl, duration), t)

(* Slip: an item that is still loading is shown too *)
ShowableUnlessFailed == status # "failed"

Showable == status = "ready"

(* Slider and label read the position one after the other; it is taken to be *)
(* the same                                                                  *)
Tick(s) ==
  /\ observed[s]
  /\ Showable
  /\ \/ /\ duration = Indefinite               \* Int(NaN) traps
        /\ crash' = TRUE
        /\ UNCHANGED shownVars
     \/ /\ duration # Indefinite
        /\ \E t \in CurrentTime :
             /\ slider' = [slider EXCEPT ![s] = MoveSlider(@, t)]
             /\ label' = [label EXCEPT ![s] = [position |-> FormatTime(t \div Second),
                                               end |-> FormatTime(duration \div Second)]]
        /\ UNCHANGED crash
  /\ UNCHANGED <<screen, playerVars, observed, selected>>

-----------------------------------------------------------------------------
(* The screen of a view whose url was just set *)
Init ==
  /\ screen = "view"
  /\ status = "loading"
  /\ duration = Indefinite
  /\ now = 0
  /\ target = Nothing
  /\ playing = FALSE
  /\ observed = [s \in Surfaces |-> FALSE]
  /\ selected = [s \in Surfaces |-> FALSE]
  /\ slider = [s \in Surfaces |-> FirstSlider]
  /\ label = [s \in Surfaces |-> FirstLabel]
  /\ crash = FALSE

Touch ==
  \/ \E s \in Surfaces : \/ ForwardAction(s)
                         \/ BackwardAction(s)
                         \/ SliderAction(s)
                         \/ SetVideoSpeed(s)
  \/ ViewPlay \/ ControllerPlay
  \/ FullScreenAction \/ BackAction

System ==
  \/ ViewDidAppear \/ ViewDismissed
  \/ PlayNextVideo
  \/ ItemReady \/ ItemFails
  \/ SeekEnds \/ Advance \/ StopsOnItsOwn
  \/ AppMovedToBackground \/ LateStart
  \/ \E s \in Surfaces : Tick(s)

Next ==
  \/ ~crash /\ (Touch \/ System)
  \/ crash /\ UNCHANGED vars

Spec == Init /\ [][Next]_vars

-----------------------------------------------------------------------------
(* Properties *)

TypeOK ==
  /\ screen \in Surfaces \cup {"entering", "leaving"}
  /\ status \in {"loading", "ready", "failed"}
  /\ duration \in Time \cup {Indefinite}
  /\ now \in Time
  /\ target \in Time \cup {Nothing}
  /\ playing \in BOOLEAN
  /\ observed \in [Surfaces -> BOOLEAN]
  /\ selected \in [Surfaces -> BOOLEAN]
  /\ slider \in [Surfaces -> [max : Time, value : Time]]
  /\ label \in [Surfaces -> [position : Seq(Nat), end : Seq(Nat)]]
  /\ \A s \in Surfaces : IsTimeOfDay(label[s].position) /\ IsTimeOfDay(label[s].end)
  /\ crash \in BOOLEAN

BeyondEnd == target # Nothing /\ Exceeds(target, duration)

(* A seek comes to be beyond the end of the item in two ways: it was asked  *)
(* for before the duration was known, when forwardAction compares with NaN  *)
(* (PsVideoView.swift:205), or by a slider whose range is not the item's,   *)
(* be it the second of a new UISlider, which full screen entered while      *)
(* paused keeps (PsVideoFullView.swift:46, 186), or the range of the item   *)
(* before playNextVideo (PsVideoView.swift:275).  The skip buttons never    *)
(* lead there from inside a known duration, however many taps read the      *)
(* current time of a seek still in flight.                                  *)
TwoWaysBeyondTheEnd ==
  [][~BeyondEnd /\ BeyondEnd'
       => \/ ItemReady
          \/ \E s \in Surfaces : SliderAction(s) /\ slider[s].max # duration]_vars

(* The button stops showing "pause" while the player goes on only when the  *)
(* player was sent to the end of its item, a millisecond or less before it  *)
(* (PsVideoView.swift:205-210): what the button then shows comes true when  *)
(* the item ends.                                                           *)
ClearedOnTheWayToTheEnd ==
  [][\A s \in Surfaces : selected[s] /\ ~selected'[s] /\ playing' /\ screen' = s
       => duration # Indefinite /\ target' \in {duration, duration - 1}]_vars

(* The label of an endless item aborts the process (Int of NaN,             *)
(* PsVideoView.swift:302); an item that is still loading or has failed,     *)
(* whose duration is just as indefinite, never does, thanks to the test of  *)
(* its status (:271): not even when playNextVideo puts it under an observer *)
(* that was registered for another item.                                    *)
OnlyEndlessItemAborts == crash => status = "ready" /\ duration = Indefinite

(* What a tick shows is the item's: the range is its length, the thumb is   *)
(* at a position the player may report, within the range, and the label     *)
(* reads back to whole seconds of the same length.  The range is assigned   *)
(* before the value, which the slider would otherwise cut to the range it   *)
(* had (PsVideoView.swift:275-281, PsVideoFullView.swift:186-192).          *)
TickShowsTheItem ==
  [][\A s \in Surfaces : Tick(s) /\ ~crash' /\ target = Nothing =>
       /\ slider'[s] = [max |-> duration, value |-> now]
       /\ SecondsOf(label'[s].end) = duration \div Second
       /\ SecondsOf(label'[s].position) = now \div Second]_vars

-----------------------------------------------------------------------------
(* Refinement *)

InFront(shows) == screen \in Surfaces /\ shows[screen]

Watched == INSTANCE WatchedScreens
             WITH button <- InFront(selected), observed <- InFront(observed)

(* Seeks, items and ticks ride on the screens of WatchedScreens: whatever   *)
(* the position and the item do, only its steps start or stop the player,   *)
(* set the button in front, or give and take the observer in front.         *)
ImplementsScreens == Watched!WatchedSpec
=============================================================================
