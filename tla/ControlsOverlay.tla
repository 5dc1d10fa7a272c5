---------------------------- MODULE ControlsOverlay ----------------------------
(***************************************************************************)
(* The controls overlay of one screen: PsVideoControlsView with its speed  *)
(* and quality buttons and the table they share, the overlay's hiding, and *)
(* the repeating 5 s timer that hides it.  Screen says whose handlers      *)
(* drive it: PsVideoView's or PsVideoFullViewVC's.                         *)
(*                                                                         *)
(* UIKit finds the view of a touch when the finger lands and sends         *)
(* touchUpInside when it lifts, so a handler may run after the overlay or  *)
(* the table changed under the finger.  The table covers both menu buttons *)
(* (PsVideoControlsView.swift:187-191, 203-207, 233-237): a finger lands   *)
(* on them only while it is hidden, and two fingers may hold both.         *)
(*                                                                         *)
(* Abstracted: which row is picked, the rates and titles it sets, the time *)
(* label and the slider.                                                   *)
(***************************************************************************)
EXTENDS Naturals

CONSTANTS
  Screen,       \* whose overlay it is: "view" or "controller"
  MaxOrphans    \* bound: timers no longer referenced by the timer property

ASSUME ScreenIsKnown == Screen \in {"view", "controller"}
ASSUME OrphansAreBounded == MaxOrphans \in Nat

VARIABLES
  stage,          \* "off": not in front, "on": in front, "left": dismissed
  settings,       \* settingsButton.isSelected
  quality,        \* videoQualityButton.isSelected
  tableHidden,    \* tableVideoQuality.isHidden
  isSettings,     \* isSettingsSelected: the table lists speeds
  hidden,         \* controlsView.isHidden
  catcherHidden,  \* viewToTap.isHidden of the controller; unused when embedded
  held,           \* menu buttons a finger is on
  observing,      \* the view has a periodic observer (only its ticks matter)
  isTimerRunning, \* the property: set by startTimer, never cleared
  timer,          \* the timer the property refers to is valid
  orphans         \* valid timers the property no longer refers to

menuVars  == <<settings, quality, tableHidden, isSettings>>
timerVars == <<isTimerRunning, timer, orphans>>
vars == <<stage, menuVars, hidden, catcherHidden, held, observing, timerVars>>

FullScreen == Screen = "controller"

MenuButtons == {"settings", "quality"}

-----------------------------------------------------------------------------
(* Helpers of the two screens *)

(* Slip: no timer is started once one was *)
StartTimerOnce ==
  /\ isTimerRunning' = TRUE
  /\ timer' = (timer \/ ~isTimerRunning)
  /\ UNCHANGED orphans

(* startTimer assigns a new timer without invalidating the one it replaces *)
StartTimer ==
  /\ timer => orphans < MaxOrphans
  /\ isTimerRunning' = TRUE
  /\ timer' = TRUE
  /\ orphans' = IF timer THEN orphans + 1 ELSE orphans

(* Slip: an unreferenced timer is counted out whether there is one or not *)
ResetTimerUntested ==
  /\ timer' = FALSE
  /\ orphans' = orphans - 1
  /\ UNCHANGED isTimerRunning

(* resetTimer reaches only the timer the property refers to *)
ResetTimer ==
  /\ timer' = FALSE
  /\ UNCHANGED <<isTimerRunning, orphans>>

(* Slip: the quality button is forgotten *)
ResetControlsKeepingQuality ==
  /\ settings' = FALSE
  /\ tableHidden' = TRUE
  /\ UNCHANGED <<quality, isSettings>>

(* Slip: the table is forgotten *)
ResetControlsKeepingTable ==
  /\ settings' = FALSE
  /\ quality' = FALSE
  /\ UNCHANGED <<tableHidden, isSettings>>

(* resetControls; setVideoSpeed and setVideoQuality begin with it *)
ResetControls ==
  /\ settings' = FALSE
  /\ quality' = FALSE
  /\ tableHidden' = TRUE
  /\ UNCHANGED isSettings

(* Slip: the catcher stays up when the controls return *)
ShowBehindCatcher == hidden' = FALSE /\ UNCHANGED catcherHidden

Hide == hidden' = TRUE  /\ catcherHidden' = (IF FullScreen THEN FALSE ELSE catcherHidden)
Show == hidden' = FALSE /\ catcherHidden' = (IF FullScreen THEN TRUE ELSE catcherHidden)

(* Where a finger lands *)
OnControls == stage = "on" /\ ~hidden /\ (FullScreen => catcherHidden)
OnVideo    == stage = "on" /\ (IF FullScreen THEN ~catcherHidden ELSE hidden)

-----------------------------------------------------------------------------
(* The menu *)

SettingsAction ==
  \/ /\ settings
     /\ settings' = FALSE
     /\ tableHidden' = TRUE
     /\ UNCHANGED <<quality, isSettings>>
  \/ /\ ~settings
     /\ settings' = TRUE
     /\ quality' = FALSE
     /\ tableHidden' = FALSE
     /\ isSettings' = TRUE

(* The speed button keeps its selection here *)
VideoQualityAction ==
  \/ /\ quality
     /\ quality' = FALSE
     /\ tableHidden' = TRUE
     /\ UNCHANGED <<settings, isSettings>>
  \/ /\ ~quality
     /\ quality' = TRUE
     /\ tableHidden' = FALSE
     /\ isSettings' = FALSE
     /\ UNCHANGED settings

Press(b) ==
  /\ OnControls
  /\ tableHidden
  /\ b \notin held
  /\ held' = held \cup {b}
  /\ UNCHANGED <<stage, menuVars, hidden, catcherHidden, observing, timerVars>>

(* The finger lifts inside the button, or slides off it *)
Release(b) ==
  /\ b \in held
  /\ held' = held \ {b}
  /\ \/ b = "settings" /\ SettingsAction
     \/ b = "quality" /\ VideoQualityAction
     \/ UNCHANGED menuVars
  /\ UNCHANGED <<stage, hidden, catcherHidden, observing, timerVars>>

(* didSelectRowAt: the handler of either menu resets the controls *)
DidSelectRow ==
  /\ OnControls
  /\ ~tableHidden
  /\ ResetControls
  /\ UNCHANGED <<stage, hidden, catcherHidden, held, observing, timerVars>>

-----------------------------------------------------------------------------
(* Playback as far as the overlay is concerned *)

(* playAction, starting: an observer is added and setVideoSpeed is called.  *)
(* It is tapped, or in an embedded view run by the delayed start.           *)
PlayAction ==
  /\ FullScreen => OnControls
  /\ ResetControls
  /\ observing' = TRUE
  /\ UNCHANGED <<stage, hidden, catcherHidden, held, timerVars>>

(* A periodic tick of an item that is ready: only PsVideoView starts a timer *)
ReadyTick ==
  /\ ~FullScreen
  /\ observing
  /\ ~isTimerRunning
  /\ StartTimer
  /\ UNCHANGED <<stage, menuVars, hidden, catcherHidden, held, observing>>

-----------------------------------------------------------------------------
(* Hiding and showing *)

(* handleControlsViewTouchAction *)
ControlsTouched ==
  /\ OnControls
  /\ Hide
  /\ ResetControls
  /\ UNCHANGED <<stage, held, observing, timerVars>>

(* handlePlayerViewTouchAction *)
PlayerTouched ==
  /\ OnVideo
  /\ Show
  /\ StartTimer
  /\ UNCHANGED <<stage, menuVars, held, observing>>

(* timerAction, whichever timer calls it: the embedded view leaves the menu *)
TimerAction ==
  /\ timer \/ orphans > 0
  /\ ~quality
  /\ ~settings
  /\ Hide
  /\ IF FullScreen THEN ResetControls ELSE UNCHANGED menuVars
  /\ ResetTimer
  /\ UNCHANGED <<stage, held, observing>>

-----------------------------------------------------------------------------
(* Going to full screen and back *)

(* viewDidAppear of the controller: a playing video starts the timer *)
ViewDidAppear ==
  /\ FullScreen
  /\ stage = "off"
  /\ stage' = "on"
  /\ \/ StartTimer /\ ResetControls /\ observing' = TRUE
     \/ UNCHANGED <<timerVars, menuVars, observing>>
  /\ UNCHANGED <<hidden, catcherHidden, held>>

(* backAction: the controller never comes back, its timers stay *)
BackAction ==
  /\ FullScreen
  /\ OnControls
  /\ stage' = "left"
  /\ held' = {}
  /\ observing' = FALSE
  /\ UNCHANGED <<menuVars, hidden, catcherHidden, timerVars>>

(* fullScreenAction of the view: its overlay is left as it is *)
FullScreenAction ==
  /\ ~FullScreen
  /\ OnControls
  /\ stage' = "off"
  /\ held' = {}
  /\ observing' = FALSE
  /\ UNCHANGED <<menuVars, hidden, catcherHidden, timerVars>>

(* viewDismissed of the view: a playing video starts another timer *)
ViewDismissed ==
  /\ ~FullScreen
  /\ stage = "off"
  /\ stage' = "on"
  /\ \/ StartTimer /\ ResetControls /\ observing' = TRUE
     \/ UNCHANGED <<timerVars, menuVars, observing>>
  /\ UNCHANGED <<hidden, catcherHidden, held>>

-----------------------------------------------------------------------------
Init ==
  /\ stage = IF FullScreen THEN "off" ELSE "on"
  /\ settings = FALSE
  /\ quality = FALSE
  /\ tableHidden = TRUE
  /\ isSettings = FALSE
  /\ hidden = FALSE
  /\ catcherHidden = TRUE
  /\ held = {}
  /\ observing = FALSE
  /\ isTimerRunning = FALSE
  /\ timer = FALSE
  /\ orphans = 0

Next ==
  \/ \E b \in MenuButtons : Press(b) \/ Release(b)
  \/ DidSelectRow
  \/ PlayAction
  \/ ReadyTick
  \/ ControlsTouched
  \/ PlayerTouched
  \/ TimerAction
  \/ ViewDidAppear
  \/ BackAction
  \/ FullScreenAction
  \/ ViewDismissed

SafetySpec == Init /\ [][Next]_vars

(* A scheduled timer fires; nothing is assumed of the user or the player *)
Spec == SafetySpec /\ WF_vars(TimerAction)

-----------------------------------------------------------------------------
(* Properties *)

FlagsOK ==
  /\ stage \in {"off", "on", "left"}
  /\ settings \in BOOLEAN
  /\ quality \in BOOLEAN
  /\ tableHidden \in BOOLEAN
  /\ isSettings \in BOOLEAN
  /\ hidden \in BOOLEAN
  /\ catcherHidden \in BOOLEAN
  /\ held \in SUBSET MenuButtons
  /\ observing \in BOOLEAN
  /\ isTimerRunning \in BOOLEAN
  /\ timer \in BOOLEAN

OrphansOK == orphans \in 0 .. MaxOrphans

TypeOK == FlagsOK /\ OrphansOK

(* The table is open exactly while a menu button is selected, and the       *)
(* button of what it lists is: timerAction looks at the buttons to decide   *)
(* about the table (PsVideoView.swift:291), and videoQualityAction does not *)
(* deselect the other button (:419-430), so it takes the order of all the   *)
(* handlers to keep them together.                                          *)
TableMatchesButtons ==
  /\ tableHidden <=> ~settings /\ ~quality
  /\ ~tableHidden => IF isSettings THEN settings ELSE quality

(* However the overlay comes to be hidden, the menu is closed with it: the  *)
(* embedded timerAction (PsVideoView.swift:290-295) hides the overlay       *)
(* without resetControls, unlike every other handler that hides it.         *)
HidingClosesMenu == [][~hidden /\ hidden' => tableHidden']_vars

(* A visible overlay that has ever had a timer still has one, although      *)
(* isTimerRunning stays TRUE once the timer is invalidated and timers are   *)
(* invalidated only through the property (PsVideoView.swift:272,285-299).   *)
VisibleOverlayIsTimed == ~hidden /\ isTimerRunning => timer \/ orphans > 0

(* The controller's catcher is up exactly while its overlay is hidden: with *)
(* both down nothing would bring the controls back, with both up the        *)
(* catcher, which lies above the controls, would swallow their touches      *)
(* (PsVideoFullView.swift:73-84, 167-177, 209-216).                         *)
CatcherReplacesOverlay == FullScreen => (hidden <=> ~catcherHidden)

(* Once a timer was started, a visible overlay hides itself unless a menu   *)
(* is opened: no order of taps, ticks and screen changes leaves the         *)
(* controls over the video for good.                                        *)
OverlayHidesItself == ~hidden /\ isTimerRunning ~> hidden \/ ~tableHidden
=============================================================================
