--------------------------- MODULE PlaybackSettings ---------------------------
(***************************************************************************)
(* The speed and the quality of one PsVideoView and of the full-screen     *)
(* controllers it presents: the playerSpeed and playerQuality properties,  *)
(* the titles of the two menu buttons, and what reaches the shared player: *)
(* its rate and the preferredPeakBitRate of its item.                      *)
(*                                                                         *)
(* On the way to full screen the properties are handed over, on the way    *)
(* back the button titles are (PsVideoView.swift:236-237,                  *)
(* PsVideoFullView.swift:69), and a title is not always the property it    *)
(* was set from.  The transitions are steps of their own, as the player    *)
(* may stop or be given another item meanwhile.  What reaches these        *)
(* screens from elsewhere is TwoScreens.                                   *)
(*                                                                         *)
(* Abstracted: the highlighted row, the hiding of the menu                 *)
(* (ControlsOverlay), layers and observers (PlayerSession).                *)
(***************************************************************************)
EXTENDS Naturals

CONSTANTS
  Speeds,      \* rows of videoSpeedArray the user may pick
  Qualities    \* rows of videoQualityArray the user may pick

MenuSpeeds    == {".5x", ".75x", "1.0x", "1.25x", "1.5x", "1.75x", "2x"}
MenuQualities == {"Auto", "360p", "480p", "720p", "1080p"}

ASSUME RowsExist == Speeds \subseteq MenuSpeeds /\ Qualities \subseteq MenuQualities

VARIABLES
  screen,        \* the surface in front, or the transition between the two
  speed,         \* speed[s]: playerSpeed
  quality,       \* quality[s]: playerQuality
  speedTitle,    \* speedTitle[s]: title of settingsButton
  qualityTitle,  \* qualityTitle[s]: title of videoQualityButton
  selected,      \* selected[s]: s's play button shows "pause"
  rate,          \* the player's rate, in hundredths
  peak           \* the item's preferredPeakBitRate; 0, the default, is no limit

speedVars   == <<speed, speedTitle, rate, selected>>
qualityVars == <<quality, qualityTitle, peak>>
vars == <<screen, speedVars, qualityVars>>

Surfaces == {"view", "controller"}

-----------------------------------------------------------------------------
(* The tables in the code *)

KnownSpeeds == MenuSpeeds \cup {"3x"}

(* The cases of setVideoSpeed: the rate of a speed, and its title *)
RateOf(s) ==
  CASE s = ".5x"   -> 50  [] s = ".75x" -> 75  [] s = "1.0x"  -> 100
    [] s = "1.25x" -> 125 [] s = "1.5x" -> 150 [] s = "1.75x" -> 175
    [] s = "2x"    -> 200 [] s = "3x"   -> 300

SpeedTitle(s) == IF s = ".5x" THEN "0.5x" ELSE s

KnownQualities == {"240p", "360p", "480p", "720p", "1080p", "2k", "4k"}

(* setBitRate *)
BitRate(q) ==
  CASE q = "240p"  -> 1000    [] q = "360p" -> 500000  [] q = "480p" -> 100000
    [] q = "720p"  -> 2500000 [] q = "1080p" -> 4000000
    [] q = "2k"    -> 8000000 [] q = "4k"   -> 20000000
    [] OTHER -> 100000

-----------------------------------------------------------------------------
(* Helpers *)

NormalRate == 100      \* AVPlayer.play() sets it

(* Slip: the title is not updated *)
SetVideoSpeedUntitled(s, r, current) ==
  /\ speed' = [speed EXCEPT ![s] = r]
  /\ rate' = IF r \in KnownSpeeds THEN RateOf(r) ELSE current
  /\ selected' = [selected EXCEPT ![s] = TRUE]
  /\ UNCHANGED speedTitle

(* Slip: only a speed that is a case starts the button *)
SetVideoSpeedQuietly(s, r, current) ==
  /\ speed' = [speed EXCEPT ![s] = r]
  /\ rate' = IF r \in KnownSpeeds THEN RateOf(r) ELSE current
  /\ selected' = [selected EXCEPT ![s] = @ \/ r \in KnownSpeeds]
  /\ speedTitle' = IF r \in KnownSpeeds THEN [speedTitle EXCEPT ![s] = SpeedTitle(r)]
                                        ELSE speedTitle

(* Slip: the title is the row as it is written in the menu *)
SetVideoSpeedRaw(s, r, current) ==
  /\ speed' = [speed EXCEPT ![s] = r]
  /\ rate' = IF r \in KnownSpeeds THEN RateOf(r) ELSE current
  /\ selected' = [selected EXCEPT ![s] = TRUE]
  /\ speedTitle' = IF r \in KnownSpeeds THEN [speedTitle EXCEPT ![s] = r] ELSE speedTitle

(* setVideoSpeed on s, when the player's rate is current; a speed that is *)
(* not one of its cases only becomes the property, and the button is set  *)
SetVideoSpeed(s, r, current) ==
  /\ speed' = [speed EXCEPT ![s] = r]
  /\ rate' = IF r \in KnownSpeeds THEN RateOf(r) ELSE current
  /\ selected' = [selected EXCEPT ![s] = TRUE]
  /\ speedTitle' = IF r \in KnownSpeeds THEN [speedTitle EXCEPT ![s] = SpeedTitle(r)]
                                        ELSE speedTitle

(* Slip: the bit rate is left to the next start *)
SetVideoQualityLater(s, q) ==
  /\ quality' = [quality EXCEPT ![s] = q]
  /\ qualityTitle' = [qualityTitle EXCEPT ![s] = IF q \in KnownQualities THEN q ELSE "Auto"]
  /\ UNCHANGED peak

(* setVideoQuality on s; its default is a limit of its own for "Auto" *)
SetVideoQuality(s, q) ==
  /\ quality' = [quality EXCEPT ![s] = q]
  /\ qualityTitle' = [qualityTitle EXCEPT ![s] = IF q \in KnownQualities THEN q ELSE "Auto"]
  /\ peak' = BitRate(IF q \in KnownQualities THEN q ELSE "360p")

Pause == rate' = 0 /\ UNCHANGED <<speed, speedTitle>>

(* pauseAction of s, and a tap on its play button while the video plays *)
PauseAction(s) == Pause /\ selected' = [selected EXCEPT ![s] = FALSE]

-----------------------------------------------------------------------------
(* The menu: didSelectRowAt calls the delegate of the screen in front *)

PickSpeed(r) ==
  /\ screen \in Surfaces
  /\ SetVideoSpeed(screen, r, rate)
  /\ UNCHANGED <<screen, qualityVars>>

PickQuality(q) ==
  /\ screen \in Surfaces
  /\ SetVideoQuality(screen, q)
  /\ UNCHANGED <<screen, speedVars>>

-----------------------------------------------------------------------------
(* Playback *)

(* playAction of the view, tapped or run by the delayed start *)
ViewPlay ==
  /\ screen = "view"
  /\ \/ /\ selected["view"]
        /\ PauseAction("view")
        /\ UNCHANGED peak
     \/ /\ ~selected["view"]
        /\ peak' = BitRate(quality["view"])
        /\ SetVideoSpeed("view", speed["view"], NormalRate)
  /\ UNCHANGED <<screen, quality, qualityTitle>>

(* playAction of the controller *)
ControllerPlay ==
  /\ screen = "controller"
  /\ \/ /\ rate # 0
        /\ PauseAction("controller")
        /\ UNCHANGED qualityVars
     \/ /\ rate = 0
        /\ SetVideoSpeed("controller", speed["controller"], NormalRate)
        /\ SetVideoQuality("controller", quality["controller"])
  /\ UNCHANGED screen

(* forwardAction past the end clears the button only *)
ForwardPastEnd ==
  /\ screen \in Surfaces
  /\ selected' = [selected EXCEPT ![screen] = FALSE]
  /\ UNCHANGED <<screen, speed, speedTitle, rate, qualityVars>>

(* The item ends or fails, or the system interrupts *)
StopsOnItsOwn ==
  /\ rate # 0
  /\ Pause
  /\ UNCHANGED <<screen, qualityVars, selected>>

(* A controller that is in front, or was, stops the player *)
AppMovedToBackground ==
  /\ PauseAction("controller")
  /\ UNCHANGED <<screen, qualityVars>>

(* The start of a view that was replaced before its second was over: its own *)
(* button decides, and its own speed and quality reach the shared player     *)
LateStart ==
  /\ \/ Pause /\ UNCHANGED peak
     \/ /\ rate' \in {RateOf(r) : r \in Speeds \cup {"1.0x"}}
        /\ peak' \in {BitRate(q) : q \in Qualities \cup {"360p"}}
        /\ UNCHANGED <<speed, speedTitle>>
  /\ UNCHANGED <<screen, quality, qualityTitle, selected>>

(* playNextVideo: a new item has no limit, and play() sets the normal rate *)
PlayNextVideo ==
  /\ rate' = NormalRate
  /\ peak' = 0
  /\ UNCHANGED <<screen, speed, speedTitle, quality, qualityTitle, selected>>

-----------------------------------------------------------------------------
(* Full screen and back *)

(* Slip: one controller serves all trips and keeps the titles of the last *)
FullScreenActionReusing ==
  /\ screen = "view"
  /\ screen' = "entering"
  /\ speed' = [speed EXCEPT !["controller"] = speed["view"]]
  /\ quality' = [quality EXCEPT !["controller"] = quality["view"]]
  /\ selected' = [selected EXCEPT !["controller"] = FALSE]
  /\ UNCHANGED <<speedTitle, qualityTitle, rate, peak>>

(* fullScreenAction: a new controller, whose buttons have their first titles *)
FullScreenAction ==
  /\ screen = "view"
  /\ screen' = "entering"
  /\ speed' = [speed EXCEPT !["controller"] = speed["view"]]
  /\ quality' = [quality EXCEPT !["controller"] = quality["view"]]
  /\ speedTitle' = [speedTitle EXCEPT !["controller"] = "1.0x"]
  /\ qualityTitle' = [qualityTitle EXCEPT !["controller"] = "360p"]
  /\ selected' = [selected EXCEPT !["controller"] = FALSE]
  /\ UNCHANGED <<rate, peak>>

ViewDidAppear ==
  /\ screen = "entering"
  /\ screen' = "controller"
  /\ \/ /\ rate # 0
        /\ SetVideoSpeed("controller", speed["controller"], NormalRate)
        /\ SetVideoQuality("controller", quality["controller"])
     \/ /\ rate = 0
        /\ UNCHANGED <<speedVars, qualityVars>>

BackAction ==
  /\ screen = "controller"
  /\ screen' = "leaving"
  /\ UNCHANGED <<speedVars, qualityVars>>

(* The completion of dismiss passes the titles of the controller *)
ViewDismissed ==
  /\ screen = "leaving"
  /\ screen' = "view"
  /\ \/ /\ rate # 0
        /\ SetVideoSpeed("view", speedTitle["controller"], NormalRate)
        /\ SetVideoQuality("view", qualityTitle["controller"])
     \/ /\ rate = 0
        /\ speed' = [speed EXCEPT !["view"] = speedTitle["controller"]]
        /\ quality' = [quality EXCEPT !["view"] = qualityTitle["controller"]]
        /\ selected' = [selected EXCEPT !["view"] = FALSE]
        /\ UNCHANGED <<speedTitle, qualityTitle, rate, peak>>

-----------------------------------------------------------------------------
(* A view whose url was just set: what it shows and holds matches the code's *)
(* first values, and nothing has been limited yet                            *)
Init ==
  /\ screen = "view"
  /\ speed = [s \in Surfaces |-> IF s = "view" THEN "1.0x" ELSE ""]
  /\ quality = [s \in Surfaces |-> IF s = "view" THEN "360p" ELSE ""]
  /\ speedTitle = [s \in Surfaces |-> "1.0x"]
  /\ qualityTitle = [s \in Surfaces |-> "360p"]
  /\ selected = [s \in Surfaces |-> FALSE]
  /\ rate = 0
  /\ peak = 0

Next ==
  \/ \E r \in Speeds : PickSpeed(r)
  \/ \E q \in Qualities : PickQuality(q)
  \/ ViewPlay
  \/ ControllerPlay
  \/ ForwardPastEnd
  \/ StopsOnItsOwn
  \/ AppMovedToBackground
  \/ LateStart
  \/ PlayNextVideo
  \/ FullScreenAction
  \/ ViewDidAppear
  \/ BackAction
  \/ ViewDismissed

Spec == Init /\ [][Next]_vars

-----------------------------------------------------------------------------
(* Properties *)

SpeedTitles == {SpeedTitle(s) : s \in MenuSpeeds}

TypeOK ==
  /\ screen \in Surfaces \cup {"entering", "leaving"}
  /\ speed \in [Surfaces -> MenuSpeeds \cup SpeedTitles \cup {""}]
  /\ quality \in [Surfaces -> MenuQualities \cup {""}]
  /\ speedTitle \in [Surfaces -> SpeedTitles]
  /\ qualityTitle \in [Surfaces -> MenuQualities]
  /\ selected \in [Surfaces -> BOOLEAN]
  /\ rate \in {0} \cup {RateOf(s) : s \in MenuSpeeds}
  /\ peak \in {0} \cup {BitRate(q) : q \in MenuQualities}

(* What a user reads from a speed button *)
ShownRate(t) == IF t = "0.5x" THEN 50 ELSE RateOf(t)

(* The screen in front shows the speed at which its video plays, unless it *)
(* holds the one speed that is lost on the way back from full screen       *)
SpeedShown ==
  screen \in Surfaces /\ rate # 0 /\ speed[screen] \in KnownSpeeds
    => rate = ShownRate(speedTitle[screen])

(* Once the speed shown is the speed played it stays so, through starts,    *)
(* pauses, menu choices and trips to full screen that hand over a property  *)
(* one way and a title the other (PsVideoView.swift:236, 448, 473-523,      *)
(* PsVideoFullView.swift:69), until playNextVideo calls play() on its own   *)
(* (PsVideoView.swift:122) or a view that was replaced starts the shared    *)
(* player at its own speed (:41-44).                                        *)
SpeedStaysShown == [][SpeedShown /\ ~(PlayNextVideo \/ LateStart) => SpeedShown']_vars

(* The speed and the quality that a controller holds when the user leaves   *)
(* it come back to the view, although the way back carries the titles of    *)
(* its buttons (PsVideoView.swift:436-437, PsVideoFullView.swift:69), but   *)
(* for two losses: half speed, whose title setVideoSpeed does not know      *)
(* (PsVideoView.swift:478-481), and what was handed over while the video    *)
(* was paused and neither a start nor a choice has set since: viewDidAppear *)
(* skipped it (PsVideoFullView.swift:46), so that the title with which the  *)
(* button was made comes back instead.                                      *)
ChoiceComesBack ==
  [][ViewDismissed =>
       /\ \/ speed'["view"] = speed["controller"]
          \/ speed["controller"] \in {".5x", "0.5x"}
          \/ /\ speed["controller"] = speed["view"]
             /\ speedTitle["controller"] = "1.0x"
             /\ ~selected["controller"]
       /\ \/ quality'["view"] = quality["controller"]
          \/ /\ quality["controller"] = quality["view"]
             /\ qualityTitle["controller"] = "360p"]_vars

(* The limits of a screen that shows q: "Auto" is that of 360p through the  *)
(* menu and the switches (PsVideoView.swift:558-560), but has one of its    *)
(* own through playAction of the view (:170), which the controller has not. *)
Limits(s, q) ==
  {BitRate(IF q \in KnownQualities THEN q ELSE "360p")}
    \cup (IF s = "view" THEN {BitRate(q)} ELSE {})

QualityShown ==
  screen \in Surfaces =>
    /\ quality[screen] = qualityTitle[screen]
    /\ peak \in Limits(screen, qualityTitle[screen])

(* A paused switch of screens, or another item or another limit *)
QualityStep ==
  \/ (ViewDidAppear \/ ViewDismissed) /\ rate = 0
  \/ PlayNextVideo \/ LateStart

(* Once the quality the screen in front shows is the one it will start with *)
(* and the one its item is limited to, it stays so, but for three steps: a  *)
(* switch of screens while the video is paused skips setVideoQuality        *)
(* (PsVideoView.swift:443-453, PsVideoFullView.swift:46), playNextVideo     *)
(* puts in an item without a limit (PsVideoView.swift:119-120), and the     *)
(* start of a view that was replaced limits the shared item to its own      *)
(* quality (:41-44, 170).                                                   *)
QualityStaysShown ==
  [][QualityShown /\ ~QualityStep => QualityShown']_vars

-----------------------------------------------------------------------------
(* Refinement *)

Screens == INSTANCE TwoScreens
             WITH playing <- rate # 0,
                  button <- screen \in Surfaces /\ selected[screen]

(* Speeds, titles and limits ride on two screens that start and stop the    *)
(* player and set its button as TwoScreens says: no speed that is handed    *)
(* over, known to setVideoSpeed or not, keeps a start from starting or      *)
(* leaves the button behind (PsVideoView.swift:473-523).                    *)
ImplementsScreens == Screens!Spec
=============================================================================
