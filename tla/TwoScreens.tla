------------------------------ MODULE TwoScreens ------------------------------
(***************************************************************************)
(* What PlayerSession, PlaybackClock and PlaybackSettings have in common:  *)
(* the screen in front of the user, whether the video plays, and what the  *)
(* play button in front says of it.  Each of the three is a detailed model *)
(* of these screens; what one of them leaves out reaches it only through   *)
(* the steps below, and the session under App takes no others.             *)
(*                                                                         *)
(* The view's button decides by itself, the controller's by the player;    *)
(* going from one to the other drops the old button and sets the new one.  *)
(***************************************************************************)
VARIABLES
  screen,    \* the surface in front, the transition between the two, "none",
             \* or "orphaned": the controller leaves, its view is gone
  playing,   \* the player of that surface plays
  button     \* the play button in front shows "pause"

screenVars == <<screen, playing, button>>

Surfaces == {"view", "controller"}

-----------------------------------------------------------------------------
(* The buttons of the screen in front *)

ViewPlay ==
  /\ screen = "view"
  /\ playing' = ~button
  /\ button' = ~button
  /\ UNCHANGED screen

ControllerPlay ==
  /\ screen = "controller"
  /\ playing' = ~playing
  /\ button' = ~playing
  /\ UNCHANGED screen

SetVideoSpeed ==
  /\ screen \in Surfaces
  /\ playing' = TRUE
  /\ button' = TRUE
  /\ UNCHANGED screen

ForwardPastEnd ==
  /\ screen \in Surfaces
  /\ button' = FALSE
  /\ UNCHANGED <<screen, playing>>

-----------------------------------------------------------------------------
(* From one screen to the other, silently *)

FullScreenAction ==
  /\ screen = "view"
  /\ screen' = "entering"
  /\ button' = FALSE
  /\ UNCHANGED playing

ViewDidAppear ==
  /\ screen = "entering"
  /\ screen' = "controller"
  /\ button' = playing
  /\ UNCHANGED playing

BackAction ==
  /\ screen = "controller"
  /\ screen' \in {"leaving", "orphaned"}
  /\ button' = FALSE
  /\ UNCHANGED playing

ViewDismissed ==
  /\ screen = "leaving"
  /\ screen' = "view"
  /\ button' = playing
  /\ UNCHANGED playing

(* The view that presented the controller is gone: another one, mounted in *)
(* its place meanwhile, keeps the button it has, or there is none          *)
ReturnElsewhere ==
  /\ screen = "orphaned"
  /\ screen' \in {"view", "none"}
  /\ button' \in {FALSE, screen' = "view"}
  /\ UNCHANGED playing

-----------------------------------------------------------------------------
(* What happens to them *)

(* A view comes with a player of its own *)
Mount ==
  /\ screen = "none"
  /\ screen' = "view"
  /\ playing' = FALSE
  /\ button' = FALSE

Unmount ==
  /\ screen = "view"
  /\ screen' = "none"
  /\ button' = FALSE
  /\ UNCHANGED playing

(* The view to which the controller returns is removed *)
Orphan ==
  /\ screen = "leaving"
  /\ screen' = "orphaned"
  /\ UNCHANGED <<playing, button>>

StopsOnItsOwn ==
  /\ playing' = FALSE
  /\ UNCHANGED <<screen, button>>

(* The start of a view that is no longer there *)
LateStart ==
  /\ playing' \in BOOLEAN
  /\ UNCHANGED <<screen, button>>

AppMovedToBackground ==
  /\ playing' = FALSE
  /\ button' = (button /\ screen # "controller")
  /\ UNCHANGED screen

PlayNextVideo ==
  /\ playing' = TRUE
  /\ UNCHANGED <<screen, button>>

-----------------------------------------------------------------------------
Init ==
  /\ screen \in {"none", "view"}
  /\ playing = FALSE
  /\ button = FALSE

Next ==
  \/ ViewPlay \/ ControllerPlay \/ SetVideoSpeed \/ ForwardPastEnd
  \/ FullScreenAction \/ ViewDidAppear \/ BackAction \/ ViewDismissed \/ ReturnElsewhere
  \/ Mount \/ Unmount \/ Orphan
  \/ StopsOnItsOwn \/ LateStart \/ AppMovedToBackground \/ PlayNextVideo

Spec == Init /\ [][Next]_screenVars
=============================================================================
