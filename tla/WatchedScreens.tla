---------------------------- MODULE WatchedScreens ----------------------------
(***************************************************************************)
(* TwoScreens and the periodic observer that moves slider and label: which *)
(* steps give it to the screen in front, and which take it away.           *)
(***************************************************************************)
EXTENDS TwoScreens

VARIABLE observed      \* the screen in front holds a periodic observer

watchedVars == <<screenVars, observed>>

(* playAction registers the observer it does not find when it starts *)
PlayWatched ==
  \/ ViewPlay /\ observed' = (observed \/ ~button)
  \/ ControllerPlay /\ observed' = (observed \/ ~playing)

(* A screen that comes to the front is given one if the video plays; a view *)
(* that did not present the controller keeps the one it may have            *)
ArriveWatched ==
  \/ ViewDidAppear /\ observed' = playing
  \/ ViewDismissed /\ observed' = playing
  \/ ReturnElsewhere /\ observed' \in {FALSE, screen' = "view"}

LeaveWatched ==
  /\ FullScreenAction \/ BackAction \/ Mount \/ Unmount
  /\ observed' = FALSE

(* Everything else starts and stops without looking at it *)
Unwatched ==
  /\ \/ SetVideoSpeed \/ ForwardPastEnd \/ Orphan
     \/ StopsOnItsOwn \/ LateStart \/ AppMovedToBackground \/ PlayNextVideo
  /\ UNCHANGED observed

WatchedNext == PlayWatched \/ ArriveWatched \/ LeaveWatched \/ Unwatched

WatchedSpec == Init /\ observed = FALSE /\ [][WatchedNext]_watchedVars
=============================================================================
