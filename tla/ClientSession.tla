----------------------------- MODULE ClientSession -----------------------------
(***************************************************************************)
(* The playback session under any JavaScript client: the properties that   *)
(* PsVideoViewManager.m exports (url, play, paused) set in any order, at   *)
(* any time and on any mounted view, several views at once, views removed  *)
(* while their controller is in front, playAnotherVideo at any time.       *)
(***************************************************************************)
EXTENDS PlayerSession

(* The manager's view(): no property is set yet *)
MountView(v) ==
  /\ status[v] = "new"
  /\ status' = [status EXCEPT ![v] = "mounted"]
  /\ UNCHANGED <<pending, fullVars, buttonVars, playerVars, layerVars, requests, crash>>

ClientStep ==
  \/ \E v \in Views : \/ MountView(v)
                      \/ Unmount(v)
                      \/ \E u \in Urls : SetUrl(v, u)
                      \/ \E on \in BOOLEAN : SetPlay(v, on) \/ SetPaused(v, on)
  \/ \E u \in Urls : PlayAnotherVideo(u)

ClientNext ==
  \/ crash = "none" /\ (ClientStep \/ TouchStep \/ SystemStep)
  \/ Aborted

ClientSpec == Init /\ [][ClientNext]_vars

-----------------------------------------------------------------------------
(* A controller always takes its observer back from the player that issued  *)
(* it: whatever url, play and paused do to the static player and to the     *)
(* view underneath, its player property is its own                          *)
(* (PsVideoFullView.swift:17,182,196-202), so backAction never raises.      *)
ControllerLeavesCleanly ==
  \A f \in FullViews : OnScreen(f) => ~RemovalRaises(f)

(* While a controller is in front the layer it was given exists and sits in *)
(* its view, even if the view underneath starts another video, is replaced  *)
(* or unmounted: the playerLayer! of viewDidLayoutSubviews and of the       *)
(* completion in backAction (PsVideoFullView.swift:59,69) hold.             *)
ControllerHoldsLayer ==
  \A f \in FullViews : Active(f) => layer[f] # Nil /\ host[layer[f]] = f

(* The layer a view holds is in its own tree unless a controller in front   *)
(* borrows it: no layer is left behind in a dismissed controller, however   *)
(* many delayed starts replaced playerLayer meanwhile                       *)
(* (PsVideoView.swift:110-116,235,438-442).                                 *)
LayerIsHomeOrBorrowed ==
  \A v \in Views : layer[v] # Nil =>
    \/ host[layer[v]] = v
    \/ \E f \in FullViews : Active(f) /\ delegate[f] = v /\ layer[f] = layer[v]
                              /\ host[layer[v]] = f

(* A trap on a nil player needs a client that never set url before the      *)
(* player was used: the static player, once set, is never lost, not even by *)
(* viewDismissed (PsVideoView.swift:437), and a controller created with one *)
(* keeps it.                                                                *)
UrlGivenIsKept ==
  [][/\ player # Nil => player' # Nil
     /\ \A f \in FullViews : ownPlayer[f] # Nil => ownPlayer'[f] = ownPlayer[f]
     /\ crash' = "nilPlayer" /\ player # Nil
          => \E f \in FullViews : phase[f] = "shown" \/ phase[f] = "dismissing"]_vars

(* The handover of the two screens is silent for any client, although       *)
(* viewDidAppear and viewDismissed call play() and pauseAction()            *)
(* (PsVideoFullView.swift:46-53, PsVideoView.swift:443-453) and url and     *)
(* paused may have changed the player in between.                           *)
HandoffIsSilent == [][Handoff => UNCHANGED playing]_vars
=============================================================================
