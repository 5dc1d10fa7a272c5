------------------------------ MODULE AppSession ------------------------------
(***************************************************************************)
(* The playback session under the JavaScript client of this repository,    *)
(* App.js: one <VideoPlayer play={true} url={videoUri} />, rendered or not *)
(* according to showVideo; "toggle video" flips showVideo and "Set new     *)
(* Video" calls PsVideoViewManager.playAnotherVideo.                       *)
(*                                                                         *)
(* A press of "toggle video" travels to the JavaScript thread and comes    *)
(* back to the main thread as view operations, so touches on the native    *)
(* views may overtake it: toggling counts the presses on their way.  The   *)
(* button is never disabled and the updater is functional, so several may  *)
(* be, and the views they unmount and mount may change under a controller. *)
(***************************************************************************)
EXTENDS PlayerSession

CONSTANTS
  VideoUri,     \* the initial value of App's videoUri state
  NewVideoUri,  \* what the "Set new Video" button asks for
  MaxToggles    \* bound: presses of "toggle video" in flight

ASSUME AppUrls == {VideoUri, NewVideoUri} \subseteq Urls
ASSUME TogglesBound == MaxToggles \in Nat

VARIABLE toggling           \* flips of showVideo that have not reached the views yet

appVars == <<vars, toggling>>

-----------------------------------------------------------------------------
Mounted == {v \in Views : status[v] = "mounted"}

(* At launch showVideo is true and the first render is on its way *)
AppInit == Init /\ toggling = 1

(* The buttons of App are covered while a controller is on top *)
ToggleVideo ==
  /\ toggling < MaxToggles
  /\ NoFullScreen
  /\ toggling' = toggling + 1
  /\ UNCHANGED vars

(* The manager's view() and the url and play properties, in one turn of the *)
(* main thread: the order of the two does not matter, the start comes later *)
MountVideo(v) ==
  /\ toggling > 0
  /\ Mounted = {}
  /\ status[v] = "new"
  /\ status' = [status EXCEPT ![v] = "mounted"]
  /\ ReplacePlayer(VideoUri)
  /\ QueueStart(v)
  /\ toggling' = toggling - 1
  /\ UNCHANGED <<fullVars, buttonVars, playing, observers, layerVars, requests, crash>>

UnmountVideo(v) ==
  /\ toggling > 0
  /\ Unmount(v)
  /\ toggling' = toggling - 1

SetNewVideo ==
  /\ NoFullScreen
  /\ PlayAnotherVideo(NewVideoUri)
  /\ UNCHANGED toggling

AppStep ==
  \/ ToggleVideo
  \/ \E v \in Views : MountVideo(v) \/ UnmountVideo(v)
  \/ SetNewVideo

AppNext ==
  \/ crash = "none" /\ AppStep
  \/ crash = "none" /\ (TouchStep \/ SystemStep) /\ UNCHANGED toggling
  \/ Aborted /\ UNCHANGED toggling

(* A closure queued with asyncAfter runs once its second has passed, and     *)
(* UIKit ends the transitions it starts.  Nothing is assumed of the user, of *)
(* the players, of the JavaScript thread or of the notification.             *)
Fairness ==
  /\ \A v \in Views : WF_appVars(crash = "none" /\ DelayedStart(v) /\ UNCHANGED toggling)
  /\ \A f \in FullViews :
       /\ WF_appVars(crash = "none" /\ ViewDidAppear(f) /\ UNCHANGED toggling)
       /\ WF_appVars(crash = "none" /\ ViewDismissed(f) /\ UNCHANGED toggling)

AppSafetySpec == AppInit /\ [][AppNext]_appVars
AppSpec == AppSafetySpec /\ Fairness

-----------------------------------------------------------------------------
(* Safety *)

AppTypeOK == TypeOK /\ toggling \in Nat

(* v was mounted and started under a controller whose own view was gone, and *)
(* the controller's return made its player the static one again              *)
(* (PsVideoView.swift:21, 111, 437): v stands in front of another player.    *)
Overtaken(v) ==
  /\ \E f \in FullViews :
       /\ phase[f] = "dismissed"
       /\ ownPlayer[f] = player
       /\ delegate[f] # v
       /\ status[delegate[f]] = "unmounted"
  /\ layer[v] # Nil
  /\ layerPlayer[layer[v]] # player

(* removeObservers (PsVideoView.swift:186-190, PsVideoFullView.swift:196-202) *)
(* hands the token of a surface on screen to the player that issued it, and  *)
(* finds it registered there, except on an overtaken view: a controller       *)
(* never raises, nor does any other view, whatever replaced the player.       *)
ObserverRemovable ==
  \A s \in Surfaces : OnScreen(s) /\ RemovalRaises(s) => s \in Views /\ Overtaken(s)

(* A surface has at most one periodic observer in all, and one exactly when *)
(* it holds the token of it: the add guarded by timeObserver == nil         *)
(* (PsVideoView.swift:181, PsVideoFullView.swift:113) and the unguarded     *)
(* adds (:446, :49) never register a second one whose token is lost.        *)
OneObserver ==
  /\ \A v \in Views, p \in Players : observers[p][v] = IF token[v] = p THEN 1 ELSE 0
  /\ \A f \in FullViews, p \in Players :
       observers[p][f] = IF token[f] = p /\ phase[f] = "shown" THEN 1 ELSE 0

(* Once its start has run, the surface on screen holds a layer that is in   *)
(* its own layer tree and, unless it is an overtaken view, renders the      *)
(* player its buttons drive: the layer handed over by fullScreenAction      *)
(* (PsVideoView.swift:235,240) and handed back by viewDismissed (:438,442)  *)
(* follows the screens.                                                     *)
PictureOnStage ==
  \A s \in Surfaces :
    OnScreen(s) /\ (s \in Views => pending[s] = 0) =>
      /\ layer[s] # Nil
      /\ host[layer[s]] = s
      /\ layerPlayer[layer[s]] = PlayerOf(s) \/ (s \in Views /\ Overtaken(s))

(* In this application only fullScreenAction aborts the process, and only   *)
(* in two situations: before the view's start has run (the playerLayer! of  *)
(* PsVideoView.swift:240), or on an overtaken view, whose token another     *)
(* player issued (:188).  Leaving full screen, skipping back and the        *)
(* self.player! of a dismissal never do.                                    *)
OnlyFullScreenActionAborts ==
  /\ crash # "nilPlayer"
  /\ crash = "nilLayer" => NoFullScreen /\ \E v \in Mounted : pending[v] > 0
  /\ crash = "foreignObserver" => NoFullScreen /\ \E v \in Mounted : Overtaken(v)

(* While the view that presented a controller is still there, the           *)
(* controller's own player and the static one are one, although they are    *)
(* separate variables (PsVideoView.swift:234,437): playNextVideo reaches    *)
(* what is on screen.  Once that view is gone, a view mounted under the     *)
(* controller may have replaced the static player (:21).                    *)
OneSharedPlayer ==
  \A f \in FullViews : Active(f) /\ delegate[f] \in Mounted => ownPlayer[f] = player

-----------------------------------------------------------------------------
(* The inductive invariant behind the safety properties *)

OneView == \A v, w \in Mounted : v = w

OneController == \A f, g \in FullViews : Active(f) /\ Active(g) => f = g

(* The layer of a view appears with its only start *)
StartsOnce ==
  \A v \in Views :
    /\ pending[v] \in {0, 1}
    /\ status[v] = "new" => pending[v] = 0 /\ layer[v] = Nil /\ token[v] = Nil /\ ~selected[v]
    /\ pending[v] > 0 => layer[v] = Nil
    /\ status[v] = "mounted" /\ pending[v] = 0 => layer[v] # Nil

(* Players come into being through the url property and are not started by it *)
PlayersExist ==
  /\ \A p \in Players : item[p] = Nil => ~playing[p]
  /\ player # Nil => item[player] # Nil
  /\ \A f \in FullViews : ownPlayer[f] # Nil => item[ownPlayer[f]] # Nil

(* What a mounted view holds belongs to the static player, or the view is *)
(* overtaken and holds what it had before                                 *)
ViewUsesShared ==
  \A v \in Mounted :
    /\ player # Nil
    /\ \/ /\ token[v] \in {Nil, player}
          /\ layer[v] # Nil => layerPlayer[layer[v]] = player
       \/ /\ NoFullScreen
          /\ Overtaken(v)
          /\ token[v] # Nil
          /\ token[v] = layerPlayer[layer[v]]

(* What a controller in front took over from the view that presented it *)
ControllerTookOver ==
  \A f \in FullViews : Active(f) =>
    /\ ownPlayer[f] # Nil
    /\ delegate[f] \in Views
    /\ status[delegate[f]] # "new"
    /\ token[delegate[f]] = Nil
    /\ pending[delegate[f]] = 0
    /\ layer[f] # Nil
    /\ layer[delegate[f]] = layer[f]
    /\ layerPlayer[layer[f]] = ownPlayer[f]
    /\ host[layer[f]] = f
    /\ delegate[f] \in Mounted => ownPlayer[f] = player

(* A view mounted under a controller that another view presented has replaced *)
(* the static player, and no touch comes between its mounting and its start   *)
Newcomer ==
  \A f \in FullViews, v \in Mounted : Active(f) /\ delegate[f] # v =>
    /\ ownPlayer[f] # player
    /\ pending[v] > 0 => ~selected[v] /\ token[v] = Nil
    /\ pending[v] = 0 => token[v] = player

ControllerToken ==
  \A f \in FullViews :
    /\ phase[f] \in {"none", "presenting"} => token[f] = Nil
    /\ phase[f] = "shown" => token[f] \in {Nil, ownPlayer[f]}

LayerInPlace ==
  \A v \in Views :
    layer[v] # Nil /\ (\A f \in FullViews : Active(f) => delegate[f] # v)
      => host[layer[v]] = v

SessionInv ==
  /\ AppTypeOK
  /\ OneView
  /\ OneController
  /\ StartsOnce
  /\ PlayersExist
  /\ ViewUsesShared
  /\ ControllerTookOver
  /\ Newcomer
  /\ ControllerToken
  /\ LayerInPlace
  /\ OneObserver
  /\ OnlyFullScreenActionAborts

-----------------------------------------------------------------------------
(* Action properties *)

(* Going to full screen and back neither starts nor stops a player,         *)
(* although viewDidAppear and viewDismissed call play() and pauseAction()   *)
(* (PsVideoFullView.swift:46-53, PsVideoView.swift:443-453).                *)
HandoffKeepsPlayback == [][Handoff => UNCHANGED playing]_appVars

ButtonTruth ==
  \A s \in Surfaces : OnScreen(s) => (selected[s] <=> IsPlaying(PlayerOf(s)))

UserControl ==
  \/ \E v \in Views : PlayTapped(v)
  \/ \E f \in FullViews : FullPlayTapped(f)
  \/ \E s \in Surfaces : SetVideoSpeed(s)
  \/ \E v \in Mounted : DelayedStart(v)

(* A controller whose view was removed under it returns to another view *)
ReturnElsewhere ==
  \E f \in FullViews : ViewDismissed(f) /\ \E v \in Mounted : v # delegate[f]

(* No touch on play or on a speed, no start of the mounted view and no step *)
(* of a handoff leaves the button of the surface on screen showing          *)
(* something else than what its player does, if it was right before; only   *)
(* the return to a view that did not present the controller may.            *)
(* playAction of the view decides by the button (PsVideoView.swift:162),    *)
(* that of the controller by the player (PsVideoFullView.swift:108), and    *)
(* the screens hand over the player but not the button.                     *)
ButtonStaysTrue ==
  [][(Handoff \/ UserControl) /\ ~ReturnElsewhere /\ ButtonTruth => ButtonTruth']_appVars

(* What plays in front of the user is observed: slider and label move *)
PlaybackObserved ==
  \A s \in Surfaces : OnScreen(s) /\ IsPlaying(PlayerOf(s)) => token[s] = PlayerOf(s)

(* The start of a view that was replaced before its second was over *)
LateStart == \E v \in Views \ Mounted : DelayedStart(v)

(* The steps that start the video in front, or bring a playing one to the   *)
(* front, without an observer of it: playNextVideo (PsVideoView.swift:122); *)
(* a choice from the speed menu, whose rate starts a paused player          *)
(* (PsVideoFullView.swift:333-383); a start that comes after its view was   *)
(* replaced (PsVideoView.swift:41-44); the return to another view (:437);   *)
(* a play tap there, which finds an observer of another player (:181).      *)
Unobserving ==
  \/ PlayNextVideo
  \/ \E s \in Surfaces : SetVideoSpeed(s)
  \/ LateStart
  \/ ReturnElsewhere
  \/ \E v \in Mounted : Overtaken(v) /\ PlayTapped(v)

(* Every other step keeps what plays in front observed, although the view   *)
(* drops its observer on the way out (PsVideoView.swift:238-239) and the    *)
(* controller is given one only if the video plays when it appears          *)
(* (PsVideoFullView.swift:46).                                              *)
PlaybackStaysObserved ==
  [][PlaybackObserved /\ ~Unobserving => PlaybackObserved']_appVars

(* A player that neither the static variable nor the controller in front    *)
(* names any more                                                           *)
Gone(p) ==
  /\ item[p] # Nil
  /\ p # player
  /\ \A f \in FullViews : Active(f) => ownPlayer[f] # p

(* Such a player is kept alive by the layer of its unmounted view and by    *)
(* dismissed controllers, which still hear of the background                *)
(* (PsVideoView.swift:111, PsVideoFullView.swift:40,197,321-323), and may   *)
(* still be playing.  No tap, late start, queued command, return or         *)
(* notification makes it the shared player again or starts it.              *)
ReplacedPlayerNeverStarts ==
  [][\A p \in Players : Gone(p) => Gone(p)' /\ (~playing[p] => ~playing'[p])]_appVars

-----------------------------------------------------------------------------
(* Liveness *)

(* A dismissed controller gives the layer back to the view that presented   *)
(* it, unless the process aborts: the completion of dismiss is never lost.  *)
LayerComesBack ==
  \A f \in FullViews, v \in Views :
    phase[f] = "dismissing" /\ delegate[f] = v
      ~> layer[v] # Nil /\ host[layer[v]] = v

(* A view React Native mounted gets a layer for its player, even if it is   *)
(* unmounted meanwhile, unless a full-screen tap aborts the process first.  *)
MountedViewIsStarted ==
  \A v \in Views : status[v] = "mounted" ~> layer[v] # Nil \/ crash # "none"

-----------------------------------------------------------------------------
(* Refinement *)

(* Where the picture of view v is, read off the layer it owns and the       *)
(* controller that shows it                                                 *)
Place(v) ==
  IF layer[v] = Nil THEN "absent"
  ELSE IF \E f \in FullViews : Active(f) /\ delegate[f] = v /\ layer[f] = layer[v]
                                /\ host[layer[v]] = f /\ phase[f] # "dismissing"
         THEN "full"
  ELSE IF \E f \in FullViews : phase[f] = "dismissing" /\ delegate[f] = v
                                /\ layer[f] = layer[v] /\ host[layer[v]] = f
         THEN "returning"
  ELSE IF host[layer[v]] = v THEN "embedded" ELSE "lost"

Handover == INSTANCE VideoHandover WITH place <- [v \in Views |-> Place(v)]

(* The session under App implements the handover of VideoHandover: one      *)
(* picture per view in one place, silent moves, and a return that happens.  *)
(* It covers fullScreenAction, viewDidAppear, backAction and viewDismissed  *)
(* interleaved with every other handler.                                    *)
ImplementsHandover == Handover!Spec

(* What is in front of the user, read off the controllers and the views *)
ScreenInFront ==
  IF \E f \in FullViews : phase[f] = "presenting" THEN "entering"
  ELSE IF \E f \in FullViews : phase[f] = "shown" THEN "controller"
  ELSE IF \E f \in FullViews : phase[f] = "dismissing" /\ delegate[f] \in Mounted THEN "leaving"
  ELSE IF \E f \in FullViews : phase[f] = "dismissing" THEN "orphaned"
  ELSE IF Mounted # {} THEN "view" ELSE "none"

(* The player it drives *)
PlayingInFront ==
  \/ \E f \in FullViews : Active(f) /\ IsPlaying(ownPlayer[f])
  \/ NoFullScreen /\ IsPlaying(player)

ButtonInFront   == \E s \in Surfaces : OnScreen(s) /\ selected[s]
ObserverInFront == \E s \in Surfaces : OnScreen(s) /\ token[s] # Nil

Watched == INSTANCE WatchedScreens
             WITH screen <- ScreenInFront, playing <- PlayingInFront,
                  button <- ButtonInFront, observed <- ObserverInFront

(* What the user sees of all views, controllers and players is two screens  *)
(* and one player, and changes by the steps of WatchedScreens only: views   *)
(* mounted under a controller, replaced players, late starts and dismissed  *)
(* controllers that still hear of the background                            *)
(* (PsVideoFullView.swift:196-197) add none of their own.  The models that  *)
(* follow one view, PlaybackClock and PlaybackSettings, rest on this.       *)
ImplementsScreens == Watched!WatchedSpec

-----------------------------------------------------------------------------
(* What the repository's own text expects and the code does not do *)

(* fullScreenAction unwraps playerLayer (PsVideoView.swift:240: the ! says  *)
(* a layer exists whenever the button can be tapped).                       *)
LayerExistsWhenUnwrapped == crash # "nilLayer"

(* "Set new Video" passes the url to play (App.js:47-54) through            *)
(* playAnotherVideo(_ url:) to playNextVideo(url:): when the command runs   *)
(* the shared player plays what was asked for.                              *)
RequestedUrlIsPlayed ==
  [][PlayNextVideo /\ player # Nil => item'[player] = Head(requests)]_appVars
=============================================================================
