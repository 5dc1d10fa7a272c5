---------------------------- MODULE PlayerSession ----------------------------
(***************************************************************************)
(* The playback session of the native component: the React Native view     *)
(* PsVideoView, the full-screen controller PsVideoFullViewVC it presents,  *)
(* the AVPlayer all views share through the static PsVideoView.player, the *)
(* AVPlayerLayer that travels between the two screens, the periodic time   *)
(* observers registered on the players, and the playAnotherVideo command   *)
(* of the view manager.                                                    *)
(*                                                                         *)
(* Every handler runs on the main thread, so a handler is one action; the  *)
(* interleavings are those of touches, of the closures queued on the main  *)
(* queue, of UIKit's transition callbacks and of what React Native does to *)
(* the views.  AppSession and ClientSession say which of the operations    *)
(* below their JavaScript client performs and when.                        *)
(*                                                                         *)
(* Views and controllers are never freed: each owns a PsVideoControlsView  *)
(* whose strong delegate refers back to it (PsVideoView.swift:158,         *)
(* PsVideoFullView.swift:37), so an unmounted view and a dismissed         *)
(* controller still receive closures, ticks and notifications.             *)
(*                                                                         *)
(* Abstracted: positions and durations, speeds and bit rates (a speed is   *)
(* only "not zero"), the speed/quality menu and the hiding of the controls *)
(* (ControlsOverlay), layout.                                              *)
(***************************************************************************)
EXTENDS Naturals, Sequences

CONSTANTS
  Views,        \* PsVideoView instances React Native may create
  FullViews,    \* PsVideoFullViewVC instances fullScreenAction may create
  Players,      \* AVPlayer instances
  Layers,       \* AVPlayerLayer instances
  Urls,         \* urls JavaScript may pass
  BuiltInUrl,   \* the url written in playNextVideo
  Nil,
  MaxPending,   \* bound: delayed starts outstanding per view
  MaxRequests   \* bound: playAnotherVideo closures outstanding

ASSUME SurfacesDisjoint == Views \cap FullViews = {}
ASSUME NilIsNothing == /\ Nil \notin Views \cup FullViews
                       /\ Nil \notin Players
                       /\ Nil \notin Layers
                       /\ Nil \notin Urls \cup {BuiltInUrl}
ASSUME BoundsAreNaturals == MaxPending \in Nat /\ MaxRequests \in Nat

Surfaces == Views \cup FullViews

VARIABLES
  status,       \* status[v]: what React Native did with view v
  pending,      \* pending[v]: asyncAfter closures of v not yet run
  phase,        \* phase[f]: the controller's presentation
  ownPlayer,    \* ownPlayer[f]: the controller's player property
  delegate,     \* delegate[f]: the view that presented the controller
  layer,        \* layer[s]: the playerLayer property of a surface
  token,        \* token[s]: the player that issued s's timeObserver, or Nil
  selected,     \* selected[s]: s's play button shows "pause"
  player,       \* the static PsVideoView.player
  item,         \* item[p]: url of p's current item; Nil: p does not exist yet
  playing,      \* playing[p]: AVPlayer.isPlaying
  observers,    \* observers[p][s]: periodic observers of s registered on p
  layerPlayer,  \* layerPlayer[l]: the player layer l renders
  host,         \* host[l]: surface whose layer tree holds l; Nil: no such layer yet
  requests,     \* urls of the playAnotherVideo closures on the main queue
  crash         \* why the process aborted, "none" while it runs

viewVars   == <<status, pending>>
fullVars   == <<phase, ownPlayer, delegate>>
buttonVars == <<token, selected>>
playerVars == <<player, item, playing, observers>>
layerVars  == <<layer, layerPlayer, host>>
vars == <<viewVars, fullVars, buttonVars, playerVars, layerVars, requests, crash>>

-----------------------------------------------------------------------------
(* Derived notions *)

Active(f) == phase[f] \in {"presenting", "shown", "dismissing"}

(* viewDidLoad has run, so the controller gets didEnterBackground for good *)
Loaded(f) == phase[f] # "none"

NoFullScreen == \A f \in FullViews : ~Active(f)

(* The surfaces a touch can reach.  UIKit delivers none during a transition *)
(* and a full-screen controller covers the React Native views.              *)
OnScreen(s) == \/ s \in Views /\ status[s] = "mounted" /\ NoFullScreen
               \/ s \in FullViews /\ phase[s] = "shown"

(* Slip: a controller talks to the static player too *)
PlayerOfShared(s) == player

(* The player a surface's handlers talk to *)
PlayerOf(s) == IF s \in Views THEN player ELSE ownPlayer[s]

FreshPlayers == {p \in Players : item[p] = Nil}
FreshLayers  == {l \in Layers : host[l] = Nil}

-----------------------------------------------------------------------------
(* What AVFoundation and the Swift runtime do *)

(* player?.play(), player?.pause(), player?.rate = r: nothing on a nil player *)
WithRate(p, on) == [q \in Players |-> IF q = p THEN on ELSE playing[q]]

(* Slip: the token that addPeriodicTimeObserver returns is not kept *)
AddTimeObserverDropped(p, s) ==
  /\ UNCHANGED token
  /\ observers' = [q \in Players |-> [t \in Surfaces |->
                     observers[q][t] + (IF q = p /\ t = s THEN 1 ELSE 0)]]

(* addPeriodicTimeObserver on p by s; on a nil player it yields a nil token *)
AddTimeObserver(p, s) ==
  /\ token' = [token EXCEPT ![s] = p]
  /\ observers' = [q \in Players |-> [t \in Surfaces |->
                     observers[q][t] + (IF q = p /\ t = s THEN 1 ELSE 0)]]

(* removeTimeObserver raises for a token that p did not issue *)
Removable(p, s) == token[s] = p /\ observers[p][s] > 0

(* removeObservers finds something to remove and may not remove it *)
RemovalRaises(s) == /\ token[s] # Nil
                    /\ PlayerOf(s) # Nil
                    /\ ~Removable(PlayerOf(s), s)

(* Slip: the test timeObserver != nil of removeObservers is forgotten *)
WithoutObserverUntested(s) ==
  [q \in Players |-> [t \in Surfaces |->
     IF t = s /\ PlayerOf(s) = q THEN observers[q][t] - 1 ELSE observers[q][t]]]

(* what is registered after removeObservers *)
WithoutObserver(s) ==
  [q \in Players |-> [t \in Surfaces |->
     IF t = s /\ token[s] = q /\ PlayerOf(s) = q
       THEN observers[q][t] - 1 ELSE observers[q][t]]]

(* A trap or an uncaught Objective-C exception ends the process *)
Abort(why) ==
  /\ crash' = why
  /\ UNCHANGED <<viewVars, fullVars, buttonVars, playerVars, layerVars, requests>>

(* A player on its own: the item ends or fails, or the system interrupts it *)
StopsOnItsOwn(p) ==
  /\ playing[p]
  /\ playing' = WithRate(p, FALSE)
  /\ UNCHANGED <<viewVars, fullVars, buttonVars, player, item, observers,
                 layerVars, requests, crash>>

-----------------------------------------------------------------------------
(* PsVideoView: properties set by React Native *)

(* url: the shared player is replaced, whoever was using the old one *)
ReplacePlayer(u) ==
  \E p \in FreshPlayers :
    /\ player' = p
    /\ item' = [item EXCEPT ![p] = u]

(* Slip: the start is not queued *)
QueueStartLost(v) == UNCHANGED pending

(* Slip: pause leaves the button as it was *)
PauseActionKeepingButton(v) ==
  /\ playing' = WithRate(player, FALSE)
  /\ UNCHANGED selected

(* play = true: asyncAfter(1 s) queues a start that nothing cancels *)
QueueStart(v) == pending' = [pending EXCEPT ![v] = @ + 1]

PauseAction(v) ==
  /\ playing' = WithRate(player, FALSE)
  /\ selected' = [selected EXCEPT ![v] = FALSE]

SetUrl(v, u) ==
  /\ status[v] = "mounted"
  /\ ReplacePlayer(u)
  /\ UNCHANGED <<viewVars, fullVars, buttonVars, playing, observers,
                 layerVars, requests, crash>>

SetPlay(v, on) ==
  /\ status[v] = "mounted"
  /\ \/ /\ on
        /\ pending[v] < MaxPending
        /\ QueueStart(v)
        /\ UNCHANGED <<playing, selected>>
     \/ /\ ~on
        /\ PauseAction(v)
        /\ UNCHANGED pending
  /\ UNCHANGED <<status, fullVars, token, player, item, observers,
                 layerVars, requests, crash>>

SetPaused(v, on) ==
  /\ status[v] = "mounted"
  /\ playing' = WithRate(player, ~on)
  /\ selected' = [selected EXCEPT ![v] = ~on]
  /\ UNCHANGED <<viewVars, fullVars, token, player, item, observers,
                 layerVars, requests, crash>>

(* Slip: a view that goes away takes the static player with it *)
UnmountClearingPlayer(v) ==
  /\ status[v] = "mounted"
  /\ status' = [status EXCEPT ![v] = "unmounted"]
  /\ player' = Nil
  /\ UNCHANGED <<pending, fullVars, buttonVars, item, playing, observers,
                 layerVars, requests, crash>>

(* React Native drops the view; no handler of the component runs *)
Unmount(v) ==
  /\ status[v] = "mounted"
  /\ status' = [status EXCEPT ![v] = "unmounted"]
  /\ UNCHANGED <<pending, fullVars, buttonVars, playerVars, layerVars, requests, crash>>

(* Slip: the test timeObserver == nil of addObservers is forgotten *)
AddObserversUntested(v) == AddTimeObserver(player, v)

-----------------------------------------------------------------------------
(* PsVideoView: handlers *)

AddObservers(v) ==
  IF token[v] = Nil THEN AddTimeObserver(player, v) ELSE UNCHANGED <<token, observers>>

PlayAction(v) ==
  \/ /\ selected[v]
     /\ PauseAction(v)
     /\ UNCHANGED <<token, observers>>
  \/ /\ ~selected[v]
     /\ AddObservers(v)
     /\ playing' = WithRate(player, TRUE)
     /\ selected' = [selected EXCEPT ![v] = TRUE]

(* Slip: the layer is not added to the layer tree *)
InitVideoPlayerDetached(v) ==
  \E l \in FreshLayers :
    /\ layer' = [layer EXCEPT ![v] = l]
    /\ layerPlayer' = [layerPlayer EXCEPT ![l] = player]
    /\ UNCHANGED host

(* Slip: the layer is created without the player *)
InitVideoPlayerEmpty(v) ==
  \E l \in FreshLayers :
    /\ layer' = [layer EXCEPT ![v] = l]
    /\ host' = [host EXCEPT ![l] = v]
    /\ UNCHANGED layerPlayer

(* Slip: a second start adds the layer it finds instead of a new one *)
InitVideoPlayerReusing(v) ==
  \E l \in (IF layer[v] = Nil THEN FreshLayers ELSE {layer[v]}) :
    /\ layer' = [layer EXCEPT ![v] = l]
    /\ layerPlayer' = [layerPlayer EXCEPT ![l] = player]
    /\ host' = [host EXCEPT ![l] = v]

(* initVideoPlayer: a new layer for the current static player *)
InitVideoPlayer(v) ==
  \E l \in FreshLayers :
    /\ layer' = [layer EXCEPT ![v] = l]
    /\ layerPlayer' = [layerPlayer EXCEPT ![l] = player]
    /\ host' = [host EXCEPT ![l] = v]

(* The closure queued by play = true; it runs for an unmounted view too *)
DelayedStart(v) ==
  /\ pending[v] > 0
  /\ pending' = [pending EXCEPT ![v] = @ - 1]
  /\ InitVideoPlayer(v)
  /\ PlayAction(v)
  /\ UNCHANGED <<status, fullVars, player, item, requests, crash>>

PlayTapped(v) ==
  /\ OnScreen(v)
  /\ PlayAction(v)
  /\ UNCHANGED <<viewVars, fullVars, player, item, layerVars, requests, crash>>

(* Slip: timeObserver = nil is forgotten *)
GiveUpObserverKeepingToken(v) ==
  /\ observers' = WithoutObserver(v)
  /\ UNCHANGED token

(* removeObservers and timeObserver = nil *)
GiveUpObserver(v) ==
  /\ observers' = WithoutObserver(v)
  /\ token' = [token EXCEPT ![v] = Nil]

(* fullScreenAction: removeObservers, then playerLayer!, then present *)
FullScreenAction(v) ==
  /\ OnScreen(v)
  /\ \/ /\ RemovalRaises(v)
        /\ Abort("foreignObserver")
     \/ /\ ~RemovalRaises(v)
        /\ layer[v] = Nil
        /\ Abort("nilLayer")
     \/ /\ ~RemovalRaises(v)
        /\ layer[v] # Nil
        /\ \E f \in FullViews :
             /\ phase[f] = "none"
             /\ phase' = [phase EXCEPT ![f] = "presenting"]
             /\ ownPlayer' = [ownPlayer EXCEPT ![f] = player]
             /\ delegate' = [delegate EXCEPT ![f] = v]
             /\ layer' = [layer EXCEPT ![f] = layer[v]]
             /\ host' = [host EXCEPT ![layer[v]] = f]
        /\ GiveUpObserver(v)
        /\ UNCHANGED <<viewVars, selected, player, item, playing,
                       layerPlayer, requests, crash>>

-----------------------------------------------------------------------------
(* Handlers the two screens share, line for line *)

(* forwardAction: skipping past the end only clears the button *)
ForwardPastEnd(s) ==
  /\ OnScreen(s)
  /\ PlayerOf(s) # Nil
  /\ selected' = [selected EXCEPT ![s] = FALSE]
  /\ UNCHANGED <<viewVars, fullVars, token, playerVars, layerVars, requests, crash>>

(* backwardAction: currentTime() of a nil player is unwrapped *)
BackwardAction(s) ==
  /\ OnScreen(s)
  /\ PlayerOf(s) = Nil
  /\ Abort("nilPlayer")

(* setVideoSpeed from the speed menu: a rate that is not zero starts playback *)
SetVideoSpeed(s) ==
  /\ OnScreen(s)
  /\ playing' = WithRate(PlayerOf(s), TRUE)
  /\ selected' = [selected EXCEPT ![s] = TRUE]
  /\ UNCHANGED <<viewVars, fullVars, token, player, item, observers,
                 layerVars, requests, crash>>

(* Slip: any player counts as playing *)
IsPlayingIfSet(p) == p # Nil

-----------------------------------------------------------------------------
(* PsVideoFullViewVC: handlers *)

IsPlaying(p) == p # Nil /\ playing[p]

ViewDidAppear(f) ==
  /\ phase[f] = "presenting"
  /\ phase' = [phase EXCEPT ![f] = "shown"]
  /\ \/ /\ IsPlaying(ownPlayer[f])
        /\ AddTimeObserver(ownPlayer[f], f)
        /\ selected' = [selected EXCEPT ![f] = TRUE]
        /\ playing' = WithRate(ownPlayer[f], TRUE)
     \/ /\ ~IsPlaying(ownPlayer[f])
        /\ UNCHANGED <<token, observers, selected, playing>>
  /\ UNCHANGED <<viewVars, ownPlayer, delegate, player, item, layerVars, requests, crash>>

FullPlayTapped(f) ==
  /\ OnScreen(f)
  /\ \/ /\ IsPlaying(ownPlayer[f])
        /\ playing' = WithRate(ownPlayer[f], FALSE)
        /\ selected' = [selected EXCEPT ![f] = FALSE]
        /\ UNCHANGED <<token, observers>>
     \/ /\ ~IsPlaying(ownPlayer[f])
        /\ IF token[f] = Nil THEN AddTimeObserver(ownPlayer[f], f)
                             ELSE UNCHANGED <<token, observers>>
        /\ playing' = WithRate(ownPlayer[f], TRUE)
        /\ selected' = [selected EXCEPT ![f] = TRUE]
  /\ UNCHANGED <<viewVars, fullVars, player, item, layerVars, requests, crash>>

(* backAction: removeObservers (the token is kept), then dismiss *)
BackAction(f) ==
  /\ OnScreen(f)
  /\ \/ /\ RemovalRaises(f)
        /\ Abort("foreignObserver")
     \/ /\ ~RemovalRaises(f)
        /\ observers' = WithoutObserver(f)
        /\ phase' = [phase EXCEPT ![f] = "dismissing"]
        /\ UNCHANGED <<viewVars, ownPlayer, delegate, buttonVars, player, item, playing,
                       layerVars, requests, crash>>

(* Slip: viewDismissed forgets addSublayer *)
HandBackLayerDetached(f) ==
  /\ layer' = [layer EXCEPT ![delegate[f]] = layer[f]]
  /\ UNCHANGED host

(* The view takes the controller's layer and adds it to its own layer tree *)
HandBackLayer(f) ==
  /\ layer' = [layer EXCEPT ![delegate[f]] = layer[f]]
  /\ host' = [host EXCEPT ![layer[f]] = delegate[f]]

(* The completion of dismiss: self.player!, then the view's viewDismissed *)
ViewDismissed(f) ==
  LET v == delegate[f]
      p == ownPlayer[f]
  IN
  /\ phase[f] = "dismissing"
  /\ \/ /\ p = Nil
        /\ Abort("nilPlayer")
     \/ /\ p # Nil
        /\ phase' = [phase EXCEPT ![f] = "dismissed"]
        /\ player' = p
        /\ HandBackLayer(f)
        /\ \/ /\ playing[p]
              /\ playing' = WithRate(p, TRUE)
              /\ selected' = [selected EXCEPT ![v] = TRUE]
              /\ AddTimeObserver(p, v)
           \/ /\ ~playing[p]
              /\ playing' = WithRate(p, FALSE)
              /\ selected' = [selected EXCEPT ![v] = FALSE]
              /\ UNCHANGED <<token, observers>>
        /\ UNCHANGED <<viewVars, ownPlayer, delegate, item, layerPlayer, requests, crash>>

(* Slip: a controller sent to the background toggles its player *)
AppMovedToBackgroundToggling ==
  /\ \E f \in FullViews : Loaded(f)
  /\ playing' = [p \in Players |->
                   playing[p] # \E f \in FullViews : Loaded(f) /\ ownPlayer[f] = p]
  /\ UNCHANGED <<viewVars, fullVars, buttonVars, player, item, observers,
                 layerVars, requests, crash>>

(* didEnterBackground reaches every controller ever loaded: removeObservers *)
(* removes neither the right observer nor the right notification            *)
AppMovedToBackground ==
  /\ \E f \in FullViews : Loaded(f)
  /\ playing' = [p \in Players |->
                   playing[p] /\ ~\E f \in FullViews : Loaded(f) /\ ownPlayer[f] = p]
  /\ selected' = [s \in Surfaces |->
                    selected[s] /\ ~(s \in FullViews /\ Loaded(s))]
  /\ UNCHANGED <<viewVars, fullVars, token, player, item, observers,
                 layerVars, requests, crash>>

-----------------------------------------------------------------------------
(* PsVideoViewManager *)

PlayAnotherVideo(u) ==
  /\ Len(requests) < MaxRequests
  /\ requests' = Append(requests, u)
  /\ UNCHANGED <<viewVars, fullVars, buttonVars, playerVars, layerVars, crash>>

(* Slip: the next video gets a player of its own *)
PlayNextVideoReplacing ==
  /\ requests # << >>
  /\ requests' = Tail(requests)
  /\ ReplacePlayer(BuiltInUrl)
  /\ playing' = [p \in Players |-> playing[p] \/ p = player']
  /\ UNCHANGED <<viewVars, fullVars, buttonVars, observers, layerVars, crash>>

(* The queued closure: playNextVideo does not look at the url it is given *)
PlayNextVideo ==
  /\ requests # << >>
  /\ requests' = Tail(requests)
  /\ item' = [p \in Players |-> IF p = player THEN BuiltInUrl ELSE item[p]]
  /\ playing' = WithRate(player, TRUE)
  /\ UNCHANGED <<viewVars, fullVars, buttonVars, player, observers, layerVars, crash>>

-----------------------------------------------------------------------------
Init ==
  /\ status = [v \in Views |-> "new"]
  /\ pending = [v \in Views |-> 0]
  /\ phase = [f \in FullViews |-> "none"]
  /\ ownPlayer = [f \in FullViews |-> Nil]
  /\ delegate = [f \in FullViews |-> Nil]
  /\ layer = [s \in Surfaces |-> Nil]
  /\ token = [s \in Surfaces |-> Nil]
  /\ selected = [s \in Surfaces |-> FALSE]
  /\ player = Nil
  /\ item = [p \in Players |-> Nil]
  /\ playing = [p \in Players |-> FALSE]
  /\ observers = [p \in Players |-> [s \in Surfaces |-> 0]]
  /\ layerPlayer = [l \in Layers |-> Nil]
  /\ host = [l \in Layers |-> Nil]
  /\ requests = << >>
  /\ crash = "none"

(* What the user, UIKit, AVFoundation and the main queue may do, whatever *)
(* the JavaScript client is                                               *)
TouchStep ==
  \/ \E v \in Views : PlayTapped(v) \/ FullScreenAction(v)
  \/ \E f \in FullViews : FullPlayTapped(f) \/ BackAction(f)
  \/ \E s \in Surfaces : ForwardPastEnd(s) \/ BackwardAction(s) \/ SetVideoSpeed(s)

SystemStep ==
  \/ \E v \in Views : DelayedStart(v)
  \/ \E f \in FullViews : ViewDidAppear(f) \/ ViewDismissed(f)
  \/ \E p \in Players : StopsOnItsOwn(p)
  \/ AppMovedToBackground
  \/ PlayNextVideo

(* The steps of a trip to full screen and back *)
Handoff ==
  \/ \E v \in Views : FullScreenAction(v)
  \/ \E f \in FullViews : ViewDidAppear(f) \/ BackAction(f) \/ ViewDismissed(f)

(* The session is over when the process has aborted *)
Aborted == crash # "none" /\ UNCHANGED vars

TypeOK ==
  /\ status \in [Views -> {"new", "mounted", "unmounted"}]
  /\ pending \in [Views -> Nat]
  /\ phase \in [FullViews -> {"none", "presenting", "shown", "dismissing", "dismissed"}]
  /\ ownPlayer \in [FullViews -> Players \cup {Nil}]
  /\ delegate \in [FullViews -> Views \cup {Nil}]
  /\ layer \in [Surfaces -> Layers \cup {Nil}]
  /\ token \in [Surfaces -> Players \cup {Nil}]
  /\ selected \in [Surfaces -> BOOLEAN]
  /\ player \in Players \cup {Nil}
  /\ item \in [Players -> Urls \cup {BuiltInUrl, Nil}]
  /\ playing \in [Players -> BOOLEAN]
  /\ observers \in [Players -> [Surfaces -> Nat]]
  /\ layerPlayer \in [Layers -> Players \cup {Nil}]
  /\ host \in [Layers -> Surfaces \cup {Nil}]
  /\ requests \in Seq(Urls)
  /\ crash \in {"none", "nilLayer", "foreignObserver", "nilPlayer"}
=============================================================================
