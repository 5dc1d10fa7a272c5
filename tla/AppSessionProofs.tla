--------------------------- MODULE AppSessionProofs ---------------------------
(***************************************************************************)
(* The safety properties of the session under App for any number of views, *)
(* controllers, players, layers and presses in flight.  SessionInv, stated *)
(* in AppSession, is the inductive invariant; that only fullScreenAction   *)
(* aborts the process, and when, is one of its conjuncts.                  *)
(***************************************************************************)
EXTENDS AppSession, PlayerSessionProofs

-----------------------------------------------------------------------------
(* Type correctness *)

(* Nothing App.js does takes a variable out of its range. *)
LEMMA AppStepType ==
  ASSUME AppTypeOK, AppStep
  PROVE  AppTypeOK'
<1> USE DEF AppTypeOK, viewVars, fullVars, buttonVars, playerVars, layerVars
<1>1. CASE ToggleVideo
  BY <1>1, TogglesBound DEF ToggleVideo, TypeOK, vars
<1>2. ASSUME NEW v \in Views, MountVideo(v) PROVE AppTypeOK'
  <2>1. player' \in Players /\ item' \in [Players -> Urls \cup {BuiltInUrl, Nil}]
    BY <1>2, AppUrls DEF MountVideo, ReplacePlayer, FreshPlayers, TypeOK
  <2>2. /\ pending' \in [Views -> Nat]
        /\ status' \in [Views -> {"new", "mounted", "unmounted"}]
    BY <1>2 DEF MountVideo, QueueStart, TypeOK
  <2> QED
    BY <1>2, <2>1, <2>2 DEF MountVideo, TypeOK
<1>3. ASSUME NEW v \in Views, UnmountVideo(v) PROVE AppTypeOK'
  BY <1>3 DEF UnmountVideo, Unmount, TypeOK
<1>4. CASE SetNewVideo
  <2>1. requests' \in Seq(Urls)
    BY <1>4, AppUrls DEF SetNewVideo, PlayAnotherVideo, TypeOK
  <2> QED
    BY <1>4, <2>1 DEF SetNewVideo, PlayAnotherVideo, TypeOK
<1> QED
  BY <1>1, <1>2, <1>3, <1>4 DEF AppStep

(* Type correctness is preserved by every step of the session. *)
LEMMA TypePreserved ==
  ASSUME AppTypeOK, [AppNext]_appVars
  PROVE  AppTypeOK'
<1>1. CASE AppStep
  BY <1>1, AppStepType
<1>2. CASE (TouchStep \/ SystemStep) /\ UNCHANGED toggling
  BY <1>2, StepType DEF AppTypeOK
<1>3. CASE UNCHANGED appVars
  BY <1>3 DEF appVars, vars, viewVars, fullVars, buttonVars, playerVars, layerVars,
              AppTypeOK, TypeOK
<1> QED
  BY <1>1, <1>2, <1>3 DEF AppNext, Aborted, appVars

(* Type correctness of the session under App. *)
THEOREM AppTypeCorrect == AppSafetySpec => []AppTypeOK
<1>1. AppInit => AppTypeOK
  BY DEF AppInit, Init, AppTypeOK, TypeOK
<1> QED
  BY <1>1, TypePreserved, PTL DEF AppSafetySpec

-----------------------------------------------------------------------------
(* The inductive invariant *)

Struct ==
  /\ OneView
  /\ OneController
  /\ StartsOnce
  /\ ViewUsesShared
  /\ ControllerTookOver
  /\ Newcomer
  /\ ControllerToken
  /\ LayerInPlace
  /\ OneObserver

(* What Struct talks about, but for the buttons of views that cannot be touched; *)
(* the items, the playback and the requests are not part of it                   *)
Core == <<status, pending, phase, ownPlayer, delegate, layer, token, player,
          observers, layerPlayer, host>>

(* A step that only changes rates, items, requests and the buttons that can be  *)
(* touched (pause, the end of an item, a speed, going to background,            *)
(* playNextVideo) keeps the structure.                                          *)
LEMMA CoreUntouched ==
  ASSUME Struct, UNCHANGED Core,
         \A v \in Views : selected'[v] => selected[v] \/ OnScreen(v)
  PROVE  Struct'
<1> USE DEF Core, Struct, Mounted, Active
<1>1. OneView' /\ OneController'
  BY DEF OneView, OneController
<1>2. StartsOnce'
  BY SurfacesDisjoint DEF StartsOnce, OnScreen
<1>3. ViewUsesShared'
  BY DEF ViewUsesShared, Overtaken, NoFullScreen
<1>4. ControllerTookOver' /\ ControllerToken'
  BY DEF ControllerTookOver, ControllerToken
<1>5. Newcomer'
  BY SurfacesDisjoint DEF Newcomer, OnScreen, NoFullScreen
<1>6. LayerInPlace' /\ OneObserver'
  BY DEF LayerInPlace, OneObserver
<1> QED
  BY <1>1, <1>2, <1>3, <1>4, <1>5, <1>6

(* A view stays overtaken while views, controllers and the shared player stay. *)
LEMMA OvertakenStays ==
  ASSUME NEW v \in Views, Overtaken(v),
         UNCHANGED <<status, phase, ownPlayer, delegate, player>>,
         layer'[v] = layer[v], layerPlayer'[layer[v]] = layerPlayer[layer[v]]
  PROVE  Overtaken(v)'
BY DEF Overtaken

(* Registering s's observer on p is counted once when s holds no token. *)
LEMMA AddOnce ==
  ASSUME TypeOK, OneObserver, NEW p \in Players \cup {Nil}, NEW s \in Surfaces,
         token[s] = Nil, AddTimeObserver(p, s)
  PROVE  /\ token'[s] = p
         /\ \A t \in Surfaces : t # s => token'[t] = token[t]
         /\ \A q \in Players : observers'[q][s] = IF q = p THEN 1 ELSE 0
         /\ \A q \in Players, t \in Surfaces : t # s => observers'[q][t] = observers[q][t]
<1> USE DEF TypeOK, AddTimeObserver
<1>1. \A q \in Players : observers[q][s] = 0
  BY NilIsFresh DEF OneObserver, Surfaces
<1>2. token'[s] = p /\ \A t \in Surfaces : t # s => token'[t] = token[t]
  OBVIOUS
<1>3. \A q \in Players : observers'[q][s] = IF q = p THEN 1 ELSE 0
  BY <1>1
<1>4. \A q \in Players, t \in Surfaces : t # s => observers'[q][t] = observers[q][t]
  OBVIOUS
<1> QED
  BY <1>2, <1>3, <1>4

(* A surface touched by the user has a player, and finds its observer where it *)
(* looks unless it is an overtaken view.                                       *)
LEMMA OnlyOvertakenRaises ==
  ASSUME TypeOK, Struct, NEW s \in Surfaces, OnScreen(s)
  PROVE  /\ PlayerOf(s) # Nil
         /\ RemovalRaises(s) => s \in Views /\ Overtaken(s)
<1> USE NilIsFresh DEF Struct, OnScreen, PlayerOf
<1>1. CASE s \in Views
  <2>1. player # Nil /\ (token[s] \in {Nil, player} \/ Overtaken(s))
    BY <1>1 DEF ViewUsesShared, Mounted
  <2>2. token[s] = player => observers[player][s] = 1
    BY <1>1, <2>1 DEF OneObserver, TypeOK
  <2> QED
    BY <1>1, <2>1, <2>2 DEF RemovalRaises, Removable
<1>2. CASE s \in FullViews
  <2>1. ownPlayer[s] # Nil /\ ownPlayer[s] \in Players
    BY <1>2 DEF ControllerTookOver, Active, TypeOK
  <2>2. token[s] \in {Nil, ownPlayer[s]}
    BY <1>2 DEF ControllerToken
  <2>3. token[s] = ownPlayer[s] => observers[ownPlayer[s]][s] = 1
    BY <1>2, <2>1 DEF OneObserver
  <2> QED
    BY <1>2, <2>1, <2>2, <2>3 DEF RemovalRaises, Removable
<1> QED
  BY <1>1, <1>2 DEF Surfaces

(* toggle video is pressed *)
LEMMA ToggleStruct == ASSUME TypeOK, Struct, ToggleVideo PROVE Struct'
<1>1. UNCHANGED Core /\ UNCHANGED selected
  BY DEF ToggleVideo, vars, viewVars, fullVars, buttonVars, playerVars, layerVars, Core
<1> QED
  BY <1>1, CoreUntouched

(* React Native mounts a view, perhaps under the controller of one that is gone *)
LEMMA MountStruct ==
  ASSUME TypeOK, Struct, PlayersExist, NEW v \in Views, MountVideo(v)
  PROVE  Struct'
<1> USE DEF Struct, MountVideo, fullVars, buttonVars, layerVars
<1>1. \A w \in Views : status'[w] = (IF w = v THEN "mounted" ELSE status[w])
                     /\ pending'[w] = (IF w = v THEN pending[v] + 1 ELSE pending[w])
  BY DEF QueueStart, TypeOK
<1>2. Mounted' = {v}
  BY <1>1 DEF Mounted
<1>3. player' # Nil /\ player' \in Players /\ item[player'] = Nil
  BY NilIsFresh DEF ReplacePlayer, FreshPlayers
<1>4. pending[v] = 0 /\ pending'[v] = 1 /\ layer[v] = Nil /\ token[v] = Nil /\ ~selected[v]
  BY <1>1 DEF StartsOnce
<1>5. OneView' /\ OneController'
  BY <1>2 DEF OneView, OneController, Active
<1>6. StartsOnce'
  BY <1>1, <1>4 DEF StartsOnce
<1>7. ViewUsesShared'
  BY <1>2, <1>3, <1>4 DEF ViewUsesShared
<1>8. ControllerTookOver'
  <2>1. \A f \in FullViews : Active(f) => delegate[f] # v /\ delegate[f] \in Views
    BY DEF ControllerTookOver
  <2> QED
    BY <1>1, <1>2, <2>1 DEF ControllerTookOver, Active
<1>9. ControllerToken' /\ LayerInPlace' /\ OneObserver'
  BY DEF ControllerToken, LayerInPlace, Active, OneObserver
<1>10. Newcomer'
  <2>1. \A f \in FullViews : Active(f) => ownPlayer[f] # player'
    BY <1>3 DEF PlayersExist, ControllerTookOver
  <2> QED
    BY <1>2, <1>4, <2>1 DEF Newcomer, Active
<1> QED
  BY <1>5, <1>6, <1>7, <1>8, <1>9, <1>10

(* React Native unmounts a view, perhaps under its controller *)
LEMMA UnmountStruct == ASSUME TypeOK, Struct, NEW v \in Views, UnmountVideo(v) PROVE Struct'
<1> USE DEF Struct, UnmountVideo, Unmount, fullVars, buttonVars, playerVars, layerVars
<1>1. \A w \in Views : status'[w] = IF w = v THEN "unmounted" ELSE status[w]
  BY DEF TypeOK
<1>2. Mounted' = Mounted \ {v}
  BY <1>1 DEF Mounted
<1>3. OneView' /\ OneController'
  BY <1>2 DEF OneView, OneController, Active
<1>4. StartsOnce'
  BY <1>1 DEF StartsOnce
<1>5. Mounted' = {}
  BY <1>2 DEF OneView, Mounted
<1>6. ViewUsesShared' /\ Newcomer'
  BY <1>5 DEF ViewUsesShared, Newcomer
<1>7. ControllerTookOver' /\ ControllerToken'
  BY <1>1, <1>5 DEF Active, ControllerTookOver, ControllerToken
<1>8. LayerInPlace' /\ OneObserver'
  BY DEF LayerInPlace, Active, OneObserver
<1> QED
  BY <1>3, <1>4, <1>6, <1>7, <1>8

(* playAction of a view: it registers at most the observer it lacks *)
LEMMA PlayActionObserver ==
  ASSUME TypeOK, Struct, NEW v \in Views, PlayAction(v), UNCHANGED phase
  PROVE  /\ \A t \in Surfaces : t # v => token'[t] = token[t]
         /\ token'[v] \in {token[v], player}
         /\ token[v] # Nil => token'[v] = token[v]
         /\ token[v] = Nil /\ ~selected[v] => token'[v] = player
         /\ OneObserver'
<1> USE NilIsFresh DEF Struct
<1>1. CASE UNCHANGED <<token, observers>> /\ (selected[v] \/ token[v] # Nil)
  BY <1>1 DEF OneObserver
<1>2. CASE token[v] = Nil /\ AddTimeObserver(player, v)
  <2>1. /\ token'[v] = player
        /\ \A t \in Surfaces : t # v => token'[t] = token[t]
        /\ \A q \in Players : observers'[q][v] = IF q = player THEN 1 ELSE 0
        /\ \A q \in Players, t \in Surfaces : t # v => observers'[q][t] = observers[q][t]
    <3>1. player \in Players \cup {Nil} /\ v \in Surfaces
      BY DEF TypeOK
    <3> QED
      BY <1>2, <3>1, AddOnce
  <2>2. OneObserver'
    BY <2>1 DEF OneObserver
  <2> QED
    BY <1>2, <2>1, <2>2
<1> QED
  BY <1>1, <1>2 DEF PlayAction, AddObservers

(* Play is tapped on a view that has a layer. *)
LEMMA PlayTappedStruct == ASSUME TypeOK, Struct, NEW v \in Views, PlayTapped(v), UNCHANGED toggling
                          PROVE  Struct'
<1> USE NilIsFresh DEF Struct, PlayTapped, viewVars, fullVars, layerVars, Mounted, Active
<1>1. /\ \A t \in Surfaces : t # v => token'[t] = token[t]
      /\ token'[v] \in {token[v], player}
      /\ token[v] # Nil => token'[v] = token[v]
      /\ OneObserver'
  BY PlayActionObserver
<1>2. NoFullScreen /\ v \in Mounted
  BY DEF OnScreen
<1>3. OneView' /\ OneController' /\ LayerInPlace'
  BY DEF OneView, OneController, LayerInPlace
<1>4. StartsOnce'
  <2>1. \A w \in Views : w # v => selected'[w] = selected[w]
    BY DEF PlayAction, PauseAction, TypeOK
  <2> QED
    BY <1>1, <1>2, <2>1 DEF StartsOnce
<1>5. ViewUsesShared'
  <2> SUFFICES ASSUME NEW w \in Views, status[w] = "mounted"
               PROVE  /\ player # Nil
                      /\ \/ /\ token'[w] \in {Nil, player}
                            /\ layer[w] # Nil => layerPlayer[layer[w]] = player
                         \/ /\ NoFullScreen'
                            /\ Overtaken(w)'
                            /\ token'[w] # Nil
                            /\ token'[w] = layerPlayer[layer[w]]
    BY DEF ViewUsesShared
  <2>1. w = v
    BY <1>2 DEF OneView
  <2>2. Overtaken(v) => Overtaken(v)' /\ NoFullScreen'
    BY <1>2, OvertakenStays DEF NoFullScreen
  <2> QED
    BY <1>1, <1>2, <2>1, <2>2 DEF ViewUsesShared
<1>6. ControllerTookOver' /\ Newcomer'
  BY <1>2 DEF NoFullScreen, ControllerTookOver, Newcomer
<1>7. ControllerToken'
  BY <1>1 DEF ControllerToken
<1> QED
  BY <1>1, <1>3, <1>4, <1>5, <1>6, <1>7

(* The delayed start: the view it starts is not the one in full screen, *)
(* which has been started before                                        *)
LEMMA DelayedStartStruct ==
  ASSUME TypeOK, Struct, NEW v \in Views, DelayedStart(v), UNCHANGED toggling
  PROVE  Struct'
<1> USE NilIsFresh DEF Struct, DelayedStart, fullVars, Mounted, Active
<1>1. /\ \A t \in Surfaces : t # v => token'[t] = token[t]
      /\ token'[v] \in {token[v], player}
      /\ token[v] = Nil /\ ~selected[v] => token'[v] = player
      /\ OneObserver'
  BY PlayActionObserver
<1>2. PICK l \in FreshLayers : /\ layer' = [layer EXCEPT ![v] = l]
                               /\ layerPlayer' = [layerPlayer EXCEPT ![l] = player]
                               /\ host' = [host EXCEPT ![l] = v]
  BY DEF InitVideoPlayer
<1>3. /\ l \in Layers
      /\ host[l] = Nil
      /\ layer'[v] = l
      /\ \A t \in Surfaces : t # v => layer'[t] = layer[t]
      /\ \A m \in Layers : m # l => layerPlayer'[m] = layerPlayer[m] /\ host'[m] = host[m]
      /\ layerPlayer'[l] = player
      /\ host'[l] = v
  BY <1>2 DEF FreshLayers, TypeOK
<1>4. pending[v] > 0 /\ layer[v] = Nil /\ status[v] # "new"
  BY DEF StartsOnce, TypeOK
<1>5. \A f \in FullViews : Active(f) => delegate[f] # v /\ layer[f] # l /\ layer[f] \in Layers
  BY <1>3, <1>4 DEF ControllerTookOver, TypeOK
<1>6. \A w \in Views : pending'[w] = IF w = v THEN pending[v] - 1 ELSE pending[w]
  BY DEF TypeOK
<1>7. OneView' /\ OneController'
  BY DEF OneView, OneController
<1>8. StartsOnce'
  <2> SUFFICES ASSUME NEW w \in Views
               PROVE  /\ pending'[w] \in {0, 1}
                      /\ status[w] = "new" => /\ pending'[w] = 0 /\ layer'[w] = Nil
                                              /\ token'[w] = Nil /\ ~selected'[w]
                      /\ pending'[w] > 0 => layer'[w] = Nil
                      /\ status[w] = "mounted" /\ pending'[w] = 0 => layer'[w] # Nil
    BY DEF StartsOnce
  <2>1. CASE w # v
    <3>1. selected'[w] = selected[w]
      BY <2>1 DEF PlayAction, PauseAction, TypeOK
    <3> QED
      BY <1>1, <1>3, <1>6, <2>1, <3>1 DEF StartsOnce
  <2>2. CASE w = v
    <3>1. pending[v] = 1
      BY <1>4 DEF StartsOnce, TypeOK
    <3> QED
      BY <1>3, <1>4, <1>6, <2>2, <3>1
  <2> QED
    BY <2>1, <2>2
<1>9. ViewUsesShared'
  <2> SUFFICES ASSUME NEW w \in Views, status[w] = "mounted"
               PROVE  /\ player # Nil
                      /\ \/ /\ token'[w] \in {Nil, player}
                            /\ layer'[w] # Nil => layerPlayer'[layer'[w]] = player
                         \/ /\ NoFullScreen'
                            /\ Overtaken(w)'
                            /\ token'[w] # Nil
                            /\ token'[w] = layerPlayer'[layer'[w]]
    BY DEF ViewUsesShared
  <2>1. CASE w = v
    <3>1. player # Nil /\ token[w] \in {Nil, player}
      BY <1>4, <2>1 DEF ViewUsesShared, Overtaken
    <3> QED
      BY <1>1, <1>3, <2>1, <3>1
  <2>2. CASE w # v
    <3>1. layer'[w] = layer[w] /\ token'[w] = token[w]
      BY <1>1, <1>3, <2>2
    <3>2. layer[w] # Nil => layerPlayer'[layer[w]] = layerPlayer[layer[w]]
      <4>1. layer[w] # Nil => layer[w] \in Layers /\ layer[w] # l
        BY <1>3, <1>5, <2>2 DEF TypeOK, LayerInPlace, ControllerTookOver
      <4> QED
        BY <1>3, <4>1
    <3>3. Overtaken(w) => Overtaken(w)'
      BY <3>1, <3>2 DEF Overtaken
    <3>4. NoFullScreen' <=> NoFullScreen
      BY DEF NoFullScreen
    <3>5. \/ token[w] \in {Nil, player} /\ (layer[w] # Nil => layerPlayer[layer[w]] = player)
          \/ /\ NoFullScreen /\ Overtaken(w) /\ layer[w] # Nil
             /\ token[w] # Nil /\ token[w] = layerPlayer[layer[w]]
      BY DEF ViewUsesShared, Overtaken
    <3>6. player # Nil
      BY DEF ViewUsesShared
    <3> HIDE DEF Struct, DelayedStart, Active
    <3> QED
      BY <3>1, <3>2, <3>3, <3>4, <3>5, <3>6
  <2> QED
    BY <2>1, <2>2
<1>10. ControllerTookOver'
  BY <1>1, <1>3, <1>5, <1>6 DEF ControllerTookOver
<1>11. ControllerToken'
  BY <1>1 DEF ControllerToken
<1>12. LayerInPlace'
  <2> SUFFICES ASSUME NEW w \in Views, layer'[w] # Nil,
                      \A f \in FullViews : Active(f) => delegate[f] # w
               PROVE  host'[layer'[w]] = w
    BY DEF LayerInPlace
  <2>1. CASE w = v
    BY <1>3, <2>1
  <2>2. CASE w # v
    <3>1. layer[w] # Nil /\ layer[w] \in Layers /\ host[layer[w]] = w
      BY <1>3, <2>2 DEF LayerInPlace, TypeOK
    <3> QED
      BY <1>3, <2>2, <3>1
  <2> QED
    BY <2>1, <2>2
<1>13. Newcomer'
  <2> SUFFICES ASSUME NEW f \in FullViews, NEW w \in Views, status[w] = "mounted",
                      Active(f), delegate[f] # w
               PROVE  /\ ownPlayer[f] # player
                      /\ pending'[w] > 0 => ~selected'[w] /\ token'[w] = Nil
                      /\ pending'[w] = 0 => token'[w] = player
    BY DEF Newcomer
  <2>1. /\ ownPlayer[f] # player
        /\ pending[w] > 0 => ~selected[w] /\ token[w] = Nil
        /\ pending[w] = 0 => token[w] = player
    BY DEF Newcomer
  <2>2. CASE w = v
    <3>1. pending'[w] = 0
      BY <1>4, <1>6, <2>2 DEF StartsOnce, TypeOK
    <3> QED
      BY <1>1, <1>4, <2>1, <2>2, <3>1
  <2>3. CASE w # v
    <3>1. selected'[w] = selected[w]
      BY <2>3 DEF PlayAction, PauseAction, TypeOK
    <3> QED
      BY <1>1, <1>6, <2>1, <2>3, <3>1
  <2> QED
    BY <2>2, <2>3
<1> QED
  BY <1>1, <1>7, <1>8, <1>9, <1>10, <1>11, <1>12, <1>13

(* Going to full screen: the controller takes player and layer over, the *)
(* view gives up its observer                                            *)
LEMMA FullScreenStruct ==
  ASSUME TypeOK, Struct, NEW v \in Views, FullScreenAction(v), ~Abort("nilLayer"),
         ~Abort("foreignObserver"), UNCHANGED toggling
  PROVE  Struct'
<1> USE NilIsFresh DEF Struct, viewVars, Mounted, Active
<1>1. OnScreen(v) /\ NoFullScreen /\ v \in Mounted /\ ~RemovalRaises(v)
  BY DEF FullScreenAction, GiveUpObserver, OnScreen
<1>2. /\ layer[v] # Nil
      /\ observers' = WithoutObserver(v)
      /\ token' = [token EXCEPT ![v] = Nil]
      /\ UNCHANGED <<viewVars, selected, player, item, playing, layerPlayer, requests, crash>>
  BY <1>1 DEF FullScreenAction, GiveUpObserver
<1>3. PICK f \in FullViews :
        /\ phase[f] = "none"
        /\ phase' = [phase EXCEPT ![f] = "presenting"]
        /\ ownPlayer' = [ownPlayer EXCEPT ![f] = player]
        /\ delegate' = [delegate EXCEPT ![f] = v]
        /\ layer' = [layer EXCEPT ![f] = layer[v]]
        /\ host' = [host EXCEPT ![layer[v]] = f]
  BY <1>1, <1>2 DEF FullScreenAction, GiveUpObserver
<1>4. /\ phase'[f] = "presenting" /\ ownPlayer'[f] = player /\ delegate'[f] = v
      /\ layer'[f] = layer[v]
      /\ \A w \in Views : layer'[w] = layer[w]
      /\ layer[v] \in Layers /\ host'[layer[v]] = f
      /\ \A m \in Layers : m # layer[v] => host'[m] = host[m]
      /\ token'[v] = Nil /\ \A t \in Surfaces : t # v => token'[t] = token[t]
  BY <1>2, <1>3 DEF TypeOK
<1>5. \A g \in FullViews : g # f => phase'[g] = phase[g] /\ ownPlayer'[g] = ownPlayer[g]
  BY <1>3 DEF TypeOK
<1>6. \A g \in FullViews : phase'[g] \in {"presenting", "shown", "dismissing"} <=> g = f
  BY <1>1, <1>4, <1>5 DEF NoFullScreen
<1>7. /\ player # Nil
      /\ token[v] \in {Nil, player}
      /\ layerPlayer[layer[v]] = player
      /\ pending[v] = 0
      /\ status[v] = "mounted"
  <2>1. token[v] # Nil => token[v] = player
    BY <1>1 DEF RemovalRaises, Removable, PlayerOf, ViewUsesShared
  <2>2. ~(Overtaken(v) /\ token[v] # Nil /\ token[v] = layerPlayer[layer[v]])
    BY <2>1 DEF Overtaken
  <2> QED
    BY <1>1, <1>2, <2>2 DEF ViewUsesShared, StartsOnce
<1>8. Mounted = {v} /\ Mounted' = {v}
  BY <1>1, <1>2 DEF OneView
<1>9. OneView' /\ OneController'
  BY <1>2, <1>6 DEF OneView, OneController
<1>10. StartsOnce' /\ ViewUsesShared' /\ Newcomer'
  <2>1. StartsOnce'
    BY <1>2, <1>4 DEF StartsOnce
  <2>2. ViewUsesShared'
    BY <1>2, <1>4, <1>7, <1>8 DEF ViewUsesShared
  <2>3. Newcomer'
    BY <1>4, <1>6, <1>8 DEF Newcomer
  <2> QED
    BY <2>1, <2>2, <2>3
<1>11. ControllerTookOver'
  BY <1>2, <1>4, <1>6, <1>7 DEF ControllerTookOver
<1>12. ControllerToken'
  BY <1>3, <1>4, <1>5 DEF ControllerToken
<1>13. LayerInPlace'
  <2> SUFFICES ASSUME NEW w \in Views, layer[w] # Nil, w # v
               PROVE  host'[layer[w]] = w
    BY <1>4, <1>6 DEF LayerInPlace
  <2>1. host[layer[w]] = w /\ host[layer[v]] = v
    BY <1>1, <1>2 DEF LayerInPlace, NoFullScreen
  <2>2. layer[w] \in Layers /\ layer[w] # layer[v]
    BY <2>1 DEF TypeOK
  <2> QED
    BY <1>4, <2>1, <2>2
<1>14. OneObserver'
  <2>1. \A q \in Players : observers'[q][v] = 0
    BY <1>1, <1>2, <1>7 DEF WithoutObserver, PlayerOf, OneObserver, TypeOK
  <2>2. \A q \in Players, t \in Surfaces : t # v => observers'[q][t] = observers[q][t]
    BY <1>2 DEF WithoutObserver, TypeOK
  <2>3. \A w \in Views, q \in Players : observers'[q][w] = IF token'[w] = q THEN 1 ELSE 0
    BY <1>4, <2>1, <2>2 DEF OneObserver
  <2>4. \A g \in FullViews, q \in Players :
          observers'[q][g] = IF token'[g] = q /\ phase'[g] = "shown" THEN 1 ELSE 0
    BY <1>3, <1>4, <1>5, <2>2 DEF OneObserver
  <2> QED
    BY <2>3, <2>4 DEF OneObserver
<1> QED
  BY <1>9, <1>10, <1>11, <1>12, <1>13, <1>14

(* The controller appears, and observes the player if it plays *)
LEMMA AppearStruct ==
  ASSUME TypeOK, Struct, NEW f \in FullViews, ViewDidAppear(f), UNCHANGED toggling
  PROVE  Struct'
<1> USE NilIsFresh DEF Struct, ViewDidAppear, viewVars, layerVars, Mounted
<1>1. phase'[f] = "shown" /\ \A g \in FullViews : g # f => phase'[g] = phase[g]
  BY DEF TypeOK
<1>2. \A g \in FullViews : Active(g)' <=> Active(g)
  BY <1>1 DEF Active
<1>3. token[f] = Nil /\ ownPlayer[f] \in Players
  BY DEF ControllerToken, ControllerTookOver, Active, TypeOK
<1>4. /\ token'[f] \in {Nil, ownPlayer[f]}
      /\ \A t \in Surfaces : t # f => token'[t] = token[t]
      /\ \A q \in Players : observers'[q][f] = IF token'[f] = q THEN 1 ELSE 0
      /\ \A q \in Players, t \in Surfaces : t # f => observers'[q][t] = observers[q][t]
  <2>1. CASE AddTimeObserver(ownPlayer[f], f)
    BY <1>3, <2>1, AddOnce DEF Struct
  <2>2. CASE UNCHANGED <<token, observers>>
    BY <1>3, <2>2 DEF OneObserver, TypeOK
  <2> QED
    BY <2>1, <2>2
<1>5. OneView' /\ OneController'
  BY <1>2 DEF OneView, OneController
<1>6. StartsOnce' /\ ViewUsesShared'
  <2>1. \A v \in Views : token'[v] = token[v] /\ selected'[v] = selected[v]
    BY <1>4 DEF TypeOK
  <2>2. ~NoFullScreen
    BY DEF NoFullScreen, Active
  <2> QED
    BY <2>1, <2>2 DEF StartsOnce, ViewUsesShared
<1>7. ControllerTookOver' /\ Newcomer'
  <2>1. \A v \in Views : token'[v] = token[v] /\ selected'[v] = selected[v]
    BY <1>4 DEF TypeOK
  <2> QED
    BY <1>2, <1>4, <2>1 DEF ControllerTookOver, Newcomer
<1>8. ControllerToken'
  BY <1>1, <1>3, <1>4 DEF ControllerToken
<1>9. LayerInPlace'
  BY <1>2 DEF LayerInPlace
<1>10. OneObserver'
  BY <1>1, <1>4 DEF OneObserver
<1> QED
  BY <1>5, <1>6, <1>7, <1>8, <1>9, <1>10

(* Play is tapped in full screen *)
LEMMA FullPlayStruct ==
  ASSUME TypeOK, Struct, NEW f \in FullViews, FullPlayTapped(f), UNCHANGED toggling
  PROVE  Struct'
<1> USE NilIsFresh DEF Struct, FullPlayTapped, viewVars, fullVars, layerVars, Mounted, Active
<1>1. CASE UNCHANGED <<token, observers>>
  <2>1. UNCHANGED Core
    BY <1>1 DEF Core
  <2>2. \A v \in Views : selected'[v] = selected[v]
    BY DEF TypeOK
  <2> QED
    BY <2>1, <2>2, CoreUntouched
<1>2. CASE token[f] = Nil /\ AddTimeObserver(ownPlayer[f], f)
  <2>1. phase[f] = "shown" /\ ownPlayer[f] \in Players
    BY DEF OnScreen, ControllerTookOver, TypeOK
  <2>2. /\ token'[f] = ownPlayer[f]
        /\ \A t \in Surfaces : t # f => token'[t] = token[t]
        /\ \A q \in Players : observers'[q][f] = IF q = ownPlayer[f] THEN 1 ELSE 0
        /\ \A q \in Players, t \in Surfaces : t # f => observers'[q][t] = observers[q][t]
    BY <1>2, <2>1, AddOnce
  <2>3. OneView' /\ OneController' /\ LayerInPlace'
    BY DEF OneView, OneController, LayerInPlace
  <2>a. \A v \in Views : token'[v] = token[v] /\ selected'[v] = selected[v]
    BY <2>2 DEF TypeOK
  <2>b. ~NoFullScreen
    BY <2>1 DEF NoFullScreen
  <2>4. /\ StartsOnce' /\ ViewUsesShared'
        /\ ControllerTookOver' /\ Newcomer'
    <3>1. StartsOnce' /\ ViewUsesShared'
      BY <2>a, <2>b DEF StartsOnce, ViewUsesShared
    <3> QED
      BY <2>a, <3>1 DEF ControllerTookOver, Newcomer
  <2>5. ControllerToken'
    BY <2>1, <2>2 DEF ControllerToken
  <2>6. OneObserver'
    BY <2>1, <2>2 DEF OneObserver
  <2> QED
    BY <2>3, <2>4, <2>5, <2>6
<1> QED
  BY <1>1, <1>2

(* Leaving full screen: the controller's observer goes, its token stays *)
LEMMA BackStruct ==
  ASSUME TypeOK, Struct, NEW f \in FullViews, BackAction(f), UNCHANGED toggling
  PROVE  Struct'
<1> USE NilIsFresh DEF Struct, viewVars, buttonVars, layerVars, Mounted
<1>1. /\ ~RemovalRaises(f)
      /\ phase[f] = "shown"
      /\ observers' = WithoutObserver(f)
      /\ phase' = [phase EXCEPT ![f] = "dismissing"]
      /\ UNCHANGED <<viewVars, ownPlayer, delegate, buttonVars, player, item, playing,
                     layerVars, requests, crash>>
  BY OnlyOvertakenRaises DEF BackAction, OnScreen
<1>2. phase'[f] = "dismissing" /\ \A g \in FullViews : g # f => phase'[g] = phase[g]
  BY <1>1 DEF TypeOK
<1>3. \A g \in FullViews : Active(g)' <=> Active(g)
  BY <1>1, <1>2 DEF Active
<1>4. /\ \A q \in Players : observers'[q][f] = 0
      /\ \A q \in Players, t \in Surfaces : t # f => observers'[q][t] = observers[q][t]
  <2>1. token[f] \in {Nil, ownPlayer[f]}
    BY <1>1 DEF ControllerToken
  <2> QED
    BY <1>1, <2>1 DEF WithoutObserver, PlayerOf, OneObserver, TypeOK
<1>5. OneView' /\ OneController' /\ LayerInPlace'
  BY <1>1, <1>3 DEF OneView, OneController, LayerInPlace
<1>6. StartsOnce' /\ ViewUsesShared'
  <2>1. ~NoFullScreen
    BY <1>1 DEF NoFullScreen, Active
  <2> QED
    BY <1>1, <2>1 DEF StartsOnce, ViewUsesShared
<1>7. ControllerTookOver' /\ Newcomer'
  BY <1>1, <1>3 DEF ControllerTookOver, Newcomer
<1>8. ControllerToken'
  BY <1>1, <1>2 DEF ControllerToken
<1>9. OneObserver'
  BY <1>1, <1>2, <1>4 DEF OneObserver
<1> QED
  BY <1>5, <1>6, <1>7, <1>8, <1>9

(* The controller is gone: view and static player get everything back *)
LEMMA DismissedStruct ==
  ASSUME TypeOK, Struct, NEW f \in FullViews, ViewDismissed(f), UNCHANGED toggling
  PROVE  Struct'
<1> USE NilIsFresh DEF Struct, viewVars, Mounted
<1> DEFINE v == delegate[f]
<1>1. /\ phase[f] = "dismissing" /\ Active(f) /\ ownPlayer[f] \in Players
      /\ v \in Views /\ token[v] = Nil /\ layer[f] \in Layers /\ layer[v] = layer[f]
      /\ layerPlayer[layer[f]] = ownPlayer[f] /\ status[v] # "new" /\ pending[v] = 0
      /\ host[layer[f]] = f
      /\ status[v] = "mounted" => ownPlayer[f] = player
  BY DEF ViewDismissed, HandBackLayer, ControllerTookOver, Active, TypeOK
<1>2. /\ phase' = [phase EXCEPT ![f] = "dismissed"]
      /\ player' = ownPlayer[f]
      /\ layer' = [layer EXCEPT ![v] = layer[f]]
      /\ host' = [host EXCEPT ![layer[f]] = v]
      /\ \E on \in {TRUE, FALSE} : selected' = [selected EXCEPT ![v] = on]
      /\ AddTimeObserver(ownPlayer[f], v) \/ UNCHANGED <<token, observers>>
      /\ UNCHANGED <<viewVars, ownPlayer, delegate, item, layerPlayer, requests, crash>>
  BY <1>1, NilIsFresh DEF ViewDismissed, HandBackLayer
<1> HIDE DEF v
<1>3. phase'[f] = "dismissed" /\ \A g \in FullViews : g # f => phase'[g] = phase[g]
  BY <1>2 DEF TypeOK
<1>4. \A g \in FullViews : ~Active(g)'
  BY <1>1, <1>3 DEF Active, OneController
<1>5. layer' = layer /\ host'[layer[f]] = v /\ \A m \in Layers : m # layer[f] => host'[m] = host[m]
  BY <1>1, <1>2 DEF TypeOK
<1>6. /\ token'[v] \in {Nil, ownPlayer[f]}
      /\ \A t \in Surfaces : t # v => token'[t] = token[t]
      /\ \A q \in Players : observers'[q][v] = IF token'[v] = q THEN 1 ELSE 0
      /\ \A q \in Players, t \in Surfaces : t # v => observers'[q][t] = observers[q][t]
  <2>1. CASE AddTimeObserver(ownPlayer[f], v)
    BY <1>1, <2>1, AddOnce
  <2>2. CASE UNCHANGED <<token, observers>>
    BY <1>1, <2>2 DEF OneObserver
  <2> QED
    BY <1>2, <2>1, <2>2
<1>7. OneView' /\ OneController' /\ ControllerTookOver' /\ Newcomer'
  BY <1>2, <1>4 DEF OneView, OneController, ControllerTookOver, Newcomer
<1>8. StartsOnce'
  <2>1. \A w \in Views : w # v => selected'[w] = selected[w]
    BY <1>2 DEF TypeOK
  <2> QED
    BY <1>1, <1>2, <1>5, <1>6, <2>1 DEF StartsOnce
<1>9. ViewUsesShared'
  <2> SUFFICES ASSUME NEW w \in Views, status[w] = "mounted"
               PROVE  /\ player' # Nil
                      /\ \/ /\ token'[w] \in {Nil, player'}
                            /\ layer[w] # Nil => layerPlayer[layer[w]] = player'
                         \/ /\ NoFullScreen'
                            /\ Overtaken(w)'
                            /\ token'[w] # Nil
                            /\ token'[w] = layerPlayer[layer[w]]
    BY <1>2, <1>5 DEF ViewUsesShared
  <2>1. player' # Nil /\ NoFullScreen'
    BY <1>1, <1>2, <1>4 DEF NoFullScreen
  <2>2. CASE w = v
    BY <1>1, <1>2, <1>6, <2>1, <2>2
  <2>3. CASE w # v
    <3>1. /\ ownPlayer[f] # player
          /\ pending[w] > 0 => token[w] = Nil
          /\ pending[w] = 0 => token[w] = player
      BY <1>1, <2>3 DEF Newcomer, v
    <3>2. token'[w] = token[w]
      BY <1>6, <2>3
    <3>3. CASE pending[w] > 0
      BY <2>1, <3>1, <3>2, <3>3 DEF StartsOnce
    <3>4. CASE pending[w] = 0
      <4>1. layer[w] # Nil /\ player # Nil /\ layerPlayer[layer[w]] = player
        BY <1>1, <3>4 DEF StartsOnce, ViewUsesShared, NoFullScreen
      <4>2. status[v] = "unmounted"
        BY <1>1, <2>3 DEF OneView, TypeOK
      <4>3. Overtaken(w)'
        BY <1>2, <1>3, <1>5, <2>3, <3>1, <4>1, <4>2 DEF Overtaken, v
      <4> QED
        BY <2>1, <3>1, <3>2, <3>4, <4>1, <4>3
    <3> QED
      BY <3>3, <3>4 DEF StartsOnce
  <2> QED
    BY <2>2, <2>3
<1>10. ControllerToken'
  BY <1>1, <1>2, <1>3, <1>6 DEF ControllerToken
<1>11. LayerInPlace'
  <2> SUFFICES ASSUME NEW w \in Views, layer[w] # Nil PROVE host'[layer[w]] = w
    BY <1>5 DEF LayerInPlace
  <2>1. CASE w = v
    BY <1>1, <1>5, <2>1
  <2>2. CASE w # v
    <3>1. \A g \in FullViews : Active(g) => delegate[g] = v
      BY <1>1 DEF OneController, Active, v
    <3>2. host[layer[w]] = w /\ layer[w] \in Layers
      BY <2>2, <3>1 DEF LayerInPlace, TypeOK
    <3> QED
      BY <1>1, <1>5, <3>2
  <2> QED
    BY <2>1, <2>2
<1>12. OneObserver'
  BY <1>1, <1>3, <1>6 DEF OneObserver
<1> QED
  BY <1>7, <1>8, <1>9, <1>10, <1>11, <1>12

(* Every step keeps the structure. *)
LEMMA StructPreserved ==
  ASSUME AppTypeOK, Struct, PlayersExist, [AppNext]_appVars
  PROVE  Struct'
<1> USE DEF AppTypeOK
<1>u. ASSUME UNCHANGED Core, \A v \in Views : selected'[v] => selected[v] \/ OnScreen(v)
      PROVE  Struct'
  BY <1>u, CoreUntouched
<1>a. ASSUME NEW why, Abort(why), UNCHANGED toggling PROVE Struct'
  BY <1>a, <1>u DEF Abort, Core, viewVars, fullVars, buttonVars, playerVars, layerVars
<1>1. CASE AppStep
  <2>1. CASE SetNewVideo
    BY <2>1, <1>u DEF SetNewVideo, PlayAnotherVideo, Core, viewVars, fullVars, buttonVars,
                      playerVars, layerVars
  <2> QED
    BY <1>1, <2>1, ToggleStruct, MountStruct, UnmountStruct DEF AppStep
<1>2. CASE TouchStep /\ UNCHANGED toggling
  <2>1. ASSUME NEW v \in Views, FullScreenAction(v) PROVE Struct'
    BY <1>2, <2>1, <1>a, FullScreenStruct
  <2>2. ASSUME NEW s \in Surfaces, ForwardPastEnd(s) \/ SetVideoSpeed(s) PROVE Struct'
    <3>1. \A v \in Views : selected'[v] => selected[v] \/ OnScreen(v)
      BY <2>2 DEF ForwardPastEnd, SetVideoSpeed, TypeOK, Surfaces
    <3> QED
      BY <1>2, <2>2, <3>1, <1>u DEF ForwardPastEnd, SetVideoSpeed, Core, viewVars, fullVars,
                                    playerVars, layerVars
  <2>3. ASSUME NEW s \in Surfaces, BackwardAction(s) PROVE Struct'
    BY <1>2, <2>3, <1>a DEF BackwardAction
  <2> QED
    BY <1>2, <2>1, <2>2, <2>3, PlayTappedStruct, FullPlayStruct, BackStruct DEF TouchStep
<1>3. CASE SystemStep /\ UNCHANGED toggling
  <2>1. ASSUME NEW p \in Players, StopsOnItsOwn(p) PROVE Struct'
    BY <1>3, <2>1, <1>u DEF StopsOnItsOwn, Core, viewVars, fullVars, buttonVars, layerVars
  <2>2. CASE AppMovedToBackground
    <3>1. \A v \in Views : selected'[v] => selected[v]
      BY <2>2, NilIsFresh DEF AppMovedToBackground
    <3> QED
      BY <1>3, <2>2, <3>1, <1>u DEF AppMovedToBackground, Core, viewVars, fullVars, layerVars
  <2>3. CASE PlayNextVideo
    BY <1>3, <2>3, <1>u DEF PlayNextVideo, Core, viewVars, fullVars, buttonVars, layerVars
  <2> QED
    BY <1>3, <2>1, <2>2, <2>3, DelayedStartStruct, AppearStruct, DismissedStruct DEF SystemStep
<1>4. CASE UNCHANGED appVars
  BY <1>4, <1>u DEF appVars, vars, Core, viewVars, fullVars, buttonVars, playerVars, layerVars
<1> QED
  BY <1>1, <1>2, <1>3, <1>4 DEF AppNext, Aborted, appVars

(* Players come into being through the url property, and only players that exist *)
(* are started or handed over.                                                   *)
LEMMA PlayersExistPreserved ==
  ASSUME AppTypeOK, Struct, PlayersExist, [AppNext]_appVars
  PROVE  PlayersExist'
<1> USE NilIsFresh DEF AppTypeOK, TypeOK, PlayersExist
<1>a. ASSUME UNCHANGED <<item, player, ownPlayer>>,
             \A p \in Players : playing'[p] => playing[p] \/ item[p] # Nil
      PROVE  PlayersExist'
  BY <1>a
<1>b. ASSUME UNCHANGED <<item, player, ownPlayer>>,
             NEW p, p = Nil \/ item[p] # Nil, NEW on \in BOOLEAN, playing' = WithRate(p, on)
      PROVE  PlayersExist'
  BY <1>a, <1>b DEF WithRate
<1>1. CASE AppStep
  <2>1. ASSUME NEW v \in Views, MountVideo(v) PROVE PlayersExist'
    BY <2>1, AppUrls, NilIsNothing DEF MountVideo, ReplacePlayer, FreshPlayers, fullVars
  <2> QED
    BY <1>1, <1>a, <2>1
       DEF AppStep, ToggleVideo, UnmountVideo, Unmount, SetNewVideo, PlayAnotherVideo,
           vars, playerVars, fullVars
<1>2. CASE TouchStep
  <2>1. ASSUME NEW v \in Views, FullScreenAction(v) PROVE PlayersExist'
    <3>1. CASE UNCHANGED <<item, player, ownPlayer, playing>>
      BY <1>a, <3>1
    <3>2. CASE /\ \E f \in FullViews : ownPlayer' = [ownPlayer EXCEPT ![f] = player]
               /\ UNCHANGED <<item, player, playing>>
      BY <3>2
    <3> QED
      BY <2>1, <3>1, <3>2 DEF FullScreenAction, Abort, playerVars, fullVars
  <2>2. ASSUME NEW f \in FullViews, FullPlayTapped(f) PROVE PlayersExist'
    BY <1>b, <2>2 DEF FullPlayTapped, fullVars
  <2>3. ASSUME NEW s \in Surfaces, SetVideoSpeed(s) PROVE PlayersExist'
    <3>1. PlayerOf(s) = Nil \/ item[PlayerOf(s)] # Nil
      BY DEF PlayerOf, Surfaces
    <3> QED
      BY <1>b, <2>3, <3>1 DEF SetVideoSpeed, fullVars
  <2>4. ASSUME NEW v \in Views, PlayTapped(v) PROVE PlayersExist'
    BY <1>b, <2>4 DEF PlayTapped, PlayAction, PauseAction, fullVars
  <2> QED
    BY <1>2, <1>a, <2>1, <2>2, <2>3, <2>4
       DEF TouchStep, BackAction, ForwardPastEnd, BackwardAction, Abort, playerVars, fullVars
<1>3. CASE SystemStep
  <2>1. ASSUME PlayNextVideo PROVE PlayersExist'
    BY <2>1, NilIsNothing DEF PlayNextVideo, WithRate, fullVars
  <2>2. ASSUME NEW f \in FullViews, ViewDismissed(f) PROVE PlayersExist'
    <3>1. ownPlayer[f] # Nil
      BY <2>2 DEF ViewDismissed, Struct, ControllerTookOver, Active
    <3>2. /\ player' = ownPlayer[f] /\ UNCHANGED <<item, ownPlayer>>
          /\ \A p \in Players : playing'[p] => playing[p]
      <4>1. \E on \in {playing[ownPlayer[f]]} : playing' = WithRate(ownPlayer[f], on)
        BY <2>2, <3>1 DEF ViewDismissed
      <4>2. player' = ownPlayer[f] /\ UNCHANGED <<item, ownPlayer>>
        BY <2>2, <3>1 DEF ViewDismissed
      <4> QED
        BY <4>1, <4>2 DEF WithRate
    <3> QED
      BY <3>1, <3>2
  <2>3. ASSUME NEW v \in Views, DelayedStart(v) PROVE PlayersExist'
    BY <1>b, <2>3 DEF DelayedStart, PlayAction, PauseAction, fullVars
  <2>4. ASSUME NEW f \in FullViews, ViewDidAppear(f) PROVE PlayersExist'
    BY <1>a, <1>b, <2>4 DEF ViewDidAppear
  <2>5. ASSUME NEW p \in Players, StopsOnItsOwn(p) PROVE PlayersExist'
    BY <1>a, <2>5 DEF StopsOnItsOwn, WithRate, fullVars
  <2>6. ASSUME AppMovedToBackground PROVE PlayersExist'
    BY <1>a, <2>6 DEF AppMovedToBackground, fullVars
  <2> QED
    BY <1>3, <2>1, <2>2, <2>3, <2>4, <2>5, <2>6 DEF SystemStep
<1>4. CASE UNCHANGED appVars
  BY <1>a, <1>4 DEF appVars, vars, playerVars, fullVars
<1> QED
  BY <1>1, <1>2, <1>3, <1>4 DEF AppNext, Aborted, appVars

(* Once the process has aborted nothing moves, and the guards of the aborts say *)
(* where it may: a controller never raises and no player is nil where it is     *)
(* unwrapped.                                                                    *)
LEMMA AbortsOnFullScreenAction ==
  ASSUME AppTypeOK, Struct, OnlyFullScreenActionAborts, [AppNext]_appVars
  PROVE  OnlyFullScreenActionAborts'
<1> USE DEF AppTypeOK
<1>a. ASSUME UNCHANGED appVars PROVE OnlyFullScreenActionAborts'
  BY <1>a DEF appVars, vars, viewVars, fullVars, buttonVars, playerVars, layerVars,
              OnlyFullScreenActionAborts, NoFullScreen, Active, Mounted, Overtaken
<1>b. ASSUME crash' = "none" PROVE OnlyFullScreenActionAborts'
  BY <1>b DEF OnlyFullScreenActionAborts
<1>1. CASE crash = "none" /\ AppStep
  BY <1>1, <1>b DEF AppStep, ToggleVideo, MountVideo, UnmountVideo, Unmount, SetNewVideo,
                    PlayAnotherVideo, vars
<1>2. CASE crash = "none" /\ TouchStep
  <2>1. ASSUME NEW v \in Views, FullScreenAction(v) PROVE OnlyFullScreenActionAborts'
    <3>1. v \in Mounted /\ NoFullScreen /\ OnScreen(v) /\ v \in Surfaces
      BY <2>1, NilIsFresh DEF FullScreenAction, OnScreen, Mounted
    <3>2. CASE RemovalRaises(v) /\ Abort("foreignObserver")
      <4>1. Overtaken(v)
        BY <3>1, <3>2, OnlyOvertakenRaises
      <4>2. v \in Mounted' /\ NoFullScreen' /\ Overtaken(v)'
        BY <3>1, <3>2, <4>1 DEF Abort, viewVars, fullVars, playerVars, layerVars, Mounted,
                               NoFullScreen, Active, Overtaken
      <4> QED
        BY <3>2, <4>2 DEF Abort, OnlyFullScreenActionAborts
    <3>3. CASE layer[v] = Nil /\ Abort("nilLayer")
      <4>1. pending[v] > 0
        BY <3>1, <3>3 DEF Struct, StartsOnce, Mounted
      <4>2. v \in Mounted' /\ NoFullScreen' /\ pending'[v] > 0
        BY <3>1, <3>3, <4>1 DEF Abort, viewVars, fullVars, Mounted, NoFullScreen, Active
      <4> QED
        BY <3>3, <4>2 DEF Abort, OnlyFullScreenActionAborts
    <3>4. CASE crash' = crash
      BY <1>2, <1>b, <3>4
    <3> QED
      BY <2>1, <3>2, <3>3, <3>4 DEF FullScreenAction
  <2>2. ASSUME NEW f \in FullViews, BackAction(f) PROVE crash' = crash
    <3>1. ~RemovalRaises(f)
      BY <2>2, OnlyOvertakenRaises, NilIsFresh DEF BackAction
    <3> QED
      BY <2>2, <3>1 DEF BackAction
  <2>3. ASSUME NEW s \in Surfaces, BackwardAction(s) PROVE FALSE
    BY <2>3, OnlyOvertakenRaises DEF BackwardAction
  <2>4. ASSUME NEW v \in Views, PlayTapped(v) PROVE crash' = crash
    BY <2>4 DEF PlayTapped
  <2>5. ASSUME NEW f \in FullViews, FullPlayTapped(f) PROVE crash' = crash
    BY <2>5 DEF FullPlayTapped
  <2>6. ASSUME NEW s \in Surfaces, ForwardPastEnd(s) \/ SetVideoSpeed(s) PROVE crash' = crash
    BY <2>6 DEF ForwardPastEnd, SetVideoSpeed
  <2> QED
    BY <1>2, <1>b, <2>1, <2>2, <2>3, <2>4, <2>5, <2>6 DEF TouchStep
<1>3. CASE crash = "none" /\ SystemStep
  <2>1. ASSUME NEW f \in FullViews, ViewDismissed(f) PROVE crash' = crash
    <3>1. ownPlayer[f] # Nil
      BY <2>1 DEF ViewDismissed, HandBackLayer, Struct, ControllerTookOver, Active
    <3> QED
      BY <2>1, <3>1 DEF ViewDismissed, HandBackLayer
  <2> QED
    BY <1>3, <1>b, <2>1 DEF SystemStep, DelayedStart, ViewDidAppear, StopsOnItsOwn,
                            AppMovedToBackground, PlayNextVideo
<1> QED
  BY <1>a, <1>1, <1>2, <1>3 DEF AppNext, Aborted, appVars

(* SessionInv holds throughout the session under App. *)
THEOREM SessionInvariant == AppSafetySpec => []SessionInv
<1>1. AppInit => SessionInv
  <2> SUFFICES ASSUME AppInit PROVE SessionInv
    OBVIOUS
  <2> USE NilIsFresh DEF AppInit, Init
  <2>1. AppTypeOK
    BY DEF AppTypeOK, TypeOK
  <2>2. OneView /\ OneController /\ StartsOnce /\ PlayersExist /\ ViewUsesShared
    BY DEF OneView, OneController, StartsOnce, PlayersExist, ViewUsesShared, Mounted, Active, Surfaces
  <2>3. ControllerTookOver /\ Newcomer /\ ControllerToken /\ LayerInPlace
    BY DEF ControllerTookOver, Newcomer, Mounted, ControllerToken, LayerInPlace, Active, Surfaces
  <2>4. OneObserver /\ OnlyFullScreenActionAborts
    BY DEF OneObserver, OnlyFullScreenActionAborts, Surfaces
  <2> QED
    BY <2>1, <2>2, <2>3, <2>4 DEF SessionInv
<1>2. SessionInv /\ [AppNext]_appVars => SessionInv'
  <2> SUFFICES ASSUME SessionInv, [AppNext]_appVars PROVE SessionInv'
    OBVIOUS
  <2>1. AppTypeOK /\ Struct /\ PlayersExist /\ OnlyFullScreenActionAborts
    BY DEF SessionInv, Struct
  <2>2. AppTypeOK' /\ Struct' /\ PlayersExist' /\ OnlyFullScreenActionAborts'
    BY <2>1, TypePreserved, StructPreserved, PlayersExistPreserved, AbortsOnFullScreenAction
  <2> QED
    BY <2>2 DEF SessionInv, Struct
<1> QED
  BY <1>1, <1>2, PTL DEF AppSafetySpec

-----------------------------------------------------------------------------
(* The safety properties *)

(* Leaving a screen raises on no surface but an overtaken view: the token of    *)
(* every other surface on screen is its player's own and still registered there. *)
THEOREM ObserverAlwaysRemovable == AppSafetySpec => []ObserverRemovable
<1>1. SessionInv => ObserverRemovable
  BY OnlyOvertakenRaises DEF SessionInv, AppTypeOK, Struct, ObserverRemovable
<1> QED
  BY <1>1, SessionInvariant, PTL

(* No surface ever has two observers, nor one whose token it has lost. *)
THEOREM OneObserverAlways == AppSafetySpec => []OneObserver
<1>1. SessionInv => OneObserver
  BY DEF SessionInv
<1> QED
  BY <1>1, SessionInvariant, PTL

(* The surface on screen shows, in its own tree, the player it controls, unless *)
(* it is an overtaken view.                                                       *)
THEOREM PictureAlwaysOnStage == AppSafetySpec => []PictureOnStage
<1>1. SessionInv => PictureOnStage
  <2> SUFFICES ASSUME SessionInv, NEW s \in Surfaces, OnScreen(s),
                      s \in Views => pending[s] = 0
               PROVE  /\ layer[s] # Nil /\ host[layer[s]] = s
                      /\ layerPlayer[layer[s]] = PlayerOf(s) \/ (s \in Views /\ Overtaken(s))
    BY DEF PictureOnStage
  <2> USE NilIsFresh DEF SessionInv, OnScreen, PlayerOf
  <2>1. CASE s \in Views
    <3>1. layer[s] # Nil /\ (layerPlayer[layer[s]] = player \/ Overtaken(s))
      BY <2>1 DEF StartsOnce, ViewUsesShared, Mounted
    <3>2. host[layer[s]] = s
      BY <2>1, <3>1 DEF LayerInPlace, NoFullScreen
    <3> QED
      BY <2>1, <3>1, <3>2
  <2>2. CASE s \in FullViews
    BY <2>2 DEF ControllerTookOver, Active
  <2> QED
    BY <2>1, <2>2 DEF Surfaces
<1> QED
  BY <1>1, SessionInvariant, PTL

(* The two ways the process aborts under App are the full-screen tap that comes *)
(* before the delayed start, and the one on an overtaken view.                  *)
THEOREM OnlyFullScreenActionEverAborts == AppSafetySpec => []OnlyFullScreenActionAborts
<1>1. SessionInv => OnlyFullScreenActionAborts
  BY DEF SessionInv
<1> QED
  BY <1>1, SessionInvariant, PTL

(* A controller in front of the view that presented it and the static variable *)
(* name the same player.                                                        *)
THEOREM PlayerIsAlwaysShared == AppSafetySpec => []OneSharedPlayer
<1>1. SessionInv => OneSharedPlayer
  BY DEF SessionInv, ControllerTookOver, OneSharedPlayer
<1> QED
  BY <1>1, SessionInvariant, PTL
=============================================================================
