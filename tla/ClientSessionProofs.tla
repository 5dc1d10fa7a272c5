-------------------------- MODULE ClientSessionProofs --------------------------
(***************************************************************************)
(* What holds of the session under any JavaScript client, for any number   *)
(* of views, controllers, players and layers.  A client may do anything to *)
(* the views, so the invariant says little of them: it follows the layer   *)
(* from a view to the one controller in front and back, and the observer   *)
(* of that controller.                                                     *)
(***************************************************************************)
EXTENDS ClientSession, PlayerSessionProofs

-----------------------------------------------------------------------------
(* Type correctness *)

(* No client takes a variable out of its range. *)
LEMMA ClientStepType == ASSUME TypeOK, ClientStep PROVE TypeOK'
<1> USE DEF viewVars, fullVars, buttonVars, playerVars, layerVars
<1>1. ASSUME NEW v \in Views, MountView(v) \/ Unmount(v) PROVE TypeOK'
  BY <1>1 DEF MountView, Unmount, TypeOK
<1>2. ASSUME NEW v \in Views, NEW u \in Urls, SetUrl(v, u) PROVE TypeOK'
  <2>1. player' \in Players /\ item' \in [Players -> Urls \cup {BuiltInUrl, Nil}]
    BY <1>2 DEF SetUrl, ReplacePlayer, FreshPlayers, TypeOK
  <2> QED
    BY <1>2, <2>1 DEF SetUrl, TypeOK
<1>3. ASSUME NEW v \in Views, NEW on \in BOOLEAN, SetPlay(v, on) PROVE TypeOK'
  <2>1. /\ pending' \in [Views -> Nat]
        /\ playing' \in [Players -> BOOLEAN]
        /\ selected' \in [Surfaces -> BOOLEAN]
    <3>1. CASE QueueStart(v) /\ UNCHANGED <<playing, selected>>
      BY <3>1 DEF QueueStart, TypeOK
    <3>2. CASE PauseAction(v) /\ UNCHANGED pending
      <4>1. playing' \in [Players -> BOOLEAN]
        BY <3>2 DEF PauseAction, WithRate, TypeOK
      <4>2. selected' \in [Surfaces -> BOOLEAN]
        BY <3>2 DEF PauseAction, TypeOK
      <4> QED
        BY <3>2, <4>1, <4>2 DEF TypeOK
    <3> QED
      BY <1>3, <3>1, <3>2 DEF SetPlay
  <2> QED
    BY <1>3, <2>1 DEF SetPlay, TypeOK
<1>4. ASSUME NEW v \in Views, NEW on \in BOOLEAN, SetPaused(v, on) PROVE TypeOK'
  <2>1. playing' \in [Players -> BOOLEAN]
    BY <1>4 DEF SetPaused, WithRate, TypeOK
  <2>2. selected' \in [Surfaces -> BOOLEAN]
    BY <1>4 DEF SetPaused, TypeOK
  <2> QED
    BY <1>4, <2>1, <2>2 DEF SetPaused, TypeOK
<1>5. ASSUME NEW u \in Urls, PlayAnotherVideo(u) PROVE TypeOK'
  <2>1. requests' \in Seq(Urls)
    BY <1>5 DEF PlayAnotherVideo, TypeOK
  <2> QED
    BY <1>5, <2>1 DEF PlayAnotherVideo, TypeOK
<1> QED
  BY <1>1, <1>2, <1>3, <1>4, <1>5 DEF ClientStep

(* Type correctness of the session under any client. *)
THEOREM ClientTypeCorrect == ClientSpec => []TypeOK
<1>1. Init => TypeOK
  BY DEF Init, TypeOK
<1>2. TypeOK /\ [ClientNext]_vars => TypeOK'
  <2>1. TypeOK /\ UNCHANGED vars => TypeOK'
    BY DEF vars, viewVars, fullVars, buttonVars, playerVars, layerVars, TypeOK
  <2> QED
    BY <2>1, ClientStepType, StepType DEF ClientNext, Aborted
<1> QED
  BY <1>1, <1>2, PTL DEF ClientSpec

-----------------------------------------------------------------------------
(* The inductive invariant *)

OneInFront == \A f, g \in FullViews : Active(f) /\ Active(g) => f = g

InFront ==
  \A f \in FullViews : Active(f) =>
    delegate[f] \in Views /\ layer[f] # Nil /\ host[layer[f]] = f

(* The observer of the controller in front is registered where it looks *)
TokenOfController ==
  \A f \in FullViews :
    /\ phase[f] = "none" => ownPlayer[f] = Nil
    /\ phase[f] \in {"none", "presenting"} => token[f] = Nil
    /\ phase[f] = "shown" /\ token[f] # Nil =>
         token[f] = ownPlayer[f] /\ observers[ownPlayer[f]][f] > 0

ClientInv == OneInFront /\ InFront /\ LayerIsHomeOrBorrowed /\ TokenOfController

(* What a step leaves of the observers of controllers *)
ControllerObserversKept ==
  /\ \A f \in FullViews : token'[f] = token[f]
  /\ \A f \in FullViews, q \in Players : observers'[q][f] = observers[q][f]

(* A step that touches neither layers nor controllers keeps the invariant. *)
LEMMA ClientUntouched ==
  ASSUME TypeOK, ClientInv, UNCHANGED <<phase, ownPlayer, delegate, layer, host>>,
         ControllerObserversKept
  PROVE  ClientInv'
<1> USE DEF ClientInv, Active
<1>1. OneInFront' /\ InFront' /\ LayerIsHomeOrBorrowed'
  BY DEF OneInFront, InFront, LayerIsHomeOrBorrowed
<1>2. TokenOfController'
  BY NilIsFresh DEF TokenOfController, ControllerObserversKept, TypeOK
<1> QED
  BY <1>1, <1>2

(* What a view does to its own observer does not concern the controllers. *)
LEMMA ViewObserver ==
  ASSUME TypeOK, NEW p \in Players \cup {Nil}, NEW v \in Views,
         \/ AddTimeObserver(p, v)
         \/ UNCHANGED <<token, observers>>
         \/ GiveUpObserver(v)
  PROVE  ControllerObserversKept
<1> USE NilIsFresh DEF ControllerObserversKept, TypeOK
<1>1. CASE AddTimeObserver(p, v)
  BY <1>1 DEF AddTimeObserver
<1>2. CASE UNCHANGED <<token, observers>>
  BY <1>2
<1>3. CASE GiveUpObserver(v)
  BY <1>3 DEF GiveUpObserver, WithoutObserver
<1> QED
  BY <1>1, <1>2, <1>3

(* playAction of a view adds only the view's own observer. *)
LEMMA PlayActionView ==
  ASSUME TypeOK, NEW v \in Views, PlayAction(v)
  PROVE  ControllerObserversKept
<1>1. player \in Players \cup {Nil}
  BY DEF TypeOK
<1>2. AddTimeObserver(player, v) \/ UNCHANGED <<token, observers>>
  BY DEF PlayAction, AddObservers
<1> QED
  BY <1>1, <1>2, ViewObserver

(* A delayed start gives its view a new layer in its own tree. *)
LEMMA DelayedStartClient ==
  ASSUME TypeOK, ClientInv, NEW v \in Views, DelayedStart(v)
  PROVE  ClientInv'
<1> USE NilIsFresh DEF ClientInv, Active, DelayedStart, fullVars
<1>1. PICK l \in Layers : /\ host[l] = Nil
                          /\ layer' = [layer EXCEPT ![v] = l]
                          /\ host' = [host EXCEPT ![l] = v]
  BY DEF InitVideoPlayer, FreshLayers
<1>2. /\ \A s \in Surfaces : s # v => layer'[s] = layer[s]
      /\ layer'[v] = l /\ host'[l] = v
      /\ \A k \in Layers : k # l => host'[k] = host[k]
  BY <1>1 DEF TypeOK
<1>3. \A s \in Surfaces : layer[s] \in Layers \cup {Nil}
  BY DEF TypeOK
<1>4. OneInFront'
  BY DEF OneInFront
<1>5. InFront'
  BY <1>1, <1>2, <1>3 DEF InFront
<1>6. LayerIsHomeOrBorrowed'
  <2> SUFFICES ASSUME NEW w \in Views, layer'[w] # Nil
               PROVE  \/ host'[layer'[w]] = w
                      \/ \E f \in FullViews : /\ Active(f)' /\ delegate'[f] = w
                                              /\ layer'[f] = layer'[w] /\ host'[layer'[w]] = f
    BY DEF LayerIsHomeOrBorrowed
  <2>1. CASE w = v
    BY <2>1, <1>2
  <2>2. CASE w # v
    <3>1. layer'[w] = layer[w] /\ layer[w] \in Layers
      BY <2>2, <1>2, <1>3
    <3>2. \/ host[layer[w]] = w
          \/ \E f \in FullViews : Active(f) /\ delegate[f] = w /\ layer[f] = layer[w]
                                    /\ host[layer[w]] = f
      BY <3>1 DEF LayerIsHomeOrBorrowed
    <3>3. host'[layer[w]] = host[layer[w]]
      BY <1>1, <1>2, <3>1, <3>2
    <3> QED
      BY <1>2, <3>1, <3>2, <3>3
  <2> QED
    BY <2>1, <2>2
<1>7. TokenOfController'
  BY PlayActionView DEF TokenOfController, ControllerObserversKept, TypeOK
<1> QED
  BY <1>4, <1>5, <1>6, <1>7

(* A layer goes to the new controller, the only one in front. *)
LEMMA FullScreenClient ==
  ASSUME TypeOK, ClientInv, NEW v \in Views, FullScreenAction(v)
  PROVE  ClientInv'
<1> USE NilIsFresh DEF ClientInv, Active, fullVars, viewVars, buttonVars, playerVars, layerVars
<1>1. CASE UNCHANGED <<phase, ownPlayer, delegate, layer, host, token, observers>>
  BY <1>1, ClientUntouched DEF ControllerObserversKept
<1>2. ASSUME NEW f \in FullViews, NEW l \in Layers,
             OnScreen(v), layer[v] = l, phase[f] = "none",
             phase' = [phase EXCEPT ![f] = "presenting"],
             ownPlayer' = [ownPlayer EXCEPT ![f] = player],
             delegate' = [delegate EXCEPT ![f] = v],
             layer' = [layer EXCEPT ![f] = l],
             host' = [host EXCEPT ![l] = f],
             GiveUpObserver(v)
      PROVE  ClientInv'
  <2>1. \A g \in FullViews : ~Active(g)
    BY <1>2 DEF OnScreen, NoFullScreen
  <2>2. /\ \A w \in Views : layer'[w] = layer[w]
        /\ layer'[f] = l /\ host'[l] = f /\ delegate'[f] = v
        /\ \A k \in Layers : k # l => host'[k] = host[k]
        /\ \A g \in FullViews : g # f => phase'[g] = phase[g] /\ ownPlayer'[g] = ownPlayer[g]
        /\ phase'[f] = "presenting"
    BY <1>2 DEF TypeOK
  <2>3. \A w \in Views : layer[w] # Nil => host[layer[w]] = w
    BY <2>1 DEF LayerIsHomeOrBorrowed
  <2>4. OneInFront' /\ InFront'
    BY <2>1, <2>2 DEF OneInFront, InFront
  <2>5. LayerIsHomeOrBorrowed'
    <3> SUFFICES ASSUME NEW w \in Views, layer'[w] # Nil
                 PROVE  \/ host'[layer'[w]] = w
                        \/ \E g \in FullViews : /\ Active(g)' /\ delegate'[g] = w
                                                /\ layer'[g] = layer'[w] /\ host'[layer'[w]] = g
      BY DEF LayerIsHomeOrBorrowed
    <3>1. layer'[w] = layer[w] /\ layer[w] \in Layers /\ host[layer[w]] = w
      BY <2>2, <2>3 DEF TypeOK
    <3>2. CASE w = v
      BY <1>2, <2>2, <3>1, <3>2
    <3>3. CASE w # v
      BY <1>2, <2>2, <2>3, <3>1, <3>3
    <3> QED
      BY <3>2, <3>3
  <2>6. ControllerObserversKept
    <3>1. player \in Players \cup {Nil}
      BY DEF TypeOK
    <3> QED
      BY <1>2, <3>1, ViewObserver
  <2>7. TokenOfController'
    BY <1>2, <2>2, <2>6 DEF TokenOfController, ControllerObserversKept, TypeOK
  <2> QED
    BY <2>4, <2>5, <2>7
<1>3. layer[v] \in Layers \cup {Nil}
  BY DEF TypeOK
<1>4. \/ Abort("foreignObserver")
      \/ Abort("nilLayer")
      \/ /\ layer[v] # Nil
         /\ \E f \in FullViews : /\ phase[f] = "none"
                                 /\ phase' = [phase EXCEPT ![f] = "presenting"]
                                 /\ ownPlayer' = [ownPlayer EXCEPT ![f] = player]
                                 /\ delegate' = [delegate EXCEPT ![f] = v]
                                 /\ layer' = [layer EXCEPT ![f] = layer[v]]
                                 /\ host' = [host EXCEPT ![layer[v]] = f]
         /\ GiveUpObserver(v)
  BY Zenon DEF FullScreenAction
<1>5. OnScreen(v)
  BY DEF FullScreenAction
<1> QED
  BY <1>1, <1>2, <1>3, <1>4, <1>5 DEF Abort

(* The layer the controller held goes back to the view it came from. *)
LEMMA DismissedClient ==
  ASSUME TypeOK, ClientInv, NEW f \in FullViews, ViewDismissed(f)
  PROVE  ClientInv'
<1> USE NilIsFresh DEF ClientInv, Active, fullVars, viewVars, buttonVars, playerVars, layerVars
<1>0. phase[f] = "dismissing" /\ delegate[f] \in Views
  BY DEF ViewDismissed, InFront
<1>1. CASE Abort("nilPlayer")
  BY <1>1, ClientUntouched DEF Abort, ControllerObserversKept
<1>2. CASE ~Abort("nilPlayer")
  <2> PICK v \in Views : v = delegate[f]
    BY <1>0
  <2> PICK l \in Layers : l = layer[f]
    BY <1>0 DEF InFront, TypeOK
  <2>1. /\ phase' = [phase EXCEPT ![f] = "dismissed"]
        /\ layer' = [layer EXCEPT ![v] = l]
        /\ host' = [host EXCEPT ![l] = v]
        /\ UNCHANGED <<ownPlayer, delegate>>
    BY <1>2 DEF ViewDismissed, HandBackLayer
  <2>2. /\ \A s \in Surfaces : s # v => layer'[s] = layer[s]
        /\ layer'[v] = l /\ host'[l] = v
        /\ \A k \in Layers : k # l => host'[k] = host[k]
        /\ \A g \in FullViews : g # f => phase'[g] = phase[g]
        /\ phase'[f] = "dismissed"
    BY <2>1 DEF TypeOK
  <2>3. \A g \in FullViews : Active(g) => g = f
    BY <1>0 DEF OneInFront
  <2>4. \A g \in FullViews : ~Active(g)'
    BY <2>2, <2>3
  <2>5. OneInFront' /\ InFront'
    BY <2>4 DEF OneInFront, InFront
  <2>6. host[l] = f
    BY <1>0 DEF InFront
  <2>7. LayerIsHomeOrBorrowed'
    <3> SUFFICES ASSUME NEW w \in Views, layer'[w] # Nil PROVE host'[layer'[w]] = w
      BY DEF LayerIsHomeOrBorrowed
    <3>1. CASE w = v
      BY <2>2, <3>1
    <3>2. CASE w # v
      <4>1. layer'[w] = layer[w] /\ layer[w] \in Layers
        BY <2>2, <3>2 DEF TypeOK
      <4>2. host[layer[w]] = w
        BY <2>3, <3>2, <4>1 DEF LayerIsHomeOrBorrowed
      <4> QED
        BY <2>2, <2>6, <4>1, <4>2
    <3> QED
      BY <3>1, <3>2
  <2>8. ControllerObserversKept
    <3>1. AddTimeObserver(ownPlayer[f], v) \/ UNCHANGED <<token, observers>>
      BY <1>2 DEF ViewDismissed
    <3>2. ownPlayer[f] \in Players \cup {Nil}
      BY DEF TypeOK
    <3> QED
      BY <3>1, <3>2, ViewObserver
  <2>9. TokenOfController'
    BY <2>1, <2>2, <2>8 DEF TokenOfController, ControllerObserversKept, TypeOK
  <2> QED
    BY <2>5, <2>7, <2>9
<1> QED
  BY <1>1, <1>2

(* A controller adds the observer it lacks to its own player, when it appears and *)
(* when play is tapped.                                                           *)
LEMMA ControllerAdds ==
  ASSUME TypeOK, ClientInv, NEW f \in FullViews,
         UNCHANGED <<ownPlayer, delegate, layer, host>>,
         \/ phase[f] = "presenting" /\ phase' = [phase EXCEPT ![f] = "shown"]
         \/ phase[f] = "shown" /\ UNCHANGED phase,
         \/ token[f] = Nil /\ AddTimeObserver(ownPlayer[f], f)
         \/ UNCHANGED <<token, observers>>
  PROVE  ClientInv'
<1> USE NilIsFresh DEF ClientInv
<1>1. \A g \in FullViews : /\ Active(g)' <=> Active(g)
                           /\ g # f => phase'[g] = phase[g]
                           /\ phase'[f] = "shown"
  BY DEF TypeOK, Active
<1>2. OneInFront' /\ InFront' /\ LayerIsHomeOrBorrowed'
  BY <1>1 DEF OneInFront, InFront, LayerIsHomeOrBorrowed
<1>3. TokenOfController'
  <2>1. CASE token[f] = Nil /\ AddTimeObserver(ownPlayer[f], f)
    <3>1. /\ token'[f] = ownPlayer[f]
          /\ \A g \in FullViews : g # f => token'[g] = token[g]
          /\ \A q \in Players : observers'[q][f] = observers[q][f] + (IF q = ownPlayer[f] THEN 1 ELSE 0)
          /\ \A g \in FullViews, q \in Players : g # f => observers'[q][g] = observers[q][g]
      BY <2>1 DEF AddTimeObserver, TypeOK
    <3>2. \A q \in Players, g \in FullViews : observers[q][g] \in Nat
      BY DEF TypeOK
    <3>3. \A g \in FullViews : ownPlayer[g] \in Players \cup {Nil}
      BY DEF TypeOK
    <3> QED
      BY <1>1, <3>1, <3>2, <3>3 DEF TokenOfController
  <2>2. CASE UNCHANGED <<token, observers>>
    BY <1>1, <2>2 DEF TokenOfController
  <2> QED
    BY <2>1, <2>2
<1> QED
  BY <1>2, <1>3

(* Leaving takes the observer away and keeps the controller in front until it is dismissed. *)
LEMMA BackClient ==
  ASSUME TypeOK, ClientInv, NEW f \in FullViews, BackAction(f)
  PROVE  ClientInv'
<1> USE NilIsFresh DEF ClientInv, fullVars, viewVars, buttonVars, playerVars, layerVars
<1>1. CASE Abort("foreignObserver")
  BY <1>1, ClientUntouched DEF Abort, ControllerObserversKept
<1>2. CASE ~Abort("foreignObserver")
  <2>1. /\ phase[f] = "shown" /\ phase' = [phase EXCEPT ![f] = "dismissing"]
        /\ observers' = WithoutObserver(f)
        /\ UNCHANGED <<ownPlayer, delegate, layer, host, token>>
    BY <1>2 DEF BackAction, OnScreen
  <2>2. \A g \in FullViews : /\ Active(g)' <=> Active(g)
                             /\ g # f => phase'[g] = phase[g]
                             /\ phase'[f] = "dismissing"
    BY <2>1 DEF TypeOK, Active
  <2>3. OneInFront' /\ InFront' /\ LayerIsHomeOrBorrowed'
    BY <2>1, <2>2 DEF OneInFront, InFront, LayerIsHomeOrBorrowed
  <2>4. \A g \in FullViews, q \in Players : g # f => observers'[q][g] = observers[q][g]
    BY <2>1 DEF WithoutObserver
  <2>5. TokenOfController'
    BY <2>1, <2>2, <2>4 DEF TokenOfController, TypeOK
  <2> QED
    BY <2>3, <2>5
<1> QED
  BY <1>1, <1>2

(* Every step of the session under any client keeps the invariant. *)
LEMMA ClientInvPreserved ==
  ASSUME TypeOK, ClientInv, [ClientNext]_vars
  PROVE  ClientInv'
<1> USE DEF viewVars, fullVars, buttonVars, playerVars, layerVars
<1>0. ASSUME UNCHANGED <<phase, ownPlayer, delegate, layer, host, token, observers>>
      PROVE  ClientInv'
  BY <1>0, ClientUntouched DEF ControllerObserversKept
<1>1. CASE ClientStep
  BY <1>0, <1>1 DEF ClientStep, MountView, Unmount, SetUrl, SetPlay, SetPaused, PlayAnotherVideo
<1>2. CASE TouchStep
  <2>1. ASSUME NEW v \in Views, PlayTapped(v) PROVE ClientInv'
    BY <2>1, PlayActionView, ClientUntouched DEF PlayTapped
  <2>2. ASSUME NEW f \in FullViews, FullPlayTapped(f) PROVE ClientInv'
    <3>1. phase[f] = "shown"
      BY <2>2, NilIsFresh DEF FullPlayTapped, OnScreen
    <3> QED
      BY <2>2, <3>1, ControllerAdds DEF FullPlayTapped
  <2>3. ASSUME NEW s \in Surfaces, ForwardPastEnd(s) \/ BackwardAction(s) \/ SetVideoSpeed(s)
        PROVE  ClientInv'
    BY <1>0, <2>3 DEF ForwardPastEnd, BackwardAction, SetVideoSpeed, Abort
  <2> QED
    BY <1>2, <2>1, <2>2, <2>3, FullScreenClient, BackClient DEF TouchStep
<1>3. CASE SystemStep
  <2>1. ASSUME NEW f \in FullViews, ViewDidAppear(f) PROVE ClientInv'
    <3>1. token[f] = Nil
      BY <2>1 DEF ViewDidAppear, ClientInv, TokenOfController
    <3> QED
      BY <2>1, <3>1, ControllerAdds DEF ViewDidAppear
  <2>2. ASSUME AppMovedToBackground \/ PlayNextVideo \/ \E p \in Players : StopsOnItsOwn(p)
        PROVE  ClientInv'
    BY <1>0, <2>2 DEF AppMovedToBackground, PlayNextVideo, StopsOnItsOwn
  <2> QED
    BY <1>3, <2>1, <2>2, DelayedStartClient, DismissedClient DEF SystemStep
<1>4. CASE UNCHANGED vars
  BY <1>0, <1>4 DEF vars
<1> QED
  BY <1>1, <1>2, <1>3, <1>4 DEF ClientNext, Aborted

(* The layer and the observer of the controller in front are followed for any client. *)
THEOREM ClientInvariant == ClientSpec => []ClientInv
<1>1. Init => ClientInv
  BY NilIsFresh
     DEF Init, ClientInv, OneInFront, InFront, LayerIsHomeOrBorrowed, TokenOfController, Active
<1>2. TypeOK /\ ClientInv /\ [ClientNext]_vars => ClientInv'
  BY ClientInvPreserved
<1> QED
  BY <1>1, <1>2, ClientTypeCorrect, PTL DEF ClientSpec

-----------------------------------------------------------------------------
(* The properties *)

(* Leaving full screen never raises, whatever the client does. *)
THEOREM ControllerAlwaysLeavesCleanly == ClientSpec => []ControllerLeavesCleanly
<1>1. ClientInv => ControllerLeavesCleanly
  BY NilIsFresh
     DEF ClientInv, TokenOfController, ControllerLeavesCleanly, OnScreen, RemovalRaises,
         Removable, PlayerOf
<1> QED
  BY <1>1, ClientInvariant, PTL

(* The controller in front has its layer in its own tree. *)
THEOREM ControllerAlwaysHoldsLayer == ClientSpec => []ControllerHoldsLayer
<1>1. ClientInv => ControllerHoldsLayer
  BY DEF ClientInv, InFront, ControllerHoldsLayer
<1> QED
  BY <1>1, ClientInvariant, PTL

(* A view's layer is at home or with the controller in front. *)
THEOREM LayerAlwaysHomeOrBorrowed == ClientSpec => []LayerIsHomeOrBorrowed
<1>1. ClientInv => LayerIsHomeOrBorrowed
  BY DEF ClientInv
<1> QED
  BY <1>1, ClientInvariant, PTL

(* The hand-over neither starts nor stops a player, whatever the client does. *)
THEOREM HandoffSilentForAnyClient == ClientSpec => HandoffIsSilent
<1>1. TypeOK /\ [ClientNext]_vars => [Handoff => UNCHANGED playing]_vars
  BY HandoffSilent
<1> QED
  BY <1>1, ClientTypeCorrect, PTL DEF ClientSpec, HandoffIsSilent

PlayersKept ==
  /\ player # Nil => player' # Nil
  /\ \A f \in FullViews : ownPlayer[f] # Nil => ownPlayer'[f] = ownPlayer[f]
  /\ crash' = "nilPlayer" /\ crash = "none" /\ player # Nil
       => \E f \in FullViews : phase[f] = "shown" \/ phase[f] = "dismissing"

(* No step loses a player that was set. *)
LEMMA UrlKeptStep == ASSUME TypeOK, ClientInv, [ClientNext]_vars PROVE PlayersKept
<1> USE NilIsFresh DEF viewVars, fullVars, buttonVars, playerVars, layerVars
<1>0. ASSUME UNCHANGED <<player, ownPlayer>>, UNCHANGED crash \/ crash' # "nilPlayer"
      PROVE  PlayersKept
  BY <1>0 DEF PlayersKept
<1>1. CASE ClientStep
  <2>1. ASSUME NEW v \in Views, NEW u \in Urls, SetUrl(v, u) PROVE PlayersKept
    <3>1. player' \in Players
      BY <2>1 DEF SetUrl, ReplacePlayer, FreshPlayers
    <3>2. UNCHANGED <<ownPlayer, crash>>
      BY <2>1 DEF SetUrl
    <3> QED
      BY <3>1, <3>2 DEF PlayersKept
  <2> QED
    BY <1>0, <1>1, <2>1
       DEF ClientStep, MountView, Unmount, SetPlay, SetPaused, PlayAnotherVideo
<1>2. CASE TouchStep
  <2>1. ASSUME NEW v \in Views, FullScreenAction(v) PROVE PlayersKept
    <3>1. ASSUME NEW f \in FullViews, phase[f] = "none",
                 ownPlayer' = [ownPlayer EXCEPT ![f] = player], UNCHANGED <<player, crash>>
          PROVE  PlayersKept
      <4>1. ownPlayer[f] = Nil
        BY <3>1 DEF ClientInv, TokenOfController
      <4>2. \A g \in FullViews : ownPlayer[g] # Nil => ownPlayer'[g] = ownPlayer[g]
        BY <3>1, <4>1 DEF TypeOK
      <4> QED
        BY <3>1, <4>2 DEF PlayersKept
    <3> QED
      BY <1>0, <2>1, <3>1 DEF FullScreenAction, Abort
  <2>2. ASSUME NEW s \in Surfaces, BackwardAction(s) PROVE PlayersKept
    <3>1. player # Nil => \E f \in FullViews : phase[f] = "shown"
      BY <2>2 DEF BackwardAction, PlayerOf, OnScreen, Surfaces
    <3> QED
      BY <2>2, <3>1 DEF BackwardAction, Abort, PlayersKept
  <2> QED
    BY <1>0, <1>2, <2>1, <2>2
       DEF TouchStep, PlayTapped, FullPlayTapped, BackAction, ForwardPastEnd, SetVideoSpeed, Abort
<1>3. CASE SystemStep
  <2>1. ASSUME NEW f \in FullViews, ViewDismissed(f) PROVE PlayersKept
    <3>1. phase[f] = "dismissing" /\ UNCHANGED ownPlayer /\ (player # Nil => player' # Nil)
      BY <2>1 DEF ViewDismissed, Abort
    <3> QED
      BY <3>1 DEF PlayersKept
  <2> QED
    BY <1>0, <1>3, <2>1
       DEF SystemStep, DelayedStart, ViewDidAppear, StopsOnItsOwn, PlayNextVideo,
           AppMovedToBackground
<1>4. CASE UNCHANGED vars
  BY <1>0, <1>4 DEF vars
<1> QED
  BY <1>1, <1>2, <1>3, <1>4 DEF ClientNext, Aborted

(* A player that was set is never lost, and only a controller that was given none can *)
(* abort on a missing one.                                                           *)
THEOREM UrlGivenIsAlwaysKept == ClientSpec => UrlGivenIsKept
<1>1. TypeOK /\ ClientInv /\ [ClientNext]_vars
        => [/\ player # Nil => player' # Nil
            /\ \A f \in FullViews : ownPlayer[f] # Nil => ownPlayer'[f] = ownPlayer[f]
            /\ crash' = "nilPlayer" /\ player # Nil
                 => \E f \in FullViews : phase[f] = "shown" \/ phase[f] = "dismissing"]_vars
  BY UrlKeptStep DEF PlayersKept, ClientNext, Aborted
<1> QED
  BY <1>1, ClientTypeCorrect, ClientInvariant, PTL DEF ClientSpec, UrlGivenIsKept
=============================================================================
