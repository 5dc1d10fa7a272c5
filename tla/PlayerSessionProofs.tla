-------------------------- MODULE PlayerSessionProofs --------------------------
(***************************************************************************)
(* Facts about the operations of the playback session that do not depend   *)
(* on the JavaScript client: type correctness of every touch, callback and *)
(* queued closure, and the silence of the hand-over.                       *)
(***************************************************************************)
EXTENDS PlayerSession, TLAPS

(* Nil names no view, controller, player or layer, and no view is a controller. *)
LEMMA NilIsFresh ==
  /\ Nil \notin Surfaces
  /\ Nil \notin Players
  /\ Nil \notin Layers
  /\ \A v \in Views : v \in Surfaces /\ v \notin FullViews /\ v # Nil
  /\ \A f \in FullViews : f \in Surfaces /\ f \notin Views /\ f # Nil
BY SurfacesDisjoint, NilIsNothing DEF Surfaces

-----------------------------------------------------------------------------
(* Type correctness *)

(* play() and pause() leave one playing flag per player. *)
LEMMA WithRateType ==
  ASSUME NEW p, playing \in [Players -> BOOLEAN]
  PROVE  /\ WithRate(p, TRUE) \in [Players -> BOOLEAN]
         /\ WithRate(p, FALSE) \in [Players -> BOOLEAN]
BY DEF WithRate

(* Registering an observer keeps the tokens and the registry in range. *)
LEMMA AddTimeObserverType ==
  ASSUME TypeOK, NEW p \in Players \cup {Nil}, NEW s,
         AddTimeObserver(p, s) \/ UNCHANGED <<token, observers>>
  PROVE  /\ token' \in [Surfaces -> Players \cup {Nil}]
         /\ observers' \in [Players -> [Surfaces -> Nat]]
<1>1. CASE AddTimeObserver(p, s)
  <2>1. token' \in [Surfaces -> Players \cup {Nil}]
    BY <1>1 DEF TypeOK, AddTimeObserver
  <2>2. observers' \in [Players -> [Surfaces -> Nat]]
    BY <1>1 DEF TypeOK, AddTimeObserver
  <2> QED
    BY <2>1, <2>2
<1>2. CASE UNCHANGED <<token, observers>>
  BY <1>2 DEF TypeOK
<1> QED
  BY <1>1, <1>2

(* Removing one does too, unless the removal raises. *)
LEMMA WithoutObserverType ==
  ASSUME TypeOK, NEW s \in Surfaces, ~RemovalRaises(s)
  PROVE  WithoutObserver(s) \in [Players -> [Surfaces -> Nat]]
<1>1. ASSUME NEW q \in Players, NEW t \in Surfaces,
             t = s, token[s] = q, PlayerOf(s) = q
      PROVE  observers[q][t] - 1 \in Nat
  BY <1>1, NilIsFresh DEF TypeOK, RemovalRaises, Removable
<1> QED
  BY <1>1 DEF TypeOK, WithoutObserver

(* playAction of a view keeps what it writes in range. *)
LEMMA PlayActionType ==
  ASSUME TypeOK, NEW v \in Views, PlayAction(v)
  PROVE  /\ playing' \in [Players -> BOOLEAN]
         /\ selected' \in [Surfaces -> BOOLEAN]
         /\ token' \in [Surfaces -> Players \cup {Nil}]
         /\ observers' \in [Players -> [Surfaces -> Nat]]
<1> v \in Surfaces /\ player \in Players \cup {Nil}
  BY DEF TypeOK, Surfaces
<1>1. playing' \in [Players -> BOOLEAN]
  <2>1. playing' = WithRate(player, TRUE) \/ playing' = WithRate(player, FALSE)
    BY DEF PlayAction, PauseAction
  <2>2. /\ WithRate(player, TRUE) \in [Players -> BOOLEAN]
        /\ WithRate(player, FALSE) \in [Players -> BOOLEAN]
    BY WithRateType DEF TypeOK
  <2> QED
    BY <2>1, <2>2
<1>2. selected' \in [Surfaces -> BOOLEAN]
  <2>1. \/ selected' = [selected EXCEPT ![v] = TRUE]
        \/ selected' = [selected EXCEPT ![v] = FALSE]
    BY DEF PlayAction, PauseAction
  <2> QED
    BY <2>1 DEF TypeOK
<1>3. AddTimeObserver(player, v) \/ UNCHANGED <<token, observers>>
  BY DEF PlayAction, AddObservers
<1> QED
  BY <1>1, <1>2, <1>3, AddTimeObserverType DEF TypeOK

(* No touch, system callback or queued closure takes a variable out of its range. *)
LEMMA StepType ==
  ASSUME TypeOK, TouchStep \/ SystemStep
  PROVE  TypeOK'
<1> USE DEF viewVars, fullVars, buttonVars, playerVars, layerVars
<1>a. ASSUME NEW why \in {"nilLayer", "foreignObserver", "nilPlayer"}, Abort(why) PROVE TypeOK'
  BY <1>a DEF TypeOK, Abort
<1>b. ASSUME NEW s
      PROVE  /\ [selected EXCEPT ![s] = TRUE] \in [Surfaces -> BOOLEAN]
             /\ [selected EXCEPT ![s] = FALSE] \in [Surfaces -> BOOLEAN]
  BY DEF TypeOK
<1>c. ASSUME NEW p
      PROVE  /\ WithRate(p, TRUE) \in [Players -> BOOLEAN]
             /\ WithRate(p, FALSE) \in [Players -> BOOLEAN]
  BY WithRateType DEF TypeOK
<1>d. player \in Players \cup {Nil} /\ \A f \in FullViews : ownPlayer[f] \in Players \cup {Nil}
  BY DEF TypeOK
<1>1. ASSUME NEW v \in Views, PlayTapped(v) PROVE TypeOK'
  BY <1>1, PlayActionType DEF PlayTapped, TypeOK
<1>2. ASSUME NEW v \in Views, FullScreenAction(v) PROVE TypeOK'
  <2>1. CASE Abort("foreignObserver") \/ Abort("nilLayer")
    BY <2>1, <1>a
  <2>2. CASE ~(Abort("foreignObserver") \/ Abort("nilLayer"))
    <3>1. observers' \in [Players -> [Surfaces -> Nat]]
      BY <1>2, <2>2, WithoutObserverType, NilIsFresh DEF FullScreenAction, GiveUpObserver
    <3>2. PICK f \in FullViews :
             /\ phase' = [phase EXCEPT ![f] = "presenting"]
             /\ ownPlayer' = [ownPlayer EXCEPT ![f] = player]
             /\ delegate' = [delegate EXCEPT ![f] = v]
             /\ layer' = [layer EXCEPT ![f] = layer[v]]
             /\ host' = [host EXCEPT ![layer[v]] = f]
      BY <1>2, <2>2 DEF FullScreenAction, GiveUpObserver
    <3>3. layer[v] \in Layers \cup {Nil}
      BY NilIsFresh DEF TypeOK
    <3>4. /\ token' = [token EXCEPT ![v] = Nil]
          /\ UNCHANGED <<viewVars, selected, player, item, playing, layerPlayer, requests, crash>>
      BY <1>2, <2>2 DEF FullScreenAction, GiveUpObserver
    <3> QED
      BY <3>1, <3>2, <3>3, <3>4, NilIsFresh DEF TypeOK
  <2> QED
    BY <2>1, <2>2
<1>3. ASSUME NEW f \in FullViews, FullPlayTapped(f) PROVE TypeOK'
  <2>1. /\ token' \in [Surfaces -> Players \cup {Nil}]
        /\ observers' \in [Players -> [Surfaces -> Nat]]
    <3>1. AddTimeObserver(ownPlayer[f], f) \/ UNCHANGED <<token, observers>>
      BY <1>3 DEF FullPlayTapped
    <3>2. ownPlayer[f] \in Players \cup {Nil}
      BY <1>d
    <3> QED
      BY <3>1, <3>2, AddTimeObserverType
  <2>2. playing' \in [Players -> BOOLEAN] /\ selected' \in [Surfaces -> BOOLEAN]
    <3>1. \/ playing' = WithRate(ownPlayer[f], TRUE) /\ selected' = [selected EXCEPT ![f] = TRUE]
          \/ playing' = WithRate(ownPlayer[f], FALSE) /\ selected' = [selected EXCEPT ![f] = FALSE]
      BY <1>3 DEF FullPlayTapped
    <3>2. playing' \in [Players -> BOOLEAN]
      BY <3>1, <1>c
    <3>3. selected' \in [Surfaces -> BOOLEAN]
      BY <3>1, <1>b
    <3> QED
      BY <3>2, <3>3
  <2> QED
    BY <1>3, <2>1, <2>2 DEF FullPlayTapped, TypeOK
<1>4. ASSUME NEW f \in FullViews, BackAction(f) PROVE TypeOK'
  <2>1. CASE Abort("foreignObserver")
    BY <2>1, <1>a
  <2>2. CASE ~Abort("foreignObserver")
    <3>1. observers' \in [Players -> [Surfaces -> Nat]]
      BY <1>4, <2>2, WithoutObserverType, NilIsFresh DEF BackAction
    <3> QED
      BY <1>4, <2>2, <3>1 DEF BackAction, TypeOK
  <2> QED
    BY <2>1, <2>2
<1>5. ASSUME NEW s \in Surfaces, ForwardPastEnd(s) PROVE TypeOK'
  BY <1>5, <1>b DEF ForwardPastEnd, TypeOK
<1>6. ASSUME NEW s \in Surfaces, BackwardAction(s) PROVE TypeOK'
  BY <1>6, <1>a DEF BackwardAction
<1>7. ASSUME NEW s \in Surfaces, SetVideoSpeed(s) PROVE TypeOK'
  <2>1. playing' \in [Players -> BOOLEAN] /\ selected' \in [Surfaces -> BOOLEAN]
    BY <1>7, <1>b, <1>c DEF SetVideoSpeed
  <2> QED
    BY <1>7, <2>1 DEF SetVideoSpeed, TypeOK
<1>8. ASSUME NEW v \in Views, DelayedStart(v) PROVE TypeOK'
  <2>1. PICK l \in FreshLayers : /\ layer' = [layer EXCEPT ![v] = l]
                                 /\ layerPlayer' = [layerPlayer EXCEPT ![l] = player]
                                 /\ host' = [host EXCEPT ![l] = v]
    BY <1>8 DEF DelayedStart, InitVideoPlayer
  <2>2. /\ layer' \in [Surfaces -> Layers \cup {Nil}]
        /\ layerPlayer' \in [Layers -> Players \cup {Nil}]
        /\ host' \in [Layers -> Surfaces \cup {Nil}]
    BY <2>1, NilIsFresh DEF FreshLayers, TypeOK
  <2>3. pending' \in [Views -> Nat]
    BY <1>8 DEF DelayedStart, TypeOK
  <2> QED
    BY <1>8, <2>2, <2>3, PlayActionType DEF DelayedStart, TypeOK
<1>9. ASSUME NEW f \in FullViews, ViewDidAppear(f) PROVE TypeOK'
  <2>1. /\ token' \in [Surfaces -> Players \cup {Nil}]
        /\ observers' \in [Players -> [Surfaces -> Nat]]
    <3>1. AddTimeObserver(ownPlayer[f], f) \/ UNCHANGED <<token, observers>>
      BY <1>9 DEF ViewDidAppear
    <3>2. ownPlayer[f] \in Players \cup {Nil}
      BY <1>d
    <3> QED
      BY <3>1, <3>2, AddTimeObserverType
  <2>2. playing' \in [Players -> BOOLEAN] /\ selected' \in [Surfaces -> BOOLEAN]
    <3>1. \/ playing' = WithRate(ownPlayer[f], TRUE) /\ selected' = [selected EXCEPT ![f] = TRUE]
          \/ playing' = playing /\ selected' = selected
      BY <1>9 DEF ViewDidAppear
    <3>2. playing \in [Players -> BOOLEAN] /\ selected \in [Surfaces -> BOOLEAN]
      BY DEF TypeOK
    <3> QED
      BY <3>1, <3>2, <1>b, <1>c, NilIsFresh
  <2> QED
    BY <1>9, <2>1, <2>2 DEF ViewDidAppear, TypeOK
<1>10. ASSUME NEW f \in FullViews, ViewDismissed(f) PROVE TypeOK'
  <2>1. CASE Abort("nilPlayer")
    BY <2>1, <1>a
  <2>2. CASE ~Abort("nilPlayer")
    <3> DEFINE v == delegate[f]
               p == ownPlayer[f]
    <3>1. /\ token' \in [Surfaces -> Players \cup {Nil}]
          /\ observers' \in [Players -> [Surfaces -> Nat]]
      <4>1. AddTimeObserver(p, v) \/ UNCHANGED <<token, observers>>
        BY <1>10, <2>2 DEF ViewDismissed, HandBackLayer
      <4>2. p \in Players \cup {Nil}
        BY <1>d
      <4> HIDE DEF v, p
      <4> QED
        BY <4>1, <4>2, AddTimeObserverType
    <3>2. playing' \in [Players -> BOOLEAN] /\ selected' \in [Surfaces -> BOOLEAN]
      <4>1. \/ playing' = WithRate(p, TRUE) /\ selected' = [selected EXCEPT ![v] = TRUE]
            \/ playing' = WithRate(p, FALSE) /\ selected' = [selected EXCEPT ![v] = FALSE]
        BY <1>10, <2>2 DEF ViewDismissed, HandBackLayer
      <4> HIDE DEF v, p
      <4> QED
        BY <4>1, <1>b, <1>c
    <3>3. /\ phase' = [phase EXCEPT ![f] = "dismissed"]
          /\ player' = p
          /\ layer' = [layer EXCEPT ![v] = layer[f]]
          /\ host' = [host EXCEPT ![layer[f]] = v]
          /\ UNCHANGED <<viewVars, ownPlayer, delegate, item, layerPlayer, requests, crash>>
      BY <1>10, <2>2 DEF ViewDismissed, HandBackLayer
    <3>4. v \in Surfaces \cup {Nil} /\ layer[f] \in Layers \cup {Nil}
      BY NilIsFresh DEF TypeOK
    <3> HIDE DEF v, p
    <3> QED
      BY <1>d, <3>1, <3>2, <3>3, <3>4 DEF TypeOK, p
  <2> QED
    BY <2>1, <2>2
<1>11. ASSUME NEW p \in Players, StopsOnItsOwn(p) PROVE TypeOK'
  <2>1. playing' \in [Players -> BOOLEAN]
    BY <1>11, <1>c DEF StopsOnItsOwn
  <2> QED
    BY <1>11, <2>1 DEF StopsOnItsOwn, TypeOK
<1>12. CASE AppMovedToBackground
  <2>1. playing' \in [Players -> BOOLEAN] /\ selected' \in [Surfaces -> BOOLEAN]
    BY <1>12 DEF AppMovedToBackground
  <2> QED
    BY <1>12, <2>1 DEF AppMovedToBackground, TypeOK
<1>13. CASE PlayNextVideo
  <2>1. playing' \in [Players -> BOOLEAN]
    BY <1>13, <1>c DEF PlayNextVideo
  <2>2. requests' \in Seq(Urls)
    BY <1>13 DEF PlayNextVideo, TypeOK
  <2>3. item' \in [Players -> Urls \cup {BuiltInUrl, Nil}]
    BY <1>13 DEF PlayNextVideo, TypeOK
  <2> QED
    BY <1>13, <2>1, <2>2, <2>3 DEF PlayNextVideo, TypeOK
<1> QED
  BY <1>1, <1>2, <1>3, <1>4, <1>5, <1>6, <1>7, <1>8, <1>9, <1>10, <1>11, <1>12, <1>13
     DEF TouchStep, SystemStep

-----------------------------------------------------------------------------
(* The silence of the hand-over *)

(* Setting a flag to the value it has changes nothing. *)
LEMMA WithRateSame ==
  ASSUME NEW p, playing \in [Players -> BOOLEAN]
  PROVE  /\ (p \in Players => playing[p]) => WithRate(p, TRUE) = playing
         /\ (p \in Players => ~playing[p]) => WithRate(p, FALSE) = playing
<1>1. ASSUME p \in Players => playing[p] PROVE WithRate(p, TRUE) = playing
  <2>1. \A q \in Players : WithRate(p, TRUE)[q] = playing[q]
    BY <1>1 DEF WithRate
  <2> QED
    BY <2>1 DEF WithRate
<1>2. ASSUME p \in Players => ~playing[p] PROVE WithRate(p, FALSE) = playing
  <2>1. \A q \in Players : WithRate(p, FALSE)[q] = playing[q]
    BY <1>2 DEF WithRate
  <2> QED
    BY <2>1 DEF WithRate
<1> QED
  BY <1>1, <1>2

(* No step of the hand-over starts or stops a player. *)
LEMMA HandoffSilent == ASSUME TypeOK, Handoff PROVE UNCHANGED playing
<1>1. ASSUME NEW v \in Views, FullScreenAction(v) PROVE UNCHANGED playing
  BY <1>1 DEF FullScreenAction, Abort, playerVars
<1>2. ASSUME NEW f \in FullViews, ViewDidAppear(f) PROVE UNCHANGED playing
  <2>1. ASSUME IsPlaying(ownPlayer[f]) PROVE WithRate(ownPlayer[f], TRUE) = playing
    <3>1. ownPlayer[f] \in Players => playing[ownPlayer[f]]
      BY <2>1 DEF IsPlaying
    <3> QED
      BY <3>1, WithRateSame DEF TypeOK
  <2> QED
    BY <1>2, <2>1 DEF ViewDidAppear
<1>3. ASSUME NEW f \in FullViews, BackAction(f) PROVE UNCHANGED playing
  BY <1>3 DEF BackAction, Abort, playerVars
<1>4. ASSUME NEW f \in FullViews, ViewDismissed(f) PROVE UNCHANGED playing
  <2>1. ASSUME playing[ownPlayer[f]] PROVE WithRate(ownPlayer[f], TRUE) = playing
    BY <2>1, WithRateSame DEF TypeOK
  <2>2. ASSUME ~playing[ownPlayer[f]] PROVE WithRate(ownPlayer[f], FALSE) = playing
    BY <2>2, WithRateSame DEF TypeOK
  <2>3. \/ UNCHANGED playing
        \/ playing[ownPlayer[f]] /\ playing' = WithRate(ownPlayer[f], TRUE)
        \/ ~playing[ownPlayer[f]] /\ playing' = WithRate(ownPlayer[f], FALSE)
    BY <1>4, Zenon DEF ViewDismissed, Abort, playerVars
  <2> QED
    BY <2>1, <2>2, <2>3, Zenon
<1> QED
  BY <1>1, <1>2, <1>3, <1>4 DEF Handoff
=============================================================================
