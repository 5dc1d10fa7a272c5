---------------------------- MODULE HandoverProofs ----------------------------
(***************************************************************************)
(* The action properties of the session under App and its refinement of    *)
(* WatchedScreens, TwoScreens and the safety part of VideoHandover, for    *)
(* any number of views, controllers, players and layers.  They rest on the *)
(* invariant of AppSessionProofs.                                          *)
(***************************************************************************)
EXTENDS AppSessionProofs

(* Going to full screen and back neither starts nor stops a player. *)
THEOREM HandoffAlwaysSilent == AppSafetySpec => HandoffKeepsPlayback
<1>1. AppTypeOK /\ [AppNext]_appVars => [Handoff => UNCHANGED playing]_appVars
  BY HandoffSilent DEF AppTypeOK
<1> QED
  BY <1>1, AppTypeCorrect, PTL DEF AppSafetySpec, HandoffKeepsPlayback

-----------------------------------------------------------------------------
(* The refinement of VideoHandover *)

(* Where a view's picture is, read off the invariant *)
PlacesRead ==
  \A v \in Views :
    /\ layer[v] = Nil => Place(v) = "absent"
    /\ layer[v] # Nil /\ (\A f \in FullViews : Active(f) => delegate[f] # v)
         => Place(v) = "embedded"
    /\ \A f \in FullViews :
         Active(f) /\ delegate[f] = v /\ phase[f] # "dismissing" => Place(v) = "full"
    /\ \A f \in FullViews :
         phase[f] = "dismissing" /\ delegate[f] = v => Place(v) = "returning"

(* The invariant leaves a view's picture exactly the four places of VideoHandover. *)
LEMMA PlacesAreRead == SessionInv => PlacesRead
<1> SUFFICES ASSUME SessionInv, NEW v \in Views
             PROVE  /\ layer[v] = Nil => Place(v) = "absent"
                    /\ layer[v] # Nil /\ (\A f \in FullViews : Active(f) => delegate[f] # v)
                         => Place(v) = "embedded"
                    /\ \A f \in FullViews :
                         Active(f) /\ delegate[f] = v /\ phase[f] # "dismissing"
                           => Place(v) = "full"
                    /\ \A f \in FullViews :
                         phase[f] = "dismissing" /\ delegate[f] = v => Place(v) = "returning"
  BY DEF PlacesRead
<1> USE NilIsFresh DEF SessionInv
<1>1. layer[v] = Nil => Place(v) = "absent"
  BY DEF Place
<1>2. ASSUME layer[v] # Nil, \A f \in FullViews : Active(f) => delegate[f] # v
      PROVE  Place(v) = "embedded"
  <2>1. host[layer[v]] = v
    BY <1>2 DEF LayerInPlace
  <2> QED
    BY <1>2, <2>1 DEF Place, Active
<1>3. ASSUME NEW f \in FullViews, Active(f), delegate[f] = v, phase[f] # "dismissing"
      PROVE  Place(v) = "full"
  BY <1>3 DEF Place, ControllerTookOver
<1>4. ASSUME NEW f \in FullViews, phase[f] = "dismissing", delegate[f] = v
      PROVE  Place(v) = "returning"
  <2>1. layer[f] # Nil /\ layer[v] = layer[f] /\ host[layer[v]] = f /\ Active(f)
    BY <1>4 DEF ControllerTookOver, Active
  <2>2. \A g \in FullViews : Active(g) => g = f
    BY <2>1 DEF OneController
  <2> QED
    BY <1>4, <2>1, <2>2 DEF Place
<1> QED
  BY <1>1, <1>2, <1>3, <1>4

Picture == <<layer, phase, delegate, host>>

(* A step that moves no layer and no controller leaves every picture in place. *)
LEMMA PictureStays ==
  ASSUME UNCHANGED Picture, AppTypeOK'
  PROVE  [Handover!Next]_(Handover!vars)
<1>1. \A v \in Views : Place(v)' = Place(v)
  BY DEF Picture, Place, Active
<1>2. playing' \in [Players -> BOOLEAN]
  BY DEF AppTypeOK, TypeOK
<1> QED
  BY <1>1, <1>2 DEF Handover!Next, Handover!Control, Handover!vars

(* One picture moves and the others stay. *)
LEMMA OneMoves ==
  ASSUME NEW v \in Views, NEW from, NEW to, Place(v) = from, Place(v)' = to,
         \A w \in Views : w # v => Place(w)' = Place(w)
  PROVE  Handover!Move(v, from, to)
BY DEF Handover!Move

(* The delayed start brings a picture up where none was. *)
LEMMA StartRefines ==
  ASSUME SessionInv, PlacesRead, PlacesRead', AppTypeOK',
         NEW v \in Views, DelayedStart(v)
  PROVE  Handover!Start(v)
<1> USE NilIsFresh DEF SessionInv
<1>1. layer[v] = Nil
  BY DEF DelayedStart, StartsOnce
<1>2. /\ UNCHANGED <<phase, delegate>>
      /\ \E l \in FreshLayers : /\ layer' = [layer EXCEPT ![v] = l]
                                /\ host' = [host EXCEPT ![l] = v]
  BY DEF DelayedStart, InitVideoPlayer, fullVars
<1>3. layer'[v] # Nil /\ \A w \in Views : w # v => layer'[w] = layer[w]
  BY <1>2 DEF FreshLayers, AppTypeOK, TypeOK
<1>4. \A f \in FullViews : Active(f)' <=> Active(f)
  BY <1>2 DEF Active
<1>5. \A f \in FullViews : Active(f) => delegate[f] # v
  BY DEF DelayedStart, ControllerTookOver, AppTypeOK, TypeOK
<1>6. Place(v) = "absent" /\ Place(v)' = "embedded"
  BY <1>1, <1>2, <1>3, <1>4, <1>5 DEF PlacesRead
<1>7. \A w \in Views : w # v => Place(w)' = Place(w)
  BY <1>2, <1>3, <1>4 DEF PlacesRead, Active
<1>8. Handover!Move(v, "absent", "embedded")
  BY <1>6, <1>7, OneMoves
<1> QED
  BY <1>8 DEF Handover!Start, AppTypeOK, TypeOK

(* Going to full screen moves the picture of a view while all others are home. *)
LEMMA EnterRefines ==
  ASSUME SessionInv, PlacesRead, PlacesRead', AppTypeOK',
         NEW v \in Views, FullScreenAction(v)
  PROVE  [Handover!Next]_(Handover!vars)
<1> USE NilIsFresh DEF SessionInv
<1>1. CASE UNCHANGED Picture
  BY <1>1, PictureStays
<1>2. CASE \E f \in FullViews :
             /\ layer[v] # Nil
             /\ phase[f] = "none"
             /\ phase' = [phase EXCEPT ![f] = "presenting"]
             /\ delegate' = [delegate EXCEPT ![f] = v]
             /\ layer' = [layer EXCEPT ![f] = layer[v]]
             /\ UNCHANGED playing
  <2> PICK f \in FullViews : /\ layer[v] # Nil
                             /\ phase[f] = "none"
                             /\ phase' = [phase EXCEPT ![f] = "presenting"]
                             /\ delegate' = [delegate EXCEPT ![f] = v]
                             /\ layer' = [layer EXCEPT ![f] = layer[v]]
                             /\ UNCHANGED playing
    BY <1>2
  <2> USE DEF AppTypeOK, TypeOK
  <2>1. \A g \in FullViews : ~Active(g)
    BY DEF FullScreenAction, OnScreen, NoFullScreen
  <2>2. \A w \in Views : layer'[w] = layer[w]
    OBVIOUS
  <2>3. Active(f)' /\ phase'[f] # "dismissing" /\ delegate'[f] = v
    BY DEF Active
  <2>4. \A g \in FullViews : g # f => ~Active(g)'
    BY <2>1 DEF Active
  <2>5. Place(v) = "embedded" /\ Place(v)' = "full"
    BY <2>1, <2>3 DEF PlacesRead
  <2>6. \A w \in Views : /\ w # v => Place(w)' = Place(w)
                         /\ Place(w) \in {"absent", "embedded"}
    <3> TAKE w \in Views
    <3>1. CASE layer[w] = Nil
      <4>1. layer'[w] = Nil
        BY <3>1, <2>2
      <4>2. Place(w) = "absent" /\ Place(w)' = "absent"
        BY <3>1, <4>1 DEF PlacesRead
      <4> QED
        BY <4>2
    <3>2. CASE layer[w] # Nil
      <4>1. Place(w) = "embedded"
        BY <3>2, <2>1 DEF PlacesRead
      <4>2. w # v => \A g \in FullViews : Active(g)' => delegate'[g] # w
        BY <2>3, <2>4
      <4>3. layer'[w] # Nil
        BY <3>2, <2>2
      <4>4. w # v => Place(w)' = "embedded"
        BY <4>2, <4>3 DEF PlacesRead
      <4> QED
        BY <4>1, <4>4
    <3> QED
      BY <3>1, <3>2
  <2>7. Handover!Move(v, "embedded", "full")
    BY <2>5, <2>6, OneMoves
  <2> QED
    BY <2>6, <2>7 DEF Handover!Next, Handover!Enter, Handover!Home
<1> QED
  BY <1>1, <1>2 DEF FullScreenAction, Abort, Picture, fullVars, layerVars

(* Leaving full screen sends it on its way back. *)
LEMMA LeaveRefines ==
  ASSUME SessionInv, PlacesRead, PlacesRead', AppTypeOK',
         NEW f \in FullViews, BackAction(f)
  PROVE  [Handover!Next]_(Handover!vars)
<1> USE NilIsFresh DEF SessionInv
<1>1. CASE UNCHANGED Picture
  BY <1>1, PictureStays
<1>2. CASE /\ phase' = [phase EXCEPT ![f] = "dismissing"]
           /\ UNCHANGED <<delegate, layer, playing>>
  <2> USE DEF AppTypeOK, TypeOK
  <2>1. phase[f] = "shown" /\ Active(f) /\ delegate[f] \in Views
    BY DEF BackAction, OnScreen, ControllerTookOver, Active
  <2>2. phase'[f] = "dismissing" /\ Active(f)'
    BY <1>2 DEF Active
  <2>3. \A g \in FullViews : g # f => ~Active(g) /\ ~Active(g)'
    BY <1>2, <2>1 DEF OneController, Active
  <2>4. Place(delegate[f]) = "full" /\ Place(delegate[f])' = "returning"
    BY <1>2, <2>1, <2>2 DEF PlacesRead
  <2>5. \A w \in Views : w # delegate[f] => Place(w)' = Place(w)
    BY <1>2, <2>3 DEF PlacesRead
  <2>6. Handover!Move(delegate[f], "full", "returning")
    BY <1>2, <2>1, <2>4, <2>5, OneMoves
  <2> QED
    BY <1>2, <2>1, <2>6 DEF Handover!Next, Handover!Leave
<1> QED
  BY <1>1, <1>2 DEF BackAction, Abort, Picture, fullVars, layerVars

(* The completion of the dismissal brings it home. *)
LEMMA ReturnRefines ==
  ASSUME SessionInv, PlacesRead, PlacesRead', AppTypeOK',
         NEW f \in FullViews, ViewDismissed(f)
  PROVE  [Handover!Next]_(Handover!vars)
<1> USE NilIsFresh DEF SessionInv
<1>1. UNCHANGED playing
  BY HandoffSilent DEF Handoff, AppTypeOK
<1>2. CASE UNCHANGED Picture
  BY <1>2, PictureStays
<1>3. CASE /\ phase' = [phase EXCEPT ![f] = "dismissed"]
           /\ layer' = [layer EXCEPT ![delegate[f]] = layer[f]]
           /\ UNCHANGED delegate
  <2> USE DEF AppTypeOK, TypeOK
  <2>1. phase[f] = "dismissing" /\ Active(f) /\ delegate[f] \in Views /\ layer[f] # Nil
    BY DEF ViewDismissed, ControllerTookOver, Active
  <2>2. \A g \in FullViews : ~Active(g)' /\ (g # f => ~Active(g))
    BY <1>3, <2>1 DEF OneController, Active
  <2>3. layer'[delegate[f]] # Nil /\ \A w \in Views : w # delegate[f] => layer'[w] = layer[w]
    BY <1>3, <2>1
  <2>4. Place(delegate[f]) = "returning" /\ Place(delegate[f])' = "embedded"
    BY <1>3, <2>1, <2>2, <2>3 DEF PlacesRead
  <2>5. \A w \in Views : w # delegate[f] => Place(w)' = Place(w)
    <3> SUFFICES ASSUME NEW w \in Views, w # delegate[f] PROVE Place(w)' = Place(w)
      OBVIOUS
    <3>1. \A g \in FullViews : Active(g) => delegate[g] # w
      BY <2>2
    <3>2. \A g \in FullViews : Active(g)' => delegate'[g] # w
      BY <2>2
    <3>3. layer'[w] = layer[w]
      BY <2>3
    <3>4. CASE layer[w] = Nil
      BY <3>3, <3>4 DEF PlacesRead
    <3>5. CASE layer[w] # Nil
      BY <3>1, <3>2, <3>3, <3>5 DEF PlacesRead
    <3> QED
      BY <3>4, <3>5
  <2>6. Handover!Move(delegate[f], "returning", "embedded")
    BY <1>3, <2>1, <2>4, <2>5, OneMoves
  <2> QED
    BY <1>1, <2>1, <2>6 DEF Handover!Next, Handover!Return
<1> QED
  BY <1>2, <1>3 DEF ViewDismissed, HandBackLayer, Abort, Picture, fullVars, layerVars

(* The controller appearing changes its phase only: its picture is there already. *)
LEMMA AppearRefines ==
  ASSUME SessionInv, PlacesRead, PlacesRead', AppTypeOK',
         NEW f \in FullViews, ViewDidAppear(f)
  PROVE  [Handover!Next]_(Handover!vars)
<1> USE DEF SessionInv, AppTypeOK, TypeOK
<1>1. UNCHANGED playing
  BY HandoffSilent DEF Handoff
<1>2. /\ phase[f] = "presenting"
      /\ phase' = [phase EXCEPT ![f] = "shown"]
      /\ UNCHANGED <<delegate, layer>>
  BY DEF ViewDidAppear, layerVars
<1>3. Active(f) /\ Active(f)'
  BY <1>2 DEF Active
<1>4. \A g \in FullViews : g # f => ~Active(g) /\ ~Active(g)'
  BY <1>2, <1>3 DEF OneController, Active
<1>5. \A w \in Views : Place(w)' = Place(w)
  <2> SUFFICES ASSUME NEW w \in Views PROVE Place(w)' = Place(w)
    OBVIOUS
  <2>1. CASE delegate[f] = w
    BY <1>2, <1>3, <2>1 DEF PlacesRead
  <2>2. CASE delegate[f] # w
    BY <1>2, <1>4, <2>2 DEF PlacesRead
  <2> QED
    BY <2>1, <2>2
<1> QED
  BY <1>1, <1>5 DEF Handover!vars

(* Every step of the session is a step of the hand-over, or changes none of it. *)
LEMMA StepRefines ==
  ASSUME SessionInv, PlacesRead, PlacesRead', AppTypeOK', [AppNext]_appVars
  PROVE  [Handover!Next]_(Handover!vars)
<1>1. CASE AppStep
  <2>1. UNCHANGED Picture
    BY <1>1 DEF AppStep, ToggleVideo, MountVideo, UnmountVideo, Unmount, SetNewVideo,
                PlayAnotherVideo, Picture, vars, fullVars, layerVars
  <2> QED
    BY <2>1, PictureStays
<1>2. CASE TouchStep
  <2>1. ASSUME NEW v \in Views, PlayTapped(v) PROVE UNCHANGED Picture
    BY <2>1 DEF PlayTapped, Picture, fullVars, layerVars
  <2>2. ASSUME NEW f \in FullViews, FullPlayTapped(f) PROVE UNCHANGED Picture
    BY <2>2 DEF FullPlayTapped, Picture, fullVars, layerVars
  <2>3. ASSUME NEW s \in Surfaces, ForwardPastEnd(s) \/ BackwardAction(s) \/ SetVideoSpeed(s)
        PROVE  UNCHANGED Picture
    BY <2>3 DEF ForwardPastEnd, BackwardAction, SetVideoSpeed, Abort, Picture, fullVars, layerVars
  <2>4. ASSUME NEW v \in Views, FullScreenAction(v) PROVE [Handover!Next]_(Handover!vars)
    BY <2>4, EnterRefines
  <2>5. ASSUME NEW f \in FullViews, BackAction(f) PROVE [Handover!Next]_(Handover!vars)
    BY <2>5, LeaveRefines
  <2>6. UNCHANGED Picture => [Handover!Next]_(Handover!vars)
    BY PictureStays
  <2> QED
    BY <1>2, <2>1, <2>2, <2>3, <2>4, <2>5, <2>6 DEF TouchStep
<1>3. CASE SystemStep
  <2>1. ASSUME NEW p \in Players, StopsOnItsOwn(p) PROVE UNCHANGED Picture
    BY <2>1 DEF StopsOnItsOwn, Picture, fullVars, layerVars
  <2>2. ASSUME AppMovedToBackground \/ PlayNextVideo PROVE UNCHANGED Picture
    BY <2>2 DEF AppMovedToBackground, PlayNextVideo, Picture, fullVars, layerVars
  <2>3. ASSUME NEW v \in Views, DelayedStart(v) PROVE [Handover!Next]_(Handover!vars)
    BY <2>3, StartRefines DEF Handover!Next
  <2> QED
    BY <1>3, <2>1, <2>2, <2>3, PictureStays, AppearRefines, ReturnRefines DEF SystemStep
<1>4. CASE UNCHANGED appVars
  BY <1>4, PictureStays DEF appVars, vars, fullVars, layerVars, Picture
<1> QED
  BY <1>1, <1>2, <1>3, <1>4 DEF AppNext, Aborted, appVars

(* Without its fairness, the session under App implements VideoHandover: pictures *)
(* appear, go to full screen one at a time and come back, and only starts and     *)
(* controls change what plays.                                                    *)
THEOREM HandoverImplemented ==
  AppSafetySpec => Handover!Init /\ [][Handover!Next]_(Handover!vars)
<1>1. AppInit => Handover!Init
  BY DEF AppInit, Init, Handover!Init, Place, Surfaces
<1>2. SessionInv' => PlacesRead'
  BY PlacesAreRead, PTL
<1>3. SessionInv /\ SessionInv' /\ [AppNext]_appVars => [Handover!Next]_(Handover!vars)
  <2> SUFFICES ASSUME SessionInv, SessionInv', [AppNext]_appVars
               PROVE  [Handover!Next]_(Handover!vars)
    OBVIOUS
  <2>1. PlacesRead /\ PlacesRead' /\ AppTypeOK'
    BY <1>2, PlacesAreRead DEF SessionInv
  <2> QED
    BY <2>1, StepRefines
<1> QED
  BY <1>1, <1>3, SessionInvariant, PTL DEF AppSafetySpec

-----------------------------------------------------------------------------
(* The play button *)

(* A controller that has not appeared yet shows "play" *)
FreshButton == \A f \in FullViews : phase[f] \in {"none", "presenting"} => ~selected[f]

(* Only touches on a controller that is shown, and its appearance, set its button. *)
LEMMA FreshButtonPreserved ==
  ASSUME SessionInv, FreshButton, [AppNext]_appVars
  PROVE  FreshButton'
<1> USE NilIsFresh DEF FreshButton
<1> SUFFICES ASSUME NEW f \in FullViews, phase'[f] \in {"none", "presenting"}
             PROVE  ~selected'[f]
  OBVIOUS
<1>1. CASE AppStep
  BY <1>1 DEF AppStep, ToggleVideo, MountVideo, UnmountVideo, Unmount, SetNewVideo,
              PlayAnotherVideo, vars, fullVars, buttonVars
<1>2. CASE TouchStep
  <2>1. ASSUME NEW v \in Views, PlayTapped(v) PROVE ~selected'[f]
    BY <2>1 DEF PlayTapped, PlayAction, PauseAction, fullVars, SessionInv, AppTypeOK, TypeOK
  <2>2. ASSUME NEW v \in Views, FullScreenAction(v) PROVE ~selected'[f]
    BY <2>2 DEF FullScreenAction, Abort, fullVars, buttonVars, SessionInv, AppTypeOK, TypeOK
  <2>3. ASSUME NEW g \in FullViews, FullPlayTapped(g) PROVE ~selected'[f]
    BY <2>3 DEF FullPlayTapped, OnScreen, fullVars, SessionInv, AppTypeOK, TypeOK
  <2>4. ASSUME NEW g \in FullViews, BackAction(g) PROVE ~selected'[f]
    BY <2>4 DEF BackAction, Abort, OnScreen, fullVars, buttonVars, SessionInv, AppTypeOK, TypeOK
  <2>5. ASSUME NEW s \in Surfaces, ForwardPastEnd(s) PROVE ~selected'[f]
    BY <2>5 DEF ForwardPastEnd, fullVars, SessionInv, AppTypeOK, TypeOK
  <2>6. ASSUME NEW s \in Surfaces, BackwardAction(s) PROVE ~selected'[f]
    BY <2>6 DEF BackwardAction, Abort, fullVars, buttonVars
  <2>7. ASSUME NEW s \in Surfaces, SetVideoSpeed(s) PROVE ~selected'[f]
    BY <2>7 DEF SetVideoSpeed, OnScreen, fullVars, SessionInv, AppTypeOK, TypeOK
  <2> QED
    BY <1>2, <2>1, <2>2, <2>3, <2>4, <2>5, <2>6, <2>7 DEF TouchStep
<1>3. CASE SystemStep
  <2>1. ASSUME NEW v \in Views, DelayedStart(v) PROVE ~selected'[f]
    BY <2>1 DEF DelayedStart, PlayAction, PauseAction, fullVars, SessionInv, AppTypeOK, TypeOK
  <2>2. ASSUME NEW g \in FullViews, ViewDidAppear(g) PROVE ~selected'[f]
    BY <2>2 DEF ViewDidAppear, SessionInv, AppTypeOK, TypeOK
  <2>3. ASSUME NEW g \in FullViews, ViewDismissed(g) PROVE ~selected'[f]
    <3>1. delegate[g] \in Views
      BY <2>3 DEF ViewDismissed, SessionInv, ControllerTookOver, Active
    <3>2. phase' \in {phase, [phase EXCEPT ![g] = "dismissed"]}
      BY <2>3 DEF ViewDismissed, Abort, fullVars
    <3>3. \E on \in {TRUE, FALSE} : selected' \in {selected, [selected EXCEPT ![delegate[g]] = on]}
      BY <2>3 DEF ViewDismissed, Abort, buttonVars
    <3>4. phase[f] \in {"none", "presenting"}
      BY <3>2 DEF SessionInv, AppTypeOK, TypeOK
    <3>5. selected'[f] = selected[f]
      BY <3>1, <3>3 DEF SessionInv, AppTypeOK, TypeOK
    <3> QED
      BY <3>4, <3>5
  <2>4. ASSUME NEW p \in Players, StopsOnItsOwn(p) PROVE ~selected'[f]
    BY <2>4 DEF StopsOnItsOwn, fullVars, buttonVars
  <2>5. ASSUME AppMovedToBackground PROVE ~selected'[f]
    BY <2>5 DEF AppMovedToBackground, fullVars, Surfaces
  <2>6. ASSUME PlayNextVideo PROVE ~selected'[f]
    BY <2>6 DEF PlayNextVideo, fullVars, buttonVars
  <2> QED
    BY <1>3, <2>1, <2>2, <2>3, <2>4, <2>5, <2>6 DEF SystemStep
<1>4. CASE UNCHANGED appVars
  BY <1>4 DEF appVars, vars, fullVars, buttonVars
<1> QED
  BY <1>1, <1>2, <1>3, <1>4 DEF AppNext, Aborted, appVars

(* A touch can reach one surface only. *)
LEMMA OneOnScreen ==
  ASSUME SessionInv, NEW s \in Surfaces, NEW t \in Surfaces, OnScreen(s), OnScreen(t)
  PROVE  s = t
BY NilIsFresh DEF SessionInv, OnScreen, NoFullScreen, Active, OneView, OneController,
                  Mounted, Surfaces

(* The player of a surface that can be touched exists. *)
LEMMA PlayerOnScreen ==
  ASSUME SessionInv, NEW s \in Surfaces, OnScreen(s)
  PROVE  PlayerOf(s) \in Players
<1> USE NilIsFresh DEF SessionInv, OnScreen, PlayerOf, AppTypeOK, TypeOK
<1>1. CASE s \in Views
  BY <1>1 DEF ViewUsesShared, Mounted
<1>2. CASE s \in FullViews
  BY <1>2 DEF ControllerTookOver, Active
<1> QED
  BY <1>1, <1>2 DEF Surfaces

(* When the surface on screen sets button and player alike, every button on screen is right. *)
LEMMA SetAlike ==
  ASSUME SessionInv, NEW s \in Surfaces, OnScreen(s),
         UNCHANGED <<status, phase, ownPlayer, player>>,
         selected'[s] <=> playing'[PlayerOf(s)]
  PROVE  ButtonTruth'
<1> SUFFICES ASSUME NEW t \in Surfaces, OnScreen(t)'
             PROVE  selected'[t] <=> IsPlaying(PlayerOf(t))'
  BY DEF ButtonTruth
<1>1. OnScreen(t)
  BY DEF OnScreen, NoFullScreen, Active
<1>2. t = s
  BY <1>1, OneOnScreen
<1>3. PlayerOf(s)' = PlayerOf(s) /\ PlayerOf(s) # Nil
  BY PlayerOnScreen, NilIsFresh DEF PlayerOf
<1> QED
  BY <1>2, <1>3 DEF IsPlaying

(* A start that runs under a controller changes nothing of what is in front: its *)
(* view has replaced the static player, and the controller has another one.      *)
LEMMA StartUnseen ==
  ASSUME SessionInv, NEW v \in Mounted, DelayedStart(v), ~OnScreen(v)
  PROVE  \A t \in Surfaces : OnScreen(t)' =>
           /\ OnScreen(t)
           /\ PlayerOf(t)' = PlayerOf(t)
           /\ UNCHANGED <<selected[t], token[t]>>
           /\ IsPlaying(PlayerOf(t))' <=> IsPlaying(PlayerOf(t))
<1> USE NilIsFresh
<1>0. TypeOK /\ v \in Views /\ status[v] = "mounted"
  BY DEF SessionInv, AppTypeOK, Mounted
<1>1. PICK f \in FullViews : Active(f)
  BY <1>0 DEF OnScreen, NoFullScreen
<1>2. UNCHANGED <<status, phase, ownPlayer, player>>
  BY DEF DelayedStart, fullVars
<1> SUFFICES ASSUME NEW t \in Surfaces, OnScreen(t)'
             PROVE  /\ OnScreen(t)
                    /\ PlayerOf(t)' = PlayerOf(t)
                    /\ UNCHANGED <<selected[t], token[t]>>
                    /\ IsPlaying(PlayerOf(t))' <=> IsPlaying(PlayerOf(t))
  OBVIOUS
<1>3. OnScreen(t) /\ PlayerOf(t)' = PlayerOf(t)
  BY <1>2 DEF OnScreen, NoFullScreen, Active, PlayerOf
<1>4. t \in FullViews /\ Active(t) /\ t # v
  BY <1>0, <1>1, <1>3 DEF OnScreen, NoFullScreen, Active
<1>5. UNCHANGED <<selected[t], token[t]>>
  BY <1>0, <1>4 DEF DelayedStart, PlayAction, PauseAction, AddObservers, AddTimeObserver, TypeOK
<1>6. ownPlayer[t] # player
  <2>1. pending[v] # 0
    BY DEF DelayedStart
  <2>2. delegate[t] # v
    BY <1>4, <2>1 DEF SessionInv, ControllerTookOver
  <2> QED
    BY <1>4, <2>2 DEF SessionInv, Newcomer
<1>7. \A p \in Players : p # player => playing'[p] = playing[p]
  BY DEF DelayedStart, PlayAction, PauseAction, WithRate
<1>8. IsPlaying(PlayerOf(t))' <=> IsPlaying(PlayerOf(t))
  BY <1>0, <1>3, <1>4, <1>6, <1>7 DEF IsPlaying, PlayerOf, TypeOK
<1> QED
  BY <1>3, <1>5, <1>8

(* A touch on play or on a speed, and the start of a view, set the button and the *)
(* player alike.                                                                  *)
LEMMA ControlTruth ==
  ASSUME SessionInv, UserControl, ButtonTruth
  PROVE  ButtonTruth'
<1> USE NilIsFresh DEF SessionInv, AppTypeOK, TypeOK
<1>1. ASSUME NEW v \in Views, PlayTapped(v) PROVE ButtonTruth'
  <2>1. v \in Surfaces /\ OnScreen(v) /\ PlayerOf(v) = player
    BY <1>1 DEF PlayTapped, Surfaces, PlayerOf
  <2>2. player \in Players
    BY <2>1, PlayerOnScreen
  <2>3. CASE selected[v]
    <3>1. playing' = WithRate(player, FALSE) /\ selected' = [selected EXCEPT ![v] = FALSE]
      BY <1>1, <2>3 DEF PlayTapped, PlayAction, PauseAction
    <3>2. ~selected'[v] /\ ~playing'[player]
      BY <2>1, <2>2, <3>1 DEF WithRate
    <3> QED
      BY <1>1, <2>1, <3>2, SetAlike DEF PlayTapped, viewVars, fullVars
  <2>4. CASE ~selected[v]
    <3>1. playing' = WithRate(player, TRUE) /\ selected' = [selected EXCEPT ![v] = TRUE]
      BY <1>1, <2>4 DEF PlayTapped, PlayAction
    <3>2. selected'[v] /\ playing'[player]
      BY <2>1, <2>2, <3>1 DEF WithRate
    <3> QED
      BY <1>1, <2>1, <3>2, SetAlike DEF PlayTapped, viewVars, fullVars
  <2> QED
    BY <2>3, <2>4
<1>2. ASSUME NEW f \in FullViews, FullPlayTapped(f) PROVE ButtonTruth'
  <2>1. f \in Surfaces /\ OnScreen(f) /\ PlayerOf(f) = ownPlayer[f]
    BY <1>2 DEF FullPlayTapped, Surfaces, PlayerOf
  <2>2. ownPlayer[f] \in Players
    BY <2>1, PlayerOnScreen
  <2>3. CASE IsPlaying(ownPlayer[f])
    <3>1. playing' = WithRate(ownPlayer[f], FALSE) /\ selected' = [selected EXCEPT ![f] = FALSE]
      BY <1>2, <2>3 DEF FullPlayTapped
    <3>2. ~selected'[f] /\ ~playing'[ownPlayer[f]]
      BY <2>1, <2>2, <3>1 DEF WithRate
    <3> QED
      BY <1>2, <2>1, <3>2, SetAlike DEF FullPlayTapped, viewVars, fullVars
  <2>4. CASE ~IsPlaying(ownPlayer[f])
    <3>1. playing' = WithRate(ownPlayer[f], TRUE) /\ selected' = [selected EXCEPT ![f] = TRUE]
      BY <1>2, <2>4 DEF FullPlayTapped
    <3>2. selected'[f] /\ playing'[ownPlayer[f]]
      BY <2>1, <2>2, <3>1 DEF WithRate
    <3> QED
      BY <1>2, <2>1, <3>2, SetAlike DEF FullPlayTapped, viewVars, fullVars
  <2> QED
    BY <2>3, <2>4
<1>3. ASSUME NEW s \in Surfaces, SetVideoSpeed(s) PROVE ButtonTruth'
  <2>1. OnScreen(s)
    BY <1>3 DEF SetVideoSpeed
  <2>2. PlayerOf(s) \in Players
    BY <2>1, PlayerOnScreen
  <2>3. selected'[s] /\ playing'[PlayerOf(s)]
    BY <1>3, <2>2 DEF SetVideoSpeed, WithRate
  <2> QED
    BY <1>3, <2>1, <2>3, SetAlike DEF SetVideoSpeed, viewVars, fullVars
<1>4. ASSUME NEW v \in Mounted, DelayedStart(v) PROVE ButtonTruth'
  <2>1. v \in Views /\ v \in Surfaces /\ status[v] = "mounted" /\ PlayerOf(v) = player
    BY DEF Mounted, Surfaces, PlayerOf
  <2>2. CASE ~OnScreen(v)
    BY <1>4, <2>2, StartUnseen DEF ButtonTruth
  <2>3. CASE OnScreen(v) /\ selected[v]
    <3>1. playing' = WithRate(player, FALSE) /\ selected' = [selected EXCEPT ![v] = FALSE]
      BY <1>4, <2>3 DEF DelayedStart, PlayAction, PauseAction
    <3>2. player \in Players
      BY <2>1, <2>3, PlayerOnScreen
    <3>3. ~selected'[v] /\ ~playing'[player]
      BY <2>1, <3>1, <3>2 DEF WithRate
    <3> QED
      BY <1>4, <2>1, <2>3, <3>3, SetAlike DEF DelayedStart, fullVars
  <2>4. CASE OnScreen(v) /\ ~selected[v]
    <3>1. playing' = WithRate(player, TRUE) /\ selected' = [selected EXCEPT ![v] = TRUE]
      BY <1>4, <2>4 DEF DelayedStart, PlayAction
    <3>2. player \in Players
      BY <2>1, <2>4, PlayerOnScreen
    <3>3. selected'[v] /\ playing'[player]
      BY <2>1, <3>1, <3>2 DEF WithRate
    <3> QED
      BY <1>4, <2>1, <2>4, <3>3, SetAlike DEF DelayedStart, fullVars
  <2> QED
    BY <2>2, <2>3, <2>4
<1> QED
  BY <1>1, <1>2, <1>3, <1>4 DEF UserControl

(* Nothing on screen, nothing to be wrong about. *)
LEMMA NothingOnScreen ==
  ASSUME \E f \in FullViews : phase'[f] \in {"presenting", "dismissing"},
         \A f \in FullViews : phase'[f] # "shown"
  PROVE  ButtonTruth'
BY DEF ButtonTruth, OnScreen, NoFullScreen, Active

(* A hand-over sets the button of the surface that comes on screen to what its *)
(* player does, unless the view it returns to is not the one it left.          *)
LEMMA HandoffTruth ==
  ASSUME SessionInv, SessionInv', FreshButton, Handoff, ~ReturnElsewhere, ButtonTruth
  PROVE  ButtonTruth'
<1> USE NilIsFresh
<1>0. TypeOK /\ TypeOK'
  BY DEF SessionInv, AppTypeOK
<1>a. ASSUME UNCHANGED <<status, phase, ownPlayer, player, selected, playing>> PROVE ButtonTruth'
  BY <1>a DEF ButtonTruth, OnScreen, NoFullScreen, Active, IsPlaying, PlayerOf
<1>1. ASSUME NEW v \in Views, FullScreenAction(v) PROVE ButtonTruth'
  <2>1. CASE UNCHANGED <<status, phase, ownPlayer, player, selected, playing>>
    BY <2>1, <1>a
  <2>2. CASE \E f \in FullViews : phase' = [phase EXCEPT ![f] = "presenting"]
    <3> PICK f \in FullViews : phase' = [phase EXCEPT ![f] = "presenting"]
      BY <2>2
    <3>1. phase'[f] = "presenting" /\ \A g \in FullViews : phase'[g] # "shown"
      BY <1>0, <1>1 DEF FullScreenAction, OnScreen, NoFullScreen, Active, TypeOK
    <3> QED
      BY <3>1, NothingOnScreen
  <2> QED
    BY <1>1, <2>1, <2>2 DEF FullScreenAction, Abort, viewVars, fullVars, buttonVars, playerVars
<1>2. ASSUME NEW f \in FullViews, BackAction(f) PROVE ButtonTruth'
  <2>1. CASE UNCHANGED <<status, phase, ownPlayer, player, selected, playing>>
    BY <2>1, <1>a
  <2>2. CASE phase' = [phase EXCEPT ![f] = "dismissing"]
    <3>1. \A g \in FullViews : Active(g) => g = f
      BY <1>2 DEF BackAction, OnScreen, SessionInv, OneController, Active
    <3>2. phase'[f] = "dismissing" /\ \A g \in FullViews : phase'[g] # "shown"
      BY <1>0, <2>2, <3>1 DEF Active, TypeOK
    <3> QED
      BY <3>2, NothingOnScreen
  <2> QED
    BY <1>2, <2>1, <2>2 DEF BackAction, Abort, viewVars, fullVars, buttonVars, playerVars
<1>3. ASSUME NEW f \in FullViews, ViewDidAppear(f) PROVE ButtonTruth'
  <2>1. phase'[f] = "shown" /\ UNCHANGED <<ownPlayer, playing>>
    BY <1>0, <1>3, HandoffSilent DEF ViewDidAppear, TypeOK
  <2>2. OnScreen(f)' /\ f \in Surfaces
    BY <2>1 DEF OnScreen, Surfaces
  <2>3. \A t \in Surfaces : OnScreen(t)' => t = f
    BY <2>1 DEF SessionInv, OneController, OnScreen, NoFullScreen, Active, Surfaces
  <2>4. selected'[f] <=> IsPlaying(ownPlayer[f])
    <3>1. CASE IsPlaying(ownPlayer[f])
      BY <1>0, <1>3, <2>2, <3>1 DEF ViewDidAppear, TypeOK
    <3>2. CASE ~IsPlaying(ownPlayer[f])
      BY <1>3, <3>2 DEF ViewDidAppear, FreshButton
    <3> QED
      BY <3>1, <3>2
  <2>5. IsPlaying(PlayerOf(f))' <=> IsPlaying(ownPlayer[f])
    BY <2>1 DEF IsPlaying, PlayerOf
  <2> QED
    BY <2>3, <2>4, <2>5 DEF ButtonTruth
<1>4. ASSUME NEW f \in FullViews, ViewDismissed(f) PROVE ButtonTruth'
  <2>1. CASE UNCHANGED <<status, phase, ownPlayer, player, selected, playing>>
    BY <2>1, <1>a
  <2>2. CASE /\ ownPlayer[f] # Nil
             /\ phase' = [phase EXCEPT ![f] = "dismissed"]
             /\ player' = ownPlayer[f]
             /\ UNCHANGED status
             /\ \/ playing[ownPlayer[f]] /\ selected' = [selected EXCEPT ![delegate[f]] = TRUE]
                \/ ~playing[ownPlayer[f]] /\ selected' = [selected EXCEPT ![delegate[f]] = FALSE]
    <3>h. Mounted \subseteq {delegate[f]}
      BY <1>4 DEF ReturnElsewhere
    <3>0. delegate[f] \in Views /\ Mounted \subseteq {delegate[f]} /\ Active(f)
      BY <1>4, <3>h DEF ViewDismissed, SessionInv, ControllerTookOver, Active
    <3> PICK v \in Views : v = delegate[f]
      BY <3>0
    <3>1. Mounted \subseteq {v} /\ Active(f)
      BY <3>0
    <3>2. \A g \in FullViews : phase'[g] # "shown"
      BY <1>0, <2>2, <3>1 DEF SessionInv, OneController, Active, TypeOK
    <3>3. \A t \in Surfaces : OnScreen(t)' => t = v
      BY <2>2, <3>1, <3>2 DEF OnScreen, Mounted
    <3>4. UNCHANGED playing
      BY <1>0, <1>4, HandoffSilent DEF Handoff
    <3>5. selected'[v] <=> playing[ownPlayer[f]]
      BY <1>0, <2>2, <3>1 DEF TypeOK, Surfaces
    <3>6. IsPlaying(PlayerOf(v))' <=> playing[ownPlayer[f]]
      BY <2>2, <3>1, <3>4 DEF IsPlaying, PlayerOf
    <3> QED
      BY <3>3, <3>5, <3>6 DEF ButtonTruth
  <2> QED
    BY <1>4, <2>1, <2>2 DEF ViewDismissed, Abort, viewVars, fullVars, buttonVars, playerVars
<1> QED
  BY <1>1, <1>2, <1>3, <1>4 DEF Handoff

(* A right button stays right through every touch on play or on a speed, every *)
(* start of a mounted view and every hand-over but the return to another view. *)
THEOREM ButtonAlwaysStaysTrue == AppSafetySpec => ButtonStaysTrue
<1>1. AppInit => FreshButton
  BY DEF AppInit, Init, FreshButton, Surfaces
<1>2. /\ SessionInv /\ SessionInv' /\ FreshButton /\ [AppNext]_appVars
        => [(Handoff \/ UserControl) /\ ~ReturnElsewhere /\ ButtonTruth => ButtonTruth']_appVars
  BY ControlTruth, HandoffTruth
<1>3. SessionInv /\ FreshButton /\ [AppNext]_appVars => FreshButton'
  BY FreshButtonPreserved
<1> QED
  BY <1>1, <1>2, <1>3, SessionInvariant, PTL DEF AppSafetySpec, ButtonStaysTrue

-----------------------------------------------------------------------------
(* What is started, and what is observed *)

(* A player that neither the static variable nor the controller in front names is *)
(* not started: these are the only ones a handler can reach.                      *)
LEMMA OnlyNamedStarts ==
  ASSUME TypeOK, [AppNext]_appVars, NEW p \in Players, Gone(p), ~playing[p]
  PROVE  ~playing'[p]
<1> USE DEF WithRate, viewVars, fullVars, buttonVars, playerVars
<1>1. p # player /\ \A f \in FullViews : Active(f) => ownPlayer[f] # p
  BY DEF Gone
<1>2. CASE AppStep
  BY <1>2 DEF AppStep, ToggleVideo, MountVideo, UnmountVideo, Unmount, SetNewVideo,
              PlayAnotherVideo, vars
<1>3. CASE TouchStep
  <2>1. ASSUME NEW v \in Views, PlayTapped(v) \/ FullScreenAction(v) PROVE ~playing'[p]
    BY <1>1, <2>1 DEF PlayTapped, PlayAction, PauseAction, FullScreenAction, Abort
  <2>2. ASSUME NEW f \in FullViews, FullPlayTapped(f) \/ BackAction(f) PROVE ~playing'[p]
    BY <2>2, <1>1, NilIsFresh
       DEF FullPlayTapped, BackAction, OnScreen, Active, Abort
  <2>3. ASSUME NEW s \in Surfaces, ForwardPastEnd(s) \/ BackwardAction(s) PROVE ~playing'[p]
    BY <1>1, <2>3 DEF ForwardPastEnd, BackwardAction, Abort
  <2>4. ASSUME NEW s \in Surfaces, SetVideoSpeed(s) PROVE ~playing'[p]
    BY <2>4, <1>1, NilIsFresh DEF SetVideoSpeed, OnScreen, Active, PlayerOf, Surfaces
  <2> QED
    BY <1>3, <2>1, <2>2, <2>3, <2>4 DEF TouchStep
<1>4. CASE SystemStep
  <2>1. ASSUME NEW v \in Views, DelayedStart(v) PROVE ~playing'[p]
    BY <1>1, <2>1 DEF DelayedStart, PlayAction, PauseAction
  <2>2. ASSUME NEW f \in FullViews, ViewDidAppear(f) \/ ViewDismissed(f) PROVE ~playing'[p]
    BY <2>2, <1>1 DEF ViewDidAppear, ViewDismissed, Active, Abort
  <2>3. ASSUME NEW q \in Players, StopsOnItsOwn(q) PROVE ~playing'[p]
    BY <1>1, <2>3 DEF StopsOnItsOwn
  <2>4. ASSUME AppMovedToBackground \/ PlayNextVideo PROVE ~playing'[p]
    BY <1>1, <2>4 DEF AppMovedToBackground, PlayNextVideo
  <2> QED
    BY <1>4, <2>1, <2>2, <2>3, <2>4 DEF SystemStep
<1>5. CASE UNCHANGED appVars
  BY <1>5 DEF appVars, vars
<1> QED
  BY <1>2, <1>3, <1>4, <1>5 DEF AppNext, Aborted, appVars

(* Nor is it named again: only a player that does not exist yet, the static one and *)
(* that of the controller in front are.                                             *)
LEMMA GoneStaysGone ==
  ASSUME TypeOK, [AppNext]_appVars, NEW p \in Players, Gone(p)
  PROVE  Gone(p)'
<1> USE NilIsFresh DEF TypeOK, fullVars, playerVars
<1>1. item[p] # Nil /\ p # player /\ \A f \in FullViews : Active(f) => ownPlayer[f] # p
  BY DEF Gone
<1>a. ASSUME UNCHANGED <<item, player, ownPlayer>>,
             \A f \in FullViews : Active(f)' => Active(f)
      PROVE  Gone(p)'
  BY <1>1, <1>a DEF Gone
<1>b. ASSUME UNCHANGED <<item, player, ownPlayer, phase>> PROVE Gone(p)'
  BY <1>a, <1>b DEF Active
<1>2. CASE AppStep
  <2>1. ASSUME NEW v \in Views, MountVideo(v) PROVE Gone(p)'
    <3>1. /\ player' # p /\ UNCHANGED <<ownPlayer, phase>>
          /\ item'[p] = item[p]
      BY <1>1, <2>1 DEF MountVideo, ReplacePlayer, FreshPlayers
    <3> QED
      BY <1>1, <3>1 DEF Gone, Active
  <2> QED
    BY <1>2, <1>b, <2>1 DEF AppStep, ToggleVideo, UnmountVideo, Unmount, SetNewVideo,
                            PlayAnotherVideo, vars
<1>3. CASE TouchStep
  <2>1. ASSUME NEW v \in Views, FullScreenAction(v) PROVE Gone(p)'
    <3>1. CASE UNCHANGED <<item, player, ownPlayer, phase>>
      BY <1>b, <3>1
    <3>2. CASE /\ \E f \in FullViews : /\ ownPlayer' = [ownPlayer EXCEPT ![f] = player]
                                      /\ phase' = [phase EXCEPT ![f] = "presenting"]
               /\ UNCHANGED <<item, player>>
      BY <1>1, <3>2 DEF Gone, Active
    <3> QED
      BY <2>1, <3>1, <3>2 DEF FullScreenAction, Abort
  <2>2. ASSUME NEW f \in FullViews, BackAction(f) PROVE Gone(p)'
    <3>1. CASE UNCHANGED <<item, player, ownPlayer, phase>>
      BY <1>b, <3>1
    <3>2. CASE /\ phase' = [phase EXCEPT ![f] = "dismissing"]
               /\ UNCHANGED <<item, player, ownPlayer>>
      <4>1. Active(f)
        BY <2>2, SurfacesDisjoint DEF BackAction, OnScreen, Active
      <4> QED
        BY <1>a, <3>2, <4>1 DEF Active
    <3> QED
      BY <2>2, <3>1, <3>2 DEF BackAction, Abort
  <2> QED
    BY <1>3, <1>b, <2>1, <2>2
       DEF TouchStep, PlayTapped, FullPlayTapped, ForwardPastEnd, BackwardAction, SetVideoSpeed,
           Abort
<1>4. CASE SystemStep
  <2>1. ASSUME NEW f \in FullViews, ViewDidAppear(f) PROVE Gone(p)'
    BY <1>a, <2>1 DEF ViewDidAppear, Active
  <2>2. ASSUME NEW f \in FullViews, ViewDismissed(f) PROVE Gone(p)'
    <3>1. CASE UNCHANGED <<item, player, ownPlayer, phase>>
      BY <1>b, <3>1
    <3>2. CASE /\ phase' = [phase EXCEPT ![f] = "dismissed"]
               /\ player' = ownPlayer[f]
               /\ UNCHANGED <<item, ownPlayer>>
      <4>1. Active(f)
        BY <2>2 DEF ViewDismissed, Active
      <4> QED
        BY <1>1, <3>2, <4>1 DEF Gone, Active
    <3> QED
      BY <2>2, <3>1, <3>2 DEF ViewDismissed, Abort
  <2>3. ASSUME PlayNextVideo PROVE Gone(p)'
    BY <1>1, <2>3 DEF PlayNextVideo, Gone, Active
  <2> QED
    BY <1>4, <1>b, <2>1, <2>2, <2>3
       DEF SystemStep, DelayedStart, StopsOnItsOwn, AppMovedToBackground
<1>5. CASE UNCHANGED appVars
  BY <1>5, <1>b DEF appVars, vars
<1> QED
  BY <1>2, <1>3, <1>4, <1>5 DEF AppNext, Aborted, appVars

(* A player that neither the static variable nor the controller in front names is *)
(* never named again and never started.                                           *)
THEOREM ReplacedPlayerIsNeverStarted == AppSafetySpec => ReplacedPlayerNeverStarts
<1>1. AppTypeOK /\ [AppNext]_appVars
        => [\A p \in Players : Gone(p) => Gone(p)' /\ (~playing[p] => ~playing'[p])]_appVars
  BY OnlyNamedStarts, GoneStaysGone DEF AppTypeOK
<1> QED
  BY <1>1, AppTypeCorrect, PTL DEF AppSafetySpec, ReplacedPlayerNeverStarts

(* A step that brings nothing new on screen keeps what plays observed when a start *)
(* there comes with the player's own token and no such token is given up.          *)
LEMMA ObservedKept ==
  ASSUME SessionInv, PlaybackObserved, UNCHANGED <<ownPlayer, player>>,
         \A s \in Surfaces : OnScreen(s)' => OnScreen(s),
         \A s \in Surfaces : OnScreen(s) =>
           /\ token[s] = PlayerOf(s) => token'[s] = PlayerOf(s)
           /\ playing'[PlayerOf(s)] => playing[PlayerOf(s)] \/ token'[s] = PlayerOf(s)
  PROVE  PlaybackObserved'
<1> SUFFICES ASSUME NEW s \in Surfaces, OnScreen(s)', IsPlaying(PlayerOf(s))'
             PROVE  token'[s] = PlayerOf(s)'
  BY DEF PlaybackObserved
<1>1. OnScreen(s)
  OBVIOUS
<1>2. PlayerOf(s)' = PlayerOf(s)
  BY DEF PlayerOf
<1> QED
  BY <1>1, <1>2 DEF PlaybackObserved, IsPlaying

(* playAction of a view that holds no other player's token starts the player with *)
(* an observer.                                                                   *)
LEMMA PlayActionObserved ==
  ASSUME SessionInv, PlaybackObserved, NEW v \in Views, OnScreen(v), token[v] \in {Nil, player},
         PlayAction(v), UNCHANGED <<status, phase, ownPlayer, player>>
  PROVE  PlaybackObserved'
<1> USE NilIsFresh DEF SessionInv, AppTypeOK, TypeOK
<1>1. v \in Surfaces /\ PlayerOf(v) = player /\ player \in Players
  BY PlayerOnScreen DEF Surfaces, PlayerOf
<1>2. /\ token[v] = player => token'[v] = player
      /\ playing'[player] => token'[v] = player
  <2>1. CASE playing' = WithRate(player, FALSE) /\ UNCHANGED token
    BY <1>1, <2>1 DEF WithRate
  <2>2. CASE AddObservers(v)
    <3>1. token'[v] = player
      BY <1>1, <2>2 DEF AddObservers, AddTimeObserver
    <3> QED
      BY <3>1
  <2> QED
    BY <2>1, <2>2 DEF PlayAction, PauseAction
<1>3. \A s \in Surfaces : OnScreen(s)' => OnScreen(s)
  BY DEF OnScreen, NoFullScreen, Active
<1>4. \A s \in Surfaces : OnScreen(s) => s = v
  BY <1>1, OneOnScreen
<1> QED
  BY <1>1, <1>2, <1>3, <1>4, ObservedKept

(* The same of a controller's button, whose token is its own player's. *)
LEMMA FullPlayObserved ==
  ASSUME SessionInv, PlaybackObserved, NEW f \in FullViews, FullPlayTapped(f)
  PROVE  PlaybackObserved'
<1> USE NilIsFresh DEF SessionInv, AppTypeOK, TypeOK
<1>1. f \in Surfaces /\ OnScreen(f) /\ PlayerOf(f) = ownPlayer[f] /\ ownPlayer[f] \in Players
  BY PlayerOnScreen DEF FullPlayTapped, Surfaces, PlayerOf
<1>2. token[f] \in {Nil, ownPlayer[f]}
  BY <1>1, SurfacesDisjoint DEF ControllerToken, OnScreen
<1>3. /\ token[f] = ownPlayer[f] => token'[f] = ownPlayer[f]
      /\ playing'[ownPlayer[f]] => token'[f] = ownPlayer[f]
  BY <1>1, <1>2 DEF FullPlayTapped, AddTimeObserver, WithRate, IsPlaying
<1>4. \A s \in Surfaces : OnScreen(s)' => OnScreen(s)
  BY DEF FullPlayTapped, viewVars, fullVars, OnScreen, NoFullScreen, Active
<1>5. \A s \in Surfaces : OnScreen(s) => s = f
  BY <1>1, OneOnScreen
<1> QED
  BY <1>1, <1>3, <1>4, <1>5, ObservedKept DEF FullPlayTapped, fullVars

(* A screen that comes to the front while the video plays is given an observer, *)
(* unless it is a view that did not present the controller.                     *)
LEMMA HandoffObserved ==
  ASSUME SessionInv, SessionInv', PlaybackObserved, Handoff, ~ReturnElsewhere
  PROVE  PlaybackObserved'
<1> USE NilIsFresh
<1>0. TypeOK /\ TypeOK'
  BY DEF SessionInv, AppTypeOK
<1>a. ASSUME UNCHANGED <<status, phase, ownPlayer, player, token, playing>>
      PROVE  PlaybackObserved'
  BY <1>a DEF PlaybackObserved, OnScreen, NoFullScreen, Active, IsPlaying, PlayerOf
<1>b. ASSUME \E f \in FullViews : Active(f)', \A f \in FullViews : phase'[f] # "shown"
      PROVE  PlaybackObserved'
  BY <1>b DEF PlaybackObserved, OnScreen, NoFullScreen
<1>1. ASSUME NEW v \in Views, FullScreenAction(v) PROVE PlaybackObserved'
  <2>1. CASE \E f \in FullViews : phase' = [phase EXCEPT ![f] = "presenting"]
    <3> PICK f \in FullViews : phase' = [phase EXCEPT ![f] = "presenting"]
      BY <2>1
    <3>1. Active(f)' /\ \A g \in FullViews : phase'[g] # "shown"
      BY <1>0, <1>1 DEF FullScreenAction, OnScreen, NoFullScreen, Active, TypeOK
    <3> QED
      BY <3>1, <1>b
  <2> QED
    BY <1>1, <1>a, <2>1 DEF FullScreenAction, Abort, viewVars, fullVars, buttonVars, playerVars
<1>2. ASSUME NEW f \in FullViews, BackAction(f) PROVE PlaybackObserved'
  <2>1. CASE phase' = [phase EXCEPT ![f] = "dismissing"]
    <3>1. \A g \in FullViews : Active(g) => g = f
      BY <1>2 DEF BackAction, OnScreen, SessionInv, OneController, Active
    <3>2. Active(f)' /\ \A g \in FullViews : phase'[g] # "shown"
      BY <1>0, <2>1, <3>1 DEF Active, TypeOK
    <3> QED
      BY <3>2, <1>b
  <2> QED
    BY <1>2, <1>a, <2>1 DEF BackAction, Abort, viewVars, fullVars, buttonVars, playerVars
<1>3. ASSUME NEW f \in FullViews, ViewDidAppear(f) PROVE PlaybackObserved'
  <2>1. phase'[f] = "shown" /\ UNCHANGED <<ownPlayer, playing>>
    BY <1>0, <1>3, HandoffSilent DEF Handoff, ViewDidAppear, TypeOK
  <2>2. \A t \in Surfaces : OnScreen(t)' => t = f
    BY <2>1 DEF SessionInv, OneController, OnScreen, NoFullScreen, Active, Surfaces
  <2>3. IsPlaying(ownPlayer[f]) => token'[f] = ownPlayer[f]
    BY <1>0, <1>3 DEF ViewDidAppear, AddTimeObserver, IsPlaying, TypeOK, Surfaces
  <2>4. PlayerOf(f)' = ownPlayer[f]
    BY <2>1 DEF PlayerOf
  <2> QED
    BY <2>1, <2>2, <2>3, <2>4 DEF PlaybackObserved, IsPlaying
<1>4. ASSUME NEW f \in FullViews, ViewDismissed(f) PROVE PlaybackObserved'
  <2>1. CASE UNCHANGED <<status, phase, ownPlayer, player, token, playing>>
    BY <2>1, <1>a
  <2>2. CASE /\ ownPlayer[f] # Nil
             /\ phase' = [phase EXCEPT ![f] = "dismissed"]
             /\ player' = ownPlayer[f]
             /\ UNCHANGED status
             /\ playing[ownPlayer[f]] => AddTimeObserver(ownPlayer[f], delegate[f])
    <3>h. Mounted \subseteq {delegate[f]}
      BY <1>4 DEF ReturnElsewhere
    <3>0. delegate[f] \in Views /\ Mounted \subseteq {delegate[f]} /\ Active(f)
      BY <1>4, <3>h DEF ViewDismissed, SessionInv, ControllerTookOver, Active
    <3> PICK v \in Views : v = delegate[f]
      BY <3>0
    <3>1. \A g \in FullViews : phase'[g] # "shown"
      BY <1>0, <2>2, <3>0 DEF SessionInv, OneController, Active, TypeOK
    <3>2. \A t \in Surfaces : OnScreen(t)' => t = v
      BY <2>2, <3>0, <3>1 DEF OnScreen, Mounted
    <3>3. UNCHANGED playing
      BY <1>0, <1>4, HandoffSilent DEF Handoff
    <3>4. playing[ownPlayer[f]] => token'[v] = ownPlayer[f]
      BY <1>0, <2>2 DEF AddTimeObserver, TypeOK, Surfaces
    <3>5. PlayerOf(v)' = ownPlayer[f]
      BY <2>2 DEF PlayerOf
    <3> QED
      BY <3>2, <3>3, <3>4, <3>5 DEF PlaybackObserved, IsPlaying
  <2> QED
    BY <1>4, <2>1, <2>2 DEF ViewDismissed, Abort, viewVars, fullVars, buttonVars, playerVars
<1> QED
  BY <1>1, <1>2, <1>3, <1>4 DEF Handoff

(* Every other step either leaves the screen, its player and its token alone or stops a player. *)
LEMMA StepObserved ==
  ASSUME SessionInv, SessionInv', PlaybackObserved, AppNext, ~Unobserving
  PROVE  PlaybackObserved'
<1> USE DEF viewVars, fullVars, buttonVars, playerVars
<1>n. /\ ~PlayNextVideo /\ ~LateStart /\ ~ReturnElsewhere
      /\ \A s \in Surfaces : ~SetVideoSpeed(s)
      /\ \A v \in Mounted : PlayTapped(v) => ~Overtaken(v)
  BY DEF Unobserving
<1>0. ASSUME UNCHANGED <<ownPlayer, player, token>>,
             \A s \in Surfaces : OnScreen(s)' => OnScreen(s),
             \A p \in Players : playing'[p] => playing[p]
      PROVE  PlaybackObserved'
  BY <1>0, PlayerOnScreen, ObservedKept
<1>1. ASSUME UNCHANGED <<status, phase, ownPlayer, player, token>>,
             \A p \in Players : playing'[p] => playing[p]
      PROVE  PlaybackObserved'
  BY <1>0, <1>1 DEF OnScreen, NoFullScreen, Active
<1>2. CASE AppStep
  <2>1. ASSUME NEW v \in Views, MountVideo(v) PROVE PlaybackObserved'
    <3> SUFFICES ASSUME NEW s \in Surfaces, OnScreen(s)', IsPlaying(PlayerOf(s))'
                 PROVE  token'[s] = PlayerOf(s)'
      BY DEF PlaybackObserved
    <3>1. /\ player' \in Players /\ item[player'] = Nil /\ Mounted = {}
          /\ status' = [status EXCEPT ![v] = "mounted"]
          /\ UNCHANGED <<phase, ownPlayer, token, playing>>
      BY <2>1 DEF MountVideo, ReplacePlayer, FreshPlayers
    <3>2. ~playing'[player']
      BY <3>1 DEF SessionInv, PlayersExist
    <3>3. s \notin Views
      BY <3>2 DEF IsPlaying, PlayerOf
    <3>4. OnScreen(s) /\ PlayerOf(s)' = PlayerOf(s)
      BY <3>1, <3>3 DEF OnScreen, PlayerOf
    <3> QED
      BY <3>1, <3>4 DEF PlaybackObserved, IsPlaying
  <2>2. ASSUME NEW v \in Views, UnmountVideo(v) PROVE PlaybackObserved'
    <3>1. \A s \in Surfaces : OnScreen(s)' => OnScreen(s)
      BY <2>2 DEF UnmountVideo, Unmount, OnScreen, NoFullScreen, Active, SessionInv, AppTypeOK, TypeOK
    <3> QED
      BY <1>0, <2>2, <3>1 DEF UnmountVideo, Unmount
  <2> QED
    BY <1>1, <1>2, <2>1, <2>2 DEF AppStep, ToggleVideo, SetNewVideo, PlayAnotherVideo, vars
<1>3. CASE TouchStep
  <2>1. ASSUME NEW v \in Views, PlayTapped(v) PROVE PlaybackObserved'
    <3>1. OnScreen(v) /\ v \in Mounted
      BY <2>1, SurfacesDisjoint DEF PlayTapped, OnScreen, Mounted
    <3>2. token[v] \in {Nil, player}
      BY <1>n, <2>1, <3>1 DEF SessionInv, ViewUsesShared
    <3> QED
      BY <2>1, <3>1, <3>2, PlayActionObserved DEF PlayTapped
  <2>2. ASSUME NEW s \in Surfaces, ForwardPastEnd(s) \/ BackwardAction(s) PROVE PlaybackObserved'
    BY <1>1, <2>2 DEF ForwardPastEnd, BackwardAction, Abort
  <2> QED
    BY <1>3, <1>n, <2>1, <2>2, FullPlayObserved, HandoffObserved DEF TouchStep, Handoff
<1>4. CASE SystemStep
  <2>1. ASSUME NEW v \in Views, DelayedStart(v) PROVE PlaybackObserved'
    <3>1. v \in Mounted /\ pending[v] > 0
      BY <1>n, <2>1 DEF LateStart, DelayedStart, Mounted
    <3>2. layer[v] = Nil
      BY <3>1 DEF SessionInv, StartsOnce
    <3>3. token[v] \in {Nil, player}
      BY <3>1, <3>2 DEF SessionInv, ViewUsesShared, Overtaken
    <3>4. CASE OnScreen(v)
      BY <2>1, <3>3, <3>4, PlayActionObserved DEF DelayedStart
    <3>5. CASE ~OnScreen(v)
      BY <2>1, <3>1, <3>5, StartUnseen DEF PlaybackObserved
    <3> QED
      BY <3>4, <3>5
  <2>2. ASSUME NEW p \in Players, StopsOnItsOwn(p) PROVE PlaybackObserved'
    BY <1>1, <2>2 DEF StopsOnItsOwn, WithRate
  <2>3. ASSUME AppMovedToBackground PROVE PlaybackObserved'
    BY <1>1, <2>3 DEF AppMovedToBackground
  <2> QED
    BY <1>4, <1>n, <2>1, <2>2, <2>3, HandoffObserved DEF SystemStep, Handoff
<1>5. CASE UNCHANGED appVars
  BY <1>1, <1>5 DEF appVars, vars
<1> QED
  BY <1>2, <1>3, <1>4, <1>5 DEF AppNext, Aborted, appVars

(* What plays in front of the user stays observed, but for the steps named. *)
THEOREM PlaybackAlwaysStaysObserved == AppSafetySpec => PlaybackStaysObserved
<1>1. SessionInv /\ SessionInv' /\ [AppNext]_appVars
        => [PlaybackObserved /\ ~Unobserving => PlaybackObserved']_appVars
  BY StepObserved
<1> QED
  BY <1>1, SessionInvariant, PTL DEF AppSafetySpec, PlaybackStaysObserved

-----------------------------------------------------------------------------
(* The refinement of WatchedScreens *)

(* What is in front, read off the invariant *)
ScreensRead ==
  /\ \A f \in FullViews : /\ phase[f] = "presenting" => ScreenInFront = "entering"
                          /\ phase[f] = "shown"      => ScreenInFront = "controller"
                          /\ phase[f] = "dismissing" =>
                               ScreenInFront = IF delegate[f] \in Mounted THEN "leaving" ELSE "orphaned"
  /\ NoFullScreen => ScreenInFront = IF Mounted # {} THEN "view" ELSE "none"
  /\ \A s \in Surfaces : OnScreen(s) => /\ ButtonInFront <=> selected[s]
                                        /\ ObserverInFront <=> token[s] # Nil
  /\ (\A s \in Surfaces : ~OnScreen(s)) => ~ButtonInFront /\ ~ObserverInFront
  /\ \A s \in Surfaces : OnScreen(s) => (PlayingInFront <=> IsPlaying(PlayerOf(s)))
  /\ \A f \in FullViews : Active(f) => (PlayingInFront <=> IsPlaying(ownPlayer[f]))
  /\ NoFullScreen => (PlayingInFront <=> IsPlaying(player))

(* One controller and one view at a time leave no doubt about what is in front. *)
LEMMA ScreensAreRead == SessionInv => ScreensRead
<1> SUFFICES ASSUME SessionInv PROVE ScreensRead
  OBVIOUS
<1>1. ASSUME NEW f \in FullViews
      PROVE  /\ phase[f] = "presenting" => ScreenInFront = "entering"
             /\ phase[f] = "shown"      => ScreenInFront = "controller"
             /\ phase[f] = "dismissing" =>
                  ScreenInFront = IF delegate[f] \in Mounted THEN "leaving" ELSE "orphaned"
  <2>1. Active(f) => \A g \in FullViews : Active(g) => g = f
    BY DEF SessionInv, OneController
  <2> QED
    BY <2>1 DEF ScreenInFront, Active
<1>2. NoFullScreen => ScreenInFront = IF Mounted # {} THEN "view" ELSE "none"
  BY DEF ScreenInFront, NoFullScreen, Active
<1>3. ASSUME NEW s \in Surfaces, OnScreen(s)
      PROVE  (ButtonInFront <=> selected[s]) /\ (ObserverInFront <=> token[s] # Nil)
  BY <1>3, OneOnScreen DEF ButtonInFront, ObserverInFront
<1>4. (\A s \in Surfaces : ~OnScreen(s)) => ~ButtonInFront /\ ~ObserverInFront
  BY DEF ButtonInFront, ObserverInFront
<1>5. ASSUME NEW f \in FullViews, Active(f) PROVE PlayingInFront <=> IsPlaying(ownPlayer[f])
  <2>1. \A g \in FullViews : Active(g) => g = f
    BY <1>5 DEF SessionInv, OneController
  <2> QED
    BY <1>5, <2>1 DEF PlayingInFront, NoFullScreen
<1>6. NoFullScreen => (PlayingInFront <=> IsPlaying(player))
  BY DEF PlayingInFront, NoFullScreen
<1>7. ASSUME NEW s \in Surfaces, OnScreen(s) PROVE PlayingInFront <=> IsPlaying(PlayerOf(s))
  BY <1>5, <1>6, <1>7, SurfacesDisjoint DEF OnScreen, PlayerOf, Active
<1> QED
  BY <1>1, <1>2, <1>3, <1>4, <1>5, <1>6, <1>7 DEF ScreensRead

(* The variables of WatchedScreens *)
Seen == <<ScreenInFront, PlayingInFront, ButtonInFront, ObserverInFront>>

(* The surfaces a touch can reach stay the same with the views and the controllers. *)
LEMMA SameOnScreen ==
  ASSUME UNCHANGED <<status, phase, delegate>>
  PROVE  /\ ScreenInFront' = ScreenInFront
         /\ \A s \in Surfaces : OnScreen(s)' <=> OnScreen(s)
         /\ Mounted' = Mounted
<1>1. Mounted' = Mounted
  BY DEF Mounted
<1> QED
  BY <1>1 DEF ScreenInFront, OnScreen, NoFullScreen, Active

(* A step at one surface is seen in front if that surface is, and not at all otherwise. *)
LEMMA SeenAt ==
  ASSUME ScreensRead, ScreensRead', SessionInv, NEW s \in Surfaces,
         UNCHANGED <<status, phase, delegate>>,
         \A t \in Surfaces : t # s => selected'[t] = selected[t] /\ token'[t] = token[t]
  PROVE  /\ ScreenInFront' = ScreenInFront
         /\ OnScreen(s) => /\ ScreenInFront = IF s \in Views THEN "view" ELSE "controller"
                           /\ ButtonInFront <=> selected[s]
                           /\ ButtonInFront' <=> selected'[s]
                           /\ ObserverInFront <=> token[s] # Nil
                           /\ ObserverInFront' <=> token'[s] # Nil
                           /\ PlayingInFront <=> IsPlaying(PlayerOf(s))
                           /\ PlayingInFront' <=> IsPlaying(PlayerOf(s))'
         /\ ~OnScreen(s) => /\ ButtonInFront' <=> ButtonInFront
                            /\ ObserverInFront' <=> ObserverInFront
<1>1. ScreenInFront' = ScreenInFront /\ \A t \in Surfaces : OnScreen(t)' <=> OnScreen(t)
  BY SameOnScreen
<1>2. ASSUME OnScreen(s)
      PROVE  /\ ScreenInFront = IF s \in Views THEN "view" ELSE "controller"
             /\ ButtonInFront <=> selected[s]
             /\ ButtonInFront' <=> selected'[s]
             /\ ObserverInFront <=> token[s] # Nil
             /\ ObserverInFront' <=> token'[s] # Nil
             /\ PlayingInFront <=> IsPlaying(PlayerOf(s))
             /\ PlayingInFront' <=> IsPlaying(PlayerOf(s))'
  <2>1. ScreenInFront = IF s \in Views THEN "view" ELSE "controller"
    BY <1>2, NilIsFresh DEF ScreensRead, OnScreen, Mounted
  <2> QED
    BY <1>1, <1>2, <2>1 DEF ScreensRead
<1>3. ASSUME ~OnScreen(s)
      PROVE  (ButtonInFront' <=> ButtonInFront) /\ (ObserverInFront' <=> ObserverInFront)
  BY <1>1, <1>3 DEF ButtonInFront, ObserverInFront
<1> QED
  BY <1>1, <1>2, <1>3

(* A step that leaves screens, buttons and observers alone shows at most by the player. *)
LEMMA SeenByPlayer ==
  ASSUME UNCHANGED <<status, phase, delegate, token, selected>>
  PROVE  /\ ScreenInFront' = ScreenInFront
         /\ ButtonInFront' <=> ButtonInFront
         /\ ObserverInFront' <=> ObserverInFront
BY SameOnScreen DEF ButtonInFront, ObserverInFront

(* All that is seen is true or false. *)
LEMMA SeenIsBoolean ==
  /\ ButtonInFront \in BOOLEAN /\ ObserverInFront \in BOOLEAN /\ PlayingInFront \in BOOLEAN
  /\ ButtonInFront' \in BOOLEAN /\ ObserverInFront' \in BOOLEAN /\ PlayingInFront' \in BOOLEAN
BY DEF ButtonInFront, ObserverInFront, PlayingInFront

(* A step that touches none of what the screens are read off is not seen. *)
LEMMA Unseen ==
  ASSUME UNCHANGED <<status, phase, delegate, ownPlayer, token, selected, player, playing>>
  PROVE  UNCHANGED Seen
<1>1. PlayingInFront' <=> PlayingInFront
  BY DEF PlayingInFront, NoFullScreen, Active, IsPlaying
<1> QED
  BY <1>1, SeenByPlayer, SeenIsBoolean DEF Seen

(* What plays in front goes on when players are only started. *)
LEMMA PlayingGoesOn ==
  ASSUME TypeOK, UNCHANGED <<phase, ownPlayer, player>>,
         \A p \in Players : playing[p] => playing'[p], PlayingInFront
  PROVE  PlayingInFront'
<1>1. \A p \in Players \cup {Nil} : IsPlaying(p) => IsPlaying(p)'
  BY DEF IsPlaying
<1> QED
  BY <1>1 DEF PlayingInFront, NoFullScreen, Active, TypeOK

(* Nothing comes to play in front when players are only stopped. *)
LEMMA SilenceGoesOn ==
  ASSUME TypeOK, UNCHANGED <<phase, ownPlayer, player>>,
         \A p \in Players : playing'[p] => playing[p], PlayingInFront'
  PROVE  PlayingInFront
<1>1. \A p \in Players \cup {Nil} : IsPlaying(p)' => IsPlaying(p)
  BY DEF IsPlaying
<1> QED
  BY <1>1 DEF PlayingInFront, NoFullScreen, Active, TypeOK

(* A tap on play, and a start of the view in front, is a play of the view in front. *)
LEMMA PlayActionWatched ==
  ASSUME SessionInv, ScreensRead, ScreensRead', NEW v \in Views, OnScreen(v), PlayAction(v),
         UNCHANGED <<status, phase, delegate, player>>
  PROVE  Watched!ViewPlay /\ ObserverInFront' = (ObserverInFront \/ ~ButtonInFront)
<1> USE NilIsFresh DEF SessionInv, AppTypeOK, TypeOK
<1>1. v \in Surfaces /\ player \in Players /\ PlayerOf(v) = player /\ PlayerOf(v)' = player'
  BY PlayerOnScreen DEF Surfaces, PlayerOf
<1>2. CASE selected[v]
  <2>1. playing' = WithRate(player, FALSE) /\ selected' = [selected EXCEPT ![v] = FALSE]
        /\ UNCHANGED token
    BY <1>2 DEF PlayAction, PauseAction
  <2>2. ~selected'[v] /\ ~IsPlaying(PlayerOf(v))'
    BY <1>1, <2>1 DEF WithRate, IsPlaying
  <2>3. \A t \in Surfaces : t # v => selected'[t] = selected[t] /\ token'[t] = token[t]
    BY <2>1
  <2>4. /\ ScreenInFront' = ScreenInFront /\ ScreenInFront = "view"
        /\ ButtonInFront /\ ~ButtonInFront'
        /\ ObserverInFront' <=> ObserverInFront
        /\ ~PlayingInFront'
    BY <1>1, <1>2, <2>1, <2>2, <2>3, SeenAt
  <2> QED
    BY <2>4, SeenIsBoolean DEF Watched!ViewPlay
<1>3. CASE ~selected[v]
  <2>1. playing' = WithRate(player, TRUE) /\ selected' = [selected EXCEPT ![v] = TRUE]
        /\ AddObservers(v)
    BY <1>3 DEF PlayAction
  <2>2. selected'[v] /\ IsPlaying(PlayerOf(v))'
    BY <1>1, <2>1 DEF WithRate, IsPlaying
  <2>3. token' \in {token, [token EXCEPT ![v] = player]} /\ token'[v] # Nil
    BY <1>1, <2>1 DEF AddObservers, AddTimeObserver
  <2>4. \A t \in Surfaces : t # v => selected'[t] = selected[t] /\ token'[t] = token[t]
    BY <2>1, <2>3
  <2>5. /\ ScreenInFront' = ScreenInFront /\ ScreenInFront = "view"
        /\ ~ButtonInFront /\ ButtonInFront' /\ ObserverInFront' /\ PlayingInFront'
    BY <1>1, <1>3, <2>2, <2>3, <2>4, SeenAt
  <2> QED
    BY <2>5, SeenIsBoolean DEF Watched!ViewPlay
<1> QED
  BY <1>2, <1>3

(* A start behind what is in front starts or stops its player at most. *)
LEMMA StartWatched ==
  ASSUME SessionInv, ScreensRead, ScreensRead', NEW v \in Views, DelayedStart(v)
  PROVE  \/ Watched!ViewPlay /\ ObserverInFront' = (ObserverInFront \/ ~ButtonInFront)
         \/ Watched!LateStart /\ UNCHANGED ObserverInFront
<1> USE NilIsFresh DEF fullVars
<1>1. CASE OnScreen(v)
  BY <1>1, PlayActionWatched DEF DelayedStart
<1>2. CASE ~OnScreen(v)
  <2>1. v \in Surfaces /\ ~OnScreen(v)
    BY <1>2 DEF Surfaces
  <2>2. \A t \in Surfaces : t # v => selected'[t] = selected[t] /\ token'[t] = token[t]
    BY DEF DelayedStart, PlayAction, PauseAction, AddObservers, AddTimeObserver,
           SessionInv, AppTypeOK, TypeOK
  <2>3. UNCHANGED <<status, phase, delegate>>
    BY DEF DelayedStart
  <2>4. /\ ScreenInFront' = ScreenInFront
        /\ ButtonInFront' <=> ButtonInFront
        /\ ObserverInFront' <=> ObserverInFront
    BY <2>1, <2>2, <2>3, SeenAt
  <2> QED
    BY <2>4, SeenIsBoolean DEF Watched!LateStart
<1> QED
  BY <1>1, <1>2

(* A tap on the controller's play button *)
LEMMA FullPlayWatched ==
  ASSUME SessionInv, ScreensRead, ScreensRead', NEW f \in FullViews, FullPlayTapped(f)
  PROVE  Watched!ControllerPlay /\ ObserverInFront' = (ObserverInFront \/ ~PlayingInFront)
<1> USE NilIsFresh DEF SessionInv, AppTypeOK, TypeOK, fullVars, viewVars
<1>1. /\ f \in Surfaces /\ f \notin Views /\ OnScreen(f) /\ ownPlayer[f] \in Players
      /\ PlayerOf(f) = ownPlayer[f] /\ PlayerOf(f)' = ownPlayer'[f]
  BY SurfacesDisjoint, PlayerOnScreen DEF FullPlayTapped, PlayerOf, Surfaces
<1>2. UNCHANGED <<status, phase, delegate, ownPlayer>>
  BY DEF FullPlayTapped
<1>3. CASE IsPlaying(ownPlayer[f])
  <2>1. playing' = WithRate(ownPlayer[f], FALSE) /\ selected' = [selected EXCEPT ![f] = FALSE]
        /\ UNCHANGED token
    BY <1>3 DEF FullPlayTapped
  <2>2. ~selected'[f] /\ ~IsPlaying(PlayerOf(f))'
    BY <1>1, <1>2, <2>1 DEF WithRate, IsPlaying
  <2>3. \A t \in Surfaces : t # f => selected'[t] = selected[t] /\ token'[t] = token[t]
    BY <2>1
  <2>4. /\ ScreenInFront' = ScreenInFront /\ ScreenInFront = "controller"
        /\ ButtonInFront' <=> selected'[f]
        /\ ObserverInFront <=> token[f] # Nil
        /\ ObserverInFront' <=> token'[f] # Nil
        /\ PlayingInFront <=> IsPlaying(PlayerOf(f))
        /\ PlayingInFront' <=> IsPlaying(PlayerOf(f))'
    BY <1>1, <1>2, <2>3, SeenAt
  <2> QED
    BY <1>1, <1>3, <2>1, <2>2, <2>4, SeenIsBoolean DEF Watched!ControllerPlay
<1>4. CASE ~IsPlaying(ownPlayer[f])
  <2>1. playing' = WithRate(ownPlayer[f], TRUE) /\ selected' = [selected EXCEPT ![f] = TRUE]
        /\ IF token[f] = Nil THEN AddTimeObserver(ownPlayer[f], f) ELSE UNCHANGED token
    BY <1>4 DEF FullPlayTapped
  <2>2. selected'[f] /\ IsPlaying(PlayerOf(f))'
    BY <1>1, <1>2, <2>1 DEF WithRate, IsPlaying
  <2>3. token' \in {token, [token EXCEPT ![f] = ownPlayer[f]]} /\ token'[f] # Nil
    BY <1>1, <2>1 DEF AddTimeObserver
  <2>4. \A t \in Surfaces : t # f => selected'[t] = selected[t] /\ token'[t] = token[t]
    BY <2>1, <2>3
  <2>5. /\ ScreenInFront' = ScreenInFront /\ ScreenInFront = "controller"
        /\ ButtonInFront' <=> selected'[f]
        /\ ObserverInFront' <=> token'[f] # Nil
        /\ PlayingInFront <=> IsPlaying(PlayerOf(f))
        /\ PlayingInFront' <=> IsPlaying(PlayerOf(f))'
    BY <1>1, <1>2, <2>4, SeenAt
  <2> QED
    BY <1>1, <1>4, <2>2, <2>3, <2>5, SeenIsBoolean DEF Watched!ControllerPlay
<1> QED
  BY <1>3, <1>4

(* The other touches of a surface on screen: the speed menu and a skip past the end *)
LEMMA MenuWatched ==
  ASSUME SessionInv, ScreensRead, ScreensRead', NEW s \in Surfaces,
         SetVideoSpeed(s) \/ ForwardPastEnd(s)
  PROVE  (Watched!SetVideoSpeed \/ Watched!ForwardPastEnd) /\ UNCHANGED ObserverInFront
<1> USE NilIsFresh DEF SessionInv, AppTypeOK, TypeOK, fullVars, viewVars, playerVars
<1>1. OnScreen(s) /\ PlayerOf(s) \in Players
  <2>1. OnScreen(s)
    BY DEF SetVideoSpeed, ForwardPastEnd
  <2> QED
    BY <2>1, PlayerOnScreen
<1>2. /\ UNCHANGED <<status, phase, delegate, ownPlayer, player, token>>
      /\ \E on \in BOOLEAN : selected' = [selected EXCEPT ![s] = on]
  BY DEF SetVideoSpeed, ForwardPastEnd
<1>3. /\ ScreenInFront' = ScreenInFront
      /\ ScreenInFront \in {"view", "controller"}
      /\ ButtonInFront' <=> selected'[s]
      /\ ObserverInFront' <=> ObserverInFront
      /\ PlayingInFront <=> IsPlaying(PlayerOf(s))
      /\ PlayingInFront' <=> IsPlaying(PlayerOf(s))'
  BY <1>1, <1>2, SeenAt
<1>4. PlayerOf(s)' = PlayerOf(s)
  BY <1>2 DEF PlayerOf
<1>5. CASE SetVideoSpeed(s)
  <2>1. selected'[s] /\ IsPlaying(PlayerOf(s))'
    BY <1>1, <1>4, <1>5 DEF SetVideoSpeed, WithRate, IsPlaying
  <2> QED
    BY <1>3, <2>1, SeenIsBoolean DEF Watched!SetVideoSpeed, Watched!Surfaces
<1>6. CASE ForwardPastEnd(s)
  <2>1. ~selected'[s] /\ (IsPlaying(PlayerOf(s))' <=> IsPlaying(PlayerOf(s)))
    BY <1>4, <1>6 DEF ForwardPastEnd, IsPlaying
  <2> QED
    BY <1>3, <2>1, SeenIsBoolean DEF Watched!ForwardPastEnd, Watched!Surfaces
<1> QED
  BY <1>5, <1>6

(* Going to full screen *)
LEMMA EnterWatched ==
  ASSUME SessionInv, ScreensRead, ScreensRead', NEW v \in Views, FullScreenAction(v)
  PROVE  \/ Watched!FullScreenAction /\ ObserverInFront' = FALSE
         \/ UNCHANGED Seen
<1> USE NilIsFresh DEF SessionInv, AppTypeOK, TypeOK
<1>1. CASE UNCHANGED <<status, phase, delegate, ownPlayer, token, selected, player, playing>>
  BY <1>1, Unseen
<1>2. CASE /\ \E f \in FullViews : /\ phase' = [phase EXCEPT ![f] = "presenting"]
                                  /\ ownPlayer' = [ownPlayer EXCEPT ![f] = player]
           /\ UNCHANGED <<player, playing>>
  <2> PICK f \in FullViews : /\ phase' = [phase EXCEPT ![f] = "presenting"]
                             /\ ownPlayer' = [ownPlayer EXCEPT ![f] = player]
    BY <1>2
  <2>1. NoFullScreen /\ v \in Mounted
    BY DEF FullScreenAction, OnScreen, Mounted
  <2>2. ScreenInFront = "view"
    BY <2>1 DEF ScreensRead
  <2>3. Active(f)' /\ phase'[f] = "presenting" /\ \A g \in FullViews : phase'[g] # "shown"
    BY <2>1 DEF NoFullScreen, Active
  <2>4. ScreenInFront' = "entering" /\ ~ButtonInFront' /\ ~ObserverInFront'
    BY <2>3 DEF ScreensRead, OnScreen, NoFullScreen
  <2>5. PlayingInFront' <=> PlayingInFront
    <3>1. PlayingInFront' <=> IsPlaying(ownPlayer[f])'
      BY <2>3 DEF ScreensRead
    <3>2. PlayingInFront <=> IsPlaying(player)
      BY <2>1 DEF ScreensRead
    <3>3. ownPlayer'[f] = player
      OBVIOUS
    <3> QED
      BY <1>2, <3>1, <3>2, <3>3 DEF IsPlaying
  <2> QED
    BY <2>2, <2>4, <2>5, SeenIsBoolean DEF Watched!FullScreenAction
<1> QED
  BY <1>1, <1>2 DEF FullScreenAction, Abort, viewVars, fullVars, buttonVars, playerVars

(* Leaving it *)
LEMMA BackWatched ==
  ASSUME SessionInv, ScreensRead, ScreensRead', NEW f \in FullViews, BackAction(f)
  PROVE  \/ Watched!BackAction /\ ObserverInFront' = FALSE
         \/ UNCHANGED Seen
<1> USE NilIsFresh DEF SessionInv, AppTypeOK, TypeOK
<1>1. CASE UNCHANGED <<status, phase, delegate, ownPlayer, token, selected, player, playing>>
  BY <1>1, Unseen
<1>2. CASE phase' = [phase EXCEPT ![f] = "dismissing"] /\ UNCHANGED <<ownPlayer, playing>>
  <2>1. phase[f] = "shown"
    BY SurfacesDisjoint DEF BackAction, OnScreen
  <2>2. ScreenInFront = "controller"
    BY <2>1 DEF ScreensRead
  <2>3. Active(f)' /\ phase'[f] = "dismissing" /\ \A g \in FullViews : phase'[g] # "shown"
    BY <1>2, <2>1 DEF OneController, Active
  <2>4. ScreenInFront' \in {"leaving", "orphaned"} /\ ~ButtonInFront' /\ ~ObserverInFront'
    BY <2>3 DEF ScreensRead, OnScreen, NoFullScreen
  <2>5. PlayingInFront' <=> PlayingInFront
    BY <1>2, <2>1, <2>3 DEF ScreensRead, IsPlaying, Active
  <2> QED
    BY <2>2, <2>4, <2>5, SeenIsBoolean DEF Watched!BackAction
<1> QED
  BY <1>1, <1>2 DEF BackAction, Abort, viewVars, fullVars, buttonVars, playerVars

(* The controller appears, with what the player does on its button. *)
LEMMA AppearWatched ==
  ASSUME SessionInv, FreshButton, ScreensRead, ScreensRead', NEW f \in FullViews, ViewDidAppear(f)
  PROVE  Watched!ViewDidAppear /\ ObserverInFront' = PlayingInFront
<1> USE NilIsFresh DEF SessionInv, AppTypeOK, TypeOK
<1>1. phase[f] = "presenting" /\ phase'[f] = "shown" /\ UNCHANGED <<ownPlayer, playing>>
  BY HandoffSilent DEF ViewDidAppear, Handoff
<1>2. ownPlayer[f] \in Players /\ token[f] = Nil /\ ~selected[f]
  BY <1>1 DEF ControllerTookOver, ControllerToken, FreshButton, Active
<1>3. ScreenInFront = "entering" /\ ScreenInFront' = "controller"
  BY <1>1 DEF ScreensRead
<1>4. /\ ButtonInFront' <=> selected'[f]
      /\ ObserverInFront' <=> token'[f] # Nil
  BY <1>1 DEF ScreensRead, OnScreen, Surfaces
<1>5. (selected'[f] <=> IsPlaying(ownPlayer[f])) /\ (token'[f] # Nil <=> IsPlaying(ownPlayer[f]))
  <2>1. CASE IsPlaying(ownPlayer[f])
    BY <1>2, <2>1 DEF ViewDidAppear, AddTimeObserver, Surfaces
  <2>2. CASE ~IsPlaying(ownPlayer[f])
    BY <1>2, <2>2 DEF ViewDidAppear
  <2> QED
    BY <2>1, <2>2
<1>6. /\ PlayingInFront <=> IsPlaying(ownPlayer[f])
      /\ PlayingInFront' <=> IsPlaying(ownPlayer[f])
  BY <1>1 DEF ScreensRead, Active, IsPlaying
<1> QED
  BY <1>3, <1>4, <1>5, <1>6, SeenIsBoolean DEF Watched!ViewDidAppear

(* The view returns, if it is still there, with what the player does on its button; *)
(* or another one does, with the button it has.                                      *)
LEMMA ReturnWatched ==
  ASSUME SessionInv, ScreensRead, ScreensRead', NEW f \in FullViews, ViewDismissed(f)
  PROVE  \/ Watched!ViewDismissed /\ ObserverInFront' = PlayingInFront
         \/ /\ Watched!ReturnElsewhere
            /\ ObserverInFront' \in {FALSE, ScreenInFront' = "view"}
<1> USE NilIsFresh
<1>0. TypeOK
  BY DEF SessionInv, AppTypeOK
<1>1. /\ phase[f] = "dismissing" /\ Active(f)
      /\ ownPlayer[f] \in Players
      /\ delegate[f] \in Views /\ token[delegate[f]] = Nil
  BY <1>0 DEF ViewDismissed, SessionInv, ControllerTookOver, Active, TypeOK
<1> PICK v \in Views : v = delegate[f]
  BY <1>1
<1>2. UNCHANGED <<status, playing>> /\ player' = ownPlayer[f]
  BY <1>0, <1>1, HandoffSilent DEF ViewDismissed, Handoff, viewVars
<1>3. /\ phase' = [phase EXCEPT ![f] = "dismissed"]
      /\ \/ /\ playing[ownPlayer[f]]
            /\ selected' = [selected EXCEPT ![v] = TRUE]
            /\ AddTimeObserver(ownPlayer[f], v)
         \/ /\ ~playing[ownPlayer[f]]
            /\ selected' = [selected EXCEPT ![v] = FALSE]
            /\ UNCHANGED token
  BY <1>1 DEF ViewDismissed
<1>4. \A g \in FullViews : phase'[g] \notin {"presenting", "shown", "dismissing"}
  BY <1>0, <1>1, <1>3 DEF SessionInv, OneController, Active, TypeOK
<1>5. NoFullScreen' /\ Mounted' = Mounted
  BY <1>2, <1>4 DEF NoFullScreen, Active, Mounted
<1>6. /\ ScreenInFront = IF v \in Mounted THEN "leaving" ELSE "orphaned"
      /\ ScreenInFront' = IF Mounted # {} THEN "view" ELSE "none"
  BY <1>1, <1>5 DEF ScreensRead
<1>7. /\ PlayingInFront <=> playing[ownPlayer[f]]
      /\ PlayingInFront' <=> playing[ownPlayer[f]]
  BY <1>1, <1>2, <1>5 DEF ScreensRead, IsPlaying
<1>8. (selected'[v] <=> playing[ownPlayer[f]]) /\ (token'[v] # Nil <=> playing[ownPlayer[f]])
  BY <1>0, <1>1, <1>3 DEF AddTimeObserver, TypeOK, Surfaces
<1>9. CASE v \in Mounted
  <2>1. OnScreen(v)' /\ v \in Surfaces
    BY <1>5, <1>9 DEF OnScreen, Mounted, Surfaces
  <2>2. /\ ButtonInFront' <=> playing[ownPlayer[f]]
        /\ ObserverInFront' <=> playing[ownPlayer[f]]
    BY <2>1, <1>8 DEF ScreensRead
  <2> QED
    BY <1>6, <1>7, <1>9, <2>2, SeenIsBoolean DEF Watched!ViewDismissed
<1>10. CASE Mounted = {}
  <2>1. \A s \in Surfaces : ~OnScreen(s)'
    BY <1>2, <1>4, <1>10 DEF OnScreen, Mounted
  <2>2. ~ButtonInFront' /\ ~ObserverInFront'
    BY <2>1 DEF ScreensRead
  <2> QED
    BY <1>6, <1>7, <1>10, <2>2, SeenIsBoolean DEF Watched!ReturnElsewhere
<1>11. CASE Mounted # {} /\ v \notin Mounted
  BY <1>6, <1>7, <1>11, SeenIsBoolean DEF Watched!ReturnElsewhere
<1> QED
  BY <1>9, <1>10, <1>11

(* A view comes with a player that does not play, and is seen unless a controller *)
(* covers it.                                                                      *)
LEMMA MountWatched ==
  ASSUME SessionInv, ScreensRead, ScreensRead', NEW v \in Views, MountVideo(v)
  PROVE  \/ Watched!Mount /\ ObserverInFront' = FALSE
         \/ UNCHANGED Seen
<1> USE NilIsFresh
<1>0. TypeOK
  BY DEF SessionInv, AppTypeOK
<1>1. /\ Mounted = {}
      /\ status[v] = "new" /\ status' = [status EXCEPT ![v] = "mounted"]
      /\ player' \in Players /\ item[player'] = Nil
      /\ UNCHANGED <<phase, delegate, ownPlayer, token, selected, playing>>
  BY DEF MountVideo, ReplacePlayer, FreshPlayers, fullVars, buttonVars
<1>2. CASE NoFullScreen
  <2>1. OnScreen(v)' /\ v \in Mounted' /\ NoFullScreen' /\ v \in Surfaces
    BY <1>0, <1>1, <1>2 DEF OnScreen, NoFullScreen, Active, Mounted, Surfaces, TypeOK
  <2>2. ScreenInFront = "none" /\ ScreenInFront' = "view"
    BY <1>1, <1>2, <2>1 DEF ScreensRead
  <2>3. ~selected[v] /\ token[v] = Nil /\ ~playing[player']
    BY <1>1 DEF SessionInv, StartsOnce, PlayersExist
  <2>4. ~ButtonInFront' /\ ~ObserverInFront' /\ ~PlayingInFront'
    BY <1>1, <2>1, <2>3 DEF ScreensRead, IsPlaying
  <2> QED
    BY <2>2, <2>4, SeenIsBoolean DEF Watched!Mount
<1>3. CASE ~NoFullScreen
  <2>1. \A s \in Surfaces : OnScreen(s)' <=> OnScreen(s)
    BY <1>1, <1>3 DEF NoFullScreen, Active, OnScreen
  <2>2. ScreenInFront' = ScreenInFront
    <3>1. \A f \in FullViews : Active(f) => delegate[f] # v
      BY <1>1 DEF SessionInv, ControllerTookOver
    <3>2. Mounted' = {v}
      BY <1>0, <1>1 DEF Mounted, TypeOK
    <3>3. \A f \in FullViews : Active(f) => delegate'[f] \notin Mounted' /\ delegate[f] \notin Mounted
      BY <1>1, <3>1, <3>2
    <3> PICK f \in FullViews : Active(f)
      BY <1>3 DEF NoFullScreen
    <3>4. delegate'[f] \notin Mounted' /\ delegate[f] \notin Mounted
      BY <3>3
    <3> QED
      BY <1>1, <3>4 DEF ScreensRead, Active
  <2>3. (ButtonInFront' <=> ButtonInFront) /\ (ObserverInFront' <=> ObserverInFront)
    BY <1>1, <2>1 DEF ButtonInFront, ObserverInFront
  <2>4. PlayingInFront' <=> PlayingInFront
    BY <1>1, <1>3 DEF PlayingInFront, NoFullScreen, Active, IsPlaying
  <2> QED
    BY <2>2, <2>3, <2>4, SeenIsBoolean DEF Seen
<1> QED
  BY <1>2, <1>3

(* The view in front goes, or one that a controller covers, seen only if it returns to it. *)
LEMMA UnmountWatched ==
  ASSUME SessionInv, ScreensRead, ScreensRead', NEW v \in Views, UnmountVideo(v)
  PROVE  \/ Watched!Unmount /\ ObserverInFront' = FALSE
         \/ Watched!Orphan /\ UNCHANGED ObserverInFront
         \/ UNCHANGED Seen
<1> USE NilIsFresh
<1>0. TypeOK
  BY DEF SessionInv, AppTypeOK
<1>1. /\ status[v] = "mounted" /\ status' = [status EXCEPT ![v] = "unmounted"]
      /\ UNCHANGED <<phase, delegate, ownPlayer, token, selected, player, playing>>
  BY DEF UnmountVideo, Unmount, fullVars, buttonVars, playerVars
<1>2. Mounted = {v} /\ Mounted' = {}
  <2>1. Mounted = {v}
    BY <1>1 DEF SessionInv, OneView, Mounted
  <2> QED
    BY <1>0, <1>1, <2>1 DEF Mounted, TypeOK
<1>3. PlayingInFront' <=> PlayingInFront
  BY <1>1 DEF PlayingInFront, NoFullScreen, Active, IsPlaying
<1>4. CASE NoFullScreen
  <2>1. NoFullScreen' /\ \A s \in Surfaces : ~OnScreen(s)'
    BY <1>1, <1>2, <1>4 DEF NoFullScreen, Active, OnScreen, Mounted
  <2>2. ScreenInFront = "view" /\ ScreenInFront' = "none"
    BY <1>2, <1>4, <2>1 DEF ScreensRead
  <2>3. ~ButtonInFront' /\ ~ObserverInFront'
    BY <2>1 DEF ScreensRead
  <2> QED
    BY <1>3, <2>2, <2>3, SeenIsBoolean DEF Watched!Unmount
<1>5. CASE ~NoFullScreen
  <2>1. \A s \in Surfaces : OnScreen(s)' <=> OnScreen(s)
    BY <1>1, <1>5 DEF NoFullScreen, Active, OnScreen
  <2>2. (ButtonInFront' <=> ButtonInFront) /\ (ObserverInFront' <=> ObserverInFront)
    BY <1>1, <2>1 DEF ButtonInFront, ObserverInFront
  <2> PICK f \in FullViews : Active(f)
    BY <1>5 DEF NoFullScreen
  <2>3. Active(f)' /\ delegate'[f] \notin Mounted'
    BY <1>1, <1>2 DEF Active
  <2>4. CASE phase[f] = "dismissing" /\ delegate[f] = v
    <3>1. ScreenInFront = "leaving" /\ ScreenInFront' = "orphaned"
      BY <1>1, <1>2, <2>3, <2>4 DEF ScreensRead
    <3> QED
      BY <1>3, <2>2, <3>1, SeenIsBoolean DEF Watched!Orphan
  <2>5. CASE ~(phase[f] = "dismissing" /\ delegate[f] = v)
    <3>1. ScreenInFront' = ScreenInFront
      BY <1>1, <1>2, <2>3, <2>5 DEF ScreensRead, Active
    <3> QED
      BY <1>3, <2>2, <3>1, SeenIsBoolean DEF Seen
  <2> QED
    BY <2>4, <2>5
<1> QED
  BY <1>4, <1>5

(* In the background the controller in front stops; one that was in front may stop the player. *)
LEMMA BackgroundWatched ==
  ASSUME SessionInv, ScreensRead, ScreensRead', AppMovedToBackground
  PROVE  \/ Watched!AppMovedToBackground /\ UNCHANGED ObserverInFront
         \/ UNCHANGED Seen
<1> USE NilIsFresh DEF SessionInv, AppTypeOK, TypeOK
<1>1. UNCHANGED <<status, phase, delegate, ownPlayer, token, player>>
  BY DEF AppMovedToBackground, viewVars, fullVars
<1>2. ScreenInFront' = ScreenInFront /\ (ObserverInFront' <=> ObserverInFront)
  BY <1>1, SameOnScreen DEF ObserverInFront
<1>3. PlayingInFront' => PlayingInFront
  <2>1. \A p \in Players : playing'[p] => playing[p]
    BY DEF AppMovedToBackground
  <2> QED
    BY <1>1, <2>1, SilenceGoesOn
<1>4. CASE \E f \in FullViews : phase[f] = "shown"
  <2> PICK f \in FullViews : phase[f] = "shown"
    BY <1>4
  <2>1. /\ OnScreen(f) /\ OnScreen(f)' /\ f \in Surfaces /\ Loaded(f) /\ Active(f)'
        /\ ownPlayer[f] \in Players
    BY <1>1 DEF OnScreen, Surfaces, Loaded, ControllerTookOver, Active
  <2>2. ~selected'[f] /\ ~IsPlaying(ownPlayer[f])'
    BY <1>1, <2>1 DEF AppMovedToBackground, IsPlaying
  <2>3. ScreenInFront = "controller" /\ ~ButtonInFront' /\ ~PlayingInFront'
    BY <2>1, <2>2 DEF ScreensRead
  <2> QED
    BY <1>2, <2>3, SeenIsBoolean DEF Watched!AppMovedToBackground
<1>5. CASE \A f \in FullViews : phase[f] # "shown"
  <2>1. \A s \in Surfaces : OnScreen(s) => s \in Views /\ selected'[s] = selected[s]
    BY <1>5, SurfacesDisjoint DEF OnScreen, AppMovedToBackground
  <2>2. ButtonInFront' <=> ButtonInFront
    BY <1>1, <2>1, SameOnScreen DEF ButtonInFront
  <2>3. ScreenInFront # "controller"
    BY <1>5 DEF ScreenInFront
  <2>4. CASE PlayingInFront' <=> PlayingInFront
    BY <1>2, <2>2, <2>4, SeenIsBoolean DEF Seen
  <2>5. CASE ~PlayingInFront'
    BY <1>2, <2>2, <2>3, <2>5, SeenIsBoolean DEF Watched!AppMovedToBackground
  <2> QED
    BY <1>3, <2>4, <2>5
<1> QED
  BY <1>4, <1>5

(* The player stops, or is started by playNextVideo, unless it is not the one in front. *)
LEMMA PlayerWatched ==
  ASSUME SessionInv, PlayNextVideo \/ \E p \in Players : StopsOnItsOwn(p)
  PROVE  \/ (Watched!PlayNextVideo \/ Watched!StopsOnItsOwn) /\ UNCHANGED ObserverInFront
         \/ UNCHANGED Seen
<1> USE NilIsFresh DEF SessionInv, AppTypeOK
<1>1. UNCHANGED <<status, phase, delegate, ownPlayer, token, selected, player>>
  BY DEF PlayNextVideo, StopsOnItsOwn, viewVars, fullVars, buttonVars
<1>2. /\ ScreenInFront' = ScreenInFront
      /\ ButtonInFront' <=> ButtonInFront
      /\ ObserverInFront' <=> ObserverInFront
  BY <1>1, SeenByPlayer
<1>3. CASE PlayNextVideo
  <2>1. \A p \in Players : playing[p] => playing'[p]
    BY <1>3 DEF PlayNextVideo, WithRate
  <2>2. PlayingInFront => PlayingInFront'
    BY <1>1, <2>1, PlayingGoesOn
  <2> QED
    BY <1>2, <2>2, SeenIsBoolean DEF Seen, Watched!PlayNextVideo
<1>4. CASE \E p \in Players : StopsOnItsOwn(p)
  <2>1. \A p \in Players : playing'[p] => playing[p]
    BY <1>4 DEF StopsOnItsOwn, WithRate
  <2>2. PlayingInFront' => PlayingInFront
    BY <1>1, <2>1, SilenceGoesOn
  <2> QED
    BY <1>2, <2>2, SeenIsBoolean DEF Seen, Watched!StopsOnItsOwn
<1> QED
  BY <1>3, <1>4

(* Every step of the session is a step of the screens, or is not seen. *)
LEMMA StepWatched ==
  ASSUME SessionInv, FreshButton, ScreensRead, ScreensRead', [AppNext]_appVars
  PROVE  [Watched!WatchedNext]_(Watched!watchedVars)
<1> USE DEF Watched!WatchedNext, Watched!PlayWatched, Watched!ArriveWatched,
            Watched!LeaveWatched, Watched!Unwatched
<1>0. UNCHANGED Seen => UNCHANGED Watched!watchedVars
  BY DEF Seen, Watched!watchedVars, Watched!screenVars
<1>a. UNCHANGED <<status, phase, delegate, ownPlayer, token, selected, player, playing>> => UNCHANGED Seen
  BY Unseen
<1>1. CASE AppStep
  <2>1. ASSUME ToggleVideo \/ SetNewVideo PROVE UNCHANGED Seen
    BY <1>a, <2>1
       DEF ToggleVideo, SetNewVideo, PlayAnotherVideo, vars, viewVars, fullVars, buttonVars, playerVars
  <2> QED
    BY <1>0, <1>1, <2>1, MountWatched, UnmountWatched DEF AppStep
<1>2. CASE TouchStep
  <2>1. ASSUME NEW v \in Views, PlayTapped(v) PROVE Watched!WatchedNext
    BY <2>1, PlayActionWatched DEF PlayTapped, viewVars, fullVars
  <2>2. ASSUME NEW s \in Surfaces, BackwardAction(s) PROVE UNCHANGED Seen
    BY <1>a, <2>2 DEF BackwardAction, Abort, viewVars, fullVars, buttonVars, playerVars
  <2> QED
    BY <1>0, <1>2, <2>1, <2>2, FullPlayWatched, MenuWatched, EnterWatched, BackWatched
       DEF TouchStep
<1>3. CASE SystemStep
  BY <1>0, <1>3, StartWatched, AppearWatched, ReturnWatched, BackgroundWatched, PlayerWatched
     DEF SystemStep
<1>4. CASE UNCHANGED appVars
  BY <1>0, <1>a, <1>4 DEF appVars, vars, viewVars, fullVars, buttonVars, playerVars
<1> QED
  BY <1>1, <1>2, <1>3, <1>4 DEF AppNext, Aborted, appVars

(* The session under App implements the screens that the models of one view are *)
(* about: for any number of views, controllers and players, views mounted under *)
(* a controller, replaced players, late starts and dismissed controllers that   *)
(* still hear of the background (PsVideoFullView.swift:196-197) add no step to  *)
(* those of WatchedScreens.                                                     *)
THEOREM SessionImplementsScreens == AppSafetySpec => ImplementsScreens
<1>1. AppInit => FreshButton
  BY DEF AppInit, Init, FreshButton, Surfaces
<1>2. AppInit => Watched!Init /\ ObserverInFront = FALSE
  BY DEF AppInit, Init, Watched!Init, ScreenInFront, ButtonInFront, ObserverInFront,
         PlayingInFront, Active, OnScreen, IsPlaying, Mounted, Surfaces
<1>3. SessionInv' => ScreensRead'
  BY ScreensAreRead, PTL
<1>4. SessionInv /\ SessionInv' /\ FreshButton /\ [AppNext]_appVars
        => [Watched!WatchedNext]_(Watched!watchedVars)
  BY <1>3, ScreensAreRead, StepWatched
<1>5. SessionInv /\ FreshButton /\ [AppNext]_appVars => FreshButton'
  BY FreshButtonPreserved
<1> QED
  BY <1>1, <1>2, <1>4, <1>5, SessionInvariant, PTL
     DEF AppSafetySpec, ImplementsScreens, Watched!WatchedSpec

(* So it implements the screens without the observer, of which PlaybackSettings *)
(* is a detailed model.                                                         *)
COROLLARY SessionImplementsTwoScreens == AppSafetySpec => Watched!Spec
<1>1. [Watched!WatchedNext]_(Watched!watchedVars) => [Watched!Next]_(Watched!screenVars)
  BY DEF Watched!WatchedNext, Watched!PlayWatched, Watched!ArriveWatched, Watched!LeaveWatched,
         Watched!Unwatched, Watched!Next, Watched!watchedVars
<1> QED
  BY <1>1, SessionImplementsScreens, PTL DEF ImplementsScreens, Watched!WatchedSpec, Watched!Spec
=============================================================================
