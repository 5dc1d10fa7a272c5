------------------------- MODULE ControlsOverlayProofs -------------------------
(***************************************************************************)
(* The safety properties of ControlsOverlay for both screens and any bound *)
(* on the number of orphaned timers.                                       *)
(***************************************************************************)
EXTENDS ControlsOverlay, TLAPS

(* Every step keeps every flag of the overlay in its range. *)
LEMMA FlagsPreserved == ASSUME FlagsOK, [Next]_vars PROVE FlagsOK'
<1> USE DEF FlagsOK, menuVars, timerVars
<1>1. ASSUME NEW b \in MenuButtons, Press(b) PROVE FlagsOK'
  BY <1>1 DEF Press
<1>2. ASSUME NEW b \in MenuButtons, Release(b) PROVE FlagsOK'
  BY <1>2 DEF Release, SettingsAction, VideoQualityAction
<1>3. CASE DidSelectRow
  BY <1>3 DEF DidSelectRow, ResetControls
<1>4. CASE PlayAction
  BY <1>4 DEF PlayAction, ResetControls
<1>5. CASE ReadyTick
  BY <1>5 DEF ReadyTick, StartTimer
<1>6. CASE ControlsTouched
  BY <1>6 DEF ControlsTouched, Hide, ResetControls
<1>7. CASE PlayerTouched
  BY <1>7 DEF PlayerTouched, Show, StartTimer
<1>8. CASE TimerAction
  BY <1>8 DEF TimerAction, Hide, ResetControls, ResetTimer
<1>9. CASE ViewDidAppear
  BY <1>9 DEF ViewDidAppear, StartTimer, ResetControls
<1>10. CASE BackAction
  BY <1>10 DEF BackAction
<1>11. CASE FullScreenAction
  BY <1>11 DEF FullScreenAction
<1>12. CASE ViewDismissed
  BY <1>12 DEF ViewDismissed, StartTimer, ResetControls
<1>13. CASE UNCHANGED vars
  BY <1>13 DEF vars
<1> QED
  BY <1>1, <1>2, <1>3, <1>4, <1>5, <1>6, <1>7, <1>8, <1>9, <1>10, <1>11,
     <1>12, <1>13 DEF Next

(* Only startTimer adds an orphan, and the bound of the model guards it. *)
LEMMA OrphansPreserved == ASSUME FlagsOK, OrphansOK, [Next]_vars PROVE OrphansOK'
<1>1. StartTimer => OrphansOK'
  BY OrphansAreBounded DEF StartTimer, OrphansOK
<1>2. UNCHANGED timerVars => OrphansOK'
  BY DEF timerVars, OrphansOK
<1>3. ResetTimer => OrphansOK'
  BY DEF ResetTimer, OrphansOK
<1>4. [Next]_vars => StartTimer \/ UNCHANGED timerVars \/ ResetTimer
  BY DEF Next, vars, timerVars, Press, Release, DidSelectRow, PlayAction, ReadyTick,
         ControlsTouched, PlayerTouched, TimerAction, ViewDidAppear, BackAction,
         FullScreenAction, ViewDismissed
<1> QED
  BY <1>1, <1>2, <1>3, <1>4

(* TypeOK of ControlsOverlay is an invariant of its specification. *)
THEOREM OverlayTypeCorrect == SafetySpec => []TypeOK
<1>1. Init => TypeOK
  <2> SUFFICES ASSUME Init PROVE FlagsOK /\ OrphansOK
    BY DEF TypeOK
  <2>1. FlagsOK
    BY DEF Init, FlagsOK, FullScreen
  <2>2. OrphansOK
    BY OrphansAreBounded DEF Init, OrphansOK
  <2> QED
    BY <2>1, <2>2
<1>2. TypeOK /\ [Next]_vars => TypeOK'
  BY FlagsPreserved, OrphansPreserved DEF TypeOK
<1> QED
  BY <1>1, <1>2, PTL DEF SafetySpec

-----------------------------------------------------------------------------
(***************************************************************************)
(* The menu.  TableMatchesButtons is not inductive: a finger resting on a  *)
(* button that is already selected would close the table of the other one  *)
(* when it lifts.  No such finger exists, because the open table covers    *)
(* both buttons.                                                           *)
(***************************************************************************)
HeldIsUnselected == /\ "settings" \in held => ~settings
                    /\ "quality" \in held => ~quality

MenuInv == FlagsOK /\ TableMatchesButtons /\ HeldIsUnselected

(* resetControls closes the table and deselects both buttons. *)
LEMMA ResetClosesMenu ==
  ASSUME ResetControls
  PROVE  TableMatchesButtons' /\ HeldIsUnselected' /\ tableHidden'
BY DEF ResetControls, TableMatchesButtons, HeldIsUnselected

(* A step that leaves the menu alone and lands no finger keeps the invariant. *)
LEMMA MenuUntouched ==
  ASSUME TableMatchesButtons, HeldIsUnselected, UNCHANGED menuVars, held' \subseteq held
  PROVE  TableMatchesButtons' /\ HeldIsUnselected'
BY DEF TableMatchesButtons, HeldIsUnselected, menuVars

(* Every step keeps table, buttons and fingers together. *)
LEMMA MenuPreserved ==
  ASSUME MenuInv, [Next]_vars
  PROVE  TableMatchesButtons' /\ HeldIsUnselected'
<1> USE DEF MenuInv
<1>1. ASSUME NEW b \in MenuButtons, Press(b)
      PROVE  TableMatchesButtons' /\ HeldIsUnselected'
  BY <1>1 DEF Press, TableMatchesButtons, HeldIsUnselected, menuVars, FlagsOK
<1>2. ASSUME NEW b \in MenuButtons, Release(b)
      PROVE  TableMatchesButtons' /\ HeldIsUnselected'
  <2>1. CASE b = "settings" /\ SettingsAction
    BY <1>2, <2>1 DEF Release, SettingsAction, TableMatchesButtons, HeldIsUnselected
  <2>2. CASE b = "quality" /\ VideoQualityAction
    BY <1>2, <2>2 DEF Release, VideoQualityAction, TableMatchesButtons, HeldIsUnselected
  <2>3. CASE UNCHANGED menuVars
    <3>1. held' \subseteq held
      BY <1>2 DEF Release
    <3> QED
      BY <2>3, <3>1, MenuUntouched
  <2> QED
    BY <1>2, <2>1, <2>2, <2>3 DEF Release
<1>3. ASSUME ResetControls PROVE TableMatchesButtons' /\ HeldIsUnselected'
  BY <1>3, ResetClosesMenu
<1>4. ASSUME UNCHANGED menuVars, held' \subseteq held
      PROVE  TableMatchesButtons' /\ HeldIsUnselected'
  BY <1>4, MenuUntouched
<1>5. CASE \E b \in MenuButtons : Press(b) \/ Release(b)
  BY <1>1, <1>2, <1>5
<1>6. CASE ~\E b \in MenuButtons : Press(b) \/ Release(b)
  <2>1. ResetControls \/ (UNCHANGED menuVars /\ held' \subseteq held)
    BY <1>6 DEF Next, vars, menuVars, timerVars, DidSelectRow, PlayAction, ReadyTick,
                ControlsTouched, PlayerTouched, TimerAction, ViewDidAppear, BackAction,
                FullScreenAction, ViewDismissed
  <2> QED
    BY <2>1, <1>3, <1>4
<1> QED
  BY <1>5, <1>6

(* MenuInv is an invariant. *)
THEOREM MenuInvariant == SafetySpec => []MenuInv
<1>1. Init => MenuInv
  BY DEF Init, MenuInv, FlagsOK, TableMatchesButtons, HeldIsUnselected, FullScreen
<1>2. MenuInv /\ [Next]_vars => MenuInv'
  <2> SUFFICES ASSUME MenuInv, [Next]_vars PROVE MenuInv'
    OBVIOUS
  <2>1. FlagsOK'
    BY FlagsPreserved DEF MenuInv
  <2> QED
    BY <2>1, MenuPreserved DEF MenuInv
<1> QED
  BY <1>1, <1>2, PTL DEF SafetySpec

(* The table is open exactly while a menu button is selected, on either     *)
(* screen: settingsAction, videoQualityAction, didSelectRow, resetControls  *)
(* and the timer never part them.                                           *)
THEOREM TableAlwaysMatches == SafetySpec => []TableMatchesButtons
<1>1. MenuInv => TableMatchesButtons
  BY DEF MenuInv
<1> QED
  BY <1>1, MenuInvariant, PTL

(* No handler hides the overlay and leaves the menu open in it, the view's  *)
(* timerAction included.                                                    *)
THEOREM HidingAlwaysClosesMenu == SafetySpec => HidingClosesMenu
<1>1. MenuInv /\ [Next]_vars => [~hidden /\ hidden' => tableHidden']_vars
  <2> SUFFICES ASSUME MenuInv, [Next]_vars, ~hidden, hidden' PROVE tableHidden'
    OBVIOUS
  <2>1. ControlsTouched \/ TimerAction
    BY DEF Next, vars, menuVars, timerVars, Press, Release, DidSelectRow, PlayAction, ReadyTick,
           PlayerTouched, Show, ViewDidAppear, BackAction, FullScreenAction, ViewDismissed,
           MenuInv, FlagsOK
  <2>2. CASE ControlsTouched
    BY <2>2, ResetClosesMenu DEF ControlsTouched
  <2>3. CASE TimerAction /\ FullScreen
    BY <2>3, ResetClosesMenu DEF TimerAction
  <2>4. CASE TimerAction /\ ~FullScreen
    BY <2>4 DEF TimerAction, menuVars, MenuInv, TableMatchesButtons
  <2> QED
    BY <2>1, <2>2, <2>3, <2>4
<1> QED
  BY <1>1, MenuInvariant, PTL DEF SafetySpec, HidingClosesMenu

-----------------------------------------------------------------------------
(* Hiding and showing *)

(* A visible overlay whose timer was ever started has a live timer. *)
THEOREM VisibleAlwaysTimed == SafetySpec => []VisibleOverlayIsTimed
<1>1. Init => VisibleOverlayIsTimed
  BY DEF Init, VisibleOverlayIsTimed
<1>2. VisibleOverlayIsTimed /\ FlagsOK /\ [Next]_vars => VisibleOverlayIsTimed'
  <2> SUFFICES ASSUME VisibleOverlayIsTimed, FlagsOK, [Next]_vars
               PROVE  VisibleOverlayIsTimed'
    OBVIOUS
  <2>1. CASE StartTimer
    BY <2>1 DEF StartTimer, VisibleOverlayIsTimed
  <2>2. CASE Hide
    BY <2>2 DEF Hide, VisibleOverlayIsTimed
  <2>3. CASE UNCHANGED timerVars /\ UNCHANGED hidden
    BY <2>3 DEF timerVars, VisibleOverlayIsTimed
  <2>4. StartTimer \/ Hide \/ (UNCHANGED timerVars /\ UNCHANGED hidden)
    BY DEF Next, vars, timerVars, Press, Release, DidSelectRow, PlayAction, ReadyTick,
           ControlsTouched, PlayerTouched, TimerAction, ViewDidAppear, BackAction,
           FullScreenAction, ViewDismissed
  <2> QED
    BY <2>1, <2>2, <2>3, <2>4
<1>3. SafetySpec => []FlagsOK
  <2>1. TypeOK => FlagsOK
    BY DEF TypeOK
  <2> QED
    BY <2>1, OverlayTypeCorrect, PTL
<1> QED
  BY <1>1, <1>2, <1>3, PTL DEF SafetySpec

(* In full screen exactly one of the overlay and the catcher takes touches. *)
THEOREM CatcherAlwaysReplaces == SafetySpec => []CatcherReplacesOverlay
<1>1. Init => CatcherReplacesOverlay
  BY DEF Init, CatcherReplacesOverlay
<1>2. CatcherReplacesOverlay /\ [Next]_vars => CatcherReplacesOverlay'
  <2> SUFFICES ASSUME CatcherReplacesOverlay, [Next]_vars PROVE CatcherReplacesOverlay'
    OBVIOUS
  <2>1. CASE Hide \/ Show
    BY <2>1 DEF Hide, Show, CatcherReplacesOverlay, FullScreen
  <2>2. CASE UNCHANGED <<hidden, catcherHidden>>
    BY <2>2 DEF CatcherReplacesOverlay, FullScreen
  <2>3. Hide \/ Show \/ UNCHANGED <<hidden, catcherHidden>>
    BY DEF Next, vars, Press, Release, DidSelectRow, PlayAction, ReadyTick,
           ControlsTouched, PlayerTouched, TimerAction, ViewDidAppear, BackAction,
           FullScreenAction, ViewDismissed
  <2> QED
    BY <2>1, <2>2, <2>3
<1> QED
  BY <1>1, <1>2, PTL DEF SafetySpec
=============================================================================
