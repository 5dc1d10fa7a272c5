-------------------------- MODULE PlaybackClockProofs --------------------------
(***************************************************************************)
(* The properties of the clock for any durations, any positions and any    *)
(* number of trips to full screen; those of its label are TimeLabelProofs, *)
(* whose counter secs is no part of the clock.                             *)
(***************************************************************************)
EXTENDS PlaybackClock, TimeLabelProofs

-----------------------------------------------------------------------------
(* Type correctness *)

(* Cutting to milliseconds keeps a time a time and takes off less than one. *)
LEMMA MillisecondsType ==
  ASSUME NEW t \in Nat
  PROVE  /\ ToMilliseconds(t) \in Nat
         /\ ToMilliseconds(t) \in {t, t - 1}
<1>1. t % 2 \in {0, 1} /\ t % 2 <= t
  OBVIOUS
<1> QED
  BY <1>1 DEF ToMilliseconds

(* The times that currentTime() answers. *)
LEMMA CurrentTimeType == ASSUME TypeOK, NEW t \in CurrentTime PROVE t \in Nat
BY DEF TypeOK, CurrentTime, Time

(* Half milliseconds become whole seconds, for the label. *)
LEMMA SecondsType == ASSUME NEW t \in Nat PROVE t \div Second \in Nat
BY DEF Second

(* The labels that handlers write are well formed. *)
LEMMA LabelType ==
  ASSUME NEW m \in Nat, NEW n \in Nat
  PROVE  /\ FormatTime(m) \in Seq(Nat) /\ IsTimeOfDay(FormatTime(m))
         /\ FormatTime(n) \in Seq(Nat) /\ IsTimeOfDay(FormatTime(n))
BY LabelReadsBack DEF ReadsBackAt

(* A new controller's slider and label are in range. *)
LEMMA NewControllerType ==
  ASSUME TypeOK, NewController
  PROVE  /\ slider' \in [Surfaces -> [max : Nat, value : Nat]]
         /\ label' \in [Surfaces -> [position : Seq(Nat), end : Seq(Nat)]]
         /\ \A s \in Surfaces : IsTimeOfDay(label'[s].position) /\ IsTimeOfDay(label'[s].end)
<1>1. /\ FirstSlider \in [max : Nat, value : Nat]
      /\ FirstLabel \in [position : Seq(Nat), end : Seq(Nat)]
      /\ IsTimeOfDay(FirstLabel.position) /\ IsTimeOfDay(FirstLabel.end)
  BY LabelType DEF FirstSlider, FirstLabel, Second
<1> QED
  BY <1>1 DEF NewController, TypeOK, Time

(* No touch takes a variable out of its range. *)
LEMMA TouchType == ASSUME TypeOK, Touch PROVE TypeOK'
<1> USE DEF playerVars, shownVars, Time
<1>1. ASSUME NEW s \in Surfaces, ForwardAction(s) PROVE TypeOK'
  <2>1. PICK t \in CurrentTime : SkipForward(s, t)
    BY <1>1 DEF ForwardAction
  <2>2. t \in Nat /\ t + 15 * Second \in Nat
    BY CurrentTimeType DEF Second
  <2>3. target' \in Nat
    BY <2>1, <2>2, MillisecondsType DEF SkipForward, Seek, Exceeds, TypeOK
  <2>4. selected' \in [Surfaces -> BOOLEAN]
    BY <2>1 DEF SkipForward, TypeOK
  <2> QED
    BY <1>1, <2>3, <2>4 DEF ForwardAction, TypeOK
<1>2. ASSUME NEW s \in Surfaces, BackwardAction(s) PROVE TypeOK'
  <2>1. PICK t \in CurrentTime : SkipBack(t)
    BY <1>2 DEF BackwardAction
  <2>2. t \in Nat
    BY CurrentTimeType
  <2>3. (IF t < 5 * Second THEN 0 ELSE t - 5 * Second) \in Nat
    BY <2>2 DEF Second
  <2>4. target' \in Nat
    BY <2>1, <2>3, MillisecondsType DEF SkipBack, Seek
  <2> QED
    BY <1>2, <2>4 DEF BackwardAction, TypeOK
<1>3. ASSUME NEW s \in Surfaces, SliderAction(s) PROVE TypeOK'
  <2>1. PICK v \in Nat : slider' = [slider EXCEPT ![s] = SetValue(@, v)] /\ Seek(v)
    BY <1>3, ClockAssumption DEF SliderAction, TypeOK
  <2>2. target' \in Nat
    BY <2>1, MillisecondsType DEF Seek
  <2>3. SetValue(slider[s], v) \in [max : Nat, value : Nat]
    BY DEF TypeOK, SetValue
  <2>4. slider' \in [Surfaces -> [max : Nat, value : Nat]]
    BY <2>1, <2>3 DEF TypeOK
  <2> QED
    BY <1>3, <2>2, <2>4 DEF SliderAction, TypeOK
<1>4. ASSUME NEW s \in Surfaces, SetVideoSpeed(s) PROVE TypeOK'
  BY <1>4 DEF SetVideoSpeed, TypeOK
<1>5. CASE ViewPlay
  BY <1>5 DEF ViewPlay, TypeOK, Surfaces
<1>6. CASE ControllerPlay
  BY <1>6 DEF ControllerPlay, TypeOK, Surfaces
<1>7. CASE FullScreenAction
  BY <1>7, NewControllerType DEF FullScreenAction, TypeOK
<1>8. CASE BackAction
  BY <1>8 DEF BackAction, TypeOK
<1> QED
  BY <1>1, <1>2, <1>3, <1>4, <1>5, <1>6, <1>7, <1>8 DEF Touch

(* Nor does the player, the system or a tick. *)
LEMMA SystemType == ASSUME TypeOK, System PROVE TypeOK'
<1> USE DEF playerVars, shownVars, Time
<1>1. CASE ViewDidAppear
  BY <1>1 DEF ViewDidAppear, TypeOK, Surfaces
<1>8. CASE ViewDismissed
  BY <1>8, NewControllerType DEF ViewDismissed, TypeOK, Surfaces
<1>2. CASE PlayNextVideo
  <2>1. target' \in Nat
    BY <1>2, MillisecondsType DEF PlayNextVideo, Seek
  <2> QED
    BY <1>2, <2>1 DEF PlayNextVideo, TypeOK
<1>3. CASE ItemReady \/ ItemFails
  BY <1>3, ClockAssumption DEF ItemReady, ItemFails, TypeOK
<1>4. CASE SeekEnds
  BY <1>4 DEF SeekEnds, Landings, TypeOK
<1>5. CASE Advance
  BY <1>5, ClockAssumption DEF Advance, TypeOK
<1>6. CASE StopsOnItsOwn
  BY <1>6 DEF StopsOnItsOwn, TypeOK
<1>9. CASE AppMovedToBackground \/ LateStart
  BY <1>9 DEF AppMovedToBackground, LateStart, TypeOK
<1>7. ASSUME NEW s \in Surfaces, Tick(s) PROVE TypeOK'
  <2>1. CASE UNCHANGED shownVars /\ crash' = TRUE
    BY <1>7, <2>1 DEF Tick, TypeOK
  <2>2. CASE duration # Indefinite /\ UNCHANGED crash
    <3>1. duration \in Nat
      BY <2>2 DEF TypeOK
    <3>2. PICK t \in CurrentTime :
             /\ slider' = [slider EXCEPT ![s] = MoveSlider(@, t)]
             /\ label' = [label EXCEPT ![s] = [position |-> FormatTime(t \div Second),
                                               end |-> FormatTime(duration \div Second)]]
      BY <1>7, <2>2 DEF Tick
    <3>3. t \in Nat
      BY CurrentTimeType
    <3>4. MoveSlider(slider[s], t) \in [max : Nat, value : Nat]
      BY <3>1, <3>3 DEF MoveSlider, SetMaximum, SetValue, TypeOK
    <3>5. slider' \in [Surfaces -> [max : Nat, value : Nat]]
      BY <3>2, <3>4 DEF TypeOK
    <3> DEFINE m == t \div Second
               n == duration \div Second
    <3>6. m \in Nat /\ n \in Nat
      BY <3>1, <3>3, SecondsType
    <3> HIDE DEF m, n
    <3>7. /\ FormatTime(m) \in Seq(Nat) /\ IsTimeOfDay(FormatTime(m))
          /\ FormatTime(n) \in Seq(Nat) /\ IsTimeOfDay(FormatTime(n))
      BY <3>6, LabelType
    <3>8. label' = [label EXCEPT ![s] = [position |-> FormatTime(m), end |-> FormatTime(n)]]
      BY <3>2 DEF m, n
    <3> DEFINE shown == [position |-> FormatTime(m), end |-> FormatTime(n)]
    <3>a. /\ shown \in [position : Seq(Nat), end : Seq(Nat)]
          /\ IsTimeOfDay(shown.position) /\ IsTimeOfDay(shown.end)
      BY <3>7
    <3>b. label' = [label EXCEPT ![s] = shown]
      BY <3>8
    <3> HIDE DEF shown
    <3>9. /\ label' \in [Surfaces -> [position : Seq(Nat), end : Seq(Nat)]]
          /\ \A r \in Surfaces : IsTimeOfDay(label'[r].position) /\ IsTimeOfDay(label'[r].end)
      BY <3>a, <3>b DEF TypeOK
    <3> QED
      BY <1>7, <2>2, <3>5, <3>9 DEF Tick, TypeOK
  <2> QED
    BY <1>7, <2>1, <2>2 DEF Tick
<1> QED
  BY <1>1, <1>2, <1>3, <1>4, <1>5, <1>6, <1>7, <1>8, <1>9 DEF System

(* Type correctness of the clock. *)
THEOREM ClockTypeCorrect == Spec => []TypeOK
<1>1. Init => TypeOK
  <2>1. /\ FirstSlider \in [max : Nat, value : Nat]
        /\ FirstLabel \in [position : Seq(Nat), end : Seq(Nat)]
        /\ IsTimeOfDay(FirstLabel.position) /\ IsTimeOfDay(FirstLabel.end)
    BY LabelType DEF FirstSlider, FirstLabel, Second
  <2> SUFFICES ASSUME Init PROVE TypeOK
    OBVIOUS
  <2>2. /\ slider \in [Surfaces -> [max : Time, value : Time]]
        /\ label \in [Surfaces -> [position : Seq(Nat), end : Seq(Nat)]]
        /\ \A s \in Surfaces : IsTimeOfDay(label[s].position) /\ IsTimeOfDay(label[s].end)
    BY <2>1 DEF Init, Time
  <2> QED
    BY <2>2 DEF Init, TypeOK, Surfaces, Time
<1>2. TypeOK /\ [Next]_vars => TypeOK'
  <2>1. TypeOK /\ UNCHANGED vars => TypeOK'
    BY DEF vars, playerVars, shownVars, TypeOK
  <2> QED
    BY <2>1, TouchType, SystemType DEF Next
<1> QED
  BY <1>1, <1>2, PTL DEF Spec

-----------------------------------------------------------------------------
(* The position *)

(* Only a ready item has a known duration, and the position is inside it: an *)
(* item that is put in starts at its beginning.                              *)
PositionInItem ==
  /\ status # "ready" => duration = Indefinite
  /\ status = "loading" => now = 0
  /\ ~Exceeds(now, duration)

(* No step takes the position out of the item. *)
LEMMA PositionStaysInItem ==
  ASSUME TypeOK, PositionInItem, [Next]_vars
  PROVE  PositionInItem'
<1> USE DEF PositionInItem, Exceeds, playerVars, shownVars
<1>1. ASSUME UNCHANGED <<status, duration, now>> PROVE PositionInItem'
  BY <1>1
<1>2. CASE PlayNextVideo \/ ItemFails
  BY <1>2 DEF PlayNextVideo, ItemFails
<1>3. CASE ItemReady
  BY <1>3, ClockAssumption DEF ItemReady, Indefinite, Time
<1>4. CASE SeekEnds
  BY <1>4 DEF SeekEnds, Landings
<1>5. CASE Advance
  BY <1>5 DEF Advance
<1>6. CASE StopsOnItsOwn
  BY <1>6 DEF StopsOnItsOwn, TypeOK, Time
<1>7. CASE Touch
  BY <1>1, <1>7
     DEF Touch, ForwardAction, BackwardAction, SliderAction, SetVideoSpeed, ViewPlay,
         ControllerPlay, FullScreenAction, BackAction
<1>8. CASE \/ ViewDidAppear \/ ViewDismissed \/ AppMovedToBackground \/ LateStart
           \/ \E s \in Surfaces : Tick(s)
  BY <1>1, <1>8 DEF ViewDidAppear, ViewDismissed, AppMovedToBackground, LateStart, Tick
<1>9. CASE UNCHANGED vars
  BY <1>1, <1>9 DEF vars
<1> QED
  BY <1>2, <1>3, <1>4, <1>5, <1>6, <1>7, <1>8, <1>9 DEF Next, System

(* The position is inside the item. *)
THEOREM PositionAlwaysInItem == Spec => []PositionInItem
<1>1. Init => PositionInItem
  BY DEF Init, PositionInItem, Exceeds
<1>2. TypeOK /\ PositionInItem /\ [Next]_vars => PositionInItem'
  BY PositionStaysInItem
<1> QED
  BY <1>1, <1>2, ClockTypeCorrect, PTL DEF Spec

-----------------------------------------------------------------------------
(* Seeks and the button *)

(* A skip forward from inside the item asks for a time inside it. *)
LEMMA SkipForwardStaysInside ==
  ASSUME TypeOK, NEW s \in Surfaces, NEW t \in Nat, ~Exceeds(t, duration), SkipForward(s, t),
         UNCHANGED duration
  PROVE  ~Exceeds(target', duration')
<1>1. CASE Exceeds(t + 15 * Second, duration)
  <2>1. duration \in Nat /\ target' = ToMilliseconds(duration)
    BY <1>1 DEF SkipForward, Seek, Exceeds, TypeOK, Time
  <2> QED
    BY <2>1, MillisecondsType DEF Exceeds
<1>2. CASE ~Exceeds(t + 15 * Second, duration)
  <2> DEFINE n == t + 15 * Second
  <2>1. n \in Nat /\ target' = ToMilliseconds(n)
    BY <1>2 DEF SkipForward, Seek, Second
  <2>2. target' \in {n, n - 1}
    BY <2>1, MillisecondsType
  <2>3. duration # Indefinite => duration \in Nat /\ n <= duration
    BY <1>2, <2>1 DEF Exceeds, TypeOK, Time
  <2> HIDE DEF n
  <2> QED
    BY <2>1, <2>2, <2>3 DEF Exceeds
<1> QED
  BY <1>1, <1>2

(* A skip back asks for a time no later than the one it started from. *)
LEMMA SkipBackStaysInside ==
  ASSUME TypeOK, NEW t \in Nat, ~Exceeds(t, duration), SkipBack(t), UNCHANGED duration
  PROVE  ~Exceeds(target', duration')
<1> DEFINE n == IF t < 5 * Second THEN 0 ELSE t - 5 * Second
<1>1. n \in Nat /\ n <= t /\ target' = ToMilliseconds(n)
  BY DEF SkipBack, Seek, Second
<1>2. target' \in {n, n - 1}
  BY <1>1, MillisecondsType
<1> HIDE DEF n
<1> QED
  BY <1>1, <1>2 DEF Exceeds, TypeOK, Time

(* A seek comes to be beyond the end by a ready item or a slider of another range only. *)
LEMMA BeyondTheEndStep ==
  ASSUME TypeOK, PositionInItem, Next, ~BeyondEnd, BeyondEnd'
  PROVE  \/ ItemReady
         \/ \E s \in Surfaces : SliderAction(s) /\ slider[s].max # duration
<1> USE DEF playerVars, shownVars
<1>0. \A t \in CurrentTime : t \in Nat /\ ~Exceeds(t, duration)
  BY CurrentTimeType DEF BeyondEnd, PositionInItem, CurrentTime
<1>a. ASSUME UNCHANGED <<target, duration>> PROVE FALSE
  BY <1>a DEF BeyondEnd, Exceeds
<1>b. ASSUME duration' = Indefinite \/ target' = Nothing PROVE FALSE
  BY <1>b DEF BeyondEnd, Exceeds
<1>1. ASSUME NEW s \in Surfaces, ForwardAction(s) PROVE FALSE
  BY <1>0, <1>1, SkipForwardStaysInside DEF ForwardAction, BeyondEnd
<1>2. ASSUME NEW s \in Surfaces, BackwardAction(s) PROVE FALSE
  BY <1>0, <1>2, SkipBackStaysInside DEF BackwardAction, BeyondEnd
<1>3. ASSUME NEW s \in Surfaces, SliderAction(s), slider[s].max = duration PROVE FALSE
  <2>1. duration \in Nat
    BY <1>3 DEF TypeOK, Time
  <2>2. PICK v \in Nat : v <= duration /\ target' = ToMilliseconds(v)
    BY <1>3, <2>1, ClockAssumption DEF SliderAction, Seek, Time
  <2>3. ToMilliseconds(v) \in {v, v - 1}
    BY MillisecondsType
  <2> QED
    BY <1>3, <2>1, <2>2, <2>3 DEF SliderAction, BeyondEnd, Exceeds
<1>4. CASE Touch
  BY <1>a, <1>1, <1>2, <1>3, <1>4
     DEF Touch, SetVideoSpeed, ViewPlay, ControllerPlay, FullScreenAction, BackAction
<1>5. CASE System
  BY <1>a, <1>b, <1>5
     DEF System, ViewDidAppear, ViewDismissed, PlayNextVideo, ItemFails, SeekEnds, Advance,
         StopsOnItsOwn, AppMovedToBackground, LateStart, Tick
<1> QED
  BY <1>a, <1>4, <1>5 DEF Next, vars

(* There are only two ways to a seek beyond the end of the item. *)
THEOREM OnlyTwoWaysBeyond == Spec => TwoWaysBeyondTheEnd
<1>1. TypeOK /\ PositionInItem /\ [Next]_vars
        => [~BeyondEnd /\ BeyondEnd'
              => \/ ItemReady
                 \/ \E s \in Surfaces : SliderAction(s) /\ slider[s].max # duration]_vars
  BY BeyondTheEndStep
<1> QED
  BY <1>1, ClockTypeCorrect, PositionAlwaysInItem, PTL DEF Spec, TwoWaysBeyondTheEnd

(* A button is cleared while the player goes on by a skip to the end only. *)
LEMMA ClearedStep ==
  ASSUME TypeOK, Next, NEW s \in Surfaces,
         selected[s], ~selected'[s], playing', screen' = s
  PROVE  duration # Indefinite /\ target' \in {duration, duration - 1}
<1> USE DEF playerVars, shownVars, TypeOK
<1>1. ASSUME NEW r \in Surfaces, ForwardAction(r)
      PROVE  duration # Indefinite /\ target' \in {duration, duration - 1}
  <2>1. PICK t \in CurrentTime : SkipForward(r, t)
    BY <1>1 DEF ForwardAction
  <2>2. Exceeds(t + 15 * Second, duration) /\ Seek(duration)
    BY <2>1 DEF SkipForward
  <2>3. duration # Indefinite /\ duration \in Nat
    BY <2>2 DEF Exceeds, Time
  <2> QED
    BY <2>2, <2>3, MillisecondsType DEF Seek
<1>2. CASE Touch
  BY <1>1, <1>2
     DEF Touch, BackwardAction, SliderAction, SetVideoSpeed, ViewPlay, ControllerPlay,
         FullScreenAction, BackAction, Surfaces
<1>3. CASE System
  BY <1>3
     DEF System, ViewDidAppear, ViewDismissed, PlayNextVideo, ItemReady, ItemFails, SeekEnds,
         Advance, StopsOnItsOwn, AppMovedToBackground, LateStart, Tick, Surfaces
<1> QED
  BY <1>2, <1>3 DEF Next, vars

(* The button is cleared while the player goes on by a skip to the end only. *)
THEOREM ClearedOnlyOnTheWayToTheEnd == Spec => ClearedOnTheWayToTheEnd
<1>1. TypeOK /\ [Next]_vars
        => [\A s \in Surfaces : selected[s] /\ ~selected'[s] /\ playing' /\ screen' = s
              => duration # Indefinite /\ target' \in {duration, duration - 1}]_vars
  BY ClearedStep
<1> QED
  BY <1>1, ClockTypeCorrect, PTL DEF Spec, ClearedOnTheWayToTheEnd

-----------------------------------------------------------------------------
(* Ticks *)

(* The process aborts at the tick of a ready item without end, and nowhere else. *)
THEOREM AbortsOnlyOnEndlessItem == Spec => []OnlyEndlessItemAborts
<1>1. Init => OnlyEndlessItemAborts
  BY DEF Init, OnlyEndlessItemAborts
<1>2. OnlyEndlessItemAborts /\ [Next]_vars => OnlyEndlessItemAborts'
  <2> SUFFICES ASSUME OnlyEndlessItemAborts, [Next]_vars PROVE OnlyEndlessItemAborts'
    OBVIOUS
  <2> USE DEF OnlyEndlessItemAborts, playerVars
  <2>1. ASSUME NEW s \in Surfaces, ~crash, Tick(s) PROVE OnlyEndlessItemAborts'
    BY <2>1 DEF Tick, Showable
  <2>2. CASE ~crash /\ Touch
    BY <2>2
       DEF Touch, ForwardAction, BackwardAction, SliderAction, SetVideoSpeed, ViewPlay,
           ControllerPlay, FullScreenAction, BackAction
  <2>3. CASE ~crash /\ System
    BY <2>1, <2>3
       DEF System, ViewDidAppear, ViewDismissed, PlayNextVideo, ItemReady, ItemFails, SeekEnds,
           Advance, StopsOnItsOwn, AppMovedToBackground, LateStart
  <2>4. CASE UNCHANGED vars
    BY <2>4 DEF vars
  <2> QED
    BY <2>2, <2>3, <2>4 DEF Next
<1> QED
  BY <1>1, <1>2, PTL DEF Spec

(* A tick shows the length of the item and its position. *)
LEMMA TickShows ==
  ASSUME TypeOK, PositionInItem, NEW s \in Surfaces, Tick(s), ~crash', target = Nothing
  PROVE  /\ slider'[s] = [max |-> duration, value |-> now]
         /\ SecondsOf(label'[s].end) = duration \div Second
         /\ SecondsOf(label'[s].position) = now \div Second
<1>1. /\ duration # Indefinite
      /\ slider' = [slider EXCEPT ![s] = MoveSlider(@, now)]
      /\ label' = [label EXCEPT ![s] = [position |-> FormatTime(now \div Second),
                                        end |-> FormatTime(duration \div Second)]]
  BY DEF Tick, CurrentTime
<1>2. now \in Nat /\ duration \in Nat /\ now <= duration
  BY <1>1 DEF TypeOK, PositionInItem, Exceeds, Time
<1>3. MoveSlider(slider[s], now) = [max |-> duration, value |-> now]
  BY <1>2 DEF MoveSlider, SetMaximum, SetValue
<1>4. now \div Second \in Nat /\ duration \div Second \in Nat
  BY <1>2, SecondsType
<1>5. /\ SecondsOf(FormatTime(now \div Second)) = now \div Second
      /\ SecondsOf(FormatTime(duration \div Second)) = duration \div Second
  BY <1>4, LabelReadsBack DEF ReadsBackAt
<1>6. /\ label'[s].position = FormatTime(now \div Second)
      /\ label'[s].end = FormatTime(duration \div Second)
  BY <1>1 DEF TypeOK
<1> QED
  BY <1>1, <1>3, <1>5, <1>6 DEF TypeOK

(* What a tick shows is the item's. *)
THEOREM TickAlwaysShowsTheItem == Spec => TickShowsTheItem
<1>1. TypeOK /\ PositionInItem /\ [Next]_vars
        => [\A s \in Surfaces : Tick(s) /\ ~crash' /\ target = Nothing =>
              /\ slider'[s] = [max |-> duration, value |-> now]
              /\ SecondsOf(label'[s].end) = duration \div Second
              /\ SecondsOf(label'[s].position) = now \div Second]_vars
  BY TickShows
<1> QED
  BY <1>1, ClockTypeCorrect, PositionAlwaysInItem, PTL DEF Spec, TickShowsTheItem

-----------------------------------------------------------------------------
(* Refinement *)

(* Every touch is a step of the screens, or none of theirs. *)
LEMMA TouchRefines ==
  ASSUME TypeOK, Touch
  PROVE  Watched!WatchedNext \/ UNCHANGED Watched!watchedVars
<1> USE DEF InFront, Surfaces, Watched!Surfaces, Watched!watchedVars, Watched!screenVars,
            Watched!WatchedNext, Watched!Unwatched, Watched!PlayWatched, Watched!LeaveWatched
<1>1. ASSUME NEW s \in Surfaces, ForwardAction(s)
      PROVE  \/ Watched!ForwardPastEnd /\ UNCHANGED InFront(observed)
             \/ UNCHANGED Watched!watchedVars
  <2>1. selected' = [selected EXCEPT ![s] = FALSE] \/ UNCHANGED selected
    BY <1>1 DEF ForwardAction, SkipForward
  <2> QED
    BY <1>1, <2>1 DEF ForwardAction, TypeOK, Watched!ForwardPastEnd
<1>2. ASSUME NEW s \in Surfaces, BackwardAction(s) \/ SliderAction(s)
      PROVE  UNCHANGED Watched!watchedVars
  BY <1>2 DEF BackwardAction, SliderAction
<1>3. ASSUME NEW s \in Surfaces, SetVideoSpeed(s)
      PROVE  Watched!SetVideoSpeed /\ UNCHANGED InFront(observed)
  BY <1>3 DEF SetVideoSpeed, TypeOK, Watched!SetVideoSpeed
<1>4. CASE ViewPlay
  BY <1>4 DEF ViewPlay, TypeOK, Watched!ViewPlay
<1>5. CASE ControllerPlay
  BY <1>5 DEF ControllerPlay, TypeOK, Watched!ControllerPlay
<1>6. CASE FullScreenAction
  BY <1>6 DEF FullScreenAction, playerVars, Watched!FullScreenAction
<1>7. CASE BackAction
  BY <1>7 DEF BackAction, playerVars, Watched!BackAction
<1> QED
  BY <1>1, <1>2, <1>3, <1>4, <1>5, <1>6, <1>7 DEF Touch

(* So is every step of the player, the system and the observer. *)
LEMMA SystemRefines ==
  ASSUME TypeOK, System
  PROVE  Watched!WatchedNext \/ UNCHANGED Watched!watchedVars
<1> USE DEF InFront, Surfaces, Watched!Surfaces, Watched!watchedVars, Watched!screenVars,
            Watched!WatchedNext, Watched!Unwatched, Watched!ArriveWatched, playerVars
<1>1. CASE ViewDidAppear
  BY <1>1 DEF ViewDidAppear, TypeOK, Watched!ViewDidAppear
<1>2. CASE ViewDismissed
  BY <1>2 DEF ViewDismissed, TypeOK, Watched!ViewDismissed
<1>3. CASE PlayNextVideo
  BY <1>3 DEF PlayNextVideo, Watched!PlayNextVideo
<1>4. CASE ItemReady \/ SeekEnds \/ Advance \/ \E s \in Surfaces : Tick(s)
  BY <1>4 DEF ItemReady, SeekEnds, Advance, Tick
<1>5. CASE ItemFails \/ StopsOnItsOwn
  BY <1>5 DEF ItemFails, StopsOnItsOwn, Watched!StopsOnItsOwn
<1>6. CASE AppMovedToBackground
  BY <1>6 DEF AppMovedToBackground, TypeOK, Watched!AppMovedToBackground
<1>7. CASE LateStart
  BY <1>7 DEF LateStart, Watched!LateStart
<1> QED
  BY <1>1, <1>2, <1>3, <1>4, <1>5, <1>6, <1>7 DEF System

(* The clock implements the screens: whatever the position and the item do,  *)
(* only the steps of WatchedScreens start or stop the player, set the button *)
(* in front, or give and take its observer, for any durations and positions. *)
THEOREM ClockImplementsScreens == Spec => ImplementsScreens
<1>1. Init => Watched!Init /\ InFront(observed) = FALSE
  BY DEF Init, InFront, Surfaces, Watched!Init
<1>2. TypeOK /\ [Next]_vars => [Watched!WatchedNext]_(Watched!watchedVars)
  <2>1. UNCHANGED vars => UNCHANGED Watched!watchedVars
    BY DEF vars, playerVars, InFront, Watched!watchedVars, Watched!screenVars
  <2> QED
    BY <2>1, TouchRefines, SystemRefines DEF Next
<1> QED
  BY <1>1, <1>2, ClockTypeCorrect, PTL DEF Spec, ImplementsScreens, Watched!WatchedSpec
=============================================================================
