------------------------ MODULE PlaybackSettingsProofs ------------------------
(***************************************************************************)
(* The properties of speed and quality for any selection of the rows of    *)
(* the menu.  The screens hand over a property one way and a title the     *)
(* other, so the invariant behind them relates the two where they differ.  *)
(***************************************************************************)
EXTENDS PlaybackSettings, TLAPS

-----------------------------------------------------------------------------
(* The tables *)

ShownSpeeds == MenuSpeeds \cup {"0.5x"}

(* The titles are the menu's rows but for half speed. *)
LEMMA TitlesOfSpeeds ==
  /\ SpeedTitles \subseteq ShownSpeeds
  /\ \A r \in MenuSpeeds : SpeedTitle(r) \in SpeedTitles
  /\ \A r \in SpeedTitles : r \notin KnownSpeeds => r = "0.5x"
  /\ "1.0x" \in SpeedTitles
<1>1. SpeedTitle("1.0x") = "1.0x" /\ "1.0x" \in MenuSpeeds
  BY DEF SpeedTitle, MenuSpeeds
<1> QED
  BY <1>1 DEF SpeedTitles, SpeedTitle, ShownSpeeds, KnownSpeeds, MenuSpeeds

(* A title shows the rate of the speed it was set from. *)
LEMMA TitleShowsRate ==
  ASSUME NEW r \in KnownSpeeds
  PROVE  ShownRate(SpeedTitle(r)) = RateOf(r)
BY DEF KnownSpeeds, MenuSpeeds, ShownRate, SpeedTitle, RateOf

(* "3x" is a case of the code, but no row of the menu. *)
LEMMA RowsAreKnown == \A r \in MenuSpeeds \cup SpeedTitles : r \in KnownSpeeds => r \in MenuSpeeds
<1>1. "3x" \notin MenuSpeeds \cup SpeedTitles
  BY DEF MenuSpeeds, SpeedTitles, SpeedTitle
<1> QED
  BY <1>1 DEF KnownSpeeds

(* A row of the quality menu is a case of the code, or "Auto", and its limit is in the table. *)
LEMMA RowsOfQuality ==
  ASSUME NEW q \in MenuQualities
  PROVE  /\ IF q \in KnownQualities THEN q # "Auto" ELSE q = "Auto"
         /\ \A s \in Surfaces : BitRate(IF q \in KnownQualities THEN q ELSE "360p") \in Limits(s, q)
         /\ BitRate(q) \in Limits("view", q)
<1>1. IF q \in KnownQualities THEN q # "Auto" ELSE q = "Auto"
  BY DEF MenuQualities, KnownQualities
<1> QED
  BY <1>1 DEF Limits

Rates == {0} \cup {RateOf(r) : r \in MenuSpeeds}
Peaks == {0} \cup {BitRate(q) : q \in MenuQualities}

-----------------------------------------------------------------------------
(* The inductive invariant *)

(* The view's properties are never empty, those of a controller are not once it *)
(* is on its way, and a controller titled "0.5x" was set to half speed.         *)
HandedOver ==
  /\ speed["view"] # "" /\ quality["view"] # ""
  /\ screen # "view" => speed["controller"] # "" /\ quality["controller"] # ""
  /\ speedTitle["controller"] = "0.5x" => speed["controller"] \in {".5x", "0.5x"}

SettingsInv == TypeOK /\ HandedOver

(* setVideoSpeed keeps its variables in range. *)
LEMMA SetSpeedType ==
  ASSUME TypeOK, NEW s \in Surfaces, NEW r \in MenuSpeeds \cup SpeedTitles, NEW current \in Rates,
         SetVideoSpeed(s, r, current)
  PROVE  /\ speed' \in [Surfaces -> MenuSpeeds \cup SpeedTitles \cup {""}]
         /\ speedTitle' \in [Surfaces -> SpeedTitles]
         /\ rate' \in Rates
         /\ speed' = [speed EXCEPT ![s] = r]
         /\ speedTitle'[s] = "0.5x" => r \in {".5x", "0.5x"}
         /\ \A t \in Surfaces : t # s => speedTitle'[t] = speedTitle[t]
         /\ selected' \in [Surfaces -> BOOLEAN]
<1>0. selected' \in [Surfaces -> BOOLEAN]
  BY DEF SetVideoSpeed, TypeOK
<1>1. speed' = [speed EXCEPT ![s] = r]
  BY DEF SetVideoSpeed
<1>2. speed' \in [Surfaces -> MenuSpeeds \cup SpeedTitles \cup {""}]
  BY <1>1 DEF TypeOK
<1>3. CASE r \in KnownSpeeds
  <2>1. r \in MenuSpeeds
    BY <1>3, RowsAreKnown
  <2>2. speedTitle' = [speedTitle EXCEPT ![s] = SpeedTitle(r)] /\ rate' = RateOf(r)
    BY <1>3 DEF SetVideoSpeed
  <2>3. SpeedTitle(r) \in SpeedTitles
    BY <2>1, TitlesOfSpeeds
  <2>4. rate' \in Rates
    BY <2>1, <2>2 DEF Rates
  <2>5. SpeedTitle(r) = "0.5x" => r \in {".5x", "0.5x"}
    BY DEF SpeedTitle
  <2> QED
    BY <1>0, <1>1, <1>2, <2>2, <2>3, <2>4, <2>5 DEF TypeOK
<1>4. CASE r \notin KnownSpeeds
  <2>1. r = "0.5x"
    BY <1>4, TitlesOfSpeeds DEF KnownSpeeds
  <2>2. UNCHANGED speedTitle /\ rate' = current
    BY <1>4 DEF SetVideoSpeed
  <2> QED
    BY <1>0, <1>1, <1>2, <2>1, <2>2 DEF TypeOK
<1> QED
  BY <1>3, <1>4

(* So does setVideoQuality. *)
LEMMA SetQualityType ==
  ASSUME TypeOK, NEW s \in Surfaces, NEW q \in MenuQualities, SetVideoQuality(s, q)
  PROVE  /\ quality' \in [Surfaces -> MenuQualities \cup {""}]
         /\ qualityTitle' \in [Surfaces -> MenuQualities]
         /\ peak' \in Peaks
         /\ quality' = [quality EXCEPT ![s] = q]
<1>1. (IF q \in KnownQualities THEN q ELSE "Auto") \in MenuQualities
  BY DEF MenuQualities
<1>2. (IF q \in KnownQualities THEN q ELSE "360p") \in MenuQualities
  BY DEF MenuQualities
<1>3. peak' \in Peaks
  BY <1>2 DEF SetVideoQuality, Peaks
<1> QED
  BY <1>1, <1>3 DEF SetVideoQuality, TypeOK

(* What Pause writes *)
LEMMA PauseType == ASSUME TypeOK, Pause PROVE rate' = 0 /\ rate' \in Rates /\ UNCHANGED <<speed, speedTitle>>
BY DEF Pause, Rates

(* What pauseAction writes *)
LEMMA PauseActionType ==
  ASSUME TypeOK, NEW s \in Surfaces, PauseAction(s)
  PROVE  rate' \in Rates /\ selected' \in [Surfaces -> BOOLEAN] /\ UNCHANGED <<speed, speedTitle>>
BY PauseType DEF PauseAction, TypeOK

(* The speed or the title that a screen passes to setVideoSpeed is one of the menu's or "0.5x". *)
LEMMA Passed ==
  ASSUME SettingsInv
  PROVE  /\ speed["view"] \in MenuSpeeds \cup SpeedTitles
         /\ quality["view"] \in MenuQualities
         /\ screen # "view" => /\ speed["controller"] \in MenuSpeeds \cup SpeedTitles
                               /\ quality["controller"] \in MenuQualities
         /\ speedTitle["controller"] \in SpeedTitles
         /\ qualityTitle["controller"] \in MenuQualities
         /\ NormalRate \in Rates /\ rate \in Rates
<1>1. NormalRate \in Rates
  <2>1. RateOf("1.0x") = 100 /\ "1.0x" \in MenuSpeeds
    BY DEF RateOf, MenuSpeeds
  <2> QED
    BY <2>1 DEF Rates, NormalRate
<1> QED
  BY <1>1 DEF SettingsInv, TypeOK, HandedOver, Surfaces, Rates

(* Every step keeps the invariant. *)
LEMMA SettingsPreserved == ASSUME SettingsInv, [Next]_vars PROVE SettingsInv'
<1> USE Passed DEF speedVars, qualityVars
<1>0. TypeOK /\ HandedOver /\ "view" \in Surfaces /\ "controller" \in Surfaces
  BY DEF SettingsInv, Surfaces
<1>1. ASSUME NEW r \in Speeds, PickSpeed(r) PROVE SettingsInv'
  <2>1. r \in MenuSpeeds \cup SpeedTitles /\ r # "" /\ screen \in Surfaces /\ SetVideoSpeed(screen, r, rate)
    BY <1>1, RowsExist DEF PickSpeed, MenuSpeeds
  <2>2. /\ speed' \in [Surfaces -> MenuSpeeds \cup SpeedTitles \cup {""}]
        /\ speedTitle' \in [Surfaces -> SpeedTitles]
        /\ rate' \in Rates
        /\ speed' = [speed EXCEPT ![screen] = r]
        /\ speedTitle'[screen] = "0.5x" => r \in {".5x", "0.5x"}
        /\ \A t \in Surfaces : t # screen => speedTitle'[t] = speedTitle[t]
        /\ selected' \in [Surfaces -> BOOLEAN]
    BY <1>0, <2>1, SetSpeedType
  <2>3. UNCHANGED <<screen, quality, qualityTitle, peak>>
    BY <1>1 DEF PickSpeed
  <2>4. TypeOK'
    BY <1>0, <2>2, <2>3 DEF TypeOK, Rates
  <2>5. HandedOver'
    BY <1>0, <2>1, <2>2, <2>3 DEF HandedOver, TypeOK
  <2> QED
    BY <2>4, <2>5 DEF SettingsInv
<1>2. ASSUME NEW q \in Qualities, PickQuality(q) PROVE SettingsInv'
  <2>1. q \in MenuQualities /\ q # "" /\ screen \in Surfaces /\ SetVideoQuality(screen, q)
    BY <1>2, RowsExist DEF PickQuality, MenuQualities
  <2>2. /\ quality' \in [Surfaces -> MenuQualities \cup {""}]
        /\ qualityTitle' \in [Surfaces -> MenuQualities]
        /\ peak' \in Peaks
        /\ quality' = [quality EXCEPT ![screen] = q]
    BY <1>0, <2>1, SetQualityType
  <2> QED
    BY <1>0, <1>2, <2>1, <2>2 DEF PickQuality, SettingsInv, TypeOK, HandedOver, Peaks
<1>3. CASE ViewPlay
  <2>1. CASE PauseAction("view") /\ UNCHANGED peak
    BY <1>0, <1>3, <2>1, PauseActionType DEF ViewPlay, SettingsInv, TypeOK, HandedOver, Rates
  <2>2. CASE /\ peak' = BitRate(quality["view"])
             /\ SetVideoSpeed("view", speed["view"], NormalRate)
    <3>1. /\ speed' \in [Surfaces -> MenuSpeeds \cup SpeedTitles \cup {""}]
          /\ speedTitle' \in [Surfaces -> SpeedTitles]
          /\ rate' \in Rates
          /\ speed' = [speed EXCEPT !["view"] = speed["view"]]
          /\ selected' \in [Surfaces -> BOOLEAN]
          /\ \A t \in Surfaces : t # "view" => speedTitle'[t] = speedTitle[t]
      BY <1>0, <2>2, SetSpeedType
    <3>2. peak' \in Peaks
      BY <2>2 DEF Peaks
    <3>3. UNCHANGED <<screen, quality, qualityTitle>>
      BY <1>3 DEF ViewPlay
    <3> QED
      BY <1>0, <2>2, <3>1, <3>2, <3>3 DEF SettingsInv, TypeOK, HandedOver, Rates, Peaks
  <2> QED
    BY <1>3, <2>1, <2>2 DEF ViewPlay
<1>4. ASSUME SetVideoSpeed("controller", speed["controller"], NormalRate),
             SetVideoQuality("controller", quality["controller"]),
             screen # "view", screen' \in {screen, "controller"}
      PROVE  SettingsInv'
  <2>1. /\ speed' \in [Surfaces -> MenuSpeeds \cup SpeedTitles \cup {""}]
        /\ speedTitle' \in [Surfaces -> SpeedTitles]
        /\ rate' \in Rates
        /\ speed' = [speed EXCEPT !["controller"] = speed["controller"]]
        /\ speedTitle'["controller"] = "0.5x" => speed["controller"] \in {".5x", "0.5x"}
        /\ selected' \in [Surfaces -> BOOLEAN]
    BY <1>0, <1>4, SetSpeedType
  <2>2. /\ quality' \in [Surfaces -> MenuQualities \cup {""}]
        /\ qualityTitle' \in [Surfaces -> MenuQualities]
        /\ peak' \in Peaks
        /\ quality' = [quality EXCEPT !["controller"] = quality["controller"]]
    BY <1>0, <1>4, SetQualityType
  <2> QED
    BY <1>0, <1>4, <2>1, <2>2 DEF SettingsInv, TypeOK, HandedOver, Rates, Peaks
<1>5. CASE ControllerPlay
  <2>1. CASE PauseAction("controller") /\ UNCHANGED qualityVars
    BY <1>0, <1>5, <2>1, PauseActionType DEF ControllerPlay, SettingsInv, TypeOK, HandedOver, Rates
  <2> QED
    BY <1>4, <1>5, <2>1 DEF ControllerPlay
<1>6. CASE ForwardPastEnd
  BY <1>0, <1>6 DEF ForwardPastEnd, SettingsInv, TypeOK, HandedOver
<1>7. CASE StopsOnItsOwn
  BY <1>0, <1>7, PauseType DEF StopsOnItsOwn, SettingsInv, TypeOK, HandedOver, Rates
<1>8. CASE PlayNextVideo
  BY <1>0, <1>8 DEF PlayNextVideo, SettingsInv, TypeOK, HandedOver, Rates
<1>9. CASE FullScreenAction
  <2>1. speedTitle' \in [Surfaces -> SpeedTitles] /\ speedTitle'["controller"] = "1.0x"
    BY <1>0, <1>9, TitlesOfSpeeds DEF FullScreenAction, TypeOK
  <2>2. qualityTitle' \in [Surfaces -> MenuQualities]
    BY <1>0, <1>9 DEF FullScreenAction, TypeOK, MenuQualities
  <2>3. /\ speed' = [speed EXCEPT !["controller"] = speed["view"]]
        /\ quality' = [quality EXCEPT !["controller"] = quality["view"]]
        /\ screen' = "entering"
        /\ selected' \in [Surfaces -> BOOLEAN]
        /\ UNCHANGED <<rate, peak>>
    BY <1>0, <1>9 DEF FullScreenAction, TypeOK
  <2> QED
    BY <1>0, <2>1, <2>2, <2>3 DEF SettingsInv, TypeOK, HandedOver
<1>10. CASE ViewDidAppear
  <2>1. CASE rate = 0 /\ UNCHANGED <<speedVars, qualityVars>>
    BY <1>0, <1>10, <2>1 DEF ViewDidAppear, SettingsInv, TypeOK, HandedOver
  <2> QED
    BY <1>4, <1>10, <2>1 DEF ViewDidAppear
<1>11. CASE BackAction
  BY <1>0, <1>11 DEF BackAction, SettingsInv, TypeOK, HandedOver
<1>12. CASE ViewDismissed
  <2> DEFINE r == speedTitle["controller"]
             q == qualityTitle["controller"]
  <2>0. r \in SpeedTitles /\ r # "" /\ q \in MenuQualities /\ q # ""
    BY TitlesOfSpeeds DEF MenuQualities, ShownSpeeds, MenuSpeeds
  <2>1. CASE SetVideoSpeed("view", r, NormalRate) /\ SetVideoQuality("view", q)
    <3>1. /\ speed' \in [Surfaces -> MenuSpeeds \cup SpeedTitles \cup {""}]
          /\ speedTitle' \in [Surfaces -> SpeedTitles]
          /\ rate' \in Rates
          /\ speed' = [speed EXCEPT !["view"] = r]
          /\ selected' \in [Surfaces -> BOOLEAN]
          /\ \A t \in Surfaces : t # "view" => speedTitle'[t] = speedTitle[t]
      BY <1>0, <2>0, <2>1, SetSpeedType
    <3>2. /\ quality' \in [Surfaces -> MenuQualities \cup {""}]
          /\ qualityTitle' \in [Surfaces -> MenuQualities]
          /\ peak' \in Peaks
          /\ quality' = [quality EXCEPT !["view"] = q]
      BY <1>0, <2>0, <2>1, SetQualityType
    <3> QED
      BY <1>0, <1>12, <2>0, <2>1, <3>1, <3>2
         DEF ViewDismissed, SettingsInv, TypeOK, HandedOver, Rates, Peaks
  <2>2. CASE /\ speed' = [speed EXCEPT !["view"] = r]
             /\ quality' = [quality EXCEPT !["view"] = q]
             /\ selected' = [selected EXCEPT !["view"] = FALSE]
             /\ UNCHANGED <<speedTitle, qualityTitle, rate, peak>>
    BY <1>0, <1>12, <2>0, <2>2 DEF ViewDismissed, SettingsInv, TypeOK, HandedOver
  <2> QED
    BY <1>12, <2>1, <2>2 DEF ViewDismissed
<1>13. CASE UNCHANGED vars
  BY <1>0, <1>13 DEF vars, SettingsInv, TypeOK, HandedOver
<1>14. CASE AppMovedToBackground
  BY <1>0, <1>14, PauseActionType DEF AppMovedToBackground, SettingsInv, TypeOK, HandedOver, Rates
<1>15. CASE LateStart
  <2>1. rate' \in Rates /\ peak' \in Peaks /\ UNCHANGED <<speed, speedTitle>>
    BY <1>0, <1>15, PauseType, RowsExist DEF LateStart, TypeOK, Rates, Peaks, MenuSpeeds, MenuQualities
  <2> QED
    BY <1>0, <1>15, <2>1 DEF LateStart, SettingsInv, TypeOK, HandedOver, Rates, Peaks
<1> QED
  BY <1>1, <1>2, <1>3, <1>5, <1>6, <1>7, <1>8, <1>9, <1>10, <1>11, <1>12, <1>13, <1>14, <1>15 DEF Next

(* The inductive invariant holds in every reachable state. *)
THEOREM SettingsInvariant == Spec => []SettingsInv
<1>1. Init => SettingsInv
  <2> SUFFICES ASSUME Init PROVE SettingsInv
    OBVIOUS
  <2>1. "1.0x" \in MenuSpeeds /\ "360p" \in MenuQualities /\ "1.0x" \in SpeedTitles
    BY TitlesOfSpeeds DEF MenuSpeeds, MenuQualities
  <2>2. TypeOK
    BY <2>1 DEF Init, TypeOK, Surfaces
  <2>3. HandedOver
    BY DEF Init, HandedOver, Surfaces
  <2> QED
    BY <2>2, <2>3 DEF SettingsInv
<1> QED
  BY <1>1, SettingsPreserved, PTL DEF Spec

(* Type correctness of the settings for any rows the user may pick. *)
THEOREM SettingsTypeCorrect == Spec => []TypeOK
<1>1. SettingsInv => TypeOK
  BY DEF SettingsInv
<1> QED
  BY <1>1, SettingsInvariant, PTL

-----------------------------------------------------------------------------
(* Speed *)

(* After setVideoSpeed with a speed it knows, the title shows the rate. *)
LEMMA SetSpeedShows ==
  ASSUME TypeOK, NEW s \in Surfaces, NEW r, NEW current, SetVideoSpeed(s, r, current)
  PROVE  /\ speed' = [speed EXCEPT ![s] = r]
         /\ speed'[s] = r
         /\ r \in KnownSpeeds => rate' = ShownRate(speedTitle'[s])
<1>1. speed' = [speed EXCEPT ![s] = r] /\ speed'[s] = r
  BY DEF SetVideoSpeed, TypeOK
<1>2. ASSUME r \in KnownSpeeds PROVE rate' = ShownRate(speedTitle'[s])
  <2>1. speedTitle'[s] = SpeedTitle(r) /\ rate' = RateOf(r)
    BY <1>2 DEF SetVideoSpeed, TypeOK
  <2> QED
    BY <1>2, <2>1, TitleShowsRate
<1> QED
  BY <1>1, <1>2

(* A shown speed survives every step but playNextVideo and a late start. *)
LEMMA SpeedShownPreserved ==
  ASSUME SettingsInv, SpeedShown, [Next]_vars, ~PlayNextVideo, ~LateStart PROVE SpeedShown'
<1>0. TypeOK /\ "view" \in Surfaces /\ "controller" \in Surfaces
  BY DEF SettingsInv, Surfaces
<1>1. ASSUME NEW s \in Surfaces, NEW r, NEW current, SetVideoSpeed(s, r, current), screen' = s
      PROVE  SpeedShown'
  <2>1. speed'[s] = r /\ (r \in KnownSpeeds => rate' = ShownRate(speedTitle'[s]))
    BY <1>0, <1>1, SetSpeedShows
  <2> QED
    BY <1>1, <2>1 DEF SpeedShown
<1>2. ASSUME rate' = 0 PROVE SpeedShown'
  BY <1>2 DEF SpeedShown
<1>3. ASSUME UNCHANGED <<screen, speed, speedTitle, rate>> PROVE SpeedShown'
  BY <1>3 DEF SpeedShown
<1>4. ASSUME NEW r \in Speeds, PickSpeed(r) PROVE SpeedShown'
  BY <1>1, <1>4 DEF PickSpeed
<1>5. ASSUME NEW q \in Qualities, PickQuality(q) PROVE SpeedShown'
  BY <1>3, <1>5 DEF PickQuality, speedVars
<1>6. CASE ViewPlay
  BY <1>0, <1>1, <1>2, <1>6 DEF ViewPlay, PauseAction, Pause
<1>7. CASE ControllerPlay
  BY <1>0, <1>1, <1>2, <1>7 DEF ControllerPlay, PauseAction, Pause
<1>8. CASE ForwardPastEnd
  BY <1>3, <1>8 DEF ForwardPastEnd
<1>9. CASE StopsOnItsOwn \/ AppMovedToBackground
  BY <1>2, <1>9 DEF StopsOnItsOwn, AppMovedToBackground, PauseAction, Pause
<1>10. CASE FullScreenAction \/ BackAction
  BY <1>10 DEF FullScreenAction, BackAction, SpeedShown, Surfaces
<1>11. CASE ViewDidAppear
  BY <1>0, <1>1, <1>2, <1>11 DEF ViewDidAppear, speedVars
<1>12. CASE ViewDismissed
  BY <1>0, <1>1, <1>2, <1>12 DEF ViewDismissed
<1>13. CASE UNCHANGED vars
  BY <1>3, <1>13 DEF vars, speedVars
<1> QED
  BY <1>4, <1>5, <1>6, <1>7, <1>8, <1>9, <1>10, <1>11, <1>12, <1>13 DEF Next

(* A speed once shown truly stays so until playNextVideo starts the player on *)
(* its own (PsVideoView.swift:118-123) or a replaced view does (:41-44), for  *)
(* any rows the user may pick.                                                *)
THEOREM SpeedAlwaysStaysShown == Spec => SpeedStaysShown
<1>1. SettingsInv /\ [Next]_vars
        => [SpeedShown /\ ~(PlayNextVideo \/ LateStart) => SpeedShown']_vars
  BY SpeedShownPreserved
<1> QED
  BY <1>1, SettingsInvariant, PTL DEF Spec, SpeedStaysShown

-----------------------------------------------------------------------------
(* The way back *)

(* After setVideoQuality with a row of the menu, property, title and limit agree. *)
LEMMA SetQualityShows ==
  ASSUME TypeOK, NEW s \in Surfaces, NEW q \in MenuQualities, SetVideoQuality(s, q)
  PROVE  quality'[s] = q /\ qualityTitle'[s] = q /\ peak' \in Limits(s, q)
<1>1. quality'[s] = q /\ qualityTitle'[s] = (IF q \in KnownQualities THEN q ELSE "Auto")
  BY DEF SetVideoQuality, TypeOK
<1>2. peak' = BitRate(IF q \in KnownQualities THEN q ELSE "360p")
  BY DEF SetVideoQuality
<1>3. qualityTitle'[s] = q
  BY <1>1, RowsOfQuality
<1> QED
  BY <1>1, <1>2, <1>3, RowsOfQuality

(* The titles of a controller are those of its properties, but for half speed *)
(* and for what was handed over and not set since.                            *)
Carried ==
  /\ \/ speedTitle["controller"] = speed["controller"]
     \/ speed["controller"] \in {".5x", "0.5x"}
     \/ /\ speed["controller"] = speed["view"]
        /\ speedTitle["controller"] = "1.0x"
        /\ ~selected["controller"]
  /\ \/ qualityTitle["controller"] = quality["controller"]
     \/ /\ quality["controller"] = quality["view"]
        /\ qualityTitle["controller"] = "360p"

CarriedInFullScreen == screen # "view" => Carried

(* setVideoSpeed on the controller titles it with the speed it is given, or with half speed. *)
LEMMA SetSpeedCarries ==
  ASSUME TypeOK, NEW r \in MenuSpeeds \cup SpeedTitles, NEW current,
         SetVideoSpeed("controller", r, current)
  PROVE  /\ speed'["controller"] = r
         /\ speedTitle'["controller"] = r \/ r \in {".5x", "0.5x"}
<1>0. "controller" \in Surfaces
  BY DEF Surfaces
<1>1. speed'["controller"] = r
  BY <1>0 DEF SetVideoSpeed, TypeOK
<1>2. CASE r \in KnownSpeeds
  <2>1. speedTitle'["controller"] = SpeedTitle(r)
    BY <1>0, <1>2 DEF SetVideoSpeed, TypeOK
  <2> QED
    BY <1>1, <2>1 DEF SpeedTitle
<1>3. CASE r \notin KnownSpeeds
  BY <1>1, <1>3, TitlesOfSpeeds DEF KnownSpeeds
<1> QED
  BY <1>2, <1>3

(* Every step keeps it. *)
LEMMA CarriedPreserved ==
  ASSUME SettingsInv, CarriedInFullScreen, [Next]_vars PROVE CarriedInFullScreen'
<1> USE DEF CarriedInFullScreen
<1>0. TypeOK /\ "view" \in Surfaces /\ "controller" \in Surfaces
  BY DEF SettingsInv, Surfaces
<1>1. ASSUME NEW r \in Speeds, PickSpeed(r) PROVE CarriedInFullScreen'
  <2>1. SUFFICES ASSUME screen = "controller" PROVE Carried'
    BY <1>1 DEF PickSpeed, Surfaces
  <2>2. r \in MenuSpeeds \cup SpeedTitles
    BY RowsExist
  <2>3. /\ speed'["controller"] = r
        /\ speedTitle'["controller"] = r \/ r \in {".5x", "0.5x"}
    BY <1>0, <1>1, <2>1, <2>2, SetSpeedCarries DEF PickSpeed
  <2>4. UNCHANGED <<quality, qualityTitle>> /\ Carried
    BY <1>1, <2>1 DEF PickSpeed, qualityVars
  <2> QED
    BY <2>3, <2>4 DEF Carried
<1>2. ASSUME NEW q \in Qualities, PickQuality(q) PROVE CarriedInFullScreen'
  <2>1. SUFFICES ASSUME screen = "controller" PROVE Carried'
    BY <1>2 DEF PickQuality, Surfaces
  <2>2. quality'["controller"] = q /\ qualityTitle'["controller"] = q
    BY <1>0, <1>2, <2>1, RowsExist, SetQualityShows DEF PickQuality
  <2>3. UNCHANGED <<speed, speedTitle, selected>> /\ Carried
    BY <1>2, <2>1 DEF PickQuality, speedVars
  <2> QED
    BY <2>2, <2>3 DEF Carried
<1>3. CASE ViewPlay
  BY <1>3 DEF ViewPlay
<1>4. ASSUME SetVideoSpeed("controller", speed["controller"], NormalRate),
             SetVideoQuality("controller", quality["controller"]),
             screen # "view"
      PROVE  Carried'
  <2>1. /\ speed["controller"] \in MenuSpeeds \cup SpeedTitles
        /\ quality["controller"] \in MenuQualities
    BY <1>4, Passed
  <2>2. /\ speed'["controller"] = speed["controller"]
        /\ \/ speedTitle'["controller"] = speed["controller"]
           \/ speed["controller"] \in {".5x", "0.5x"}
    BY <1>0, <1>4, <2>1, SetSpeedCarries
  <2>3. /\ quality'["controller"] = quality["controller"]
        /\ qualityTitle'["controller"] = quality["controller"]
    BY <1>0, <1>4, <2>1, SetQualityShows
  <2> QED
    BY <2>2, <2>3 DEF Carried
<1>5. ASSUME UNCHANGED <<screen, speed, speedTitle, quality, qualityTitle>>,
             selected'["controller"] => selected["controller"]
      PROVE  CarriedInFullScreen'
  BY <1>5 DEF Carried
<1>6. CASE ControllerPlay
  <2>1. CASE PauseAction("controller") /\ UNCHANGED qualityVars
    <3>1. ~selected'["controller"]
      BY <1>0, <2>1 DEF PauseAction, TypeOK
    <3> QED
      BY <1>5, <1>6, <2>1, <3>1 DEF ControllerPlay, PauseAction, Pause, qualityVars
  <2> QED
    BY <1>4, <1>6, <2>1 DEF ControllerPlay
<1>7. CASE ForwardPastEnd
  <2>1. selected'["controller"] => selected["controller"]
    BY <1>0, <1>7 DEF ForwardPastEnd, TypeOK
  <2> QED
    BY <1>5, <1>7, <2>1 DEF ForwardPastEnd, qualityVars
<1>8. CASE StopsOnItsOwn \/ LateStart \/ PlayNextVideo
  BY <1>5, <1>8 DEF StopsOnItsOwn, LateStart, PlayNextVideo, Pause, qualityVars
<1>9. CASE AppMovedToBackground
  <2>1. ~selected'["controller"]
    BY <1>0, <1>9 DEF AppMovedToBackground, PauseAction, TypeOK
  <2> QED
    BY <1>5, <1>9, <2>1 DEF AppMovedToBackground, PauseAction, Pause, qualityVars
<1>10. CASE FullScreenAction
  <2>1. /\ speed'["controller"] = speed'["view"]
        /\ speedTitle'["controller"] = "1.0x"
        /\ ~selected'["controller"]
    BY <1>0, <1>10 DEF FullScreenAction, TypeOK
  <2>2. quality'["controller"] = quality'["view"] /\ qualityTitle'["controller"] = "360p"
    BY <1>0, <1>10 DEF FullScreenAction, TypeOK
  <2> QED
    BY <2>1, <2>2 DEF Carried
<1>11. CASE ViewDidAppear
  <2>1. CASE UNCHANGED <<speedVars, qualityVars>>
    BY <1>11, <2>1 DEF ViewDidAppear, Carried, speedVars, qualityVars
  <2> QED
    BY <1>4, <1>11, <2>1 DEF ViewDidAppear
<1>12. CASE BackAction
  BY <1>12 DEF BackAction, Carried, speedVars, qualityVars
<1>13. CASE ViewDismissed
  BY <1>13 DEF ViewDismissed
<1>14. CASE UNCHANGED vars
  BY <1>5, <1>14 DEF vars, speedVars, qualityVars
<1> QED
  BY <1>1, <1>2, <1>3, <1>6, <1>7, <1>8, <1>9, <1>10, <1>11, <1>12, <1>13, <1>14 DEF Next

(* The view takes the titles of the controller for its speed and quality. *)
LEMMA TitlesComeBack ==
  ASSUME TypeOK, ViewDismissed
  PROVE  /\ speed'["view"] = speedTitle["controller"]
         /\ quality'["view"] = qualityTitle["controller"]
<1>0. "view" \in Surfaces
  BY DEF Surfaces
<1>1. CASE /\ SetVideoSpeed("view", speedTitle["controller"], NormalRate)
           /\ SetVideoQuality("view", qualityTitle["controller"])
  BY <1>0, <1>1 DEF SetVideoSpeed, SetVideoQuality, TypeOK
<1>2. CASE /\ speed' = [speed EXCEPT !["view"] = speedTitle["controller"]]
           /\ quality' = [quality EXCEPT !["view"] = qualityTitle["controller"]]
  BY <1>0, <1>2 DEF TypeOK
<1> QED
  BY <1>1, <1>2 DEF ViewDismissed

(* What a controller holds comes back to the view, for any rows the user may *)
(* pick, but half speed and what was handed over paused and not set since    *)
(* (PsVideoView.swift:436-437, 478-481, PsVideoFullView.swift:46, 69).       *)
THEOREM ChoiceAlwaysComesBack == Spec => ChoiceComesBack
<1>1. Init => CarriedInFullScreen
  BY DEF Init, CarriedInFullScreen
<1>2. SettingsInv /\ CarriedInFullScreen /\ [Next]_vars => CarriedInFullScreen'
  BY CarriedPreserved
<1>3. SettingsInv /\ CarriedInFullScreen /\ [Next]_vars =>
        [ViewDismissed =>
           /\ \/ speed'["view"] = speed["controller"]
              \/ speed["controller"] \in {".5x", "0.5x"}
              \/ /\ speed["controller"] = speed["view"]
                 /\ speedTitle["controller"] = "1.0x"
                 /\ ~selected["controller"]
           /\ \/ quality'["view"] = quality["controller"]
              \/ /\ quality["controller"] = quality["view"]
                 /\ qualityTitle["controller"] = "360p"]_vars
  <2> SUFFICES ASSUME SettingsInv, CarriedInFullScreen, ViewDismissed
               PROVE  /\ \/ speed'["view"] = speed["controller"]
                         \/ speed["controller"] \in {".5x", "0.5x"}
                         \/ /\ speed["controller"] = speed["view"]
                            /\ speedTitle["controller"] = "1.0x"
                            /\ ~selected["controller"]
                      /\ \/ quality'["view"] = quality["controller"]
                         \/ /\ quality["controller"] = quality["view"]
                            /\ qualityTitle["controller"] = "360p"
    OBVIOUS
  <2>1. Carried
    BY DEF CarriedInFullScreen, ViewDismissed
  <2>2. /\ speed'["view"] = speedTitle["controller"]
        /\ quality'["view"] = qualityTitle["controller"]
    BY TitlesComeBack DEF SettingsInv
  <2> QED
    BY <2>1, <2>2 DEF Carried
<1> QED
  BY <1>1, <1>2, <1>3, SettingsInvariant, PTL DEF Spec, ChoiceComesBack

-----------------------------------------------------------------------------
(* Quality *)

(* A shown quality survives every step but those named. *)
LEMMA QualityShownPreserved ==
  ASSUME SettingsInv, QualityShown, [Next]_vars,
         ~QualityStep
  PROVE  QualityShown'
<1>0. TypeOK /\ "view" \in Surfaces /\ "controller" \in Surfaces
  BY DEF SettingsInv, Surfaces
<1>1. ASSUME NEW s \in Surfaces, NEW q \in MenuQualities, SetVideoQuality(s, q), screen' = s
      PROVE  QualityShown'
  <2>1. quality'[s] = q /\ qualityTitle'[s] = q /\ peak' \in Limits(s, q)
    BY <1>0, <1>1, SetQualityShows
  <2> QED
    BY <1>1, <2>1 DEF QualityShown
<1>2. ASSUME UNCHANGED <<screen, qualityVars>> PROVE QualityShown'
  BY <1>2 DEF QualityShown, qualityVars
<1>3. ASSUME NEW r \in Speeds, PickSpeed(r) PROVE QualityShown'
  BY <1>2, <1>3 DEF PickSpeed
<1>4. ASSUME NEW q \in Qualities, PickQuality(q) PROVE QualityShown'
  BY <1>1, <1>4, RowsExist DEF PickQuality
<1>5. CASE ViewPlay
  <2>1. quality["view"] = qualityTitle["view"] /\ quality["view"] \in MenuQualities
    BY <1>5, Passed DEF ViewPlay, QualityShown, Surfaces
  <2>2. BitRate(quality["view"]) \in Limits("view", qualityTitle["view"])
    BY <2>1, RowsOfQuality
  <2>3. peak' = peak \/ peak' = BitRate(quality["view"])
    BY <1>5 DEF ViewPlay
  <2> QED
    BY <1>5, <2>2, <2>3 DEF ViewPlay, QualityShown
<1>6. CASE ControllerPlay
  <2>1. quality["controller"] \in MenuQualities
    BY <1>6, Passed DEF ControllerPlay
  <2> QED
    BY <1>0, <1>1, <1>2, <1>6, <2>1 DEF ControllerPlay
<1>7. CASE ForwardPastEnd
  BY <1>2, <1>7 DEF ForwardPastEnd
<1>8. CASE StopsOnItsOwn \/ AppMovedToBackground
  BY <1>2, <1>8 DEF StopsOnItsOwn, AppMovedToBackground
<1>9. CASE PlayNextVideo \/ LateStart
  BY <1>9 DEF QualityStep
<1>10. CASE FullScreenAction \/ BackAction
  BY <1>10 DEF FullScreenAction, BackAction, QualityShown, Surfaces
<1>11. CASE ViewDidAppear
  <2>1. quality["controller"] \in MenuQualities
    BY <1>11, Passed DEF ViewDidAppear
  <2> QED
    BY <1>0, <1>1, <1>11, <2>1 DEF ViewDidAppear, QualityStep
<1>12. CASE ViewDismissed
  BY <1>0, <1>1, <1>12, Passed DEF ViewDismissed, QualityStep
<1>13. CASE UNCHANGED vars
  BY <1>2, <1>13 DEF vars
<1> QED
  BY <1>3, <1>4, <1>5, <1>6, <1>7, <1>8, <1>9, <1>10, <1>11, <1>12, <1>13 DEF Next

(* Quality property, quality title and bit-rate limit of the screen in front, *)
(* once together, stay together but for a paused switch of screens,           *)
(* playNextVideo's item without a limit and the start of a replaced view, for *)
(* any rows the user may pick.                                                *)
THEOREM QualityAlwaysStaysShown == Spec => QualityStaysShown
<1>1. SettingsInv /\ [Next]_vars => [QualityShown /\ ~QualityStep => QualityShown']_vars
  BY QualityShownPreserved
<1> QED
  BY <1>1, SettingsInvariant, PTL DEF Spec, QualityStaysShown

-----------------------------------------------------------------------------
(* Refinement *)

(* Each start sets a rate that is not zero. *)
LEMMA SetSpeedStarts ==
  ASSUME TypeOK, NEW s \in Surfaces, NEW r, NEW current, current # 0, SetVideoSpeed(s, r, current)
  PROVE  /\ rate' # 0
         /\ selected'[s]
         /\ \A t \in Surfaces : t # s => selected'[t] = selected[t]
<1>1. r \in KnownSpeeds => RateOf(r) # 0
  BY DEF KnownSpeeds, MenuSpeeds, RateOf
<1> QED
  BY <1>1 DEF SetVideoSpeed, TypeOK

(* A row of the menu starts the player even from a pause. *)
LEMMA PickSpeedStarts ==
  ASSUME TypeOK, NEW s \in Surfaces, NEW r \in Speeds, NEW current, SetVideoSpeed(s, r, current)
  PROVE  rate' # 0 /\ selected'[s]
<1>1. r \in KnownSpeeds /\ RateOf(r) # 0
  BY RowsExist DEF KnownSpeeds, MenuSpeeds, RateOf
<1> QED
  BY <1>1 DEF SetVideoSpeed, TypeOK

(* The button of a controller that is about to appear is still untouched. *)
FreshButton == screen = "entering" => ~selected["controller"]

(* Nothing sets it before viewDidAppear does. *)
LEMMA FreshButtonPreserved == ASSUME TypeOK, FreshButton, [Next]_vars PROVE FreshButton'
<1> USE DEF FreshButton, Surfaces
<1>1. ASSUME NEW r \in Speeds, PickSpeed(r) PROVE FreshButton'
  BY <1>1 DEF PickSpeed
<1>2. ASSUME NEW q \in Qualities, PickQuality(q) PROVE FreshButton'
  BY <1>2 DEF PickQuality
<1>3. CASE ViewPlay \/ ControllerPlay \/ ForwardPastEnd
  BY <1>3 DEF ViewPlay, ControllerPlay, ForwardPastEnd
<1>4. CASE StopsOnItsOwn \/ LateStart \/ PlayNextVideo
  BY <1>4 DEF StopsOnItsOwn, LateStart, PlayNextVideo
<1>5. CASE AppMovedToBackground
  BY <1>5 DEF AppMovedToBackground, PauseAction, TypeOK
<1>6. CASE FullScreenAction
  BY <1>6 DEF FullScreenAction, TypeOK
<1>7. CASE ViewDidAppear \/ BackAction \/ ViewDismissed
  BY <1>7 DEF ViewDidAppear, BackAction, ViewDismissed
<1>8. CASE UNCHANGED vars
  BY <1>8 DEF vars, speedVars
<1> QED
  BY <1>1, <1>2, <1>3, <1>4, <1>5, <1>6, <1>7, <1>8 DEF Next

(* Every step of speed and quality is a step of the two screens, or none of theirs. *)
LEMMA SettingsStepRefines ==
  ASSUME TypeOK, FreshButton, [Next]_vars
  PROVE  [Screens!Next]_(Screens!screenVars)
<1> USE DEF Screens!Next, Screens!screenVars, Screens!Surfaces, Surfaces
<1>0. NormalRate # 0 /\ "view" \in Surfaces /\ "controller" \in Surfaces
  BY DEF NormalRate
<1>1. ASSUME NEW r \in Speeds, PickSpeed(r) PROVE Screens!SetVideoSpeed
  BY <1>1, PickSpeedStarts DEF PickSpeed, Screens!SetVideoSpeed
<1>2. ASSUME NEW q \in Qualities, PickQuality(q) PROVE UNCHANGED Screens!screenVars
  BY <1>2 DEF PickQuality, speedVars
<1>3. CASE ViewPlay
  <2>1. CASE selected["view"] /\ PauseAction("view")
    BY <1>3, <2>1 DEF ViewPlay, PauseAction, Pause, TypeOK, Screens!ViewPlay
  <2>2. CASE ~selected["view"] /\ SetVideoSpeed("view", speed["view"], NormalRate)
    BY <1>0, <1>3, <2>2, SetSpeedStarts DEF ViewPlay, Screens!ViewPlay
  <2> QED
    BY <1>3, <2>1, <2>2 DEF ViewPlay
<1>4. CASE ControllerPlay
  <2>1. CASE rate # 0 /\ PauseAction("controller")
    BY <1>4, <2>1 DEF ControllerPlay, PauseAction, Pause, TypeOK, Screens!ControllerPlay
  <2>2. CASE rate = 0 /\ SetVideoSpeed("controller", speed["controller"], NormalRate)
    BY <1>0, <1>4, <2>2, SetSpeedStarts DEF ControllerPlay, Screens!ControllerPlay
  <2> QED
    BY <1>4, <2>1, <2>2 DEF ControllerPlay
<1>5. CASE ForwardPastEnd
  BY <1>5 DEF ForwardPastEnd, TypeOK, Screens!ForwardPastEnd
<1>6. CASE StopsOnItsOwn
  BY <1>6 DEF StopsOnItsOwn, Pause, Screens!StopsOnItsOwn
<1>7. CASE AppMovedToBackground
  BY <1>7 DEF AppMovedToBackground, PauseAction, Pause, TypeOK, Screens!AppMovedToBackground
<1>8. CASE LateStart
  BY <1>8 DEF LateStart, Screens!LateStart
<1>9. CASE PlayNextVideo
  BY <1>0, <1>9 DEF PlayNextVideo, Screens!PlayNextVideo
<1>10. CASE FullScreenAction
  BY <1>10 DEF FullScreenAction, Screens!FullScreenAction
<1>11. CASE ViewDidAppear
  <2>1. CASE rate = 0 /\ UNCHANGED <<speedVars, qualityVars>>
    BY <1>11, <2>1 DEF ViewDidAppear, speedVars, FreshButton, TypeOK, Screens!ViewDidAppear
  <2>2. CASE rate # 0 /\ SetVideoSpeed("controller", speed["controller"], NormalRate)
    <3>1. rate' # 0 /\ selected'["controller"]
      BY <1>0, <2>2, SetSpeedStarts
    <3> QED
      BY <1>11, <2>2, <3>1 DEF ViewDidAppear, Screens!ViewDidAppear
  <2> QED
    BY <1>11, <2>1, <2>2 DEF ViewDidAppear
<1>12. CASE BackAction
  BY <1>12 DEF BackAction, speedVars, Screens!BackAction
<1>13. CASE ViewDismissed
  <2>1. CASE /\ rate = 0 /\ UNCHANGED rate
             /\ selected' = [selected EXCEPT !["view"] = FALSE]
    BY <1>13, <2>1 DEF ViewDismissed, TypeOK, Screens!ViewDismissed
  <2>2. CASE rate # 0 /\ SetVideoSpeed("view", speedTitle["controller"], NormalRate)
    <3>1. rate' # 0 /\ selected'["view"]
      BY <1>0, <2>2, SetSpeedStarts
    <3> QED
      BY <1>13, <2>2, <3>1 DEF ViewDismissed, Screens!ViewDismissed
  <2> QED
    BY <1>13, <2>1, <2>2 DEF ViewDismissed
<1>14. CASE UNCHANGED vars
  BY <1>14 DEF vars, speedVars
<1> QED
  BY <1>1, <1>2, <1>3, <1>4, <1>5, <1>6, <1>7, <1>8, <1>9, <1>10, <1>11, <1>12, <1>13, <1>14 DEF Next

(* Speed and quality implement the two screens: a start starts the player and *)
(* sets the button in front whatever speed was handed over                    *)
(* (PsVideoView.swift:473-523), for any rows the user may pick.               *)
THEOREM SettingsImplementScreens == Spec => ImplementsScreens
<1>1. Init => Screens!Init /\ FreshButton
  BY DEF Init, Surfaces, Screens!Init, FreshButton
<1>2. SettingsInv /\ FreshButton /\ [Next]_vars => FreshButton'
  BY FreshButtonPreserved DEF SettingsInv
<1>3. SettingsInv /\ FreshButton /\ [Next]_vars => [Screens!Next]_(Screens!screenVars)
  BY SettingsStepRefines DEF SettingsInv
<1> QED
  BY <1>1, <1>2, <1>3, SettingsInvariant, PTL DEF Spec, ImplementsScreens, Screens!Spec
=============================================================================
