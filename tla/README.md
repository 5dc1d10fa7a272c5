# A verification project for the rnvideo player

The repository is a React Native application with one native component, an iOS
video player written in Swift. This directory holds TLA+ models of that
component and of the JavaScript that drives it, the TLC runs that check them on
small instances, and TLAPS proofs of the properties that matter most.

Paths without a directory are under `ios/`. "View" is a `PsVideoView`,
"controller" a `PsVideoFullViewVC`.

## 1. The system

| Part | State | Operations |
| --- | --- | --- |
| JavaScript client, `../App.js` | `videoUri`, `showVideo` | renders `<VideoPlayer play url>` or not; "toggle video" flips `showVideo`; "Set new Video" calls the manager |
| Manager, `PsVideoViewManager.swift/.m` | none | `view()`, `playAnotherVideo` (queued on the main queue), exported properties `url`, `play`, `paused`, `color`, `onBuffering` |
| Embedded view, `PsVideoView.swift` | the **static** `player` shared by all views; per view `playerLayer`, `timeObserver`, play button, speed and quality, a hiding timer | property observers, the start delayed by one second, taps, full screen, `viewDismissed`, `playNextVideo` |
| Full-screen controller, `PsVideoFullView.swift` | its own `player`, `playerLayer`, `delegate`, `timeObserver`, buttons, timer, catcher view | `viewDidAppear`, taps, `backAction`, the background notification |
| Controls view, `PsVideoControlsView.swift` | the buttons' selection and titles, one table for two menus | row selection, delegated to the screen |
| AVFoundation, UIKit | rate, item, registered observers; layer trees, presentation | stop on its own, time ticks; transitions and their completions |

How they interact: App mounts a view, React Native sets `url` (a new static
player) and `play` (a start queued for a second later). The start creates the
layer and taps play. `fullScreenAction` removes the view's observer, gives
player and layer to a new controller and presents it; `backAction` removes the
controller's observer and dismisses; the completion of the dismissal calls the
view's `viewDismissed`, which takes player and layer back. `playAnotherVideo`
queues a closure that gives the shared player a new item. Everything native
runs on the main thread.

What is hard: the closures, transition callbacks and notifications interleave
with touches; presses in JavaScript reach the views later than a touch does, so
that a view may be unmounted and another mounted under a controller;
the shared player is held in two variables; a layer and an observer move between
two screens and must come back; tokens must be returned to the player that
issued them, or AVFoundation raises; buttons and titles copy player state and go
stale; the hand-over passes properties one way and titles the other; timers are
replaced without being invalidated; and a cycle of strong references
(`PsVideoView.swift:158`, `PsVideoFullView.swift:37`, delegates are not weak)
keeps every view and every controller alive and listening. `PROJECT.json` lists these
hazards at their lines with the properties that speak of them.

Correctness, part by part:
- **observers**: a surface has at most one, and can remove it;
- **layer**: the surface on screen holds the layer of the player it controls; a
  borrowed layer comes back;
- **player**: the controller and the static variable agree while the controller's
  view is there; the hand-over is silent; a player is never lost;
- **buttons**: what the play button, the speed and the quality say is true of
  the player, and stays so through the screens;
- **overlay**: menu, table and buttons agree; the overlay hides itself; one of
  overlay and catcher takes the touches;
- **clock**: a seek stays within the item, slider and label show the item, a label
  reads back to its time;
- **client**: a mounted view gets its picture, the process does not abort.

## 2. The modules

```
PlayerSession            the component's handlers, no client
  +- PlayerSessionProofs facts that hold for any client
  +- AppSession          ... under App.js      -> implements VideoHandover, WatchedScreens
  |    +- MCAppSession
  |    +- AppSessionProofs (with PlayerSessionProofs)
  |         +- HandoverProofs
  +- ClientSession       ... under any JavaScript client
       +- MCClientSession
       +- ClientSessionProofs (with PlayerSessionProofs)
VideoHandover            what the two screens promise about picture and sound
TwoScreens               which screen is in front, whether it plays, what its button says
  +- WatchedScreens      ... and whether it has its periodic observer
ControlsOverlay          overlay, menu and timers of one screen
  +- ControlsOverlayProofs
PlaybackSettings         speed and quality across the screens -> implements TwoScreens
  +- PlaybackSettingsProofs
TimeLabel                seconds to the text of the time label
  +- MCTimeLabel
  |    +- TimeLabelProofs
  +- PlaybackClock       seeks, slider, label and ticks    -> implements WatchedScreens
       +- MCPlaybackClock
       +- PlaybackClockProofs (with TimeLabelProofs)
```

**PlayerSession** is the core: view, controller, shared player, layers,
observers and the manager's command. One action is one handler, with everything
it calls: `PlayAction` is `playAction` with `addObservers`, `play()` and the final
`setVideoSpeed`; `DelayedStart` is the queued closure, layer and play tap in one
step; `ViewDismissed` is the completion of `dismiss` and `viewDismissed`. A handler is
atomic because it runs to its end on the main thread. Between two handlers anything
else may run. `!` on nil and the exception of `removeTimeObserver` are steps
that set `crash` and end the session.

| Variable | Code |
| --- | --- |
| `status[v]` | whether React Native has created, mounted, removed view v |
| `pending[v]` | closures of `play` (`PsVideoView.swift:41`) not yet run |
| `phase[f]` | none, presenting, shown, dismissing, dismissed |
| `ownPlayer[f]`, `delegate[f]` | `PsVideoFullView.swift:17, 19` |
| `layer[s]`, `token[s]`, `selected[s]` | `playerLayer`, `timeObserver` (as the player that issued it), `playButton.isSelected` |
| `player` | the static `PsVideoView.player` |
| `item[p]`, `playing[p]`, `observers[p][s]` | what AVPlayer p holds: url of its item, `isPlaying`, registered periodic observers |
| `layerPlayer[l]`, `host[l]` | the player layer l renders, the surface in whose layer tree it is |
| `requests` | closures of `playAnotherVideo` on the main queue |
| `crash` | why the process aborted |

Views and controllers are never freed in the model because the code never
frees them (see the cycle above).

**AppSession** adds App.js: one view at a time, `play={true}` and one url at mount,
the two buttons, and `toggling`, the number of presses of "toggle video" that have not come
back to the main thread: the button is never disabled and its updater is functional, so
several may be on their way (`MaxToggles` bounds them) and a full-screen tap may come
before all of them. `MountVideo` is the manager's `view()` and both
property setters, which React Native performs in one turn of the main thread. Two
presses and a tap on full screen unmount view v1 and mount v2 under v1's controller. v2's
url replaces the static player, v2 starts with the new one, and the end of the dismissal makes
the controller's player the static one again (`PsVideoView.swift:437`): v2 then stands in
front with the layer, the token and the button of another player. Such a view is called
`Overtaken`; the properties say what holds of it and what does not.
**ClientSession** puts no order on the properties: any view, any value, any time,
several views. **VideoHandover** says per view where its picture is (`absent`,
`embedded`, `full`, `returning`), that at most one is in full screen, that moving it
changes no player and that a returning one returns; `AppSession!Place` reads that off
layers, hosts and controllers.

**ControlsOverlay** is one screen's overlay, `Screen` choosing whose handlers
drive it. Press and release of a menu button are separate steps, since UIKit
finds the button when the finger lands: a timer or a second finger may come between.
`orphans` counts the valid timers that the `timer` property no longer refers to.

**PlaybackSettings** follows `playerSpeed`, `playerQuality`, the two titles and what
reaches the player, through one view and the controllers it presents. The tables of
`setVideoSpeed` and `setBitRate` are in it row by row, strings included, because a
title that is not the row it was set from is what can go wrong.

**TimeLabel** holds the two pure conversions of seconds to text
(`getHoursMinutesSecondsFrom` with `formatTimeFor`, and `getTimeString`). A text is the
sequence of its numbers; the padding with zeros is left out.

**PlaybackClock** follows the position through one view and the controllers it presents.

| Variable | Code |
| --- | --- |
| `status`, `duration` | of the `AVPlayerItem`; the duration is `Indefinite` until it is ready, and for an endless item |
| `now`, `target` | where the player is, and the time the seek in flight asks for |
| `playing`, `observed[s]`, `selected[s]` | `isPlaying`, whether s has its periodic observer, its play button |
| `slider[s]`, `label[s]` | maximum and value of the `UISlider`, the two times of the label |

A seek is asked for in one step and lands in another, anywhere the unlimited default
tolerance allows; until then `currentTime()` may answer the old or the new position,
so taps in a row read either. A comparison with the duration of an item that is not
ready is a comparison with NaN (`Exceeds`), `Int(NaN)` in a tick aborts, and
`CMTimeMake(Int64(s * 1000), 1000)` cuts to the millisecond, which is why times are in half
milliseconds. A `UISlider` clamps its value to the range it has at that moment, so the
order of the two assignments in the tick is kept. Not all of this is in the source:
what AVFoundation and UIKit do is marked external in `PROJECT.json`.

**TwoScreens** and **WatchedScreens** are what holds the parts together. PlayerSession,
PlaybackSettings and PlaybackClock all need to know which screen is in front, whether the
video plays and what the play button says, and each leaves the rest to the others (who
replaces the player, what the speeds are, where the position is). TwoScreens states what they
share, one action per handler that touches it; WatchedScreens adds the periodic observer of
the screen in front, which PlaybackSettings does not follow. Each of the three is a detailed
model of them (`ImplementsScreens`, in AppSession for the session). What reaches the one view of the clock and the
settings from elsewhere is in them under the names it has there: `PlayNextVideo`,
`StopsOnItsOwn`, `AppMovedToBackground` (also from a controller long dismissed) and
`LateStart` (the start of a view that was replaced). That the session takes no other steps
is what makes following one view enough, up to the return to another view: `Orphan` and
`ReturnElsewhere` are the steps of a session in which the controller's view was removed, and
clock and settings, which follow that view, end there.

Definitions commented *Slip* are wrong variants of the definition below them, each a
plausible mistake; no specification uses them. They record which mistake a property was
seen to detect.

## 3. The runs

| Run | Asks | Instance, states |
| --- | --- | --- |
| `AppSafety.cfg` | the safety and action properties of the session under App, and whether it goes by WatchedScreens | 2 views, 2 controllers, 2 players, 2 layers, 1 request, 2 presses; 614,116 with symmetry |
| `AppLiveness.cfg` | the layer comes back, the picture appears | 2 views, 1 controller, no requests, 2 presses; 135,938 |
| `AppHandover.cfg` | `AppSpec` implements `VideoHandover`, liveness included, also when the view that lent its picture is unmounted, or replaced, meanwhile | 2 views, 1 controller, 2 players, 2 layers, no requests, 2 presses; 135,938 |
| `ClientTwoViews.cfg` | controller and layer under any client, two views at once | 2 views, 1 controller, 2 players, 2 layers; 887,643 |
| `ClientTwoSessions.cfg` | players and silence of the hand-over under any client | 1 view, 2 controllers, 2 players, 1 layer, 1 request; 152,482 |
| `OverlayEmbedded.cfg` | menu, table, timers and hiding of the overlay | up to 2 unreferenced timers; 326 |
| `OverlayFullScreen.cfg` | overlay or catcher takes the touches; the overlay hides itself here too | the same for the controller; 313 |
| `Settings.cfg` | speed and quality, and whether they go by TwoScreens | 3 speeds with the one that is retitled, 4 qualities with Auto; 313,510 |
| `Clock.cfg` | seeks, slider, ticks and screens against the item, and whether they go by WatchedScreens | 3 durations, see below; 1,993,128 |
| `TimeLabel.cfg` | does the label read back to the second? | the first 11,000 seconds |
| `EarlyFullScreen.cfg` | does a layer exist when it is unwrapped? It does not | violated |
| `RequestedUrl.cfg` | is the requested url played? It is not | violated |

Why the bounds suffice for the interesting cases. Two views are needed for a start
that fires after its view was replaced; two controllers for a notification that
reaches a dismissed one and for a second trip; two players because mounting or setting
`url` replaces the static one; a second layer, where several views or starts meet,
because every start makes one; one queued request may fall between any two steps; two
presses in flight are what it takes to mount a view under a controller.
Instances are used up (views, controllers, players and layers are allocated and never
freed), which bounds the runs; where that lets the session come to rest, the
configuration says so and deadlock is not checked. `MaxPending`, `MaxRequests`, `MaxToggles`,
`MaxOrphans`, `MaxTime` and `MaxSeconds` are the only numeric bounds. The clock's items last
half a second and half a millisecond (1001, shorter than a new slider's range, and cut by a
seek to the end), 15 seconds and half a millisecond (30001, just longer than a skip
forward), or have no end; playback and drags may stop at 1500, beyond the short item
and within the long one. `MaxTime` stops skips in an item whose end is not known.
Eleven thousand seconds pass the full hour three times. `Speeds` and `Qualities` keep every row the
code treats in its own way. The sets of identities are symmetric in the safety runs
only.

What they show, in short: the hand-over between a view and its own controller is sound.
No observer is lost or doubled, the layer is on the screen in front, going to full screen
and back neither starts nor stops a video, and a player that was replaced is never
shared or started again, though it may play on. What is not sound is the return to a view
that did not present the controller, which two quick presses of "toggle video" and a tap on
full screen bring about: the overtaken view shows a layer of a player its buttons do not
drive, its play button and its observer may be wrong, and its own way to full screen hands
its token to a player that did not issue it, which aborts the process
(`PsVideoView.swift:188`). That, and the full-screen tap before the start has run (:240),
are the only aborts (`OnlyFullScreenActionAborts`). A controller, and
a view to which its own controller returned, is never in that situation (`ObserverRemovable`, `PictureOnStage`,
`OneSharedPlayer`, `ButtonStaysTrue`). Under any other client the controller still
leaves cleanly and the layer still comes back.

Buttons and settings are true as long as only these handlers act, and what
breaks them is named in the properties: `playNextVideo`, a skip past the end, an
item that stops on its own, the late start of a replaced view, and a switch of screens
while paused. The speed and the quality that a controller holds come back to the view
(`ChoiceComesBack`) in all but two cases: half speed, and whatever was handed over
paused and not set since, for which "1.0x" and "360p" come back. All of it goes by the
steps of `TwoScreens` and, with the observer, `WatchedScreens`: replaced players, late
starts and dismissed controllers add none of their own. Five steps let the video play in
front without the observer that moves slider and label: `playNextVideo`, a choice from
the speed menu, a start that comes after its view was replaced, the return to another view
and a play tap there; nothing else does (`PlaybackStaysObserved`).
A seek asks for a time beyond the end in two cases only: it was asked for before
the duration was known, or by a slider that has another range than the item. A tick always
shows the item, and no tick aborts the process but that of an item without an end.

Two disagreements were met and kept as runs:
- a tap on full screen within the first second aborts the process
  (`PsVideoView.swift:240` against `:41`);
- "Set new Video" plays a url written in `PsVideoView.swift:119`, not the one it asks for.

### Fairness

`AppSession!Fairness` is weak fairness of each delayed start (a closure
on the main queue runs once its second is over), of `viewDidAppear` after a presentation
and of the completion of a dismissal (UIKit ends the transitions it starts). Nothing is
assumed of the user, JavaScript, the players or the notification.
`ControlsOverlay!Spec` assumes that a scheduled repeating timer fires.

## 4. What is proved

`AppSessionProofs` proves, for any sets of views, controllers, players and layers and
any bounds, `AppTypeOK`, `SessionInv`, `ObserverRemovable`, `OneObserver`,
`PictureOnStage`, `OnlyFullScreenActionAborts` and `OneSharedPlayer` of `AppSafetySpec`.
(`SessionInv` contains `AppTypeOK`, so `AppSafety.cfg` does not name it again.) None of those but the first is inductive. That
an observer can be removed depends on what the token and the layer of the mounted view are of:
the static player, unless a controller whose own view is gone has just put its player there.
That in turn depends on what the view held while the controller covered it, and
on the controller having taken over exactly what its view had.
`SessionInv` collects those facts under names: `OneView`, `OneController`,
`StartsOnce`, `PlayersExist` (a player that was not created does not play), `ViewUsesShared` (a
mounted view holds the static player's token and layer, or is overtaken),
`ControllerTookOver`, `Newcomer` (a view mounted under another view's controller: silent and
without a token before its start, with the static player's token after it),
`ControllerToken`, `LayerInPlace`, `OneObserver`, `OnlyFullScreenActionAborts`. It is checked by TLC
(`AppSafety.cfg`) and proved inductive action by action: type correctness first
(`TypePreserved`), then one lemma per handler (`FullScreenStruct`, `DismissedStruct`,
...), steps that leave the structure alone being discharged at once by `CoreUntouched`.
The other properties follow from it. Assumptions: `SurfacesDisjoint`, `NilIsNothing`,
`BoundsAreNaturals`, `AppUrls`, all of them about what the names mean.

`HandoverProofs` rests on that invariant.
- `HandoffKeepsPlayback` needs only types: each step of the hand-over puts a player
  back to the rate it has.
- The safety part of the refinement (`HandoverImplemented`: initial states, and every
  step a step or a stutter of `VideoHandover`) goes through `PlacesRead`, which says
  what `Place` is for each shape the invariant allows, so that each handler is
  compared with one action of the abstract specification.
- `ButtonStaysTrue` needs one more invariant, `FreshButton`: a controller that has not
  appeared still shows "play", which is why the tap in `viewDidAppear` makes its
  button right.
- `ReplacedPlayerNeverStarts` needs only types: a play tap, a start and a return
  drive the static player or that of the controller in front (`OnlyNamedStarts`), and only
  a player not yet created, or the controller's, becomes the static one (`GoneStaysGone`).
- `PlaybackStaysObserved` is proved handler by handler. It needs `PlayersExist`, so
  that the player a mount takes is silent.
- `SessionImplementsScreens` is the refinement of `WatchedScreens`. `ScreensRead` says what
  the abstract variables are once the invariant leaves one view, one controller and at
  most one surface under the finger (`ScreensAreRead`); `SeenAt` says that a step at one
  surface is seen if that surface is in front and not otherwise. Then one lemma per handler
  (`PlayActionWatched`, `EnterWatched`, `ReturnWatched`, ...) compares it with one action
  there. Whether the controller's view is still there decides between `ViewDismissed` and
  `ReturnElsewhere`. `SessionImplementsTwoScreens` follows from it.

`PlayerSessionProofs` holds what does not depend on the client: type correctness of every
touch and system step, and the silence of the hand-over.

`ClientSessionProofs` proves every property of `ClientSession` for a client that may do anything.
Little of `SessionInv` survives there: views may share or lose players and have
several layers. `ClientInv` keeps what does: one controller is in front
(`OneInFront`), it was created by a view and holds a layer which is in its own tree
(`InFront`), its token was issued by its own player and is registered there
(`TokenOfController`), and the layer of a view is at home or the one that its controller holds
(`LayerIsHomeOrBorrowed`).

`PlaybackSettingsProofs` proves the properties of speed and quality for any selection of
the rows. Its invariant `SettingsInv` adds `HandedOver` to the types: a controller that is titled
"0.5x" was set to half speed, and no screen in use holds the empty speed or quality of a
controller that was never handed one. `ChoiceAlwaysComesBack` needs a second invariant,
`CarriedInFullScreen`: away from the view, the controller's titles are those of its properties, or
one of the two losses is already there. `SettingsImplementScreens` needs besides that
a controller still coming up shows "play" (`FreshButton`); that a start starts and sets
the button whatever speed was handed over is the lemma `SetSpeedStarts`.

`TimeLabelProofs` proves, for every number of seconds, that the label is well formed and
reads back and that the two conversions agree (`LabelReadsBack`, `ConversionsAlwaysAgree`), and
from these the two invariants of `TimeLabel.cfg` for any `MaxSeconds`, since the seconds that
count stay natural.

`PlaybackClockProofs` proves for any durations and positions every
property of `Clock.cfg`; `ClockImplementsScreens`, the refinement, needs only the types. `PositionInItem` is the invariant behind them: only a ready item has
a duration, and the position is inside it. Assumption: `ClockAssumption`, that times are
natural numbers and `Nothing` is not an integer.

`ControlsOverlayProofs` proves all the safety and action properties of the overlay for either
screen and any `MaxOrphans`. `TableMatchesButtons` is inductive with the type
invariant; `HidingClosesMenu` follows from it because the timer looks at the buttons only
(the controller always resets them, so TLC checks it for the view). What `OverlayFullScreen.cfg`
does not ask again of the controller is proved for both screens.

Only model-checked: liveness (`LayerComesBack`, `MountedViewIsStarted`,
`OverlayHidesItself`) and the fair part of the refinement of `VideoHandover`, since fairness is
out of the prover's reach. Every safety invariant and every action property that a passing
run checks is proved. Neither checked nor proved, but seen by reading the two next to each
other: that PlaybackSettings and PlaybackClock allow, in every state, each step of TwoScreens
that may reach the view they follow (refinement shows only that they take no other). No definition is recursive.

## 5. What is not modelled

- The vendored pods under `ios/ios/Pods`, which are nearly all of the repository's lines and
  all of its C and C++ (boost, folly, glog, React Native): third-party code that
  this program does not change, and that its component uses through UIKit, AVFoundation
  and React Native's view manager only. The map names lines of the component's own Swift,
  Objective-C and JavaScript, and of no other file.
- Rounding: `Float` for the slider's value and range, fractions of half a millisecond.
- The composition of clock, overlay and settings with the session in one module: its states
  would be the product of theirs. Clock and settings are tied to the session by TwoScreens and
  WatchedScreens instead; the overlay shares only the screen in front with them, and takes
  its changes as steps that may happen at any time.
- Clock and settings of a second view. Mounted after the first, it begins anew in their `Init`,
  with a player of its own (`TwoScreens!Mount`). Mounted under the first one's controller and
  brought to the front by its return, it is followed by AppSession only: what its slider, its
  titles and the bit rate of the other player's item say is not modelled.
- A player that has failed for good (`error` set, so that `isPlaying` stays false
  after `play()`, `PsVideoFullView.swift:326-330`): a player that stops on its own can be
  started again here.
- The buffering event, which only reports to JavaScript.
- Layout, constraints, images, colours, the highlighted row, `PsVideoSettingsView`
  (nothing creates it), the two UIKit extensions.
- Code nothing reaches: `stopAction` (its button is never added to the view),
  `stop`, `controls`, `maxBitRate`, `watermarkText` (not exported), `getThumbnailImage`.
  `getTimeString` has no caller either; it is compared with the conversion that is used.
- The application shell, the Android project, the template tests and
  `ios/ios/`, an earlier copy of the component that this application does not build.

## 6. State of the project

Built in this order: PlayerSession with AppSession; ClientSession; VideoHandover;
ControlsOverlay; the proofs of the first and the last; PlaybackSettings; HandoverProofs;
TimeLabel and PlaybackClock; the proofs of ClientSession, PlaybackSettings and PlaybackClock;
TwoScreens and WatchedScreens with the three refinements; TimeLabelProofs.

Every handler of the component that something can reach is an action of a module. A change to
the Swift sources that is worth a look here: a new exported property (PlayerSession and
ClientSession), another way between the screens (all modules but TimeLabel, and TwoScreens first), a handler that
starts the player (`PlaybackStaysObserved`), a row of the menus (PlaybackSettings), a caller of
`removeObservers` (`ObserverRemovable`).
