---------------------------- MODULE VideoHandover ----------------------------
(***************************************************************************)
(* What the two screens promise about the picture and the sound, without   *)
(* layers, observers, delegates or buttons: every view's picture is in one *)
(* place, at most one is in full screen, moving it leaves every player as  *)
(* it was, and a picture on its way back does come back.                   *)
(***************************************************************************)
CONSTANTS Views, Players

VARIABLES
  place,     \* place[v]: where the picture of v is
  playing    \* playing[p]: player p is playing

vars == <<place, playing>>

Home == {"absent", "embedded"}

Init == /\ place = [v \in Views |-> "absent"]
        /\ playing = [p \in Players |-> FALSE]

Move(v, from, to) ==
  /\ place[v] = from
  /\ place' = [place EXCEPT ![v] = to]

(* The picture appears, and a player may start or stop with it *)
Start(v) ==
  /\ Move(v, "absent", "embedded")
  /\ playing' \in [Players -> BOOLEAN]

Enter(v) ==
  /\ \A w \in Views : place[w] \in Home
  /\ Move(v, "embedded", "full")
  /\ UNCHANGED playing

Leave(v) == Move(v, "full", "returning") /\ UNCHANGED playing

Return(v) == Move(v, "returning", "embedded") /\ UNCHANGED playing

(* Playback is controlled while every picture stays where it is *)
Control == playing' \in [Players -> BOOLEAN] /\ UNCHANGED place

Next == \/ \E v \in Views : Start(v) \/ Enter(v) \/ Leave(v) \/ Return(v)
        \/ Control

Spec == Init /\ [][Next]_vars /\ \A v \in Views : WF_vars(Return(v))
=============================================================================
