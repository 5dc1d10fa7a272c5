----------------------------- MODULE MCTimeLabel -----------------------------
(* A label whose time moves on second by second *)
EXTENDS TimeLabel

CONSTANT MaxSeconds       \* bound: the last second shown

VARIABLE secs

SecsInit == secs = 0
SecsNext == secs < MaxSeconds /\ secs' = secs + 1
SecsSpec == SecsInit /\ [][SecsNext]_secs

(* The label of every second is well formed and reads back to it            *)
(* (PsVideoView.swift:301-328).                                             *)
ReadsBack == ReadsBackAt(secs)

(* formatTimeFor and getTimeString write the same text                      *)
(* (PsVideoView.swift:309, 458).                                            *)
ConversionsAgree == ConversionsAgreeAt(secs)
=============================================================================
