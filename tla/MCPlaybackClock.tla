--------------------------- MODULE MCPlaybackClock ---------------------------
EXTENDS PlaybackClock

(* An endless item; one of half a second, which a fresh slider outlasts; and *)
(* one half a millisecond longer than a skip                                 *)
MCDurations == {Indefinite, 1001, 30001}
MCPlayheads == {1500}
=============================================================================
