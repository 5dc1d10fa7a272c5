------------------------------ MODULE TimeLabel ------------------------------
(***************************************************************************)
(* The two conversions of a number of seconds to the text of the time      *)
(* label.  A text is the sequence of the numbers between its colons; that  *)
(* all but the first are written with two digits is implied by their being *)
(* less than sixty.                                                        *)
(***************************************************************************)
EXTENDS Integers, Sequences

(* Slip: the minutes are not reduced to those of the last hour *)
GetHoursMinutesSecondsWhole(secs) ==
  [hours |-> secs \div 3600, minutes |-> secs \div 60, seconds |-> (secs % 3600) % 60]

GetHoursMinutesSecondsFrom(secs) ==
  [hours |-> secs \div 3600, minutes |-> (secs % 3600) \div 60, seconds |-> (secs % 3600) % 60]

(* formatTimeFor: no hours before the first is over *)
FormatTime(secs) ==
  LET r == GetHoursMinutesSecondsFrom(secs)
  IN  IF r.hours >= 1 THEN <<r.hours, r.minutes, r.seconds>> ELSE <<r.minutes, r.seconds>>

(* CMTime.getTimeString *)
GetTimeString(secs) ==
  LET hours   == secs \div 3600
      minutes == (secs \div 60) % 60
      seconds == secs % 60
  IN  IF hours > 0 THEN <<hours, minutes, seconds>> ELSE <<minutes, seconds>>

(* "mm:ss" and "h:mm:ss" *)
IsTimeOfDay(text) ==
  /\ Len(text) \in {2, 3}
  /\ Len(text) = 3 => text[1] > 0
  /\ text[Len(text) - 1] < 60
  /\ text[Len(text)] < 60

(* What a reader of the label takes it for *)
SecondsOf(text) ==
  IF Len(text) = 3 THEN 3600 * text[1] + 60 * text[2] + text[3] ELSE 60 * text[1] + text[2]

-----------------------------------------------------------------------------
(* Properties of a number of seconds *)

(* A label is well formed and a reader gets the seconds back from it: no    *)
(* two times look alike, not around the full minute and not when the hours  *)
(* appear (PsVideoView.swift:301-328).                                      *)
ReadsBackAt(secs) ==
  IsTimeOfDay(FormatTime(secs)) /\ SecondsOf(FormatTime(secs)) = secs

(* The two conversions of the file agree: minutes of the remainder of the   *)
(* hour (:303-304) and minutes of the whole modulo sixty (:461).            *)
ConversionsAgreeAt(secs) == FormatTime(secs) = GetTimeString(secs)
=============================================================================
