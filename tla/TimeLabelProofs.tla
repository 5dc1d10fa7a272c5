--------------------------- MODULE TimeLabelProofs ---------------------------
(***************************************************************************)
(* The properties of the time label for every number of seconds.           *)
(***************************************************************************)
EXTENDS MCTimeLabel, TLAPS

-----------------------------------------------------------------------------
(* Any number of seconds *)

(* Dividing by sixty undoes multiplying by it. *)
LEMMA BySixty ==
  ASSUME NEW a \in Nat, NEW b \in Nat, b < 60
  PROVE  (60 * a + b) \div 60 = a /\ (60 * a + b) % 60 = b
OBVIOUS

(* Hours, minutes and seconds are in range and add up. *)
LEMMA FieldsAddUp ==
  ASSUME NEW n \in Nat
  PROVE  LET r == GetHoursMinutesSecondsFrom(n)
         IN  /\ r.hours \in Nat
             /\ r.minutes \in Nat /\ r.minutes < 60
             /\ r.seconds \in Nat /\ r.seconds < 60
             /\ 3600 * r.hours + 60 * r.minutes + r.seconds = n
             /\ r.minutes = (n \div 60) % 60
             /\ r.seconds = n % 60
<1> DEFINE h == n \div 3600
           k == n % 3600
<1>1. h \in Nat /\ k \in 0..3599 /\ n = 3600 * h + k
  OBVIOUS
<1>2. /\ k \div 60 \in Nat /\ k \div 60 < 60
      /\ k % 60 \in Nat /\ k % 60 < 60
      /\ k = 60 * (k \div 60) + (k % 60)
  BY <1>1
<1>3. n % 60 = k % 60 /\ (n \div 60) % 60 = k \div 60
  <2> DEFINE m == k \div 60
             e == k % 60
  <2>1. /\ m \in Nat /\ m < 60 /\ e \in Nat /\ e < 60
        /\ n = 60 * (60 * h + m) + e /\ h \in Nat
    BY <1>1, <1>2
  <2> HIDE DEF m, e, h
  <2>2. n \div 60 = 60 * h + m /\ n % 60 = e
    BY <2>1, BySixty
  <2>3. (60 * h + m) % 60 = m
    BY <2>1, BySixty
  <2> QED
    BY <2>2, <2>3 DEF m, e
<1> QED
  BY <1>1, <1>2, <1>3 DEF GetHoursMinutesSecondsFrom

(* Every label is well formed and reads back to its seconds. *)
THEOREM LabelReadsBack == \A n \in Nat : ReadsBackAt(n) /\ FormatTime(n) \in Seq(Nat)
<1> SUFFICES ASSUME NEW n \in Nat PROVE ReadsBackAt(n) /\ FormatTime(n) \in Seq(Nat)
  OBVIOUS
<1> DEFINE r == GetHoursMinutesSecondsFrom(n)
<1>1. /\ r.hours \in Nat
      /\ r.minutes \in Nat /\ r.minutes < 60
      /\ r.seconds \in Nat /\ r.seconds < 60
      /\ 3600 * r.hours + 60 * r.minutes + r.seconds = n
  BY FieldsAddUp
<1>2. FormatTime(n) = IF r.hours >= 1 THEN <<r.hours, r.minutes, r.seconds>>
                                      ELSE <<r.minutes, r.seconds>>
  BY DEF FormatTime
<1> HIDE DEF r
<1>3. CASE r.hours >= 1
  BY <1>1, <1>2, <1>3 DEF ReadsBackAt, IsTimeOfDay, SecondsOf
<1>4. CASE ~(r.hours >= 1)
  BY <1>1, <1>2, <1>4 DEF ReadsBackAt, IsTimeOfDay, SecondsOf
<1> QED
  BY <1>3, <1>4

(* The two conversions write the same text. *)
THEOREM ConversionsAlwaysAgree == \A n \in Nat : ConversionsAgreeAt(n)
<1> SUFFICES ASSUME NEW n \in Nat PROVE ConversionsAgreeAt(n)
  OBVIOUS
<1> DEFINE r == GetHoursMinutesSecondsFrom(n)
<1>1. r.hours = n \div 3600 /\ r.hours \in Nat
  BY FieldsAddUp DEF GetHoursMinutesSecondsFrom
<1>2. r.minutes = (n \div 60) % 60 /\ r.seconds = n % 60
  BY FieldsAddUp
<1>3. r.hours >= 1 <=> n \div 3600 > 0
  BY <1>1
<1>4. FormatTime(n) = IF r.hours >= 1 THEN <<r.hours, r.minutes, r.seconds>>
                                      ELSE <<r.minutes, r.seconds>>
  BY DEF FormatTime
<1> HIDE DEF r
<1> QED
  BY <1>1, <1>2, <1>3, <1>4 DEF ConversionsAgreeAt, GetTimeString

-----------------------------------------------------------------------------
(* A label that counts *)

(* The seconds stay a natural number. *)
LEMMA SecondsCount == SecsSpec => [](secs \in Nat)
<1>1. SecsInit => secs \in Nat
  BY DEF SecsInit
<1>2. secs \in Nat /\ [SecsNext]_secs => (secs \in Nat)'
  BY DEF SecsNext
<1> QED
  BY <1>1, <1>2, PTL DEF SecsSpec

(* The label of every second reads back to it, however long the video is *)
(* (PsVideoView.swift:301-328).                                          *)
THEOREM LabelAlwaysReadsBack == SecsSpec => []ReadsBack
<1>1. secs \in Nat => ReadsBack
  BY LabelReadsBack DEF ReadsBack
<1> QED
  BY <1>1, SecondsCount, PTL

(* formatTimeFor and getTimeString write the same text, however long the *)
(* video is (PsVideoView.swift:309, 458).                                *)
THEOREM TextsAlwaysAgree == SecsSpec => []ConversionsAgree
<1>1. secs \in Nat => ConversionsAgree
  BY ConversionsAlwaysAgree DEF ConversionsAgree
<1> QED
  BY <1>1, SecondsCount, PTL
=============================================================================
