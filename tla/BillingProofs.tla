----------------------------- MODULE BillingProofs -----------------------------
(***************************************************************************)
(* No node is torn down before it has earned it, and none is paid for      *)
(* another hour once it has, for every idle timeout and every window.      *)
(***************************************************************************)
EXTENDS Billing, TLAPS

(***************************************************************************)
(* num_minutes() % 60 goes from 59 to 0, and one up otherwise.             *)
(***************************************************************************)
LEMMA NextMinute ==
    ASSUME NEW m \in 0..(Hour - 1)
    PROVE  MinutesIntoHour(m + 1) = IF m = Hour - 1 THEN 0 ELSE m + 1
BY DEF MinutesIntoHour, Hour

(***************************************************************************)
(* The flags and the numbers have lemmas of their own.                     *)
(***************************************************************************)
FlagsOK == busy \in BOOLEAN /\ due \in BOOLEAN /\ calm \in BOOLEAN

NumbersOK ==
    /\ minute \in 0..(Hour - 1)
    /\ gap \in 0..MaxGap
    /\ state \in {"Unknown", "Busy", "Idle", "Teardown"}
    /\ rest \in 0..IdleTimeout /\ free \in 0..IdleTimeout

Counts == NumbersOK /\ TimerIsExact /\ DueIsUnseen

LEMMA Split == IInv <=> FlagsOK /\ Counts
BY Zenon DEF IInv, TypeOK, FlagsOK, Counts, NumbersOK

LEMMA InitBilling == Init => IInv
<1>1. Init => FlagsOK
    BY DEF Init, FlagsOK
<1>2. Init => Counts
    BY MinutesAssumption DEF MinutesAssumption, Init, Counts, NumbersOK, TimerIsExact,
        DueIsUnseen, Hour
<1> QED BY <1>1, <1>2, Split

LEMMA FlagsStep == FlagsOK /\ [Next \/ CalmDown]_vars => FlagsOK'
<1> SUFFICES ASSUME FlagsOK, [Next \/ CalmDown]_vars PROVE FlagsOK'
    OBVIOUS
<1> USE DEF FlagsOK
<1>1. CASE Poll \/ Restart \/ JobTaken \/ JobDone \/ CalmDown \/ UNCHANGED vars
    BY <1>1 DEF Poll, Restart, JobTaken, JobDone, CalmDown, vars
<1>2. CASE Minute
  <2>1. due' \in BOOLEAN
      BY <1>2 DEF Minute
  <2> QED BY <1>2, <2>1 DEF Minute
<1> QED BY <1>1, <1>2 DEF Next

(***************************************************************************)
(* A poll of a node that is due starts its teardown; any other poll leaves *)
(* the timer and the history in step.                                      *)
(***************************************************************************)
LEMMA PollKeeps == Counts /\ Poll => Counts'
<1> SUFFICES ASSUME Counts, Poll PROVE Counts'
    OBVIOUS
<1> USE MinutesAssumption DEF MinutesAssumption, Counts, NumbersOK, TimerIsExact, DueIsUnseen,
        Poll
<1>1. CASE busy
    BY <1>1
<1>2. CASE ~busy
  <2>1. rest' = RestCarried /\ RestCarried \in 0..IdleTimeout
      BY <1>2 DEF RestCarried
  <2>2. due => state' = "Teardown"
    <3>1. due => RestCarried = IdleTimeout
        BY DEF RestCarried
    <3> QED BY <1>2, <2>1, <3>1 DEF InBillingWindow
  <2>3. rest' = free'
      BY <1>2, <2>1 DEF RestCarried
  <2> QED BY <1>2, <2>1, <2>2, <2>3
<1> QED BY <1>1, <1>2

LEMMA MinuteKeeps == Counts /\ Minute => Counts'
<1> SUFFICES ASSUME Counts, Minute PROVE Counts'
    OBVIOUS
<1> USE MinutesAssumption DEF MinutesAssumption, Counts, NumbersOK, Minute
<1>1. minute' = IF minute = Hour - 1 THEN 0 ELSE minute + 1
    BY NextMinute
<1>2. NumbersOK'
    BY <1>1 DEF OneMore, Hour
<1>3. TimerIsExact'
    BY DEF TimerIsExact, OneMore
<1>4. DueIsUnseen'
  <2>1. CASE minute' = Hour - Window
    <3>1. due' => free' = IdleTimeout
        BY <2>1
    <3>2. minute' >= Hour - Window /\ gap' > minute' - (Hour - Window)
        BY <2>1 DEF Hour
    <3> QED BY <3>1, <3>2 DEF DueIsUnseen
  <2>2. CASE minute' # Hour - Window
    <3> SUFFICES ASSUME due' PROVE DueIsUnseen'
        BY DEF DueIsUnseen
    <3>1. due /\ minute' = minute + 1 /\ free = IdleTimeout
        BY <1>1, <2>2 DEF DueIsUnseen
    <3>2. free' = IdleTimeout
        BY <3>1 DEF OneMore
    <3> QED BY <3>1, <3>2 DEF DueIsUnseen, Hour
  <2> QED BY <2>1, <2>2
<1> QED BY <1>2, <1>3, <1>4

LEMMA CountsStep == Counts /\ [Next \/ CalmDown]_vars => Counts'
<1> SUFFICES ASSUME Counts, [Next \/ CalmDown]_vars PROVE Counts'
    OBVIOUS
<1> USE MinutesAssumption DEF MinutesAssumption
<1>1. CASE Poll       BY <1>1, PollKeeps
<1>2. CASE Minute     BY <1>2, MinuteKeeps
<1>3. CASE Restart
    BY <1>3 DEF Restart, Counts, NumbersOK, TimerIsExact, DueIsUnseen
<1>4. CASE JobTaken \/ JobDone \/ CalmDown \/ UNCHANGED vars
  <2>1. UNCHANGED <<minute, gap, state, rest, free, due>>
      BY <1>4 DEF JobTaken, JobDone, CalmDown, vars
  <2> QED BY <2>1 DEF Counts, NumbersOK, TimerIsExact, DueIsUnseen
<1> QED BY <1>1, <1>2, <1>3, <1>4 DEF Next

(***************************************************************************)
(* The idle timer runs with what the polls have seen, and a node that is   *)
(* due has not been polled since the window opened.                        *)
(***************************************************************************)
THEOREM BillingInductive == FairSpec => []IInv
<1>1. Init => IInv
    BY InitBilling
<1>2. IInv /\ [Next \/ CalmDown]_vars => IInv'
  <2>1. FlagsOK' /\ Counts' => IInv'
      BY Zenon DEF IInv, TypeOK, FlagsOK, Counts, NumbersOK
  <2> QED BY <2>1, FlagsStep, CountsStep, Split
<1> QED BY <1>1, <1>2, PTL DEF FairSpec

(***************************************************************************)
(* Every variable keeps its type.                                          *)
(***************************************************************************)
THEOREM BillingTypes == FairSpec => []TypeOK
<1>1. IInv => TypeOK
    BY DEF IInv
<1> QED BY <1>1, BillingInductive, PTL

(***************************************************************************)
(* Teardown begins in the billing window, after the idle timeout, counted  *)
(* by what the polls saw.                                                  *)
(***************************************************************************)
THEOREM TeardownEarned == FairSpec => TeardownIsEarned
<1> DEFINE Earned == state' = "Teardown" /\ state # "Teardown" =>
                         free = IdleTimeout /\ minute >= Hour - Window
<1>1. IInv /\ [Next \/ CalmDown]_vars => [Earned]_vars
  <2> SUFFICES ASSUME IInv, Next \/ CalmDown, state' = "Teardown", state # "Teardown"
               PROVE  free = IdleTimeout /\ minute >= Hour - Window
      OBVIOUS
  <2>1. Poll
      BY DEF Next, Minute, Restart, JobTaken, JobDone, CalmDown
  <2>2. InBillingWindow(minute) /\ RestCarried = IdleTimeout
      BY <2>1 DEF Poll
  <2>3. RestCarried = free
      BY <2>1, Split DEF RestCarried, Poll, Counts, NumbersOK, TimerIsExact
  <2> QED BY <2>2, <2>3 DEF InBillingWindow
<1> QED BY <1>1, BillingInductive, PTL DEF FairSpec, TeardownIsEarned

(***************************************************************************)
(* If the polls are no further apart than the window is long, no node that *)
(* could be torn down is paid for another hour.                            *)
(***************************************************************************)
THEOREM HourNotWasted == ASSUME MaxGap <= Window PROVE FairSpec => NoHourWasted
<1> DEFINE NotDue == minute' = 0 /\ minute # 0 => ~due
<1>1. IInv /\ [Next \/ CalmDown]_vars => [NotDue]_vars
  <2> SUFFICES ASSUME IInv, Next \/ CalmDown, minute' = 0, minute # 0, due
               PROVE  FALSE
      OBVIOUS
  <2> USE MinutesAssumption, Split DEF MinutesAssumption, Counts, NumbersOK
  <2>1. Minute
      BY DEF Next, Poll, Restart, JobTaken, JobDone, CalmDown
  <2>2. minute = Hour - 1
      BY <2>1, NextMinute DEF Minute
  <2>3. gap > minute - (Hour - Window) /\ gap < MaxGap
      BY <2>1 DEF Minute, DueIsUnseen
  <2> QED BY <2>2, <2>3 DEF Hour
<1> QED BY <1>1, BillingInductive, PTL DEF FairSpec, NoHourWasted

================================================================================
