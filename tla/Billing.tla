-------------------------------- MODULE Billing --------------------------------
(***************************************************************************)
(* When one node is torn down: it must have been idle for long enough, and *)
(* its server, paid by the hour, must be in the last minutes of an hour    *)
(* (reconcile, carry_forward_state, find_teardown_candidates and           *)
(* is_in_billing_window).  Nodes do not influence each other here, so one  *)
(* is enough; the calls of the teardown itself are ControlLoop's.          *)
(*                                                                         *)
(* The clock counts minutes, as is_in_billing_window does.                 *)
(***************************************************************************)
EXTENDS Integers

CONSTANTS
    IdleTimeout,  \* IDLE_TIMEOUT_MINS
    Window,       \* BILLING_WINDOW_MINS; a longer one is like an hour
    MaxGap        \* how many minutes two polls are apart at most

Hour == 60

ASSUME MinutesAssumption ==
    IdleTimeout \in Nat /\ Window \in 0..Hour /\ MaxGap \in Nat \ {0}

VARIABLES
    busy,    \* whether the runner has a job
    minute,  \* the age of the server in minutes, modulo the hour
    gap,     \* minutes since the last poll
    state,   \* the manager's: Unknown, Busy, Idle or Teardown
    rest,    \* minutes since idle_since, up to IdleTimeout; of an Idle node only
    free,    \* history: minutes the polls have seen the runner free, up to IdleTimeout
    due,     \* history: free for long enough when the window opened
    calm     \* the process is not going to restart any more

vars == <<busy, minute, gap, state, rest, free, due, calm>>

TypeOK ==
    /\ busy \in BOOLEAN
    /\ minute \in 0..(Hour - 1)
    /\ gap \in 0..MaxGap
    /\ state \in {"Unknown", "Busy", "Idle", "Teardown"}
    /\ rest \in 0..IdleTimeout /\ free \in 0..IdleTimeout
    /\ due \in BOOLEAN
    /\ calm \in BOOLEAN

Init ==
    /\ busy \in BOOLEAN
    /\ minute = 0
    /\ gap = 0
    /\ state = "Unknown"
    /\ rest = 0 /\ free = 0
    /\ due = FALSE
    /\ calm = FALSE

(* Mutant: the minutes since the server was created. *)
SinceCreation(age) == age
MinutesIntoHour(age) == age % Hour

(* Mutant: the first minute of the window is left out. *)
InWindowTooLate(m) == m > Hour - Window
(* is_in_billing_window                                                    *)
InBillingWindow(m) == m >= Hour - Window

(* Mutants: every poll sets idle_since to now; a job in between does not.  *)
RestLost == 0
RestKept == rest
(* reconcile sets idle_since to now, carry_forward_state keeps the one of  *)
(* a node that was Idle before.                                            *)
RestCarried == IF state = "Idle" THEN rest ELSE 0

(* One iteration; find_teardown_candidates sees the node as it was listed. *)
Poll ==
    /\ state # "Teardown"
    /\ gap' = 0
    /\ \/ busy /\ state' = "Busy" /\ rest' = rest /\ free' = 0 /\ due' = FALSE
       \/ /\ ~busy
          /\ rest' = RestCarried
          /\ state' = IF rest' = IdleTimeout /\ InBillingWindow(minute)
                        THEN "Teardown" ELSE "Idle"
          /\ UNCHANGED <<free, due>>
    /\ UNCHANGED <<busy, minute, calm>>

OneMore(n) == IF n < IdleTimeout THEN n + 1 ELSE n

(* A minute passes, unless a poll is overdue. *)
Minute ==
    /\ gap < MaxGap
    /\ state # "Teardown"
    /\ gap' = gap + 1
    /\ minute' = MinutesIntoHour(minute + 1)
    /\ rest' = OneMore(rest)
    /\ free' = IF state = "Idle" THEN OneMore(free) ELSE free
    /\ due' = IF minute' = Hour - Window THEN free' = IdleTimeout ELSE due /\ minute' # 0
    /\ UNCHANGED <<busy, state, calm>>

(* The next poll finds the node as if it had never seen it. *)
Restart ==
    /\ ~calm
    /\ state \in {"Busy", "Idle"}
    /\ state' = "Unknown" /\ rest' = 0 /\ free' = 0 /\ due' = FALSE
    /\ UNCHANGED <<busy, minute, gap, calm>>

JobTaken == ~busy /\ busy' = TRUE  /\ UNCHANGED <<minute, gap, state, rest, free, due, calm>>
JobDone  == busy  /\ busy' = FALSE /\ UNCHANGED <<minute, gap, state, rest, free, due, calm>>

Next == Poll \/ Minute \/ Restart \/ JobTaken \/ JobDone

CalmDown == ~calm /\ calm' = TRUE /\ UNCHANGED <<busy, minute, gap, state, rest, free, due>>

(* The loop polls and time passes. *)
FairSpec == Init /\ [][Next \/ CalmDown]_vars
            /\ WF_vars(CalmDown) /\ WF_vars(Poll) /\ WF_vars(Minute)

--------------------------------------------------------------------------------
(* A node that had been free for long enough when the window opened, and   *)
(* was not seen busy since, is not paid for another hour: its teardown has *)
(* begun, find_teardown_candidates has chosen it, when the hour ends.      *)
(* This takes polls that are no further apart than the window is long.     *)
NoHourWasted == [][minute' = 0 /\ minute # 0 => ~due]_vars

(* A node whose runner gets no more jobs is torn down in the end.          *)
IdleIsTornDown == <>[](~busy) => <>(state = "Teardown")

(* Teardown begins only in the last minutes of an hour, and only after     *)
(* IdleTimeout minutes in which every poll saw the runner free; a job seen *)
(* in between, or a restart, starts them again.                            *)
TeardownIsEarned ==
    [][state' = "Teardown" /\ state # "Teardown" =>
          free = IdleTimeout /\ minute >= Hour - Window]_vars

--------------------------------------------------------------------------------
(***************************************************************************)
(* The inductive invariant behind the two safety properties.               *)
(***************************************************************************)

(* The manager's idle timer is right about an Idle node, and the history   *)
(* starts with it.                                                         *)
TimerIsExact ==
    /\ state = "Idle" => rest = free
    /\ state \in {"Unknown", "Busy"} => free = 0

(* A node that is due has not been polled since the window opened.         *)
DueIsUnseen ==
    due /\ state # "Teardown" =>
        /\ free = IdleTimeout
        /\ minute >= Hour - Window
        /\ gap > minute - (Hour - Window)

IInv == TypeOK /\ TimerIsExact /\ DueIsUnseen

================================================================================
