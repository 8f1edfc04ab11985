----------------------------- MODULE KernelEdf -----------------------------
(***************************************************************************)
(* Kernel with the scheduling policy of kernel/src/sched.rs: the CPU goes  *)
(* to the ready task with the earliest absolute deadline.  Time is counted *)
(* in timer ticks (TICK_NS = 1 ms, of which every period in the code is a  *)
(* multiple) and a deadline is kept as its distance from now, `slack'.     *)
(*                                                                         *)
(* pick_next's `runnable' is `present' here: admission sets both, only     *)
(* terminate_current clears either, and it clears both.  SCHED.num is the  *)
(* number of present tasks, so schedule_tick's early return for num <= 1   *)
(* is the case in which idle is alone.                                     *)
(*                                                                         *)
(* A definition named Mutant... is a deliberately wrong variant of the one *)
(* below it; the specification does not use it (see README.md).            *)
(***************************************************************************)
EXTENDS Kernel

CONSTANTS
    BootPeriod,     \* the period, in ticks, each boot task was admitted with
    RestartPeriod   \* the period of a restarted instance

\* Every admission passes a deadline equal to the period, and rejects 0.
ASSUME PeriodAssumption ==
    /\ BootPeriod \in [Task -> Nat \ {0}]
    /\ RestartPeriod \in Nat \ {0}

VARIABLES
    period,         \* period_ns
    slack           \* abs_deadline_ns - now_ns()

edfVars == <<vars, period, slack>>

(***************************************************************************)
(* Periods are positive, and no task's deadline has been reached: a passed *)
(* deadline is rolled forward in the same step.                            *)
(***************************************************************************)
EdfTypeOK ==
    /\ period \in [Task -> Nat \ {0}]
    /\ slack \in [Task -> Nat \ {0}]

EdfInit ==
    /\ Init
    /\ period = BootPeriod
    /\ slack = BootPeriod

-----------------------------------------------------------------------------

MutantRolled(s, p) == IF s >= 0 THEN s ELSE p - ((-s) % p)

\* The while loop of roll_deadlines: s plus the least number of periods that
\* makes it positive.
Rolled(s, p) == IF s > 0 THEN s ELSE p - ((-s) % p)

roll_deadlines(sl, pd, here) ==
    [t \in Task |-> IF t # 0 /\ here[t] THEN Rolled(sl[t], pd[t]) ELSE pd[t]]

MutantPickParked(here, parked, sl) ==
    LET R == Ready(here, [t \in Task |-> FALSE])
    IN  IF R = {} THEN 0
        ELSE Min({t \in R : sl[t] = Min({sl[u] : u \in R})})

MutantPickLast(here, parked, sl) ==
    LET R == Ready(here, parked)
    IN  IF R = {} THEN 0
        ELSE Max({t \in R : sl[t] = Min({sl[u] : u \in R})})

\* Earliest deadline; the lowest index on a tie; idle when nobody is ready.
pick_next(here, parked, sl) ==
    LET R == Ready(here, parked)
    IN  IF R = {} THEN 0
        ELSE Min({t \in R : sl[t] = Min({sl[u] : u \in R})})

\* Every switch: roll, pick, publish the domain of the task picked.
EdfSwitch(sl) ==
    /\ slack' = roll_deadlines(sl, period', present')
    /\ current' = pick_next(present', blocked', slack')
    /\ currentDomain' = domain'[current']

EdfStay ==
    /\ Stay
    /\ UNCHANGED <<cpuVars, period, slack>>

\* The call finishes and the task returns to ring 3.
EdfResume ==
    /\ Resume
    /\ UNCHANGED <<cpuVars, period, slack>>

EdfTick ==
    /\ Tick
    /\ UNCHANGED period
    /\ EdfSwitch([t \in Task |-> slack[t] - 1])

EdfPark ==
    /\ Park
    /\ UNCHANGED period
    /\ EdfSwitch(slack)

\* The task the supervisor admitted in this step, if any.
Admitted == {t \in Task : present'[t] /\ (t = current \/ ~present[t])}

EdfFault ==
    /\ Fault
    /\ period' = [t \in Task |-> IF t \in Admitted THEN RestartPeriod
                                                   ELSE period[t]]
    /\ EdfSwitch([t \in Task |-> IF t \in Admitted THEN RestartPeriod
                                                   ELSE slack[t]])

EdfNext == EdfStay \/ EdfTick \/ EdfPark \/ EdfFault

(***************************************************************************)
(* The periodic timer keeps firing; a tick that finds interrupts off stays *)
(* pending and is taken at the next return to ring 3 or to idle, hence     *)
(* strong fairness.  Kernel code that has the CPU runs on.  Ring-3 code    *)
(* owes nothing: no fairness on the calls a task makes.                    *)
(***************************************************************************)
Fairness == SF_edfVars(EdfTick) /\ WF_edfVars(EdfResume)

EdfSafety == EdfInit /\ [][EdfNext]_edfVars

EdfSpec == EdfSafety /\ Fairness

-----------------------------------------------------------------------------

(***************************************************************************)
(* The scheduler is one of the choices Kernel allows: every switch, by     *)
(* tick, park, fault or restart, installs a task that is there and is not  *)
(* parked, and idle only when there is none.  What is shown of Kernel      *)
(* holds of the kernel under EDF.                                          *)
(***************************************************************************)
ImplementsKernel == Spec

\* t is the first ready task of the table.
Foremost(t) ==
    t \in Ready(present, blocked) /\ \A u \in Ready(present, blocked) : t <= u

(***************************************************************************)
(* The first ready task of the table is never starved, whatever the other  *)
(* tasks' periods and however busy they keep the CPU: its own deadline     *)
(* comes within a tick once a period, and the tie-break is in its favour.  *)
(***************************************************************************)
ForemostRuns ==
    \A t \in Task \ {0} : <>[]Foremost(t) => []<>(current = t)

(***************************************************************************)
(* The doc comment of unblock, "EDF picks the woken task on a later tick": *)
(* a task that was woken gets to finish its call.                          *)
(***************************************************************************)
WokenRuns ==
    \A t \in Task :
        (inKernel[t] /\ ~blocked[t]) ~> ~inKernel[t]

=============================================================================
