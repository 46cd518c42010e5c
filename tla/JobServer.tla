------------------------------ MODULE JobServer ------------------------------
(***************************************************************************)
(* The job server of pkg/job: Start and Stop, the cron scheduler's runs    *)
(* and the concurrency policies DELAY and SKIP (bootstrap.go, cron.go,     *)
(* concurrent_policy.go).  kratos calls Start and Stop from two goroutines *)
(* and does not wait for Start before it calls Stop.                       *)
(***************************************************************************)
EXTENDS Integers, FiniteSets

CONSTANTS
    Jobs,
    MaxRuns         \* bound: how many runs of one job there are

ASSUME JobAssumption == MaxRuns \in Nat \ {0}

VARIABLES
    policy,         \* a cron job's concurrency policy; SERVER has no schedule
    startPc,        \* where Start is
    stopPc,         \* where Stop is
    ctx,            \* the context of all runs; "none" while s.cancel is nil
    cron,           \* the cron library's scheduler
    pc,             \* where each run of each job is
    gate,           \* the run that holds a job's mutex or token, or Free
    late,           \* runs whose body began under a cancelled context (ghost)
    orderly         \* Stop was called after Start had returned (ghost)

serverVars == <<policy, startPc, stopPc, ctx, cron, orderly>>
runVars == <<pc, gate, late>>
vars == <<serverVars, runVars>>

Policies == {"OVERLAP", "DELAY", "SKIP", "SERVER"}
Free == 0
RunIds == 1..MaxRuns
Cron == {j \in Jobs : policy[j] # "SERVER"}
Exclusive == {j \in Jobs : policy[j] \in {"DELAY", "SKIP"}}

\* A body returns, with or without an error, or panics.
Outcomes == {"returned", "panic"}
Inside == {"check", "start", "body"} \cup Outcomes
States == {"none", "gate", "done"} \cup Inside

TypeOK ==
    /\ policy \in [Jobs -> Policies]
    /\ startPc \in {"new", "cron", "launch", "started"}
    /\ stopPc \in {"idle", "cron", "wait", "stopped", "crashed"}
    /\ ctx \in {"none", "live", "cancelled"}
    /\ startPc # "new" => ctx # "none"
    /\ cron \in {"new", "running", "stopped"}
    /\ pc \in [Jobs -> [RunIds -> States]]
    /\ gate \in [Jobs -> {Free} \cup RunIds]
    /\ late \subseteq Jobs \X RunIds
    /\ orderly \in BOOLEAN

\* NewBootstrap has sorted the registered jobs by their configuration.
Init ==
    /\ policy \in [Jobs -> Policies]
    /\ startPc = "new" /\ stopPc = "idle"
    /\ ctx = "none" /\ cron = "new" /\ orderly = FALSE
    /\ pc = [j \in Jobs |-> [n \in RunIds |-> "none"]]
    /\ gate = [j \in Jobs |-> Free]
    /\ late = {}

Goto(j, n, to) == pc' = [pc EXCEPT ![j][n] = to]

-----------------------------------------------------------------------------
\* Mutant: the cancel function is not kept.
CancelDropped ==
    /\ startPc = "new"
    /\ startPc' = "cron"
    /\ UNCHANGED <<policy, stopPc, ctx, cron, orderly, runVars>>

\* Start: make the context, schedule the cron jobs and start the scheduler,
\* launch one goroutine for every job without a schedule.
MakeContext ==
    /\ startPc = "new"
    /\ startPc' = "cron"
    /\ ctx' = "live"
    /\ UNCHANGED <<policy, stopPc, cron, orderly, runVars>>

StartCron ==
    /\ startPc = "cron"
    /\ startPc' = "launch"
    /\ cron' = "running"
    /\ UNCHANGED <<policy, stopPc, ctx, orderly, runVars>>

LaunchServerJobs ==
    /\ startPc = "launch"
    /\ startPc' = "started"
    /\ pc' = [j \in Jobs |-> IF j \in Cron THEN pc[j] ELSE [pc[j] EXCEPT ![1] = "start"]]
    /\ UNCHANGED <<policy, stopPc, ctx, cron, orderly, gate, late>>

\* Mutant: the runs are not cancelled.
CancelNothing ==
    /\ stopPc = "idle"
    /\ stopPc' = IF ctx = "none" THEN "crashed" ELSE "cron"
    /\ orderly' = (startPc = "started")
    /\ UNCHANGED <<policy, startPc, ctx, cron, runVars>>

\* Stop: s.cancel() (a nil function before Start has set it), then the
\* scheduler's Stop, then the wait for the cron runs under way.
Cancel ==
    /\ stopPc = "idle"
    /\ stopPc' = IF ctx = "none" THEN "crashed" ELSE "cron"
    /\ ctx' = IF ctx = "none" THEN ctx ELSE "cancelled"
    /\ orderly' = (startPc = "started")
    /\ UNCHANGED <<policy, startPc, cron, runVars>>

StopCron ==
    /\ stopPc = "cron"
    /\ stopPc' = "wait"
    /\ cron' = IF cron = "running" THEN "stopped" ELSE cron
    /\ UNCHANGED <<policy, startPc, ctx, orderly, runVars>>

\* Mutant: Stop does not wait for the context cron.Stop returns.
ReturnAtOnce ==
    /\ stopPc = "wait"
    /\ stopPc' = "stopped"
    /\ UNCHANGED <<policy, startPc, ctx, cron, orderly, runVars>>

StopReturns ==
    /\ stopPc = "wait"
    /\ \A j \in Cron, n \in RunIds : pc[j][n] \in {"none", "done"}
    /\ stopPc' = "stopped"
    /\ UNCHANGED <<policy, startPc, ctx, cron, orderly, runVars>>

\* The context kratos passes to Start descends from the one a signal cancels
\* (pkg/app/app.go:156, pkg/utils/graceful_shutdown.go).
ParentCancelled ==
    /\ ctx = "live"
    /\ ctx' = "cancelled"
    /\ UNCHANGED <<policy, startPc, stopPc, cron, orderly, runVars>>

-----------------------------------------------------------------------------
\* The scheduler starts the next run of a cron job in a goroutine of its own.
Tick(j) ==
    /\ cron = "running" /\ stopPc # "crashed"
    /\ j \in Cron
    /\ \E n \in RunIds :
         /\ pc[j][n] = "none"
         /\ \A m \in 1..(n - 1) : pc[j][m] # "none"
         /\ Goto(j, n, "gate")
    /\ UNCHANGED <<serverVars, gate, late>>

Overlap(j, n) ==
    /\ policy[j] = "OVERLAP"
    /\ pc[j][n] = "gate"
    /\ Goto(j, n, "start")
    /\ UNCHANGED <<serverVars, gate, late>>

\* SKIP: take the token, or return at once when it is taken.
TakeToken(j, n) ==
    /\ policy[j] = "SKIP"
    /\ pc[j][n] = "gate"
    /\ gate[j] = Free
    /\ gate' = [gate EXCEPT ![j] = n]
    /\ Goto(j, n, "start")
    /\ UNCHANGED <<serverVars, late>>

Skip(j, n) ==
    /\ policy[j] = "SKIP"
    /\ pc[j][n] = "gate"
    /\ gate[j] # Free
    /\ Goto(j, n, "done")
    /\ UNCHANGED <<serverVars, gate, late>>

\* DELAY: lock the mutex, then give up if the context has ended meanwhile.
Lock(j, n) ==
    /\ policy[j] = "DELAY"
    /\ pc[j][n] = "gate"
    /\ gate[j] = Free
    /\ gate' = [gate EXCEPT ![j] = n]
    /\ Goto(j, n, "check")
    /\ UNCHANGED <<serverVars, late>>

\* Mutant: the context is not looked at after the wait.
CheckNothing(j, n) ==
    /\ pc[j][n] = "check"
    /\ Goto(j, n, "start") /\ UNCHANGED gate
    /\ UNCHANGED <<serverVars, late>>

\* Mutant: the mutex is unlocked before the job runs.
UnlockEarly(j, n) ==
    /\ pc[j][n] = "check"
    /\ Goto(j, n, IF ctx = "cancelled" THEN "done" ELSE "start")
    /\ gate' = [gate EXCEPT ![j] = Free]
    /\ UNCHANGED <<serverVars, late>>

CheckContext(j, n) ==
    /\ pc[j][n] = "check"
    /\ IF ctx = "cancelled"
       THEN Goto(j, n, "done") /\ gate' = [gate EXCEPT ![j] = Free]
       ELSE Goto(j, n, "start") /\ UNCHANGED gate
    /\ UNCHANGED <<serverVars, late>>

\* Recovery, tracing, metrics and logging wrap the body of the job.
EnterBody(j, n) ==
    /\ pc[j][n] = "start"
    /\ Goto(j, n, "body")
    /\ late' = IF ctx = "cancelled" THEN late \cup {<<j, n>>} ELSE late
    /\ UNCHANGED <<serverVars, gate>>

BodyEnds(j, n) ==
    /\ pc[j][n] = "body"
    /\ \E outcome \in Outcomes : Goto(j, n, outcome)
    /\ UNCHANGED <<serverVars, gate, late>>

\* Mutant: the policy is inside the recovery, a panic skips its last line.
LeavePanicking(j, n) ==
    /\ pc[j][n] \in Outcomes
    /\ Goto(j, n, "done")
    /\ gate' = IF gate[j] = n /\ pc[j][n] # "panic"
               THEN [gate EXCEPT ![j] = Free] ELSE gate
    /\ UNCHANGED <<serverVars, late>>

\* A panic is recovered below the policy, which gives back mutex or token.
Leave(j, n) ==
    /\ pc[j][n] \in Outcomes
    /\ Goto(j, n, "done")
    /\ gate' = IF j \in Exclusive THEN [gate EXCEPT ![j] = Free] ELSE gate
    /\ UNCHANGED <<serverVars, late>>

-----------------------------------------------------------------------------
StartStep == MakeContext \/ StartCron \/ LaunchServerJobs

StopStep == StopCron \/ StopReturns

Admit(j, n) ==
    \/ Overlap(j, n) \/ TakeToken(j, n) \/ Skip(j, n)
    \/ Lock(j, n) \/ CheckContext(j, n) \/ EnterBody(j, n)

RunStep(j, n) == Admit(j, n) \/ BodyEnds(j, n) \/ Leave(j, n)

Running == stopPc # "crashed"

Next ==
    \/ Running /\ StartStep
    \/ Cancel \/ StopStep \/ ParentCancelled
    \/ \E j \in Jobs : Tick(j)
    \/ Running /\ \E j \in Jobs, n \in RunIds : RunStep(j, n)

Spec == Init /\ [][Next]_vars

\* What a run does by itself.
Proceed(j, n) ==
    /\ Running
    /\ Admit(j, n) \/ Leave(j, n) \/ (ctx = "cancelled" /\ BodyEnds(j, n))

\* The goroutines of Start, Stop and the runs are scheduled; a body ends once
\* its context is cancelled (bootstrap.go:187 asks jobs for that), but needs
\* not end before.
Fairness == WF_vars(StopStep) /\ \A j \in Jobs, n \in RunIds : WF_vars(Proceed(j, n))

FairSpec == Spec /\ Fairness

-----------------------------------------------------------------------------
\* No two runs of a DELAY or SKIP job are ever between the policy and its
\* end, whatever the order of ticks, ends, panics and Stop (concurrent_policy.go).
AtMostOne ==
    \A j \in Exclusive : \A m, n \in RunIds :
        (pc[j][m] \in Inside /\ pc[j][n] \in Inside) => m = n

\* A job's mutex or token is held by a run that is still going: an error, a
\* panic or a cancelled wait never loses it for the runs to come.
GateKept ==
    \A j \in Exclusive : gate[j] # Free => pc[j][gate[j]] \in Inside

\* The runs of a DELAY job that have piled up do not run after the
\* cancellation: at most the one that had just passed the test of
\* concurrent_policy.go:31 does.
PileDiscarded ==
    \A j \in Jobs : policy[j] = "DELAY" =>
        \A m, n \in RunIds : (<<j, m>> \in late /\ <<j, n>> \in late) => m = n

\* Once Stop has returned, after a Start that had, no body of a cron job begins
\* any more: no tick is to come and none is on its way to the mutex, the token
\* or the body (cron.go:66-70).  Runs that are in their body then are another
\* matter: bootstrap.go:186 says that Stop does not wait for them.
NoneBegins ==
    [][(stopPc = "stopped" /\ orderly) =>
          \A j \in Cron, n \in RunIds : pc[j][n] # "body" => pc'[j][n] # "body"]_vars

\* Stop returns: the runs it waits for, also those that wait for a mutex,
\* have been cancelled before (bootstrap.go:188-192).
StopEnds == (stopPc = "cron" /\ orderly) ~> stopPc = "stopped"
=============================================================================
