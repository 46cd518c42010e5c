---------------------------- MODULE ServersProofs ----------------------------
(***************************************************************************)
(* Proofs about what kratos starts and stops, for any set of jobs, any     *)
(* number of runs and hooks: the job server (who holds a job's mutex or    *)
(* token, which bodies may still begin after the cancellation, what an     *)
(* orderly Stop has reached), the life of the application (what has been   *)
(* started says how far Run has got) and the reports of the runs (who has  *)
(* met whom).  The last section takes the three together, as MCServers     *)
(* does.                                                                   *)
(***************************************************************************)
EXTENDS MCServers, FiniteSetTheorems, TLAPS

(* The job server. *)
\* The mutex or token belongs to the one run between the policy and its end.
Held ==
    \A j \in Exclusive, n \in RunIds : pc[j][n] \in Inside <=> gate[j] = n

\* A body that has begun, or is about to begin, under a cancelled context.
Doomed(j, n) == <<j, n>> \in late \/ (ctx = "cancelled" /\ pc[j][n] = "start")

OneDoomed ==
    /\ ctx # "cancelled" => late = {}
    /\ \A j \in Jobs : policy[j] = "DELAY" =>
         \A m, n \in RunIds : (Doomed(j, m) /\ Doomed(j, n)) => m = n

StopOrder ==
    /\ startPc = "new" => ctx = "none"
    /\ orderly => startPc = "started"
    /\ (orderly /\ stopPc \in {"wait", "stopped"}) => cron # "running"
    /\ (orderly /\ stopPc = "stopped") =>
         \A j \in Cron, n \in RunIds : pc[j][n] \in {"none", "done"}

IInv == TypeOK /\ Held /\ OneDoomed /\ StopOrder

\* Run states, for the provers.
LEMMA States1 ==
    /\ Inside = {"check", "start", "body", "returned", "panic"}
    /\ States = {"none", "gate", "done", "check", "start", "body", "returned", "panic"}
BY DEF Inside, States, Outcomes

LEMMA InitInv == Init => IInv
<1> SUFFICES ASSUME Init PROVE IInv
    OBVIOUS
<1> USE JobAssumption DEF Init, RunIds
<1>1. TypeOK
    BY DEF TypeOK, States, Policies, Free
<1>2. Held
    BY States1 DEF Held, Exclusive, Free
<1>3. OneDoomed
    BY DEF OneDoomed, Doomed
<1>4. StopOrder
    BY DEF StopOrder
<1> QED
    BY <1>1, <1>2, <1>3, <1>4 DEF IInv

\* The types are preserved by every step.
LEMMA TypeStep == TypeOK /\ [Next]_vars => TypeOK'
<1> SUFFICES ASSUME TypeOK, [Next]_vars PROVE TypeOK'
    OBVIOUS
<1> USE JobAssumption, States1 DEF TypeOK, Policies, RunIds, Goto, serverVars, runVars
<1>1. CASE StartStep
    <2>1. CASE MakeContext BY <2>1 DEF MakeContext
    <2>2. CASE StartCron BY <2>2 DEF StartCron
    <2>3. CASE LaunchServerJobs BY <2>3 DEF LaunchServerJobs
    <2> QED BY <1>1, <2>1, <2>2, <2>3 DEF StartStep
<1>2. CASE Cancel BY <1>2 DEF Cancel
<1>7. CASE ParentCancelled BY <1>7 DEF ParentCancelled
<1>3. CASE StopStep
    BY <1>3 DEF StopStep, StopCron, StopReturns
<1>4. ASSUME NEW j \in Jobs, Tick(j) PROVE TypeOK'
    BY <1>4 DEF Tick
<1>5. ASSUME NEW j \in Jobs, NEW n \in RunIds, RunStep(j, n) PROVE TypeOK'
    <2>1. CASE Overlap(j, n) BY <2>1 DEF Overlap
    <2>2. CASE TakeToken(j, n) BY <2>2 DEF TakeToken
    <2>3. CASE Skip(j, n) BY <2>3 DEF Skip
    <2>4. CASE Lock(j, n) BY <2>4 DEF Lock
    <2>5. CASE CheckContext(j, n)
        <3>1. CASE ctx = "cancelled"
            <4>1. /\ pc' = [pc EXCEPT ![j][n] = "done"]
                  /\ gate' = [gate EXCEPT ![j] = Free]
                  /\ UNCHANGED <<serverVars, late>>
                BY <2>5, <3>1 DEF CheckContext
            <4>2. gate' \in [Jobs -> {Free} \cup RunIds]
                BY <4>1
            <4>3. pc' \in [Jobs -> [RunIds -> States]]
                BY <4>1
            <4> QED BY <4>1, <4>2, <4>3
        <3>2. CASE ctx # "cancelled" BY <2>5, <3>2 DEF CheckContext
        <3> QED BY <3>1, <3>2
    <2>6. CASE EnterBody(j, n) BY <2>6 DEF EnterBody
    <2>7. CASE BodyEnds(j, n) BY <2>7 DEF BodyEnds, Outcomes
    <2>8. CASE Leave(j, n) BY <2>8 DEF Leave
    <2> QED
        BY <1>5, <2>1, <2>2, <2>3, <2>4, <2>5, <2>6, <2>7, <2>8 DEF RunStep, Admit
<1>6. CASE UNCHANGED vars
    BY <1>6 DEF vars
<1> QED
    BY <1>1, <1>2, <1>3, <1>4, <1>5, <1>6, <1>7 DEF Next

\* What a step of one run leaves of the others.
LEMMA GotoOne ==
    ASSUME TypeOK, NEW j \in Jobs, NEW n \in RunIds, NEW to, Goto(j, n, to)
    PROVE  \A i \in Jobs, m \in RunIds :
               pc'[i][m] = IF i = j /\ m = n THEN to ELSE pc[i][m]
BY DEF TypeOK, Goto

\* The mutex or token stays with the run that is inside.
LEMMA HeldStep == IInv /\ [Next]_vars => Held'
<1> SUFFICES ASSUME IInv, [Next]_vars PROVE Held'
    OBVIOUS
<1> USE JobAssumption, States1 DEF IInv, Exclusive, serverVars, runVars
<1>0. Free \notin RunIds
    BY DEF Free, RunIds
<1>1. CASE StartStep
    <2>1. CASE MakeContext \/ StartCron
        BY <2>1 DEF MakeContext, StartCron, Held
    <2>2. CASE LaunchServerJobs
        <3>1. \A j \in Exclusive : pc'[j] = pc[j]
            BY <2>2 DEF LaunchServerJobs, Cron
        <3>2. gate' = gate /\ policy' = policy
            BY <2>2 DEF LaunchServerJobs
        <3> QED
            BY <3>1, <3>2 DEF Held
    <2> QED BY <1>1, <2>1, <2>2 DEF StartStep
<1>2. CASE Cancel BY <1>2 DEF Cancel, Held
<1>7. CASE ParentCancelled BY <1>7 DEF ParentCancelled, Held
<1>3. CASE StopStep
    BY <1>3 DEF StopStep, StopCron, StopReturns, Held
<1>4. ASSUME NEW j \in Jobs, Tick(j) PROVE Held'
    <2>1. PICK n \in RunIds : pc[j][n] = "none" /\ Goto(j, n, "gate")
        BY <1>4 DEF Tick
    <2>2. gate' = gate /\ policy' = policy
        BY <1>4 DEF Tick
    <2> QED
        BY <2>1, <2>2, GotoOne DEF Held
<1>5. ASSUME NEW j \in Jobs, NEW n \in RunIds, RunStep(j, n) PROVE Held'
    <2>1. CASE Overlap(j, n)
        BY <2>1, GotoOne DEF Overlap, Held
    <2>2. CASE TakeToken(j, n) \/ Lock(j, n)
        <3>1. PICK to \in {"start", "check"} : Goto(j, n, to)
            BY <2>2 DEF TakeToken, Lock
        <3>2. gate[j] = Free /\ gate' = [gate EXCEPT ![j] = n] /\ policy' = policy
            BY <2>2 DEF TakeToken, Lock
        <3> QED
            BY <1>0, <3>1, <3>2, GotoOne DEF Held, TypeOK
    <2>3. CASE Skip(j, n)
        BY <2>3, GotoOne DEF Skip, Held
    <2>4. CASE CheckContext(j, n)
        <3>1. CASE ctx = "cancelled"
            BY <1>0, <2>4, <3>1, GotoOne DEF CheckContext, Held, TypeOK
        <3>2. CASE ctx # "cancelled"
            BY <2>4, <3>2, GotoOne DEF CheckContext, Held
        <3> QED BY <3>1, <3>2
    <2>5. CASE EnterBody(j, n)
        BY <2>5, GotoOne DEF EnterBody, Held
    <2>6. CASE BodyEnds(j, n)
        <3>1. PICK outcome \in {"returned", "panic"} : Goto(j, n, outcome)
            BY <2>6 DEF BodyEnds, Outcomes
        <3> QED
            BY <2>6, <3>1, GotoOne DEF BodyEnds, Held
    <2>7. CASE Leave(j, n)
        <3>1. Goto(j, n, "done") /\ pc[j][n] \in Inside /\ policy' = policy
            BY <2>7 DEF Leave, Outcomes
        <3>2. CASE j \in Exclusive
            BY <1>0, <2>7, <3>1, <3>2, GotoOne DEF Leave, Held, TypeOK
        <3>3. CASE j \notin Exclusive
            BY <2>7, <3>1, <3>3, GotoOne DEF Leave, Held
        <3> QED BY <3>2, <3>3
    <2> QED
        BY <1>5, <2>1, <2>2, <2>3, <2>4, <2>5, <2>6, <2>7 DEF RunStep, Admit
<1>6. CASE UNCHANGED vars
    BY <1>6 DEF vars, Held
<1> QED
    BY <1>1, <1>2, <1>3, <1>4, <1>5, <1>6, <1>7 DEF Next

\* At most one body of a DELAY job begins after the cancellation: the one whose
\* run held the mutex then and had passed the test.
LEMMA DoomedStep == IInv /\ [Next]_vars => OneDoomed'
<1> SUFFICES ASSUME IInv, [Next]_vars PROVE OneDoomed'
    OBVIOUS
<1> USE States1 DEF IInv, serverVars, runVars
\* It is enough that no run of a DELAY job becomes doomed.
<1>0. ASSUME ctx' # "cancelled" => late' = {}, policy' = policy,
             \A j \in Jobs, n \in RunIds :
                 (policy[j] = "DELAY" /\ Doomed(j, n)') => Doomed(j, n)
      PROVE  OneDoomed'
    <2>1. ASSUME NEW j \in Jobs, policy'[j] = "DELAY", NEW m \in RunIds, NEW n \in RunIds,
                 Doomed(j, m)', Doomed(j, n)'
          PROVE  m = n
        <3>1. Doomed(j, m) /\ Doomed(j, n)
            BY <1>0, <2>1
        <3> QED BY <1>0, <2>1, <3>1 DEF OneDoomed
    <2> QED BY <1>0, <2>1 DEF OneDoomed
<1>1. CASE StartStep
    <2>1. CASE MakeContext
        BY <1>0, <2>1 DEF MakeContext, StopOrder, OneDoomed, Doomed
    <2>2. CASE StartCron
        BY <1>0, <2>2 DEF StartCron, OneDoomed, Doomed
    <2>3. CASE LaunchServerJobs
        <3>1. \A j \in Jobs : policy[j] = "DELAY" => pc'[j] = pc[j]
            BY <2>3 DEF LaunchServerJobs, Cron
        <3> QED
            BY <1>0, <2>3, <3>1 DEF LaunchServerJobs, OneDoomed, Doomed
    <2> QED BY <1>1, <2>1, <2>2, <2>3 DEF StartStep
<1>2. CASE Cancel \/ ParentCancelled
    <2>1. CASE ctx' = ctx
        BY <1>0, <1>2, <2>1 DEF Cancel, ParentCancelled, OneDoomed, Doomed
    <2>2. CASE ctx' # ctx
        <3>1. ctx' = "cancelled" /\ late = {} /\ late' = {} /\ pc' = pc /\ policy' = policy
            BY <1>2, <2>2 DEF Cancel, ParentCancelled, OneDoomed
        <3>2. \A j \in Jobs : policy[j] = "DELAY" =>
                 \A n \in RunIds : Doomed(j, n)' => gate[j] = n
            BY <3>1 DEF Doomed, Held, Exclusive
        <3> QED
            BY <3>1, <3>2 DEF OneDoomed
    <2> QED BY <2>1, <2>2
<1>3. CASE StopStep
    BY <1>0, <1>3 DEF StopStep, StopCron, StopReturns, OneDoomed, Doomed
<1>4. ASSUME NEW j \in Jobs, Tick(j) PROVE OneDoomed'
    <2>1. PICK n \in RunIds : pc[j][n] = "none" /\ Goto(j, n, "gate")
        BY <1>4 DEF Tick
    <2>2. UNCHANGED <<policy, ctx, late>>
        BY <1>4 DEF Tick
    <2> QED
        BY <1>0, <2>1, <2>2, GotoOne DEF OneDoomed, Doomed
<1>5. ASSUME NEW j \in Jobs, NEW n \in RunIds, RunStep(j, n) PROVE OneDoomed'
    <2>1. CASE Overlap(j, n) \/ TakeToken(j, n)
        <3>1. policy[j] # "DELAY" /\ UNCHANGED <<policy, ctx, late>> /\ Goto(j, n, "start")
            BY <2>1 DEF Overlap, TakeToken
        <3> QED
            BY <1>0, <3>1, GotoOne DEF OneDoomed, Doomed
    <2>2. CASE Skip(j, n) \/ Lock(j, n) \/ BodyEnds(j, n) \/ Leave(j, n)
        <3>1. UNCHANGED <<policy, ctx, late>>
            BY <2>2 DEF Skip, Lock, BodyEnds, Leave
        <3>2. PICK to \in States : to # "start" /\ Goto(j, n, to)
            BY <2>2 DEF Skip, Lock, BodyEnds, Leave, Outcomes
        <3> QED
            BY <1>0, <3>1, <3>2, GotoOne DEF OneDoomed, Doomed
    <2>3. CASE CheckContext(j, n)
        <3>1. UNCHANGED <<policy, ctx, late>>
            BY <2>3 DEF CheckContext
        <3>2. CASE ctx = "cancelled"
            <4>1. Goto(j, n, "done")
                BY <2>3, <3>2 DEF CheckContext
            <4> QED BY <1>0, <3>1, <4>1, GotoOne DEF OneDoomed, Doomed
        <3>3. CASE ctx # "cancelled"
            BY <1>0, <3>1, <3>3 DEF OneDoomed, Doomed
        <3> QED BY <3>2, <3>3
    <2>4. CASE EnterBody(j, n)
        <3>1. UNCHANGED <<policy, ctx>> /\ Goto(j, n, "body") /\ pc[j][n] = "start"
            BY <2>4 DEF EnterBody
        <3>2. late' = IF ctx = "cancelled" THEN late \cup {<<j, n>>} ELSE late
            BY <2>4 DEF EnterBody
        <3>3. \A i \in Jobs, m \in RunIds :
                 <<i, m>> \in late' => Doomed(i, m)
            BY <3>1, <3>2 DEF Doomed
        <3> QED
            BY <1>0, <3>1, <3>2, <3>3, GotoOne DEF OneDoomed, Doomed
    <2> QED
        BY <1>5, <2>1, <2>2, <2>3, <2>4 DEF RunStep, Admit
<1>6. CASE UNCHANGED vars
    BY <1>0, <1>6 DEF vars, OneDoomed, Doomed
<1> QED
    BY <1>1, <1>2, <1>3, <1>4, <1>5, <1>6 DEF Next

\* A step of a run leaves a run that has ended, or has not begun, as it is.
LEMMA RunMoves ==
    ASSUME TypeOK, NEW j \in Jobs, NEW n \in RunIds, RunStep(j, n)
    PROVE  /\ pc[j][n] \notin {"none", "done"}
           /\ \A i \in Jobs : i # j => pc'[i] = pc[i]
           /\ UNCHANGED serverVars
<1> USE States1 DEF TypeOK, Goto
<1>1. CASE Overlap(j, n) BY <1>1 DEF Overlap
<1>2. CASE TakeToken(j, n) BY <1>2 DEF TakeToken
<1>3. CASE Skip(j, n) BY <1>3 DEF Skip
<1>4. CASE Lock(j, n) BY <1>4 DEF Lock
<1>5. CASE CheckContext(j, n) BY <1>5 DEF CheckContext
<1>6. CASE EnterBody(j, n) BY <1>6 DEF EnterBody
<1>7. CASE BodyEnds(j, n) BY <1>7 DEF BodyEnds, Outcomes
<1>8. CASE Leave(j, n) BY <1>8 DEF Leave, Outcomes
<1> QED
    BY <1>1, <1>2, <1>3, <1>4, <1>5, <1>6, <1>7, <1>8 DEF RunStep, Admit

\* Once an orderly Stop has returned the cron jobs stand still.
LEMMA CronStill ==
    ASSUME IInv, [Next]_vars, stopPc = "stopped", orderly
    PROVE  \A j \in Cron : pc'[j] = pc[j]
<1> USE DEF IInv, StopOrder, serverVars, runVars
<1>1. CASE StartStep
    BY <1>1 DEF StartStep, MakeContext, StartCron, LaunchServerJobs
<1>2. CASE Cancel \/ StopStep \/ ParentCancelled
    BY <1>2 DEF Cancel, StopStep, StopCron, StopReturns, ParentCancelled
<1>3. ASSUME NEW j \in Jobs, Tick(j) PROVE FALSE
    BY <1>3 DEF Tick
<1>4. ASSUME NEW j \in Jobs, NEW n \in RunIds, RunStep(j, n)
      PROVE  \A i \in Cron : pc'[i] = pc[i]
    BY <1>4, RunMoves DEF Cron
<1>5. CASE UNCHANGED vars
    BY <1>5 DEF vars
<1> QED
    BY <1>1, <1>2, <1>3, <1>4, <1>5 DEF Next

\* What an orderly Stop has reached stays reached.
LEMMA StopOrderStep == IInv /\ [Next]_vars => StopOrder'
<1> SUFFICES ASSUME IInv, [Next]_vars PROVE StopOrder'
    OBVIOUS
<1> USE DEF IInv, StopOrder, serverVars, runVars
<1>1. CASE StartStep
    <2>1. CASE MakeContext BY <2>1 DEF MakeContext, Cron
    <2>2. CASE StartCron BY <2>2 DEF StartCron, Cron
    <2>3. CASE LaunchServerJobs BY <2>3 DEF LaunchServerJobs, Cron
    <2> QED BY <1>1, <2>1, <2>2, <2>3 DEF StartStep
<1>2. CASE Cancel
    BY <1>2 DEF Cancel, Cron, TypeOK
<1>7. CASE ParentCancelled
    BY <1>7 DEF ParentCancelled, Cron
<1>3. CASE StopStep
    BY <1>3 DEF StopStep, StopCron, StopReturns, Cron
<1>4. ASSUME NEW j \in Jobs, Tick(j) PROVE StopOrder'
    BY <1>4 DEF Tick, Cron
<1>5. ASSUME NEW j \in Jobs, NEW n \in RunIds, RunStep(j, n) PROVE StopOrder'
    <2>1. UNCHANGED serverVars
        BY <1>5, RunMoves
    <2>2. (orderly /\ stopPc = "stopped") => \A i \in Cron : pc'[i] = pc[i]
        BY CronStill
    <2> QED
        BY <2>1, <2>2 DEF Cron
<1>6. CASE UNCHANGED vars
    BY <1>6 DEF vars, Cron
<1> QED
    BY <1>1, <1>2, <1>3, <1>4, <1>5, <1>6, <1>7 DEF Next

LEMMA StepInv == IInv /\ [Next]_vars => IInv'
BY TypeStep, HeldStep, DoomedStep, StopOrderStep DEF IInv

LEMMA Invariance == Spec => []IInv
BY InitInv, StepInv, PTL DEF Spec

\* The variables keep their types (the job server of pkg/job).
THEOREM TypeCorrect == Spec => []TypeOK
<1>1. IInv => TypeOK
    BY DEF IInv
<1> QED
    BY <1>1, Invariance, PTL

\* DELAY and SKIP let one run through at a time, for any number of jobs and runs.
THEOREM AtMostOneCorrect == Spec => []AtMostOne
<1>1. IInv => AtMostOne
    BY DEF IInv, Held, AtMostOne
<1> QED
    BY <1>1, Invariance, PTL

\* Neither a panic nor a cancelled wait loses a mutex or a token.
THEOREM GateCorrect == Spec => []GateKept
<1>1. IInv => GateKept
    BY DEF IInv, Held, GateKept, TypeOK, Exclusive
<1> QED
    BY <1>1, Invariance, PTL

\* Of the runs that have piled up behind a DELAY job's mutex at most one has
\* its body begun after the cancellation.
THEOREM PileCorrect == Spec => []PileDiscarded
<1>1. IInv => PileDiscarded
    BY DEF IInv, OneDoomed, Doomed, PileDiscarded
<1> QED
    BY <1>1, Invariance, PTL

\* After an orderly Stop has returned no body of a cron job begins.
THEOREM NoneBeginsCorrect == Spec => NoneBegins
<1>1. IInv /\ [Next]_vars =>
          [(stopPc = "stopped" /\ orderly) =>
              \A j \in Cron, n \in RunIds : pc[j][n] # "body" => pc'[j][n] # "body"]_vars
    BY CronStill
<1> QED
    BY <1>1, Invariance, PTL DEF Spec, NoneBegins

-----------------------------------------------------------------------------
(* The application. *)
\* The hooks as an induction sees them: how far Run has got says what has been
\* started, and what has been started never goes back.
Ended(s) == stop[s] = "stopped" /\ start[s] \in {"returned", "failed"}

AppStages ==
    /\ \A s \in App!Servers : start[s] # "none" =>
          s \in App!GetServers /\ called["beforeStart"] = Hooks
    /\ \A s \in App!Servers : start[s] = "none" => stop[s] = "none"
    /\ run = "beforeStart" => \A s \in App!Servers : start[s] = "none"
    /\ run \in {"register", "afterStart", "wait", "afterStop"} \/ called["afterStart"] > 0 =>
          \A s \in App!GetServers : start[s] # "none"
    /\ run \in {"register", "afterStart", "wait", "afterStop"} \/ called["afterStart"] > 0 =>
          called["beforeStart"] = Hooks
    /\ run \in {"beforeStart", "register", "afterStart"} => stopper = "none"
    /\ stopper # "none" => called["afterStart"] = Hooks
    /\ stopper \in {"none", "select"} => called["beforeStop"] = 0
    /\ stopper \in {"deregister", "cancel", "done"} => called["beforeStop"] \in {0, Hooks}
    /\ run \notin {"afterStop", "returned"} => called["afterStop"] = 0
    /\ run = "afterStop" \/ called["afterStop"] > 0 =>
          stopper = "done" /\ \A s \in App!GetServers : Ended(s)

AppInv == App!TypeOK /\ AppStages

LEMMA AppInit == Hooks \in Nat /\ App!Init => AppInv
<1> SUFFICES ASSUME Hooks \in Nat, App!Init PROVE AppInv
    OBVIOUS
<1>1. called \in [App!Stages -> 0..Hooks] /\ \A stage \in App!Stages : called[stage] = 0
    BY DEF App!Init
<1>2. start \in [App!Servers -> {"none"}] /\ stop \in [App!Servers -> {"none"}]
    BY DEF App!Init
<1>3. App!TypeOK
    BY <1>1, <1>2 DEF App!Init, App!TypeOK
<1>4. AppStages
    BY <1>1, <1>2 DEF App!Init, AppStages, App!Stages, App!GetServers
<1> QED
    BY <1>3, <1>4 DEF AppInv

\* What Run itself does.
LEMMA AppRunStep ==
    ASSUME Hooks \in Nat, AppInv, App!RunStep
    PROVE  AppInv'
<1> USE DEF AppInv, App!TypeOK, AppStages, Ended, App!Servers, App!Endpoints, App!Stages,
            App!GetServers, App!CallHook, App!RegisteredAs, App!mainVars, App!serverVars,
            App!confVars
<1>1. ASSUME NEW stage \in App!Stages, App!StartHook(stage) PROVE AppInv'
    BY <1>1 DEF App!StartHook
<1>2. CASE App!Launch
    BY <1>2 DEF App!Launch
<1>3. CASE App!Register
    BY <1>3 DEF App!Register
<1>4. CASE App!Listen
    BY <1>4 DEF App!Listen
<1>5. CASE App!GroupEnds
    BY <1>5 DEF App!GroupEnds
<1>6. CASE App!StopHook
    BY <1>6 DEF App!StopHook
<1>7. CASE App!Return
    BY <1>7 DEF App!Return
<1> QED
    BY <1>1, <1>2, <1>3, <1>4, <1>5, <1>6, <1>7 DEF App!RunStep

\* What a server and the goroutine that stops it do.
LEMMA AppServerStep ==
    ASSUME Hooks \in Nat, AppInv, NEW s \in App!Servers, App!ServerStep(s)
    PROVE  AppInv'
<1> USE DEF AppInv, App!TypeOK, AppStages, Ended, App!Endpoints, App!Stages,
            App!GetServers, App!mainVars, App!serverVars, App!confVars, App!Running, App!Fails
<1>1. CASE App!Serve(s)
    BY <1>1 DEF App!Serve
<1>2. CASE App!StartFails(s)
    BY <1>2 DEF App!StartFails
<1>3. CASE App!StartReturns(s)
    BY <1>3 DEF App!StartReturns
<1>4. CASE App!Awaken(s)
    BY <1>4 DEF App!Awaken
<1>5. CASE App!DelayOver(s)
    BY <1>5 DEF App!DelayOver
<1>6. CASE App!StopReturns(s)
    <2>1. failure' \in {failure, "server"} /\ group' \in BOOLEAN
        BY <1>6 DEF App!StopReturns
    <2>2. stop' = [stop EXCEPT ![s] = "stopped"] /\ stop[s] = "stopping"
        BY <1>6 DEF App!StopReturns
    <2>3. UNCHANGED <<disabled, delayed, run, called, signal, root, registry, start, stopper>>
        BY <1>6 DEF App!StopReturns
    <2>4. App!TypeOK'
        BY <2>1, <2>2, <2>3
    <2>5. AppStages'
        BY <2>2, <2>3
    <2> QED
        BY <2>4, <2>5
<1> QED
    BY <1>1, <1>2, <1>3, <1>4, <1>5, <1>6 DEF App!ServerStep

\* What kratos' signal goroutine and the signal itself do.
LEMMA AppStopperStep ==
    ASSUME Hooks \in Nat, AppInv, App!StopperStep \/ App!Signal \/ App!CancelRoot
    PROVE  AppInv'
<1> USE DEF AppInv, App!TypeOK, AppStages, Ended, App!Servers, App!Endpoints, App!Stages,
            App!GetServers, App!CallHook, App!RegisteredAs, App!mainVars, App!serverVars,
            App!confVars, App!Fails
<1>1. CASE App!StopperSees
    BY <1>1 DEF App!StopperSees
<1>2. CASE App!BeforeStopHook
    BY <1>2 DEF App!BeforeStopHook
<1>3. CASE App!Deregister
    <2>1. failure' \in {failure, "cancelled", "registry"} /\ group' \in BOOLEAN
        BY <1>3 DEF App!Deregister
    <2>2. registry' \in {registry, "removed"} /\ stopper' \in {"cancel", "done"}
        BY <1>3 DEF App!Deregister
    <2>3. UNCHANGED <<disabled, delayed, run, called, signal, root, start, stop>>
        BY <1>3 DEF App!Deregister
    <2>4. App!TypeOK'
        BY <2>1, <2>2, <2>3
    <2>5. stopper = "hooks" /\ called["beforeStop"] = Hooks
        BY <1>3 DEF App!Deregister
    <2>6. AppStages'
        BY <2>2, <2>3, <2>5
    <2> QED
        BY <2>4, <2>6
<1>4. CASE App!CancelApp
    <2>1. failure' \in {"none", "hook", failure}
        BY <1>4 DEF App!CancelApp
    <2>2. group' \in BOOLEAN /\ stopper' = "done"
        BY <1>4 DEF App!CancelApp
    <2>3. UNCHANGED <<disabled, delayed, run, called, signal, root, registry, start, stop>>
        BY <1>4 DEF App!CancelApp
    <2>4. App!TypeOK'
        BY <2>1, <2>2, <2>3
    <2>5. stopper = "cancel"
        BY <1>4 DEF App!CancelApp
    <2>6. AppStages'
        BY <2>2, <2>3, <2>5
    <2> QED
        BY <2>4, <2>6
<1>5. CASE App!Signal
    BY <1>5 DEF App!Signal
<1>6. CASE App!CancelRoot
    BY <1>6 DEF App!CancelRoot
<1> QED
    BY <1>1, <1>2, <1>3, <1>4, <1>5, <1>6 DEF App!StopperStep

LEMMA AppStep == Hooks \in Nat /\ AppInv /\ App!Next => AppInv'
BY AppRunStep, AppServerStep, AppStopperStep DEF App!Next

\* With appVars as they were the invariant holds as it did.
LEMMA AppStill == AppInv /\ UNCHANGED appVars => AppInv'
BY DEF AppInv, App!TypeOK, AppStages, Ended, App!GetServers, appVars

LEMMA AppHookOrder == Hooks \in Nat /\ AppInv => HookOrder
BY DEF HookOrder, App!HookOrder, AppInv, App!TypeOK, App!Stages, AppStages, Ended, App!GetServers

-----------------------------------------------------------------------------
(* The reports of the runs. *)
Meetings == \A q, r \in Reports!UnderWay : q # r => <<q, r>> \in met

\* A run that has assigned its logger and not yet logged its end finds there its
\* own logger or that of a run it has met.
LoggerShared ==
    \A r \in Runs : rpc[r] \in {"logger", "body", "ended"} =>
        log \in Runs /\ (log = r \/ <<r, log>> \in met)

\* The runs of a job that have been counted, by the status they are counted with.
Counted(j, s) ==
    {r \in Runs : jobOf[r] = j /\ rpc[r] \in {"counted", "reported", "done"}
                  /\ Reports!Status(r) = s}

Totals == \A j \in Jobs, s \in Reports!Statuses : total[j][s] = Cardinality(Counted(j, s))

ReportsInv ==
    Reports!TypeOK /\ Meetings /\ LoggerShared /\ Reports!EndLinesOfTheTime /\ Totals

LEMMA CountedFinite ==
    ASSUME IsFiniteSet(Runs), NEW j, NEW s
    PROVE  /\ IsFiniteSet(Counted(j, s))
           /\ Cardinality(Counted(j, s)) \in 0..Cardinality(Runs)
<1>1. Counted(j, s) \in SUBSET Runs
    BY DEF Counted
<1>2. IsFiniteSet(Counted(j, s)) /\ Cardinality(Counted(j, s)) <= Cardinality(Runs)
    BY <1>1, FS_Subset
<1> QED
    BY <1>2, FS_CardinalityType

LEMMA SameCardinality == Reports!Cardinality(Runs) = Cardinality(Runs)
BY DEF Reports!Cardinality, Cardinality

LEMMA ReportsInit == IsFiniteSet(Runs) /\ MaxReloads \in Nat /\ Reports!Init => ReportsInv
<1> SUFFICES ASSUME IsFiniteSet(Runs), MaxReloads \in Nat, Reports!Init PROVE ReportsInv
    OBVIOUS
<1>1. rpc \in [Runs -> {"none"}] /\ err \in [Runs -> {"nil"}]
    BY DEF Reports!Init
<1>2. \A j, s : Counted(j, s) = {}
    BY <1>1 DEF Counted
<1>3. Cardinality(Runs) \in Nat
    BY FS_CardinalityType
<1>4. Reports!TypeOK
    BY <1>1, <1>3, SameCardinality DEF Reports!Init, Reports!TypeOK, Reports!States, Reports!Loggers
<1>5. Meetings /\ LoggerShared /\ Reports!EndLinesOfTheTime
    BY <1>1 DEF Reports!Init, Meetings, LoggerShared, Reports!EndLinesOfTheTime, Reports!UnderWay
<1>6. Totals
    BY <1>2, FS_EmptySet DEF Reports!Init, Totals
<1> QED
    BY <1>4, <1>5, <1>6 DEF ReportsInv

\* The instruments count a run once, in ReportDone.
LEMMA TotalsStep ==
    ASSUME IsFiniteSet(Runs), ReportsInv, NEW r \in Runs, Reports!RunStep(r)
    PROVE  total' \in [Jobs -> [Reports!Statuses -> Nat]] /\ Totals'
<1> USE DEF ReportsInv, Reports!TypeOK, Reports!Goto, Reports!metricVars, Reports!logVars, Reports!cacheVars
<1>1. total \in [Jobs -> [Reports!Statuses -> Nat]] /\ jobOf[r] \in Jobs
    <2>1. 0..Cardinality(Runs) \subseteq Nat
        OBVIOUS
    <2> QED BY <2>1
<1>2. CASE Reports!ReportDone(r)
    <2> DEFINE now == Reports!Status(r)
    <2>1. /\ rpc[r] = "logged" /\ rpc' = [rpc EXCEPT ![r] = "counted"]
          /\ UNCHANGED <<jobOf, err>>
          /\ total' = [total EXCEPT ![jobOf[r]][now] = @ + 1]
        BY <1>2 DEF Reports!ReportDone
    <2>2. now \in Reports!Statuses
        BY DEF Reports!Status, Reports!Statuses
    <2>3. ASSUME NEW j \in Jobs, NEW s \in Reports!Statuses
          PROVE  total'[j][s] = Cardinality(Counted(j, s)')
        <3>1. \A q \in Runs : Reports!Status(q)' = Reports!Status(q)
            BY <2>1 DEF Reports!Status
        <3>2. CASE j = jobOf[r] /\ s = now
            <4>1. Counted(j, s)' = Counted(j, s) \cup {r} /\ r \notin Counted(j, s)
                BY <2>1, <3>1, <3>2 DEF Counted
            <4>2. Cardinality(Counted(j, s)') = Cardinality(Counted(j, s)) + 1
                BY <4>1, CountedFinite, FS_AddElement
            <4> QED
                BY <4>2, <1>1, <2>1, <2>2, <3>2 DEF Totals
        <3>3. CASE ~(j = jobOf[r] /\ s = now)
            <4>1. Counted(j, s)' = Counted(j, s)
                BY <2>1, <3>1, <3>3 DEF Counted
            <4>2. total'[j][s] = total[j][s]
                BY <1>1, <2>1, <2>2, <3>3
            <4> QED
                BY <4>1, <4>2 DEF Totals
        <3> QED
            BY <3>2, <3>3
    <2>4. total' \in [Jobs -> [Reports!Statuses -> Nat]]
        BY <1>1, <2>1, <2>2
    <2> QED
        BY <2>3, <2>4 DEF Totals
<1>3. CASE ~Reports!ReportDone(r)
    <2>1. /\ total' = total /\ jobOf' = jobOf
          /\ \A q \in Runs : q # r => rpc'[q] = rpc[q] /\ err'[q] = err[q]
        BY <1>3 DEF Reports!RunStep, Reports!RecordStart, Reports!ReportStart,
            Reports!DeriveLogger, Reports!AssignLogger, Reports!LogStart, Reports!BodyEnds,
            Reports!LogDone, Reports!ReportRunning, Reports!RecordEnd
    <2>2. /\ rpc'[r] \in {"counted", "reported", "done"} <=>
                rpc[r] \in {"counted", "reported", "done"}
          /\ rpc[r] \in {"counted", "reported", "done"} => err'[r] = err[r]
        BY <1>3 DEF Reports!RunStep, Reports!RecordStart, Reports!ReportStart,
            Reports!DeriveLogger, Reports!AssignLogger, Reports!LogStart, Reports!BodyEnds,
            Reports!LogDone, Reports!ReportRunning, Reports!RecordEnd
    <2>3. \A j, s : Counted(j, s)' = Counted(j, s)
        BY <2>1, <2>2 DEF Counted, Reports!Status
    <2> QED
        BY <1>1, <2>1, <2>3 DEF Totals
<1> QED
    BY <1>2, <1>3

\* The runs meet in RecordStart, share the logger from AssignLogger to LogDone.
LEMMA SharingStep ==
    ASSUME ReportsInv, NEW r \in Runs, Reports!RunStep(r)
    PROVE  Meetings' /\ LoggerShared' /\ Reports!EndLinesOfTheTime'
<1> USE DEF ReportsInv, Reports!TypeOK, Reports!Goto, Reports!metricVars, Reports!logVars, Reports!cacheVars,
            Meetings, LoggerShared, Reports!EndLinesOfTheTime, Reports!UnderWay, Reports!States
<1>1. CASE Reports!RecordStart(r)
    BY <1>1 DEF Reports!RecordStart
<1>2. CASE Reports!ReportStart(r)
    BY <1>2 DEF Reports!ReportStart
<1>3. CASE Reports!AssignLogger(r)
    BY <1>3 DEF Reports!AssignLogger
<1>10. CASE Reports!DeriveLogger(r)
    BY <1>10 DEF Reports!DeriveLogger
<1>4. CASE Reports!LogStart(r)
    BY <1>4 DEF Reports!LogStart
<1>5. CASE Reports!BodyEnds(r)
    BY <1>5 DEF Reports!BodyEnds
<1>6. CASE Reports!LogDone(r)
    BY <1>6 DEF Reports!LogDone
<1>7. CASE Reports!ReportDone(r)
    BY <1>7 DEF Reports!ReportDone
<1>8. CASE Reports!ReportRunning(r)
    BY <1>8 DEF Reports!ReportRunning
<1>9. CASE Reports!RecordEnd(r)
    BY <1>9 DEF Reports!RecordEnd
<1> QED
    BY <1>1, <1>2, <1>3, <1>4, <1>5, <1>6, <1>7, <1>8, <1>9, <1>10 DEF Reports!RunStep

LEMMA ReportsType ==
    ASSUME IsFiniteSet(Runs), ReportsInv, NEW r \in Runs, Reports!RunStep(r)
    PROVE  Reports!TypeOK'
<1>1. total' \in [Jobs -> [Reports!Statuses -> 0..Reports!Cardinality(Runs)]]
    <2>1. total' \in [Jobs -> [Reports!Statuses -> Nat]] /\ Totals'
        BY TotalsStep
    <2>2. ASSUME NEW j \in Jobs, NEW s \in Reports!Statuses
          PROVE  total'[j][s] \in 0..Cardinality(Runs)
        <3>1. Counted(j, s)' \in SUBSET Runs
            BY DEF Counted
        <3>2. Cardinality(Counted(j, s)') <= Cardinality(Runs)
            BY <3>1, FS_Subset
        <3> QED
            BY <2>1, <3>2, FS_CardinalityType DEF Totals
    <2> QED
        BY <2>1, <2>2, SameCardinality
<1>2. jobOf' = jobOf /\ jobOf \in [Runs -> Jobs]
    BY DEF ReportsInv, Reports!TypeOK, Reports!RunStep, Reports!RecordStart,
        Reports!ReportStart, Reports!DeriveLogger, Reports!AssignLogger, Reports!LogStart,
        Reports!BodyEnds, Reports!LogDone, Reports!ReportDone, Reports!ReportRunning, Reports!RecordEnd
<1> USE <1>1, <1>2 DEF ReportsInv, Reports!TypeOK, Reports!Goto, Reports!metricVars,
            Reports!logVars, Reports!cacheVars, Reports!Loggers, Reports!UnderWay, Reports!States
<1>3. CASE Reports!RecordStart(r)
    BY <1>3 DEF Reports!RecordStart
<1>4. CASE Reports!ReportStart(r)
    BY <1>4 DEF Reports!ReportStart
<1>5. CASE Reports!AssignLogger(r)
    BY <1>5 DEF Reports!AssignLogger
<1>12. CASE Reports!DeriveLogger(r)
    BY <1>12 DEF Reports!DeriveLogger
<1>6. CASE Reports!LogStart(r)
    BY <1>6 DEF Reports!LogStart
<1>7. CASE Reports!BodyEnds(r)
    BY <1>7 DEF Reports!BodyEnds
<1>8. CASE Reports!LogDone(r)
    BY <1>8 DEF Reports!LogDone
<1>9. CASE Reports!ReportDone(r)
    BY <1>9 DEF Reports!ReportDone
<1>10. CASE Reports!ReportRunning(r)
    BY <1>10 DEF Reports!ReportRunning
<1>11. CASE Reports!RecordEnd(r)
    BY <1>11 DEF Reports!RecordEnd
<1> QED
    BY <1>3, <1>4, <1>5, <1>6, <1>7, <1>8, <1>9, <1>10, <1>11, <1>12
        DEF Reports!RunStep

\* A reload touches nothing but the version.
LEMMA ReloadStep ==
    ASSUME MaxReloads \in Nat, ReportsInv, Reports!Reload PROVE ReportsInv'
<1>1. /\ version' \in 0..MaxReloads
      /\ UNCHANGED <<jobOf, rpc, err, spans, total, gauge, log, seen, top, lines, met>>
    BY DEF Reports!Reload, Reports!metricVars, ReportsInv, Reports!TypeOK
<1> QED
    BY <1>1 DEF ReportsInv, Reports!TypeOK, Meetings, LoggerShared,
        Reports!EndLinesOfTheTime, Totals, Counted, Reports!Status, Reports!UnderWay

LEMMA ReportsStep ==
    IsFiniteSet(Runs) /\ MaxReloads \in Nat /\ ReportsInv /\ Reports!Next => ReportsInv'
BY TotalsStep, SharingStep, ReportsType, ReloadStep DEF Reports!Next, ReportsInv

LEMMA ReportsStill == ReportsInv /\ UNCHANGED reportVars => ReportsInv'
BY DEF ReportsInv, Reports!TypeOK, Meetings, LoggerShared, Reports!EndLinesOfTheTime,
    Totals, Counted, Reports!Status, Reports!UnderWay, reportVars

-----------------------------------------------------------------------------
(* The specifications, and the three together. *)
LEMMA AppInvariance == ASSUME Hooks \in Nat PROVE App!Spec => []AppInv
<1>1. AppInv /\ [App!Next]_(App!vars) => AppInv'
    <2>1. UNCHANGED App!vars => UNCHANGED appVars
        BY DEF App!vars, App!confVars, App!mainVars, App!serverVars, appVars
    <2> QED BY <2>1, AppStep, AppStill
<1> QED
    BY <1>1, AppInit, PTL DEF App!Spec

LEMMA ReportsInvariance ==
    ASSUME IsFiniteSet(Runs), MaxReloads \in Nat PROVE Reports!Spec => []ReportsInv
<1>1. ReportsInv /\ [Reports!Next]_(Reports!vars) => ReportsInv'
    <2>1. UNCHANGED Reports!vars => UNCHANGED reportVars
        BY DEF Reports!vars, Reports!metricVars, Reports!logVars, Reports!cacheVars, reportVars
    <2> QED BY <2>1, ReportsStep, ReportsStill
<1> QED
    BY <1>1, ReportsInit, PTL DEF Reports!Spec

\* Every part takes the steps of its own specification, or none.
LEMMA PartsAre == Parts => Spec /\ App!Spec /\ Reports!Spec
<1>1. Inits => Init /\ App!Init /\ Reports!Init
    BY DEF Inits
<1>2. [NextPart]_allVars => [Next]_vars
    BY DEF NextPart, allVars
<1>3. [NextPart]_allVars => [App!Next]_(App!vars)
    BY DEF NextPart, allVars, appVars, App!vars, App!confVars, App!mainVars, App!serverVars
<1>4. [NextPart]_allVars => [Reports!Next]_(Reports!vars)
    BY DEF NextPart, allVars, reportVars, Reports!vars, Reports!metricVars, Reports!logVars, Reports!cacheVars
<1> QED
    BY <1>1, <1>2, <1>3, <1>4, PTL DEF Parts, Spec, App!Spec, Reports!Spec

\* The variables of the three keep their types; in particular no more runs are
\* counted than there are (otel/metrics.go).
THEOREM TypesCorrect ==
    ASSUME Hooks \in Nat, IsFiniteSet(Runs), MaxReloads \in Nat
    PROVE  Spec /\ App!Spec /\ Reports!Spec => []TypesOK
<1>1. IInv /\ AppInv /\ ReportsInv => TypesOK
    BY DEF IInv, AppInv, ReportsInv, TypesOK
<1> QED
    BY <1>1, Invariance, AppInvariance, ReportsInvariance, PTL

\* For any number of hooks the stages keep their order: hooks before the start,
\* servers, hooks after the start, those before the stop, and those after it
\* when every server has been stopped (hook.go:74 and 102).
THEOREM HookOrderCorrect == ASSUME Hooks \in Nat PROVE App!Spec => []HookOrder
<1>1. AppInv => HookOrder
    BY AppHookOrder
<1> QED
    BY <1>1, AppInvariance, PTL

\* However many runs of however many jobs share the logger, the line that ends a
\* run carries its own context or that of a run that was under way at the same
\* time (logging.go:15-23).
THEOREM EndLinesCorrect ==
    ASSUME IsFiniteSet(Runs), MaxReloads \in Nat
    PROVE  Reports!Spec => []EndLinesOfTheTime
<1>1. ReportsInv => EndLinesOfTheTime
    BY DEF ReportsInv, EndLinesOfTheTime
<1> QED
    BY <1>1, ReportsInvariance, PTL

\* cron_job_runs_total is exact: for every job and status it is the number of
\* runs that have reported it, each counted once (otel/metrics.go).
THEOREM TotalsCorrect ==
    ASSUME IsFiniteSet(Runs), MaxReloads \in Nat PROVE Reports!Spec => []Totals
<1>1. ReportsInv => Totals
    BY DEF ReportsInv
<1> QED
    BY <1>1, ReportsInvariance, PTL

\* What the run explores has all of them.
THEOREM PartsCorrect ==
    ASSUME Hooks \in Nat, IsFiniteSet(Runs), MaxReloads \in Nat
    PROVE  Parts => [](TypesOK /\ HookOrder /\ EndLinesOfTheTime)
BY PartsAre, TypesCorrect, HookOrderCorrect, EndLinesCorrect, PTL
=============================================================================
