---------------------------- MODULE Orchestrator ----------------------------
(***************************************************************************)
(* The run queue of the orchestrator (orchestrator/app.py): submissions are *)
(* built, runs are posted to RUN_QUEUE, and one dispatcher task takes them  *)
(* in turn, launches the sandbox, starts the fleet and holds the lane until *)
(* the fleet leader reports the run done or the timeout fires.  A second    *)
(* task (Redis) or the ReportDone handlers (gRPC) stop the sandbox of a     *)
(* reported run and wake the dispatcher.                                    *)
(*                                                                         *)
(* Everything runs on one asyncio loop, so code between two awaits is       *)
(* atomic; an action is the code from one await that can block to the next. *)
(***************************************************************************)
EXTENDS Naturals, Sequences

CONSTANTS
    Runs,       \* run identifiers POST /runs can create
    Subs,       \* submissions that can be built
    None,       \* no run, no submission, no container
    Transports, \* what CONTROL may select: "redis", "grpc"
    Services    \* outside services that may be flaky: "docker", "redis"

ASSUME OrchAssumption ==
    /\ None \notin Runs
    /\ None \notin Subs
    /\ Transports \subseteq {"redis", "grpc"}
    /\ Services \subseteq {"docker", "redis"}

VARIABLES
    control,    \* CONTROL: transport of commands and reports
    faults,     \* outside services whose calls raise now and then
    built,      \* submissions whose image is built and recorded in Redis
    subOf,      \* subOf[r]: submission of posted run r
    queue,      \* RUN_QUEUE
    active,     \* _active: run that holds the lane
    doneEv,     \* _done_ev is set
    pc,         \* where the dispatcher task is
    outcome,    \* outcome[r]: how run r left the lane
    sandbox,    \* sandbox[s]: run for which the container of s was launched
    fleet,      \* fleet[r]: what the bot fleet did with run r
    events,     \* CH_RUNEVENTS messages the listener has not taken yet
    handler,    \* handler[r]: done handler of r is about to stop / to signal
    listening   \* the listener task is alive and subscribed

vars == <<control, faults, built, subOf, queue, active, doneEv, pc, outcome,
          sandbox, fleet, events, handler, listening>>

\* The environment, fixed at the start of the process; what the HTTP handlers
\* write; what the report path writes.
env         == <<control, faults>>
requestVars == <<built, subOf, queue>>
reportVars  == <<events, handler, listening>>

PCs      == {"get", "deploy", "health", "cull", "start", "wait", "expire",
             "fail", "dead"}
Resolved == {"done", "timeout", "unhealthy", "failed"}
Outcomes == {"none", "queued"} \cup Resolved

ActiveSub == subOf[active]

Init ==
    /\ control \in Transports
    /\ faults \in SUBSET Services
    /\ built = {}
    /\ subOf = [r \in Runs |-> None]
    /\ queue = <<>>
    /\ active = None
    /\ doneEv = FALSE
    /\ pc = "get"
    /\ outcome = [r \in Runs |-> "none"]
    /\ sandbox = [s \in Subs |-> None]
    /\ fleet = [r \in Runs |-> "idle"]
    /\ events = <<>>
    /\ handler = [r \in Runs |-> "none"]
    /\ listening = TRUE

-----------------------------------------------------------------------------
(* HTTP handlers.                                                          *)

\* create_submission: the image is built, then the submission recorded.
Submit(s) ==
    /\ built' = built \cup {s}
    /\ UNCHANGED <<env, subOf, queue, active, doneEv, pc, outcome, sandbox,
                   fleet, reportVars>>

\* start_run: a run of a known submission joins the queue under a fresh id.
PostRun(r, s) ==
    /\ s \in built
    /\ subOf[r] = None
    /\ subOf' = [subOf EXCEPT ![r] = s]
    /\ queue' = Append(queue, r)
    /\ outcome' = [outcome EXCEPT ![r] = "queued"]
    /\ UNCHANGED <<env, built, active, doneEv, pc, sandbox, fleet,
                   reportVars>>

\* stop_all: the workers that get the command cancel their current run.  The
\* dispatcher is not told: the lane stays held until the timeout.
StopAll(S) ==
    /\ S # {}
    /\ \A r \in S : fleet[r] = "running"
    /\ fleet' = [r \in Runs |-> IF r \in S THEN "cancelled" ELSE fleet[r]]
    /\ UNCHANGED <<env, requestVars, active, doneEv, pc, outcome, sandbox,
                   reportVars>>

-----------------------------------------------------------------------------
(* _run_dispatcher and _execute_run.                                       *)

\* Mutant of Take: one event for all runs, never made anew.
TakeSameEvent ==
    /\ pc = "get"
    /\ queue # <<>>
    /\ active' = Head(queue)
    /\ queue' = Tail(queue)
    /\ pc' = "deploy"
    /\ UNCHANGED <<env, built, subOf, doneEv, outcome, sandbox, fleet, reportVars>>

\* Mutant of Take: the newest request goes first.
TakeNewest ==
    /\ pc = "get"
    /\ queue # <<>>
    /\ active' = queue[Len(queue)]
    /\ queue' = SubSeq(queue, 1, Len(queue) - 1)
    /\ doneEv' = FALSE
    /\ pc' = "deploy"
    /\ UNCHANGED <<env, built, subOf, outcome, sandbox, fleet, reportVars>>

\* The dispatcher pops a run, takes the lane and makes a fresh event.
Take ==
    /\ pc = "get"
    /\ queue # <<>>
    /\ active' = Head(queue)
    /\ queue' = Tail(queue)
    /\ doneEv' = FALSE
    /\ pc' = "deploy"
    /\ UNCHANGED <<env, built, subOf, outcome, sandbox, fleet, reportVars>>

\* Mutant of Deploy: the container is recorded under the wrong id.
DeployForSub ==
    /\ pc = "deploy"
    /\ sandbox' = [sandbox EXCEPT ![ActiveSub] = ActiveSub]
    /\ pc' = "health"
    /\ UNCHANGED <<env, requestVars, active, doneEv, outcome, fleet, reportVars>>

\* sandbox.launch: remove any container of that name, then run a new one.
Deploy ==
    /\ pc = "deploy"
    /\ sandbox' = [sandbox EXCEPT ![ActiveSub] = active]
    /\ pc' = "health"
    /\ UNCHANGED <<env, requestVars, active, doneEv, outcome, fleet,
                   reportVars>>

\* publish_event raises before the launch, or the launch raises: before the
\* old container is gone, after it, or with the new one created.
DeployFails ==
    /\ pc = "deploy"
    /\ \/ /\ "redis" \in faults
          /\ UNCHANGED sandbox
       \/ /\ "docker" \in faults
          /\ \E c \in {sandbox[ActiveSub], None, active} :
                sandbox' = [sandbox EXCEPT ![ActiveSub] = c]
    /\ pc' = "fail"
    /\ UNCHANGED <<env, requestVars, active, doneEv, outcome, fleet,
                   reportVars>>

\* sandbox.wait_healthy: the port answers, or 40 s pass.
Healthy ==
    /\ pc = "health"
    /\ sandbox[ActiveSub] # None
    /\ pc' = "start"
    /\ UNCHANGED <<env, requestVars, active, doneEv, outcome, sandbox, fleet,
                   reportVars>>

\* Mutant of Unhealthy: wait_healthy polls without a deadline.
UnhealthyNever == pc = "health" /\ FALSE /\ UNCHANGED vars

Unhealthy ==
    /\ pc = "health"
    /\ pc' = "cull"
    /\ UNCHANGED <<env, requestVars, active, doneEv, outcome, sandbox, fleet,
                   reportVars>>

\* The lane is given up (the finally clause), with the outcome recorded.
Release(how) ==
    /\ active' = None
    /\ pc' = "get"
    /\ outcome' = [outcome EXCEPT ![active] = how]

\* Mutant of Cull: the unhealthy sandbox is left running.
CullOnly ==
    /\ pc = "cull"
    /\ Release("unhealthy")
    /\ UNCHANGED <<env, requestVars, doneEv, sandbox, fleet, reportVars>>

\* An unhealthy sandbox is stopped and the run ends.
Cull ==
    /\ pc = "cull"
    /\ sandbox' = [sandbox EXCEPT ![ActiveSub] = None]
    /\ Release("unhealthy")
    /\ UNCHANGED <<env, requestVars, doneEv, fleet, reportVars>>

\* The docker calls raise with the container still there, or the event
\* published after the stop does.
CullFails ==
    /\ pc = "cull"
    /\ \/ /\ "docker" \in faults
          /\ UNCHANGED sandbox
       \/ /\ "redis" \in faults
          /\ sandbox' = [sandbox EXCEPT ![ActiveSub] = None]
    /\ pc' = "fail"
    /\ UNCHANGED <<env, requestVars, active, doneEv, outcome, fleet,
                   reportVars>>

\* The start command goes out and the dispatcher waits for the done event.
Start ==
    /\ pc = "start"
    /\ fleet' = [fleet EXCEPT ![active] = "running"]
    /\ pc' = "wait"
    /\ UNCHANGED <<env, requestVars, active, doneEv, outcome, sandbox,
                   reportVars>>

\* A publish raises.  The command itself may have reached a fleet that
\* listens on Redis before the connection broke.
StartFails ==
    /\ pc = "start"
    /\ "redis" \in faults
    /\ \/ UNCHANGED fleet
       \/ /\ control = "redis"
          /\ fleet' = [fleet EXCEPT ![active] = "running"]
    /\ pc' = "fail"
    /\ UNCHANGED <<env, requestVars, active, doneEv, outcome, sandbox,
                   reportVars>>

\* The wait ends because the event is set.
Finish ==
    /\ pc = "wait"
    /\ doneEv
    /\ Release("done")
    /\ UNCHANGED <<env, requestVars, doneEv, sandbox, fleet, reportVars>>

\* Mutant of Expire: the wait has no timeout.
ExpireNever == pc = "wait" /\ FALSE /\ UNCHANGED vars

\* duration + 180 s pass with the event not set.
Expire ==
    /\ pc = "wait"
    /\ ~doneEv
    /\ pc' = "expire"
    /\ UNCHANGED <<env, requestVars, active, doneEv, outcome, sandbox, fleet,
                   reportVars>>

\* Mutant of ExpireStop: the lane is released with the sandbox still there.
ExpireOnly ==
    /\ pc = "expire"
    /\ Release("timeout")
    /\ UNCHANGED <<env, requestVars, doneEv, sandbox, fleet, reportVars>>

\* After a timeout the sandbox is stopped and the lane released.
ExpireStop ==
    /\ pc = "expire"
    /\ sandbox' = [sandbox EXCEPT ![ActiveSub] = None]
    /\ Release("timeout")
    /\ UNCHANGED <<env, requestVars, doneEv, fleet, reportVars>>

ExpireStopFails ==
    /\ pc = "expire"
    /\ \/ /\ "docker" \in faults
          /\ UNCHANGED sandbox
       \/ /\ "redis" \in faults
          /\ sandbox' = [sandbox EXCEPT ![ActiveSub] = None]
    /\ pc' = "fail"
    /\ UNCHANGED <<env, requestVars, active, doneEv, outcome, fleet,
                   reportVars>>

\* except Exception: the failure is published and the lane released; the
\* sandbox is left as it is.
Fail ==
    /\ pc = "fail"
    /\ Release("failed")
    /\ UNCHANGED <<env, requestVars, doneEv, sandbox, fleet, reportVars>>

\* That publish raises too: the exception leaves the while loop and the
\* dispatcher task is gone (the finally clause still runs).
FailRaises ==
    /\ pc = "fail"
    /\ "redis" \in faults
    /\ active' = None
    /\ pc' = "dead"
    /\ outcome' = [outcome EXCEPT ![active] = "failed"]
    /\ UNCHANGED <<env, requestVars, doneEv, sandbox, fleet, reportVars>>

Dispatch ==
    \/ Take \/ Deploy \/ DeployFails \/ Healthy \/ Unhealthy
    \/ Cull \/ CullFails \/ Start \/ StartFails \/ Finish \/ Expire
    \/ ExpireStop \/ ExpireStopFails \/ Fail \/ FailRaises

-----------------------------------------------------------------------------
(* The report path: fleet leader -> CH_RUNEVENTS or ReportDone -> handler.  *)

\* The leader of a started run reports it done (bot_fleet/fleet.py run_load).
\* On Redis the message reaches the listener only while it is subscribed; on
\* gRPC the call starts a handler of its own.
FleetReports(r) ==
    /\ fleet[r] = "running"
    /\ fleet' = [fleet EXCEPT ![r] = "reported"]
    /\ \/ /\ control = "redis"
          /\ events' = IF listening THEN Append(events, r) ELSE events
          /\ UNCHANGED handler
       \/ /\ control = "grpc"
          /\ handler' = [handler EXCEPT ![r] = "stop"]
          /\ UNCHANGED events
    /\ UNCHANGED <<env, requestVars, active, doneEv, pc, outcome, sandbox,
                   listening>>

\* _runevents_listener takes the next message; it handles one at a time.
Receive ==
    /\ control = "redis"
    /\ listening
    /\ events # <<>>
    /\ \A r \in Runs : handler[r] = "none"
    /\ handler' = [handler EXCEPT ![Head(events)] = "stop"]
    /\ events' = Tail(events)
    /\ UNCHANGED <<env, requestVars, active, doneEv, pc, outcome, sandbox,
                   fleet, listening>>

\* The container of the reported run's submission is stopped, by name.
HandlerStop(r) ==
    /\ handler[r] = "stop"
    /\ sandbox' = [sandbox EXCEPT ![subOf[r]] = None]
    /\ handler' = [handler EXCEPT ![r] = "signal"]
    /\ UNCHANGED <<env, requestVars, active, doneEv, pc, outcome, fleet,
                   events, listening>>

\* Mutant of HandlerSignal: the run id of the report is not compared.
HandlerSignalsAny(r) ==
    /\ handler[r] = "signal"
    /\ doneEv' = (doneEv \/ active # None)
    /\ handler' = [handler EXCEPT ![r] = "none"]
    /\ UNCHANGED <<env, requestVars, active, pc, outcome, sandbox, fleet,
                   events, listening>>

\* _signal_done: the event is set if the reported run holds the lane.
HandlerSignal(r) ==
    /\ handler[r] = "signal"
    /\ doneEv' = (doneEv \/ active = r)
    /\ handler' = [handler EXCEPT ![r] = "none"]
    /\ UNCHANGED <<env, requestVars, active, pc, outcome, sandbox, fleet,
                   events, listening>>

\* A call of the handler raises: stop (docker) or a publish after it (redis).
\* On Redis the exception ends the listener task with it.
HandlerFails(r) ==
    /\ \/ handler[r] = "stop" /\ "docker" \in faults
       \/ handler[r] = "signal" /\ "redis" \in faults
    /\ handler' = [handler EXCEPT ![r] = "none"]
    /\ IF control = "redis"
         THEN listening' = FALSE /\ events' = <<>>
         ELSE UNCHANGED <<listening, events>>
    /\ UNCHANGED <<env, requestVars, active, doneEv, pc, outcome, sandbox,
                   fleet>>

\* The connection of pubsub.listen() breaks: the listener ends between two
\* messages and what was not delivered is lost.
ListenerDies ==
    /\ control = "redis"
    /\ "redis" \in faults
    /\ listening
    /\ \A r \in Runs : handler[r] = "none"
    /\ listening' = FALSE
    /\ events' = <<>>
    /\ UNCHANGED <<env, requestVars, active, doneEv, pc, outcome, sandbox,
                   fleet, handler>>

Next ==
    \/ \E s \in Subs : Submit(s)
    \/ \E r \in Runs, s \in Subs : PostRun(r, s)
    \/ \E S \in SUBSET Runs : StopAll(S)
    \/ Dispatch
    \/ \E r \in Runs : \/ FleetReports(r)
                       \/ HandlerStop(r)
                       \/ HandlerSignal(r)
                       \/ HandlerFails(r)
    \/ Receive
    \/ ListenerDies

\* The dispatcher is one task: as long as one of its steps is enabled the loop
\* schedules it, and wait_for bounds its only open-ended wait.
Fairness == WF_vars(Dispatch)

Spec     == Init /\ [][Next]_vars
LiveSpec == Spec /\ Fairness

-----------------------------------------------------------------------------
(* Properties.                                                             *)

\* Types of the variables.  sandbox holds run ids, never submission ids:
\* the code passes both around as 8-digit strings.
TypeOK ==
    /\ control \in Transports
    /\ faults \subseteq Services
    /\ built \subseteq Subs
    /\ subOf \in [Runs -> Subs \cup {None}]
    /\ queue \in Seq(Runs)
    /\ active \in Runs \cup {None}
    /\ doneEv \in BOOLEAN
    /\ pc \in PCs
    /\ outcome \in [Runs -> Outcomes]
    /\ sandbox \in [Subs -> Runs \cup {None}]
    /\ fleet \in [Runs -> {"idle", "running", "reported", "cancelled"}]
    /\ events \in Seq(Runs)
    /\ handler \in [Runs -> {"none", "stop", "signal"}]
    /\ listening \in BOOLEAN

\* One sandbox at a time on the pinned cores, as long as no outside call
\* raises: a container exists only for the run that holds the lane.  In
\* particular no container outlives its run.
LaneExclusive ==
    faults = {} => \A s \in Subs : sandbox[s] # None => sandbox[s] = active

\* A run that left the lane as done was reported done by its own fleet, never
\* by the late report of an earlier run.
DoneIsReported ==
    \A r \in Runs : outcome[r] = "done" => fleet[r] = "reported"

\* A done handler stops the container of the run that was reported, and not
\* one launched since for a later run of the same submission.
DoneStopsOwnRun ==
    [][\A r \in Runs :
         handler[r] = "stop" /\ handler'[r] = "signal"
           => sandbox[subOf[r]] \in {r, None}]_vars

\* Run requests are non-droppable: a queued run gets the lane and leaves it,
\* whatever fails.  The one exception is the dispatcher's own death, when the
\* publish of a failure raises in turn.
EveryRunResolved ==
    \A r \in Runs :
        outcome[r] = "queued" ~> outcome[r] \in Resolved \/ pc = "dead"

\* The lane is given up in the end, whatever fails and whether or not the
\* fleet reports: the timeout is the safety net.
LaneReleased ==
    \A r \in Runs : active = r ~> active # r

\* Every container is stopped in the end, whatever the fleet does, as long as
\* no outside call raises.
SandboxStopped ==
    \A s \in Subs, r \in Runs :
        faults = {} /\ sandbox[s] = r ~> sandbox[s] # r

\* The queue keeps its promise (RunQueue), whatever fails: requests get the
\* lane in their order, one at a time, and have one result each.
Promise == INSTANCE RunQueue WITH waiting <- queue, holder <- active, result <- outcome
QueueKept == Promise!Spec

-----------------------------------------------------------------------------
(* The inductive invariants: QueueInv holds whatever fails and carries      *)
(* DoneIsReported; LaneInv adds what carries LaneExclusive without faults.  *)

Launched == {"health", "cull", "start", "wait", "expire"}
Holding  == {"wait", "expire"}

\* The lane is free exactly while the dispatcher pops or once it is dead.
LaneHeld ==
    /\ pc \in {"get", "dead"} <=> active = None
    /\ active # None => subOf[active] \in Subs

\* Queued runs are waiting for their first start: none is queued twice, holds
\* the lane or is known to the fleet.
QueueFresh ==
    /\ \A i \in 1..Len(queue) :
          /\ queue[i] # active
          /\ fleet[queue[i]] = "idle"
          /\ subOf[queue[i]] \in Subs
    /\ \A i, j \in 1..Len(queue) : queue[i] = queue[j] => i = j

\* A run is known to the fleet only once its start went out.
StartedHolds ==
    \A r \in Runs : fleet[r] # "idle" =>
        /\ subOf[r] \in Subs
        /\ active = r => pc \in Holding \cup {"fail"}

\* Reports in flight are of reported runs.
ReportsReal ==
    /\ \A i \in 1..Len(events) : fleet[events[i]] = "reported"
    /\ \A r \in Runs : handler[r] # "none" => fleet[r] = "reported"

\* The event of the active run is set by the handler of that run only.
EventReported == doneEv /\ active # None => fleet[active] = "reported"

QueueInv ==
    /\ TypeOK
    /\ LaneHeld
    /\ QueueFresh
    /\ StartedHolds
    /\ ReportsReal
    /\ EventReported
    /\ DoneIsReported

\* The only container is the active run's, under its submission's name.
OwnSandbox ==
    \A s \in Subs : sandbox[s] # None =>
        sandbox[s] = active /\ s = ActiveSub /\ pc \in Launched

\* Stop comes before signal: once the signal of the active run is due or
\* given, its container is gone.
StopFirst ==
    /\ \A r \in Runs : handler[r] = "signal" /\ active = r =>
          sandbox[subOf[r]] = None
    /\ doneEv /\ active # None =>
          sandbox[ActiveSub] = None /\ pc \in Holding

CleanLane ==
    /\ pc \notin {"fail", "dead"}
    /\ OwnSandbox
    /\ StopFirst

\* A run that was not requested has no result, one that waits or holds the
\* lane none yet.
Unresolved ==
    /\ \A r \in Runs : subOf[r] = None => outcome[r] = "none"
    /\ \A i \in 1..Len(queue) : outcome[queue[i]] = "queued"
    /\ active # None => outcome[active] = "queued"

LaneInv ==
    /\ QueueInv
    /\ Unresolved
    /\ faults = {} => CleanLane
=============================================================================
