-------------------------------- MODULE Fleet --------------------------------
(***************************************************************************)
(* The bot fleet (bot_fleet/fleet.py): every worker replica receives the     *)
(* start of a run and runs run_load, coordinated through Redis only.  The    *)
(* workers register in a set, elect the leader with SET NX, wait while the   *)
(* leader probes the engine on a clean book, read the size of the fleet to   *)
(* split the offered load, go through the sweep, burst and closed phases     *)
(* each at its own pace, and the leader reports the run done.               *)
(*                                                                         *)
(* The orchestrator is what the fleet sees of it: it broadcasts the start of *)
(* one run at a time to the workers subscribed to its commands (the gRPC     *)
(* stream of orchestrator/control_grpc.py, or the Redis channel), and stops  *)
(* the sandbox of a run that was reported or timed out.  The bots inside a   *)
(* phase are in Bot.                                                       *)
(***************************************************************************)
EXTENDS Naturals, Sequences, FiniteSets

CONSTANTS
    Workers,    \* fleet replicas
    Runs,       \* runs the orchestrator starts
    Stop,       \* the stop command
    None,       \* no run, no worker
    Settings    \* sets of what can go wrong in a deployment, see What

\* Races the sleeps do not exclude: "late" starts, the "poll" for the probe
\* running out.  Faults: "engine" and "worker" crashes, run "timeout", operator
\* "stop", control streams that drop with their worker "away" for a while, an
\* engine so slow that the leader is "held" in its probe while keys expire.
What == {"late", "poll", "engine", "worker", "timeout", "stop", "away", "held"}

ASSUME FleetAssumption ==
    /\ Workers # {}
    /\ IsFiniteSet(Workers)
    /\ None \notin Workers \cup Runs
    /\ Stop \notin Runs
    /\ Settings \subseteq SUBSET What

VARIABLES
    setting,    \* what can go wrong in this deployment
    subscribed, \* workers with a queue of commands (_subs)
    inbox,      \* inbox[w]: commands under way to worker w
    task,       \* task[w]: run of the worker's `current' task, or None
    pc,         \* pc[w]: where that task is
    leads,      \* leads[w]: is_leader
    share,      \* share[w]: fleet_n, the divisor of the offered rates
    members,    \* members[r]: Redis set arena:fleet:<run>, {} once expired
    joined,     \* joined[r]: workers that ever registered for run r
    lock,       \* lock[r]: Redis key arena:scenario:<run>
    probed,     \* probed[r]: Redis key arena:scenario_done:<run> is set
    reports,    \* reports[r]: done reports published for run r
    lane,       \* run the orchestrator has in its lane, or None
    started,    \* runs started so far
    up          \* up[r]: the engine of run r answers

streamVars == <<subscribed, inbox>>
taskVars   == <<task, pc, leads, share>>
redisVars  == <<members, joined, lock, probed>>
orchVars   == <<lane, started, up>>
vars == <<setting, subscribed, inbox, task, pc, leads, share, members, joined,
          lock, probed, reports, lane, started, up>>

Loading == {"sweep", "burst", "closed", "refused", "hung"}
PCs == {"idle", "register", "elect", "barrier", "probe", "flag", "announce",
        "poll", "count", "report", "cancelling"} \cup Loading

Init ==
    /\ setting \in Settings
    /\ subscribed = {}
    /\ inbox = [w \in Workers |-> <<>>]
    /\ task = [w \in Workers |-> None]
    /\ pc = [w \in Workers |-> "idle"]
    /\ leads = [w \in Workers |-> FALSE]
    /\ share = [w \in Workers |-> 0]
    /\ members = [r \in Runs |-> {}]
    /\ joined = [r \in Runs |-> {}]
    /\ lock = [r \in Runs |-> None]
    /\ probed = [r \in Runs |-> FALSE]
    /\ reports = [r \in Runs |-> 0]
    /\ lane = None
    /\ started = {}
    /\ up = [r \in Runs |-> FALSE]

-----------------------------------------------------------------------------
(* Commands.                                                               *)

\* The worker opens its stream, at its start or 2 s after the last one broke:
\* what is broadcast from now on is queued for it.
Subscribe(w) ==
    /\ w \notin subscribed
    /\ subscribed' = subscribed \cup {w}
    /\ UNCHANGED <<setting, inbox, taskVars, redisVars, reports, orchVars>>

\* The stream breaks: the queue of commands goes with it, and the worker's task
\* goes on.
StreamDrops(w) ==
    /\ "away" \in setting
    /\ w \in subscribed
    /\ subscribed' = subscribed \ {w}
    /\ inbox' = [inbox EXCEPT ![w] = <<>>]
    /\ UNCHANGED <<setting, taskVars, redisVars, reports, orchVars>>

\* _dispatch of a start: a worker whose task is not done ignores it.
TakeStart(w) ==
    /\ inbox[w] # <<>>
    /\ Head(inbox[w]) # Stop
    /\ inbox' = [inbox EXCEPT ![w] = Tail(@)]
    /\ IF task[w] = None
         THEN /\ task' = [task EXCEPT ![w] = Head(inbox[w])]
              /\ pc' = [pc EXCEPT ![w] = "register"]
         ELSE UNCHANGED <<task, pc>>
    /\ UNCHANGED <<setting, subscribed, leads, share, redisVars, reports,
                   orchVars>>

\* Mutant of TakeStop: the worker counts as idle before the task has ended.
TakeStopAtOnce(w) ==
    /\ inbox[w] # <<>>
    /\ Head(inbox[w]) = Stop
    /\ inbox' = [inbox EXCEPT ![w] = Tail(@)]
    /\ pc' = [pc EXCEPT ![w] = "idle"]
    /\ UNCHANGED <<setting, subscribed, task, leads, share, redisVars, reports,
                   orchVars>>

\* _dispatch of a stop: the task is cancelled, and done once it has noticed.
TakeStop(w) ==
    /\ inbox[w] # <<>>
    /\ Head(inbox[w]) = Stop
    /\ inbox' = [inbox EXCEPT ![w] = Tail(@)]
    /\ pc' = [pc EXCEPT ![w] = IF task[w] = None THEN @ ELSE "cancelling"]
    /\ UNCHANGED <<setting, subscribed, task, leads, share, redisVars, reports,
                   orchVars>>

\* The task of worker w ends.
TaskEnds(w) ==
    /\ task' = [task EXCEPT ![w] = None]
    /\ pc' = [pc EXCEPT ![w] = "idle"]
    /\ leads' = [leads EXCEPT ![w] = FALSE]
    /\ share' = [share EXCEPT ![w] = 0]

Cancelled(w) ==
    /\ pc[w] = "cancelling"
    /\ TaskEnds(w)
    /\ UNCHANGED <<setting, streamVars, redisVars, reports, orchVars>>

-----------------------------------------------------------------------------
(* run_load.                                                               *)

Goto(w, from, to) ==
    /\ pc[w] = from
    /\ pc' = [pc EXCEPT ![w] = to]

\* A step of run_load that leaves nothing behind but its place in the code.
Advance(w, from, to) ==
    /\ Goto(w, from, to)
    /\ UNCHANGED <<setting, streamVars, task, leads, share, redisVars, reports,
                   orchVars>>

\* SADD and EXPIRE: the set lives for another budget of seconds.
Register(w) ==
    /\ Goto(w, "register", "elect")
    /\ members' = [members EXCEPT ![task[w]] = @ \cup {w}]
    /\ joined' = [joined EXCEPT ![task[w]] = @ \cup {w}]
    /\ UNCHANGED <<setting, streamVars, task, leads, share, lock, probed,
                   reports, orchVars>>

\* Mutant of Elect: SET without NX.
ElectAlways(w) ==
    /\ pc[w] = "elect"
    /\ lock' = [lock EXCEPT ![task[w]] = w]
    /\ leads' = [leads EXCEPT ![w] = TRUE]
    /\ pc' = [pc EXCEPT ![w] = "barrier"]
    /\ UNCHANGED <<setting, streamVars, task, share, members, joined, probed,
                   reports, orchVars>>

\* SET NX: the first worker becomes the leader, the others wait for its probe.
Elect(w) ==
    /\ pc[w] = "elect"
    /\ IF lock[task[w]] = None
         THEN /\ lock' = [lock EXCEPT ![task[w]] = w]
              /\ leads' = [leads EXCEPT ![w] = TRUE]
              /\ pc' = [pc EXCEPT ![w] = "barrier"]
         ELSE /\ pc' = [pc EXCEPT ![w] = "poll"]
              /\ UNCHANGED <<lock, leads>>
    /\ UNCHANGED <<setting, streamVars, task, share, members, joined, probed,
                   reports, orchVars>>

\* The start of run r is under way to worker v, or v is about to register.
Coming(v, r) ==
    \/ \E i \in 1..Len(inbox[v]) : inbox[v][i] = r
    \/ task[v] = r /\ pc[v] = "register"

\* Who is to register for run r has: a second or more after its start, unless
\* some are late.
AllIn(r) == "late" \in setting \/ \A v \in Workers : ~Coming(v, r)

\* Mutants of Barrier: no sleep, or a wait until every replica is there.
BarrierNone(w) == Advance(w, "barrier", "probe")

BarrierForAll(w) ==
    /\ Advance(w, "barrier", "probe")
    /\ members[task[w]] = Workers

\* The leader sleeps 1.5 s "to let all replicas register".
Barrier(w) ==
    /\ Advance(w, "barrier", "probe")
    /\ AllIn(task[w])

\* scenarios.run returns: all iterations done, or an exception swallowed.
ProbeEnds(w) == Advance(w, "probe", "flag")

SetProbed(w) ==
    /\ Goto(w, "flag", "announce")
    /\ probed' = [probed EXCEPT ![task[w]] = TRUE]
    /\ UNCHANGED <<setting, streamVars, task, leads, share, members, joined,
                   lock, reports, orchVars>>

\* The correctness counts of the probe are sent to telemetry.
Announce(w) == Advance(w, "announce", "count")

\* Mutant of PollEnds: followers do not wait for the probe.
PollNone(w) == Advance(w, "poll", "count")

\* A follower sees the done flag, or has polled 120 times (about 12 s).
\* Without the race that takes a leader that has left the run.
PollEnds(w) ==
    /\ Advance(w, "poll", "count")
    /\ \/ probed[task[w]]
       \/ /\ AllIn(task[w])
          /\ "poll" \in setting \/ task[lock[task[w]]] # task[w]

\* fleet_n = max(1, SCARD): the set may have expired by now.
Count(w) ==
    /\ Goto(w, "count", "sweep")
    /\ share' = [share EXCEPT ![w] =
                   IF members[task[w]] = {} THEN 1
                                            ELSE Cardinality(members[task[w]])]
    /\ UNCHANGED <<setting, streamVars, task, leads, redisVars, reports,
                   orchVars>>

SweepEnds(w) == Advance(w, "sweep", "burst")

\* The closed phase connects its bots, or finds the engine gone: then every
\* bot fails at once.
BurstEnds(w) == Advance(w, "burst", IF up[task[w]] THEN "closed" ELSE "refused")

\* The bots of the closed phase have ended and the gather with them.
ClosedEnds(w) ==
    /\ pc[w] \in {"closed", "refused"}
    /\ IF leads[w]
         THEN /\ pc' = [pc EXCEPT ![w] = "report"]
              /\ UNCHANGED <<task, leads, share>>
         ELSE TaskEnds(w)
    /\ UNCHANGED <<setting, streamVars, redisVars, reports, orchVars>>

\* The engine goes while the closed phase runs: a bot that waits for a permit
\* waits forever (Bot), and so does the gather.
Hang(w) ==
    /\ Advance(w, "closed", "hung")
    /\ ~up[task[w]]

\* The leader signals run-done.
Report(w) ==
    /\ pc[w] = "report"
    /\ reports' = [reports EXCEPT ![task[w]] = @ + 1]
    /\ TaskEnds(w)
    /\ UNCHANGED <<setting, streamVars, redisVars, orchVars>>

\* The orchestrator is not there to be told: the call raises, which ends the
\* task.
ReportFails(w) ==
    /\ "away" \in setting
    /\ pc[w] = "report"
    /\ TaskEnds(w)
    /\ UNCHANGED <<setting, streamVars, redisVars, reports, orchVars>>

\* The process dies: its task and the commands under way to it are gone.  It
\* comes back and subscribes again.
WorkerCrash(w) ==
    /\ "worker" \in setting
    /\ task[w] # None \/ inbox[w] # <<>>
    /\ TaskEnds(w)
    /\ subscribed' = subscribed \ {w}
    /\ inbox' = [inbox EXCEPT ![w] = <<>>]
    /\ UNCHANGED <<setting, redisVars, reports, orchVars>>

\* Nobody is to read a key of run r any more: a worker counts the fleet well
\* within the budget (its phases and a minute) from its registration, except a
\* leader whose engine holds it in the probe, which has no timeout of its own.
AllRead(r) ==
    \A w \in Workers :
        /\ ~Coming(w, r)
        /\ task[w] = r =>
              \/ pc[w] \in Loading \cup {"report", "cancelling"}
              \/ /\ "held" \in setting
                 /\ leads[w]
                 /\ pc[w] \in {"probe", "flag", "announce", "count"}

\* The budget has passed since the last registration and Redis drops the set.
\* So it does with the lock and, later, the flag of the run; these keep their
\* value here, as who would read them (Elect, PollEnds) has by now.
FleetExpires(r) ==
    /\ members[r] # {}
    /\ AllRead(r)
    /\ members' = [members EXCEPT ![r] = {}]
    /\ UNCHANGED <<setting, streamVars, taskVars, joined, lock, probed, reports,
                   orchVars>>

Work(w) ==
    \/ Subscribe(w) \/ TakeStart(w) \/ TakeStop(w) \/ Cancelled(w)
    \/ Register(w) \/ Elect(w)
    \/ Barrier(w) \/ ProbeEnds(w) \/ SetProbed(w) \/ Announce(w)
    \/ PollEnds(w) \/ Count(w) \/ SweepEnds(w) \/ BurstEnds(w)
    \/ ClosedEnds(w) \/ Hang(w) \/ Report(w) \/ ReportFails(w)

-----------------------------------------------------------------------------
(* The orchestrator and the engine, as the fleet sees them.                *)

\* ControlServicer.broadcast: the command is queued for every subscriber.
Broadcast(c) ==
    inbox' = [w \in Workers |->
                IF w \in subscribed THEN Append(inbox[w], c) ELSE inbox[w]]

\* The sandbox of the next run is healthy and its start is broadcast.
StartRun(r) ==
    /\ lane = None
    /\ r \notin started
    /\ lane' = r
    /\ started' = started \cup {r}
    /\ up' = [up EXCEPT ![r] = TRUE]
    /\ Broadcast(r)
    /\ UNCHANGED <<setting, subscribed, task, pc, leads, share, redisVars,
                   reports>>

\* A reported run, or one that took duration + 180 s, loses its sandbox.
StopSandbox ==
    /\ lane # None
    /\ reports[lane] > 0 \/ "timeout" \in setting
    /\ up' = [up EXCEPT ![lane] = FALSE]
    /\ lane' = None
    /\ UNCHANGED <<setting, streamVars, taskVars, redisVars, reports, started>>

\* POST /stop while a run is in the lane (once: another finds nothing to stop).
StopAll ==
    /\ "stop" \in setting
    /\ lane # None
    /\ \A w \in Workers : \A i \in 1..Len(inbox[w]) : inbox[w][i] # Stop
    /\ Broadcast(Stop)
    /\ UNCHANGED <<setting, subscribed, task, pc, leads, share, redisVars,
                   reports, orchVars>>

EngineCrash ==
    /\ "engine" \in setting
    /\ lane # None
    /\ up[lane]
    /\ up' = [up EXCEPT ![lane] = FALSE]
    /\ UNCHANGED <<setting, streamVars, taskVars, redisVars, reports, lane,
                   started>>

Next ==
    \/ \E w \in Workers : Work(w) \/ WorkerCrash(w) \/ StreamDrops(w)
    \/ \E r \in Runs : StartRun(r) \/ FleetExpires(r)
    \/ StopSandbox
    \/ StopAll
    \/ EngineCrash

\* Workers make progress: every sleep, poll, Redis call and phase ends, unless
\* it is the hung one.  Crashes, stops, starts and expiries are owed to nobody.
Fairness == \A w \in Workers : WF_vars(Work(w))

Spec     == Init /\ [][Next]_vars
LiveSpec == Spec /\ Fairness

-----------------------------------------------------------------------------
(* Properties.                                                             *)

TypeOK ==
    /\ setting \in Settings
    /\ subscribed \subseteq Workers
    /\ inbox \in [Workers -> Seq(Runs \cup {Stop})]
    /\ task \in [Workers -> Runs \cup {None}]
    /\ pc \in [Workers -> PCs]
    /\ \A w \in Workers : pc[w] = "idle" <=> task[w] = None
    /\ leads \in [Workers -> BOOLEAN]
    /\ share \in [Workers -> 0..Cardinality(Workers)]
    /\ members \in [Runs -> SUBSET Workers]
    /\ joined \in [Runs -> SUBSET Workers]
    /\ lock \in [Runs -> Workers \cup {None}]
    /\ probed \in [Runs -> BOOLEAN]
    /\ reports \in [Runs -> Nat]
    /\ lane \in Runs \cup {None}
    /\ started \subseteq Runs
    /\ up \in [Runs -> BOOLEAN]

\* A run is reported done at most once, whatever crashes or is cancelled.
OneReport == \A r \in Runs : reports[r] <= 1

\* While the leader probes a run, no worker offers load to it: the probe has
\* the book to itself, as long as no follower's poll runs out.
ProbeAlone ==
    "poll" \notin setting =>
        \A v, w \in Workers :
            pc[v] = "probe" /\ task[w] = task[v] => pc[w] \notin Loading

\* The probe has the book to itself, however long it takes.
ProbeAlwaysAlone ==
    \A v, w \in Workers :
        pc[v] = "probe" /\ task[w] = task[v] => pc[w] \notin Loading

\* The aggregate offered load equals the tagged rate when no replica registers
\* late: a worker that offers load divides by the number of workers that ever
\* registered, whoever crashes, misses the start or gives up on the leader, and
\* whenever the set expires.  Only a leader held in its probe until the set has
\* expired counts one worker and offers the whole rate, on top of the shares of
\* the followers that went ahead.
EqualShares ==
    "late" \notin setting =>
        \A w \in Workers : pc[w] \in Loading =>
            \/ share[w] = Cardinality(joined[task[w]])
            \/ /\ "held" \in setting /\ leads[w]
               /\ members[task[w]] = {} /\ share[w] = 1

\* A run that has a leader is reported in the end if nothing fails, however
\* late workers are and even if polls run out.
LeaderReports ==
    \A r \in Runs :
        setting \subseteq {"late", "poll"} /\ lock[r] # None ~> reports[r] > 0

-----------------------------------------------------------------------------
(* The inductive invariant of OneReport, ProbeAlone and EqualShares.       *)

Leading == {"barrier", "probe", "flag", "announce", "report"}
Probing == {"barrier", "probe", "flag"}
Past    == {"announce", "count", "report"} \cup Loading

\* A leader holds the lock of its run, and only a leader does leader's work.
LeaderHolds ==
    \A w \in Workers :
        /\ leads[w] => task[w] # None /\ lock[task[w]] = w
        /\ pc[w] \in Leading => leads[w]

\* A worker past the election finds its run with a leader.
Elected ==
    \A w \in Workers :
        pc[w] \in {"poll"} \cup Leading \cup Past => lock[task[w]] # None

\* A reported run has had its leader and has none left.
ReportedLeft ==
    \A r \in Runs : reports[r] > 0 =>
        /\ lock[r] # None
        /\ \A w \in Workers : task[w] = r => ~leads[w]

\* Nobody is on the way to the end of the probe of run r.
Quiet(r) == \A w \in Workers : task[w] = r => pc[w] \notin Probing

\* The probe flag, and a worker past the wait, mean that the probe is over.
ProbeOver ==
    /\ \A r \in Runs : probed[r] => lock[r] # None /\ Quiet(r)
    /\ "poll" \notin setting =>
          \A w \in Workers : pc[w] \in Past => Quiet(task[w])

\* A run in anybody's hands, or on the way to them, was started.
Begun ==
    /\ \A w \in Workers :
          /\ task[w] # None => task[w] \in started
          /\ \A i \in 1..Len(inbox[w]) : inbox[w][i] \in started \cup {Stop}
    /\ \A r \in Runs : lock[r] # None \/ joined[r] # {} => r \in started

\* Nobody is to register for a run that is probed or past its probe.
Registered ==
    /\ \A r \in Runs : probed[r] => AllIn(r)
    /\ \A w \in Workers : pc[w] \in {"probe", "flag"} \cup Past => AllIn(task[w])

\* A worker past its registration is in the set, unless the set has expired: and
\* then nobody is left who needs it, but a leader that was held in its probe.
SetLives ==
    /\ \A w \in Workers :
          pc[w] \notin {"idle", "register", "cancelling"} => w \in joined[task[w]]
    /\ \A r \in Runs :
          members[r] # joined[r] => members[r] = {} /\ AllRead(r)

FleetInv ==
    /\ TypeOK
    /\ LeaderHolds
    /\ Elected
    /\ ReportedLeft
    /\ ProbeOver
    /\ OneReport
    /\ Begun
    /\ Registered
    /\ SetLives
    /\ EqualShares
=============================================================================
