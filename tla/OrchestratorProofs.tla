-------------------------- MODULE OrchestratorProofs --------------------------
(***************************************************************************)
(* Theorems about Orchestrator for every set of runs and submissions and    *)
(* both transports: type correctness, DoneIsReported and the promise of     *)
(* RunQueue whatever fails, LaneExclusive when no call to Docker or Redis   *)
(* raises.                                                                  *)
(***************************************************************************)
EXTENDS Orchestrator, SequenceTheorems, TLAPS

-----------------------------------------------------------------------------
(* Facts about the two queues.                                             *)

\* Appending to a sequence of runs puts the run last and moves nothing.
LEMMA AppendFacts ==
  ASSUME NEW q \in Seq(Runs), NEW r \in Runs
  PROVE  /\ Append(q, r) \in Seq(Runs)
         /\ Len(Append(q, r)) = Len(q) + 1
         /\ \A i \in 1..Len(q) : Append(q, r)[i] = q[i]
         /\ Append(q, r)[Len(q) + 1] = r
  OBVIOUS

\* Popping a nonempty sequence takes its first run and shifts the others.
LEMMA PopFacts ==
  ASSUME NEW q \in Seq(Runs), q # <<>>
  PROVE  /\ Head(q) \in Runs
         /\ Head(q) = q[1]
         /\ Tail(q) \in Seq(Runs)
         /\ Len(q) \in Nat
         /\ Len(q) >= 1
         /\ Len(Tail(q)) = Len(q) - 1
         /\ \A i \in 1..Len(Tail(q)) : Tail(q)[i] = q[i + 1]
<1>1. Len(q) \in Nat /\ Len(q) >= 1 /\ Head(q) = q[1]
  OBVIOUS
<1>2. /\ Head(q) \in Runs
      /\ Tail(q) \in Seq(Runs)
      /\ Len(Tail(q)) = Len(q) - 1
      /\ \A i \in 1..Len(Tail(q)) : Tail(q)[i] = q[i + 1]
  BY HeadTailProperties
<1> QED BY <1>1, <1>2

-----------------------------------------------------------------------------
(* Type correctness.                                                       *)

\* The initial state is well typed: nothing built, queued or launched.
LEMMA InitType == Init => TypeOK
<1> SUFFICES ASSUME Init PROVE TypeOK
  OBVIOUS
<1>1. queue \in Seq(Runs) /\ events \in Seq(Runs)
  BY EmptySeq DEF Init
<1>2. /\ subOf \in [Runs -> Subs \cup {None}] /\ sandbox \in [Subs -> Runs \cup {None}]
      /\ outcome \in [Runs -> Outcomes]
      /\ fleet \in [Runs -> {"idle", "running", "reported", "cancelled"}]
      /\ handler \in [Runs -> {"none", "stop", "signal"}]
  BY DEF Init, Outcomes
<1>3. /\ control \in Transports /\ faults \subseteq Services /\ built \subseteq Subs
      /\ active \in Runs \cup {None} /\ doneEv \in BOOLEAN /\ pc \in PCs
      /\ listening \in BOOLEAN
  BY DEF Init, PCs
<1> QED BY <1>1, <1>2, <1>3 DEF TypeOK

\* Every step keeps the types, whatever the outside services do.
LEMMA NextType == TypeOK /\ [Next]_vars => TypeOK'
<1> SUFFICES ASSUME TypeOK, [Next]_vars PROVE TypeOK'
  OBVIOUS
<1> USE DEF TypeOK, env, requestVars, reportVars, ActiveSub
<1>1. ASSUME NEW s \in Subs, Submit(s) PROVE TypeOK'
  BY <1>1 DEF Submit
<1>2. ASSUME NEW r \in Runs, NEW s \in Subs, PostRun(r, s) PROVE TypeOK'
  BY <1>2, AppendFacts DEF PostRun, Outcomes
<1>3. ASSUME NEW S \in SUBSET Runs, StopAll(S) PROVE TypeOK'
  BY <1>3 DEF StopAll
<1>4. CASE Take
  BY <1>4, PopFacts DEF Take, PCs
<1>5. CASE Deploy
  BY <1>5 DEF Deploy, PCs
<1>6. CASE DeployFails
  <2>1. sandbox' \in [Subs -> Runs \cup {None}]
    <3>1. CASE subOf[active] \in Subs
      BY <1>6, <3>1 DEF DeployFails
    <3>2. CASE subOf[active] \notin Subs
      BY <1>6, <3>2 DEF DeployFails
    <3> QED BY <3>1, <3>2
  <2> QED BY <1>6, <2>1 DEF DeployFails, PCs
<1>7. CASE Healthy
  BY <1>7 DEF Healthy, PCs
<1>8. CASE Unhealthy
  BY <1>8 DEF Unhealthy, PCs
<1>9. CASE Cull
  BY <1>9 DEF Cull, Release, PCs, Outcomes, Resolved
<1>10. CASE CullFails
  BY <1>10 DEF CullFails, PCs
<1>11. CASE Start
  BY <1>11 DEF Start, PCs
<1>12. CASE StartFails
  BY <1>12 DEF StartFails, PCs
<1>13. CASE Finish
  BY <1>13 DEF Finish, Release, PCs, Outcomes, Resolved
<1>14. CASE Expire
  BY <1>14 DEF Expire, PCs
<1>15. CASE ExpireStop
  BY <1>15 DEF ExpireStop, Release, PCs, Outcomes, Resolved
<1>16. CASE ExpireStopFails
  BY <1>16 DEF ExpireStopFails, PCs
<1>17. CASE Fail
  BY <1>17 DEF Fail, Release, PCs, Outcomes, Resolved
<1>18. CASE FailRaises
  BY <1>18 DEF FailRaises, PCs, Outcomes, Resolved
<1>19. ASSUME NEW r \in Runs, FleetReports(r) PROVE TypeOK'
  <2>1. fleet' \in [Runs -> {"idle", "running", "reported", "cancelled"}]
    BY <1>19 DEF FleetReports
  <2>2. handler' \in [Runs -> {"none", "stop", "signal"}]
    BY <1>19 DEF FleetReports
  <2>3. events' \in Seq(Runs)
    <3>1. events' = events \/ events' = Append(events, r)
      BY <1>19 DEF FleetReports
    <3> QED
      BY <3>1, AppendFacts
  <2> QED BY <1>19, <2>1, <2>2, <2>3 DEF FleetReports
<1>20. CASE Receive
  BY <1>20, PopFacts DEF Receive
<1>21. ASSUME NEW r \in Runs, HandlerStop(r) PROVE TypeOK'
  BY <1>21 DEF HandlerStop
<1>22. ASSUME NEW r \in Runs, HandlerSignal(r) PROVE TypeOK'
  BY <1>22 DEF HandlerSignal
<1>23. ASSUME NEW r \in Runs, HandlerFails(r) PROVE TypeOK'
  BY <1>23, EmptySeq DEF HandlerFails
<1>24. CASE ListenerDies
  BY <1>24, EmptySeq DEF ListenerDies
<1>25. CASE UNCHANGED vars
  BY <1>25 DEF vars
<1> QED
  BY <1>1, <1>2, <1>3, <1>4, <1>5, <1>6, <1>7, <1>8, <1>9, <1>10, <1>11,
     <1>12, <1>13, <1>14, <1>15, <1>16, <1>17, <1>18, <1>19, <1>20, <1>21,
     <1>22, <1>23, <1>24, <1>25 DEF Next, Dispatch

\* Every variable of the run queue keeps its type in every behaviour.
THEOREM TypeCorrect == Spec => []TypeOK
  BY InitType, NextType, PTL DEF Spec

-----------------------------------------------------------------------------
(* A run ends as done only if its own fleet reported it.                   *)

\* Nothing is posted, reported or ended in the initial state.
LEMMA InitQueue == Init => QueueInv
  BY InitType, OrchAssumption
     DEF Init, QueueInv, LaneHeld, QueueFresh, StartedHolds, ReportsReal,
         EventReported, DoneIsReported

\* PostRun keeps QueueInv: the run is new, so nothing refers to it yet.
LEMMA PostRunQueue ==
  ASSUME QueueInv, TypeOK', NEW r \in Runs, NEW s \in Subs, PostRun(r, s)
  PROVE  QueueInv'
<1> USE DEF QueueInv, PostRun, reportVars
<1>0. TypeOK /\ r # active /\ fleet[r] = "idle"
  BY OrchAssumption DEF LaneHeld, StartedHolds, TypeOK
<1>1. LaneHeld'
  BY <1>0 DEF LaneHeld, TypeOK
<1>2. QueueFresh'
  <2>1. /\ Len(queue) \in Nat
        /\ Len(queue') = Len(queue) + 1
        /\ \A i \in 1..Len(queue) : queue'[i] = queue[i]
        /\ queue'[Len(queue) + 1] = r
    BY <1>0, AppendFacts DEF TypeOK
  <2>2. \A i \in 1..Len(queue) : queue[i] \in Runs /\ queue[i] # r
    BY <1>0, OrchAssumption DEF QueueFresh, TypeOK
  <2>3. \A i \in 1..Len(queue') : i \in 1..Len(queue) \/ i = Len(queue) + 1
    BY <2>1
  <2>4. \A i \in 1..Len(queue') :
          /\ queue'[i] # active'
          /\ fleet'[queue'[i]] = "idle"
          /\ subOf'[queue'[i]] \in Subs
    BY <1>0, <2>1, <2>2, <2>3 DEF QueueFresh, TypeOK
  <2>5. \A i, j \in 1..Len(queue') : queue'[i] = queue'[j] => i = j
    BY <2>1, <2>2, <2>3 DEF QueueFresh
  <2> QED BY <2>4, <2>5 DEF QueueFresh
<1>3. StartedHolds'
  BY <1>0 DEF StartedHolds, TypeOK
<1>4. ReportsReal' /\ EventReported' /\ DoneIsReported'
  BY <1>0 DEF ReportsReal, EventReported, DoneIsReported, TypeOK
<1> QED BY <1>1, <1>2, <1>3, <1>4

\* Take keeps QueueInv: the popped run was idle and the event is fresh.
LEMMA TakeQueue ==
  ASSUME QueueInv, TypeOK', Take
  PROVE  QueueInv'
<1> USE DEF QueueInv, Take, reportVars
<1>0. TypeOK /\ queue # <<>>
  OBVIOUS
<1>1. /\ active' \in Runs /\ active' = queue[1]
      /\ Len(queue) \in Nat /\ Len(queue) >= 1
      /\ Len(queue') = Len(queue) - 1
      /\ \A i \in 1..Len(queue') : queue'[i] = queue[i + 1]
  BY <1>0, PopFacts DEF TypeOK
<1>2. fleet[active'] = "idle" /\ subOf[active'] \in Subs
  BY <1>1 DEF QueueFresh
<1>3. LaneHeld'
  BY <1>1, <1>2, OrchAssumption DEF LaneHeld
<1>4. QueueFresh'
  <2>1. \A i \in 1..Len(queue') : i + 1 \in 1..Len(queue) /\ i + 1 # 1
    BY <1>1
  <2>2. 1 \in 1..Len(queue)
    BY <1>1
  <2>3. \A i \in 1..Len(queue') : queue'[i] # active'
    BY <1>1, <2>1, <2>2 DEF QueueFresh
  <2>4. \A i, j \in 1..Len(queue') : queue'[i] = queue'[j] => i = j
    BY <1>1, <2>1 DEF QueueFresh
  <2> QED BY <1>1, <2>1, <2>3, <2>4 DEF QueueFresh
<1>5. StartedHolds' /\ ReportsReal' /\ EventReported' /\ DoneIsReported'
  BY <1>2 DEF StartedHolds, ReportsReal, EventReported, DoneIsReported
<1> QED BY <1>3, <1>4, <1>5

\* The steps of a held lane keep QueueInv: the queue, the reports and the
\* event are left alone, and only the active run starts or ends.
LEMMA LaneStepsQueue ==
  ASSUME QueueInv, TypeOK', Dispatch, ~Take
  PROVE  QueueInv'
<1> USE DEF QueueInv, requestVars, reportVars
<1>0. TypeOK /\ active \in Runs
  BY DEF Dispatch, LaneHeld, TypeOK, Deploy, DeployFails, Healthy, Unhealthy,
         Cull, CullFails, Start, StartFails, Finish, Expire, ExpireStop,
         ExpireStopFails, Fail, FailRaises
<1>1. CASE Deploy \/ DeployFails \/ Healthy \/ Unhealthy \/ CullFails
  <2>1. /\ pc \in {"deploy", "health", "cull"}
        /\ pc' \in {"health", "cull", "start", "fail"}
        /\ UNCHANGED <<requestVars, active, doneEv, outcome, fleet, reportVars>>
    BY <1>1 DEF Deploy, DeployFails, Healthy, Unhealthy, CullFails
  <2>2. fleet[active] = "idle"
    BY <1>0, <2>1 DEF StartedHolds, Holding, TypeOK
  <2> QED BY <1>0, <2>1, <2>2, OrchAssumption
         DEF LaneHeld, QueueFresh, StartedHolds, ReportsReal, EventReported,
             DoneIsReported
<1>2. CASE Start \/ StartFails
  <2>1. /\ pc = "start"
        /\ pc' \in {"wait", "fail"}
        /\ fleet' \in {fleet, [fleet EXCEPT ![active] = "running"]}
        /\ UNCHANGED <<requestVars, active, doneEv, outcome, sandbox, reportVars>>
    BY <1>2 DEF Start, StartFails
  <2>2. fleet[active] = "idle"
    BY <1>0, <2>1 DEF StartedHolds, Holding, TypeOK
  <2>3. \A r \in Runs : r # active => fleet'[r] = fleet[r]
    BY <1>0, <2>1 DEF TypeOK
  <2>4. LaneHeld'
    BY <1>0, <2>1, OrchAssumption DEF LaneHeld
  <2>5. \A i \in 1..Len(queue) : queue[i] \in Runs
    BY <1>0 DEF TypeOK
  <2>6. QueueFresh'
    BY <2>1, <2>3, <2>5 DEF QueueFresh
  <2>7. StartedHolds'
    BY <1>0, <2>1, <2>3 DEF StartedHolds, LaneHeld, Holding
  <2>8. \A i \in 1..Len(events) : events[i] \in Runs
    BY <1>0 DEF TypeOK
  <2>9. \A r \in Runs : fleet[r] = "reported" => fleet'[r] = "reported"
    BY <2>2, <2>3
  <2>10. ReportsReal'
    BY <2>1, <2>8, <2>9 DEF ReportsReal
  <2>11. EventReported' /\ DoneIsReported'
    BY <1>0, <2>1, <2>9 DEF EventReported, DoneIsReported
  <2> QED BY <2>4, <2>6, <2>7, <2>10, <2>11
<1>3. CASE Expire \/ ExpireStopFails
  <2>1. /\ pc \in Holding
        /\ pc' \in Holding \cup {"fail"}
        /\ UNCHANGED <<requestVars, active, doneEv, outcome, fleet, reportVars>>
    BY <1>3 DEF Expire, ExpireStopFails, Holding
  <2> QED BY <1>0, <2>1, OrchAssumption
         DEF LaneHeld, QueueFresh, StartedHolds, ReportsReal, EventReported,
             DoneIsReported, Holding
<1>4. CASE Cull \/ Finish \/ ExpireStop \/ Fail \/ FailRaises
  <2>1. /\ active' = None
        /\ pc' \in {"get", "dead"}
        /\ UNCHANGED <<requestVars, doneEv, fleet, reportVars>>
        /\ \E how \in Resolved :
              /\ outcome' = [outcome EXCEPT ![active] = how]
              /\ how = "done" => doneEv
    BY <1>4 DEF Cull, Finish, ExpireStop, Fail, FailRaises, Release, Resolved
  <2>2. DoneIsReported'
    <3>1. PICK how \in Resolved : /\ outcome' = [outcome EXCEPT ![active] = how]
                                  /\ how = "done" => doneEv
      BY <2>1
    <3>2. how = "done" => fleet[active] = "reported"
      BY <1>0, <3>1, OrchAssumption DEF EventReported
    <3>3. \A r \in Runs : outcome'[r] = (IF r = active THEN how ELSE outcome[r])
      BY <1>0, <3>1 DEF TypeOK
    <3> QED BY <2>1, <3>2, <3>3 DEF DoneIsReported
  <2>3. LaneHeld' /\ StartedHolds'
    BY <2>1, OrchAssumption DEF LaneHeld, StartedHolds
  <2>4. \A i \in 1..Len(queue) : queue[i] \in Runs
    BY <1>0 DEF TypeOK
  <2>5. QueueFresh' /\ ReportsReal' /\ EventReported'
    BY <2>1, <2>4, OrchAssumption
       DEF QueueFresh, ReportsReal, EventReported
  <2> QED BY <2>2, <2>3, <2>5
<1> QED
  BY <1>1, <1>2, <1>3, <1>4 DEF Dispatch

\* The report path keeps QueueInv: what it adds to the events, the handlers
\* or the event is a report just made.
LEMMA ReportQueue ==
  ASSUME QueueInv, TypeOK',
         \/ \E r \in Runs : \/ FleetReports(r) \/ HandlerStop(r)
                            \/ HandlerSignal(r) \/ HandlerFails(r)
         \/ Receive
         \/ ListenerDies
  PROVE  QueueInv'
<1> USE DEF QueueInv, requestVars, reportVars
<1>0. TypeOK
  OBVIOUS
<1>1. \A i \in 1..Len(events) : events[i] \in Runs
  BY <1>0 DEF TypeOK
<1>2. \A i \in 1..Len(queue) : queue[i] \in Runs
  BY <1>0 DEF TypeOK
<1>3. ASSUME NEW r \in Runs, FleetReports(r) PROVE QueueInv'
  <2>1. /\ fleet[r] = "running"
        /\ fleet'[r] = "reported"
        /\ \A q \in Runs : q # r => fleet'[q] = fleet[q]
        /\ UNCHANGED <<requestVars, active, doneEv, pc, outcome>>
        /\ events' = Append(events, r) \/ events' = events
        /\ \A q \in Runs : q # r => handler'[q] = handler[q]
    BY <1>0, <1>3 DEF FleetReports, TypeOK
  <2>2. LaneHeld' /\ QueueFresh' /\ StartedHolds'
    BY <1>2, <2>1 DEF LaneHeld, QueueFresh, StartedHolds
  <2>3. \A i \in 1..Len(events') : fleet'[events'[i]] = "reported"
    <3>1. CASE events' = events
      BY <1>1, <2>1, <3>1 DEF ReportsReal
    <3>2. CASE events' = Append(events, r)
      <4>1. /\ Len(events) \in Nat
            /\ Len(events') = Len(events) + 1
            /\ \A i \in 1..Len(events) : events'[i] = events[i]
            /\ events'[Len(events) + 1] = r
        BY <1>0, <3>2, AppendFacts DEF TypeOK
      <4>2. \A i \in 1..Len(events') :
              i \in 1..Len(events) \/ i = Len(events) + 1
        BY <4>1
      <4> QED BY <1>1, <2>1, <4>1, <4>2 DEF ReportsReal
    <3> QED BY <2>1, <3>1, <3>2
  <2>4. ReportsReal' /\ EventReported' /\ DoneIsReported'
    BY <1>0, <2>1, <2>3 DEF ReportsReal, EventReported, DoneIsReported, TypeOK
  <2> QED BY <2>2, <2>4
<1>4. CASE Receive
  <2>1. /\ Head(events) \in Runs /\ Head(events) = events[1]
        /\ 1 \in 1..Len(events)
        /\ Len(events) \in Nat
        /\ Len(events') = Len(events) - 1
        /\ \A i \in 1..Len(events') : events'[i] = events[i + 1]
    BY <1>0, <1>4, PopFacts DEF Receive, TypeOK
  <2>2. \A i \in 1..Len(events') : i + 1 \in 1..Len(events)
    BY <2>1
  <2>3. ReportsReal'
    BY <1>0, <1>4, <2>1, <2>2 DEF Receive, ReportsReal, TypeOK
  <2> QED BY <1>4, <2>3
         DEF Receive, LaneHeld, QueueFresh, StartedHolds, EventReported,
             DoneIsReported
<1>5. ASSUME NEW r \in Runs, HandlerStop(r) \/ HandlerSignal(r) \/ HandlerFails(r)
      PROVE  QueueInv'
  <2>1. /\ handler[r] # "none"
        /\ UNCHANGED <<requestVars, active, pc, outcome, fleet>>
        /\ doneEv' => doneEv \/ active = r
        /\ events' = events \/ events' = <<>>
        /\ \A q \in Runs : handler'[q] # "none" => handler[q] # "none"
    BY <1>0, <1>5 DEF HandlerStop, HandlerSignal, HandlerFails, TypeOK
  <2>2. fleet[r] = "reported"
    BY <2>1 DEF ReportsReal
  <2>3. ReportsReal' /\ EventReported'
    BY <2>1, <2>2 DEF ReportsReal, EventReported
  <2> QED BY <2>1, <2>3 DEF LaneHeld, QueueFresh, StartedHolds, DoneIsReported
<1>6. CASE ListenerDies
  BY <1>6 DEF ListenerDies, LaneHeld, QueueFresh, StartedHolds, ReportsReal,
              EventReported, DoneIsReported
<1> QED BY <1>3, <1>4, <1>5, <1>6

\* Every step keeps QueueInv.
LEMMA NextQueue == QueueInv /\ [Next]_vars => QueueInv'
<1> SUFFICES ASSUME QueueInv, [Next]_vars PROVE QueueInv'
  OBVIOUS
<1>0. TypeOK'
  BY NextType DEF QueueInv
<1>1. ASSUME NEW s \in Subs, Submit(s) PROVE QueueInv'
  BY <1>0, <1>1 DEF Submit, reportVars, QueueInv, LaneHeld, QueueFresh,
     StartedHolds, ReportsReal, EventReported, DoneIsReported
<1>2. ASSUME NEW S \in SUBSET Runs, StopAll(S) PROVE QueueInv'
  <2> USE DEF QueueInv, StopAll, requestVars, reportVars
  <2>1. \A r \in Runs : fleet[r] \in {"idle", "reported"} => fleet'[r] = fleet[r]
    BY <1>2
  <2>2. \A r \in Runs : fleet'[r] # "idle" => fleet[r] # "idle"
    BY <1>2
  <2>3. /\ \A i \in 1..Len(queue) : queue[i] \in Runs
        /\ \A i \in 1..Len(events) : events[i] \in Runs
        /\ active \in Runs \cup {None}
    BY DEF TypeOK
  <2>4. LaneHeld' /\ QueueFresh' /\ StartedHolds'
    BY <1>2, <2>1, <2>2, <2>3 DEF LaneHeld, QueueFresh, StartedHolds
  <2>5. ReportsReal' /\ EventReported' /\ DoneIsReported'
    BY <1>2, <2>1, <2>3 DEF ReportsReal, EventReported, DoneIsReported
  <2> QED BY <1>0, <2>4, <2>5
<1>3. CASE UNCHANGED vars
  BY <1>0, <1>3 DEF vars, QueueInv, LaneHeld, QueueFresh, StartedHolds,
     ReportsReal, EventReported, DoneIsReported
<1> QED
  BY <1>0, <1>1, <1>2, <1>3, PostRunQueue, TakeQueue, LaneStepsQueue,
     ReportQueue DEF Next, Dispatch

\* A run leaves the lane as done only if its own fleet reported it done, on
\* both transports and whatever Docker and Redis do: _signal_done compares
\* run ids and every run gets an event of its own.
THEOREM DoneReported == Spec => []DoneIsReported
<1>1. Spec => []QueueInv
  BY InitQueue, NextQueue, PTL DEF Spec
<1>2. QueueInv => DoneIsReported
  BY DEF QueueInv
<1> QED BY <1>1, <1>2, PTL

-----------------------------------------------------------------------------
(* The queue keeps its promise.                                            *)

\* The steps that neither request a run, nor grant or release the lane.
LEMMA QueueFramed ==
  ASSUME [Next]_vars, ~Take, ~ \E r \in Runs, s \in Subs : PostRun(r, s),
         ~ (Cull \/ Finish \/ ExpireStop \/ Fail \/ FailRaises)
  PROVE  UNCHANGED <<queue, active, outcome, subOf>>
<1> USE DEF vars, requestVars
<1>1. CASE \E s \in Subs : Submit(s)
  BY <1>1 DEF Submit
<1>2. CASE \E S \in SUBSET Runs : StopAll(S)
  BY <1>2 DEF StopAll
<1>3. CASE Dispatch
  BY <1>3 DEF Dispatch, Deploy, DeployFails, Healthy, Unhealthy, CullFails, Start, StartFails,
              Expire, ExpireStopFails
<1>4. CASE \E r \in Runs : FleetReports(r) \/ HandlerStop(r) \/ HandlerSignal(r) \/ HandlerFails(r)
  BY <1>4 DEF FleetReports, HandlerStop, HandlerSignal, HandlerFails
<1>5. CASE Receive \/ ListenerDies
  BY <1>5 DEF Receive, ListenerDies
<1>6. CASE UNCHANGED vars
  BY <1>6
<1> QED BY <1>1, <1>2, <1>3, <1>4, <1>5, <1>6 DEF Next

\* A release resolves the active run, and only it.
LEMMA Released ==
  ASSUME TypeOK, LaneHeld, Cull \/ Finish \/ ExpireStop \/ Fail \/ FailRaises
  PROVE  /\ active \in Runs /\ active' = None /\ UNCHANGED <<queue, subOf>>
         /\ \E how \in Resolved : outcome' = [outcome EXCEPT ![active] = how]
<1>1. pc \in {"cull", "wait", "expire", "fail"}
  BY DEF Cull, Finish, ExpireStop, Fail, FailRaises
<1>2. active \in Runs
  BY <1>1 DEF LaneHeld, TypeOK
<1> QED
  BY <1>2 DEF Cull, Finish, ExpireStop, Fail, FailRaises, Release, Resolved, requestVars

\* A run is resolved once: every step keeps Unresolved.
LEMMA NextUnresolved ==
  ASSUME QueueInv, Unresolved, [Next]_vars
  PROVE  Unresolved'
<1>0. /\ TypeOK /\ LaneHeld /\ QueueFresh /\ active \in Runs \cup {None} /\ None \notin Subs
      /\ queue \in Seq(Runs) /\ Len(queue) \in Nat
      /\ \A i \in 1..Len(queue) : queue[i] \in Runs
  BY OrchAssumption, LenProperties DEF QueueInv, TypeOK
<1>1. ASSUME NEW r \in Runs, NEW s \in Subs, PostRun(r, s) PROVE Unresolved'
  <2>1. /\ queue' = Append(queue, r) /\ active' = active /\ subOf[r] = None
        /\ \A q \in Runs : outcome'[q] = IF q = r THEN "queued" ELSE outcome[q]
        /\ \A q \in Runs : subOf'[q] = IF q = r THEN s ELSE subOf[q]
    BY <1>0, <1>1 DEF PostRun, TypeOK
  <2>2. /\ Len(queue') = Len(queue) + 1
        /\ \A i \in 1..Len(queue) : queue'[i] = queue[i]
        /\ queue'[Len(queue) + 1] = r
    BY <1>0, <2>1, AppendFacts
  <2>3. \A i \in 1..Len(queue') : i \in 1..Len(queue) \/ i = Len(queue) + 1
    BY <1>0, <2>2
  <2>4. \A i \in 1..Len(queue') : outcome'[queue'[i]] = "queued"
    BY <1>0, <2>1, <2>2, <2>3 DEF Unresolved
  <2> QED BY <1>0, <2>1, <2>4 DEF Unresolved
<1>2. CASE Take
  <2>1. /\ active' = queue[1] /\ 1 \in 1..Len(queue)
        /\ \A i \in 1..Len(queue') : queue'[i] = queue[i + 1] /\ i + 1 \in 1..Len(queue)
    BY <1>0, <1>2, PopFacts DEF Take
  <2>2. outcome' = outcome /\ subOf' = subOf
    BY <1>2 DEF Take
  <2> QED BY <2>1, <2>2 DEF Unresolved
<1>3. CASE Cull \/ Finish \/ ExpireStop \/ Fail \/ FailRaises
  <2>1. PICK how \in Resolved : outcome' = [outcome EXCEPT ![active] = how]
    BY <1>0, <1>3, Released
  <2>2. active \in Runs /\ active' = None /\ UNCHANGED <<queue, subOf>>
    BY <1>0, <1>3, Released
  <2>3. \A r \in Runs : r # active => outcome'[r] = outcome[r]
    BY <2>1, <1>0 DEF TypeOK
  <2>4. \A r \in Runs : subOf[r] = None => r # active
    BY <1>0, <2>2, OrchAssumption DEF LaneHeld
  <2>5. \A i \in 1..Len(queue) : queue[i] # active
    BY <1>0 DEF QueueFresh
  <2> QED BY <1>0, <2>2, <2>3, <2>4, <2>5 DEF Unresolved
<1>4. ASSUME UNCHANGED <<queue, active, outcome, subOf>> PROVE Unresolved'
  BY <1>4 DEF Unresolved
<1> QED BY <1>1, <1>2, <1>3, <1>4, QueueFramed

\* Every step of the orchestrator is a step of the promised queue, or none.
LEMMA StepPromised ==
  ASSUME QueueInv, Unresolved, [Next]_vars
  PROVE  [Promise!Next]_(Promise!vars)
<1>0. TypeOK /\ LaneHeld
  BY DEF QueueInv
<1>1. ASSUME NEW r \in Runs, NEW s \in Subs, PostRun(r, s) PROVE Promise!Next
  <2>1. Promise!Request(r)
    BY <1>1 DEF PostRun, Promise!Request, Unresolved
  <2> QED BY <2>1 DEF Promise!Next
<1>2. CASE Take
  <2>1. active = None
    BY <1>0, <1>2 DEF Take, LaneHeld
  <2>2. Promise!Grant
    BY <1>2, <2>1 DEF Take, Promise!Grant
  <2> QED BY <2>2 DEF Promise!Next
<1>3. CASE Cull \/ Finish \/ ExpireStop \/ Fail \/ FailRaises
  <2>1. PICK how \in Resolved : outcome' = [outcome EXCEPT ![active] = how]
    BY <1>0, <1>3, Released
  <2>2. active \in Runs /\ active' = None /\ queue' = queue
    BY <1>0, <1>3, Released
  <2>3. active # None /\ outcome[active] = "queued"
    BY <2>2, OrchAssumption DEF Unresolved
  <2>4. Promise!Resolve(how)
    BY <2>1, <2>2, <2>3 DEF Promise!Resolve
  <2> QED BY <2>4 DEF Promise!Next, Promise!Results, Resolved
<1>4. ASSUME UNCHANGED <<queue, active, outcome, subOf>> PROVE UNCHANGED Promise!vars
  BY <1>4 DEF Promise!vars
<1> QED BY <1>1, <1>2, <1>3, <1>4, QueueFramed

\* Requests get the lane in their order, one at a time, and one result each,
\* whatever Docker, Redis and the fleet do (RUN_QUEUE, _run_dispatcher and the
\* finally clause of _execute_run).
THEOREM QueuePromised == Spec => QueueKept
<1>1. Init => Unresolved /\ Promise!Init
  BY EmptySeq DEF Init, Unresolved, Promise!Init
<1>2. Unresolved /\ QueueInv /\ [Next]_vars => Unresolved'
  BY NextUnresolved
<1>3. Unresolved /\ QueueInv /\ [Next]_vars => [Promise!Next]_(Promise!vars)
  BY StepPromised
<1>4. Spec => []QueueInv
  BY InitQueue, NextQueue, PTL DEF Spec
<1> QED BY <1>1, <1>2, <1>3, <1>4, PTL DEF Spec, QueueKept, Promise!Spec

-----------------------------------------------------------------------------
(* One sandbox at a time, where no call to Docker or Redis raises.         *)

\* No container and no signal exist in the initial state.
LEMMA InitLane == Init => LaneInv
  BY InitQueue, EmptySeq DEF Init, LaneInv, Unresolved, CleanLane, OwnSandbox, StopFirst

\* Which services are flaky does not change while the process runs.
LEMMA FaultsFixed == [Next]_vars => faults' = faults
  BY DEF Next, Dispatch, vars, env, Submit, PostRun, StopAll, Take, Deploy,
         DeployFails, Healthy, Unhealthy, Cull, CullFails, Start, StartFails,
         Finish, Expire, ExpireStop, ExpireStopFails, Fail, FailRaises,
         FleetReports, Receive, HandlerStop, HandlerSignal, HandlerFails,
         ListenerDies

\* Where no call raises, every step keeps CleanLane: containers appear for the
\* active run only, and the lane is released only after a stop.
LEMMA NextClean ==
  ASSUME QueueInv, CleanLane, faults = {}, [Next]_vars
  PROVE  CleanLane'
<1> USE DEF CleanLane, requestVars, reportVars, ActiveSub, Launched, Holding
<1>0. TypeOK /\ QueueInv /\ QueueInv' /\ TypeOK'
  BY NextQueue DEF QueueInv
<1>1. ASSUME NEW s \in Subs, Submit(s) PROVE CleanLane'
  BY <1>0, <1>1 DEF Submit, OwnSandbox, StopFirst
<1>2. ASSUME NEW r \in Runs, NEW s \in Subs, PostRun(r, s) PROVE CleanLane'
  <2>1. r # active /\ handler[r] = "none"
    BY <1>0, <1>2, OrchAssumption
       DEF PostRun, QueueInv, LaneHeld, StartedHolds, ReportsReal, TypeOK
  <2>2. \A q \in Runs : q # r => subOf'[q] = subOf[q]
    BY <1>0, <1>2 DEF PostRun, TypeOK
  <2>3. active # None => subOf'[active] = subOf[active]
    BY <1>0, <2>1, <2>2 DEF TypeOK
  <2>4. sandbox' = sandbox /\ active' = active /\ pc' = pc /\ doneEv' = doneEv
        /\ handler' = handler
    BY <1>2 DEF PostRun
  <2>5. OwnSandbox'
    <3>1. \A s2 \in Subs : sandbox[s2] # None => active # None
      BY <1>0 DEF OwnSandbox
    <3> QED BY <2>3, <2>4, <3>1 DEF OwnSandbox
  <2>6. StopFirst'
    BY <2>1, <2>2, <2>3, <2>4 DEF StopFirst
  <2> QED BY <1>0, <2>4, <2>5, <2>6
<1>3. ASSUME NEW S \in SUBSET Runs, StopAll(S) PROVE CleanLane'
  BY <1>0, <1>3 DEF StopAll, OwnSandbox, StopFirst
<1>4. CASE Take
  <2>1. \A s \in Subs : sandbox[s] = None
    BY <1>4 DEF Take, OwnSandbox
  <2>2. \A r \in Runs : handler[r] # "none" => fleet[r] = "reported" /\ subOf[r] \in Subs
    BY <1>0 DEF QueueInv, ReportsReal, StartedHolds
  <2> QED BY <1>0, <1>4, <2>1, <2>2 DEF Take, OwnSandbox, StopFirst
<1>5. CASE Deploy
  <2>1. active \in Runs /\ subOf[active] \in Subs /\ fleet[active] = "idle"
    BY <1>0, <1>5 DEF Deploy, QueueInv, LaneHeld, StartedHolds, TypeOK
  <2>2. handler[active] = "none" /\ ~doneEv
    BY <1>0, <1>5, <2>1, OrchAssumption DEF Deploy, QueueInv, ReportsReal, StopFirst
  <2>3. \A s \in Subs : sandbox'[s] = (IF s = subOf[active] THEN active ELSE None)
    BY <1>0, <1>5 DEF Deploy, OwnSandbox, TypeOK
  <2> QED BY <1>0, <1>5, <2>1, <2>2, <2>3 DEF Deploy, OwnSandbox, StopFirst
<1>6. CASE Healthy \/ Unhealthy
  BY <1>0, <1>6 DEF Healthy, Unhealthy, OwnSandbox, StopFirst
<1>7. CASE Start \/ Expire
  BY <1>0, <1>7 DEF Start, Expire, OwnSandbox, StopFirst
<1>8. CASE Cull \/ ExpireStop \/ Finish
  <2>1. /\ active' = None /\ pc' = "get"
        /\ UNCHANGED <<subOf, handler, doneEv>>
    BY <1>8 DEF Cull, ExpireStop, Finish, Release
  <2>2. active \in Runs /\ subOf[active] \in Subs
    BY <1>0, <1>8 DEF Cull, ExpireStop, Finish, QueueInv, LaneHeld, TypeOK
  <2>3. \A s \in Subs : sandbox'[s] = None
    <3>1. CASE Finish
      BY <1>0, <2>2, <3>1, OrchAssumption DEF Finish, OwnSandbox, StopFirst
    <3>2. CASE Cull \/ ExpireStop
      BY <1>0, <2>2, <3>2 DEF Cull, ExpireStop, OwnSandbox, TypeOK
    <3> QED BY <1>8, <3>1, <3>2
  <2> QED BY <1>0, <2>1, <2>3, OrchAssumption DEF OwnSandbox, StopFirst
<1>9. ~(DeployFails \/ CullFails \/ StartFails \/ ExpireStopFails \/ Fail
        \/ FailRaises \/ ListenerDies)
  BY DEF DeployFails, CullFails, StartFails, ExpireStopFails, Fail, FailRaises,
         ListenerDies
<1>10. ASSUME NEW r \in Runs, FleetReports(r) PROVE CleanLane'
  <2>1. \A q \in Runs : handler'[q] = "signal" => handler[q] = "signal"
    BY <1>0, <1>10 DEF FleetReports, TypeOK
  <2> QED BY <1>0, <1>10, <2>1 DEF FleetReports, OwnSandbox, StopFirst
<1>11. CASE Receive
  <2>1. \A q \in Runs : handler'[q] = "signal" => handler[q] = "signal"
    BY <1>0, <1>11 DEF Receive, TypeOK
  <2> QED BY <1>0, <1>11, <2>1 DEF Receive, OwnSandbox, StopFirst
<1>12. ASSUME NEW r \in Runs, HandlerStop(r) PROVE CleanLane'
  <2>1. subOf[r] \in Subs
    BY <1>0, <1>12 DEF HandlerStop, QueueInv, ReportsReal, StartedHolds
  <2>2. \A s \in Subs : sandbox'[s] = (IF s = subOf[r] THEN None ELSE sandbox[s])
    BY <1>0, <1>12 DEF HandlerStop, TypeOK
  <2>3. \A q \in Runs : q # r => handler'[q] = handler[q]
    BY <1>0, <1>12 DEF HandlerStop, TypeOK
  <2>4. OwnSandbox'
    BY <1>12, <2>2 DEF HandlerStop, OwnSandbox
  <2>5. \A q \in Runs : handler[q] # "none" => subOf[q] \in Subs
    BY <1>0 DEF QueueInv, ReportsReal, StartedHolds
  <2>6. active # None => subOf[active] \in Subs
    BY <1>0 DEF QueueInv, LaneHeld
  <2>7. StopFirst'
    BY <1>12, <2>1, <2>2, <2>3, <2>5, <2>6 DEF HandlerStop, StopFirst
  <2> QED BY <1>0, <1>12, <2>4, <2>7 DEF HandlerStop
<1>13. ASSUME NEW r \in Runs, HandlerSignal(r) PROVE CleanLane'
  <2>1. fleet[r] = "reported"
    BY <1>0, <1>13 DEF HandlerSignal, QueueInv, ReportsReal
  <2>2. active = r => sandbox[ActiveSub] = None /\ pc \in Holding
    BY <1>0, <1>13, <2>1 DEF HandlerSignal, QueueInv, StartedHolds, StopFirst
  <2>3. \A q \in Runs : handler'[q] = "signal" => handler[q] = "signal"
    BY <1>0, <1>13 DEF HandlerSignal, TypeOK
  <2> QED BY <1>0, <1>13, <2>2, <2>3 DEF HandlerSignal, OwnSandbox, StopFirst
<1>14. ASSUME NEW r \in Runs, HandlerFails(r) PROVE CleanLane'
  BY <1>14 DEF HandlerFails
<1>15. CASE UNCHANGED vars
  BY <1>0, <1>15 DEF vars, OwnSandbox, StopFirst
<1> QED
  BY <1>1, <1>2, <1>3, <1>4, <1>5, <1>6, <1>7, <1>8, <1>9, <1>10, <1>11,
     <1>12, <1>13, <1>14, <1>15 DEF Next, Dispatch

\* Every step keeps LaneInv.
LEMMA NextLane == LaneInv /\ [Next]_vars => LaneInv'
  BY NextQueue, NextUnresolved, NextClean, FaultsFixed DEF LaneInv

\* The lane invariant: what each place of the dispatcher and of the listener
\* implies of the active run, its reports and its container.
THEOREM LaneKept == Spec => []LaneInv
  BY InitLane, NextLane, PTL DEF Spec

\* While no call to Docker or Redis raises, a container exists only for the
\* run that holds the lane: at most one sandbox on the pinned cores, and none
\* once its run has left.
THEOREM OneSandbox == Spec => []LaneExclusive
<1>1. LaneInv => LaneExclusive
  BY DEF LaneInv, CleanLane, OwnSandbox, LaneExclusive
<1> QED BY <1>1, LaneKept, PTL
=============================================================================
