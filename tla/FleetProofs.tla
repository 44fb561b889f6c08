------------------------------ MODULE FleetProofs ------------------------------
(***************************************************************************)
(* Theorems about Fleet for every number of workers and runs and every      *)
(* setting: a run is reported at most once, the probe of a run has the book  *)
(* to itself while no follower's poll runs out, and the workers divide the   *)
(* offered load by their number while none registers late.                  *)
(***************************************************************************)
EXTENDS Fleet, FiniteSetTheorems, SequenceTheorems, TLAPS

-----------------------------------------------------------------------------
(* Facts about the data.                                                   *)

\* Broadcasting a command keeps an inbox a sequence of commands.
LEMMA InboxAppend ==
  ASSUME NEW S, NEW q \in Seq(S), NEW e \in S
  PROVE  Append(q, e) \in Seq(S)
  BY AppendProperties

\* Taking a command leaves a sequence of commands.
LEMMA InboxPop ==
  ASSUME NEW S, NEW q \in Seq(S), q # <<>>
  PROVE  Head(q) \in S /\ Tail(q) \in Seq(S)
  BY HeadTailProperties

\* The members of a run are at most the replicas.
LEMMA MembersCount ==
  ASSUME NEW M \in SUBSET Workers
  PROVE  /\ Cardinality(M) \in 0..Cardinality(Workers)
         /\ M # {} => Cardinality(M) >= 1
         /\ 0 \in 0..Cardinality(Workers) /\ 1 \in 0..Cardinality(Workers)
<1>1. IsFiniteSet(Workers) /\ Workers # {}
  BY FleetAssumption
<1>2. IsFiniteSet(M) /\ Cardinality(M) <= Cardinality(Workers)
  BY <1>1, FS_Subset
<1>3. Cardinality(M) \in Nat /\ Cardinality(Workers) \in Nat
  BY <1>1, <1>2, FS_CardinalityType
<1>4. Cardinality(M) # 0 \/ M = {}
  BY <1>2, FS_EmptySet
<1>5. Cardinality(Workers) # 0
  BY <1>1, FS_EmptySet
<1> QED
  BY <1>2, <1>3, <1>4, <1>5

\* No run and no worker is None.
LEMMA NoneNew == None \notin Workers /\ None \notin Runs
  BY FleetAssumption

-----------------------------------------------------------------------------
(* Types.                                                                  *)

\* A step of a worker keeps the types.
LEMMA WorkType ==
  ASSUME TypeOK, NEW w \in Workers, Work(w) \/ WorkerCrash(w) \/ StreamDrops(w)
  PROVE  TypeOK'
<1> USE NoneNew DEF TypeOK, streamVars, taskVars, redisVars, orchVars
<1>p. /\ {"idle", "register", "elect", "barrier", "probe", "flag", "announce",
          "poll", "count", "report", "cancelling"} \subseteq PCs
      /\ {"sweep", "burst", "closed", "refused", "hung"} \subseteq PCs
  BY DEF PCs, Loading
<1> USE <1>p
<1>0. 0 \in 0..Cardinality(Workers)
  BY MembersCount
<1>t. pc[w] # "idle" => task[w] \in Runs
  OBVIOUS
<1>1. CASE TakeStart(w)
  <2>1. /\ Head(inbox[w]) \in Runs \cup {Stop}
        /\ Tail(inbox[w]) \in Seq(Runs \cup {Stop})
    BY <1>1, InboxPop DEF TakeStart
  <2>2. CASE task[w] = None
    <3>1. task' = [task EXCEPT ![w] = Head(inbox[w])]
          /\ Head(inbox[w]) \in Runs
      BY <1>1, <2>1, <2>2 DEF TakeStart
    <3>2. pc' = [pc EXCEPT ![w] = "register"]
      BY <1>1, <2>2 DEF TakeStart
    <3>3. inbox' \in [Workers -> Seq(Runs \cup {Stop})]
      BY <1>1, <2>1 DEF TakeStart
    <3>4. /\ task' \in [Workers -> Runs \cup {None}]
          /\ pc' \in [Workers -> PCs]
      BY <3>1, <3>2
    <3>5. \A v \in Workers : pc'[v] = "idle" <=> task'[v] = None
      BY <3>1, <3>2
    <3> QED
      BY <1>1, <3>3, <3>4, <3>5 DEF TakeStart
  <2>3. CASE task[w] # None
    BY <1>1, <2>1, <2>3 DEF TakeStart
  <2> QED
    BY <2>2, <2>3
<1>2. CASE TakeStop(w)
  <2>1. Tail(inbox[w]) \in Seq(Runs \cup {Stop})
    BY <1>2, InboxPop DEF TakeStop
  <2> QED
    BY <1>2, <2>1 DEF TakeStop
<1>3. CASE Cancelled(w)
  BY <1>0, <1>3 DEF Cancelled, TaskEnds
<1>4. CASE Register(w)
  BY <1>t, <1>4 DEF Register, Goto
<1>5. CASE Elect(w)
  <2>1. CASE lock[task[w]] = None
    <3>1. lock' = [lock EXCEPT ![task[w]] = w] /\ task[w] \in Runs
      BY <1>t, <1>5, <2>1 DEF Elect
    <3>2. leads' = [leads EXCEPT ![w] = TRUE]
      BY <1>5, <2>1 DEF Elect
    <3>3. pc[w] = "elect" /\ pc' = [pc EXCEPT ![w] = "barrier"]
      BY <1>5, <2>1 DEF Elect
    <3>4. lock' \in [Runs -> Workers \cup {None}]
      BY <3>1
    <3>5. leads' \in [Workers -> BOOLEAN]
      BY <3>2
    <3>6. /\ pc' \in [Workers -> PCs]
          /\ \A v \in Workers : pc'[v] = "idle" <=> task[v] = None
      BY <3>3
    <3> QED
      BY <1>5, <3>4, <3>5, <3>6 DEF Elect
  <2>2. CASE lock[task[w]] # None
    <3>1. /\ pc[w] = "elect" /\ pc' = [pc EXCEPT ![w] = "poll"]
          /\ UNCHANGED <<lock, leads, streamVars, setting, task, share>>
          /\ UNCHANGED <<members, joined, probed, reports, orchVars>>
      BY <1>5, <2>2 DEF Elect
    <3>2. /\ pc' \in [Workers -> PCs]
          /\ \A v \in Workers : pc'[v] = "idle" <=> task[v] = None
      BY <3>1
    <3> QED
      BY <3>1, <3>2
  <2> QED
    BY <2>1, <2>2
<1>6. CASE Barrier(w)
  BY <1>6 DEF Barrier, Advance, Goto
<1>7. CASE ProbeEnds(w)
  BY <1>7 DEF ProbeEnds, Advance, Goto
<1>8. CASE SetProbed(w)
  BY <1>t, <1>8 DEF SetProbed, Goto
<1>9. CASE Announce(w)
  BY <1>9 DEF Announce, Advance, Goto
<1>10. CASE PollEnds(w)
  BY <1>10 DEF PollEnds, Advance, Goto
<1>11. CASE Count(w)
  <2> DEFINE S == members[task[w]]
  <2>1. Cardinality(S) \in 0..Cardinality(Workers) /\ 1 \in 0..Cardinality(Workers)
    BY <1>t, <1>11, MembersCount DEF Count, Goto
  <2>2. \E n \in 0..Cardinality(Workers) : share' = [share EXCEPT ![w] = n]
    <3>1. share' = [share EXCEPT ![w] = IF S = {} THEN 1 ELSE Cardinality(S)]
      BY <1>11 DEF Count
    <3> HIDE DEF S
    <3> QED BY <2>1, <3>1
  <2> QED
    BY <1>11, <2>2 DEF Count, Goto
<1>12. CASE SweepEnds(w)
  BY <1>12 DEF SweepEnds, Advance, Goto
<1>13. CASE BurstEnds(w)
  BY <1>13 DEF BurstEnds, Advance, Goto
<1>14. CASE ClosedEnds(w)
  <2>1. \/ /\ pc' = [pc EXCEPT ![w] = "report"]
           /\ UNCHANGED <<task, leads, share>>
        \/ TaskEnds(w)
    BY <1>14 DEF ClosedEnds
  <2>2. pc[w] # "idle"
    BY <1>14 DEF ClosedEnds
  <2>3. CASE TaskEnds(w)
    BY <1>0, <1>14, <2>3 DEF ClosedEnds, TaskEnds
  <2>4. CASE /\ pc' = [pc EXCEPT ![w] = "report"]
             /\ UNCHANGED <<task, leads, share>>
    BY <1>14, <2>2, <2>4 DEF ClosedEnds
  <2> QED
    BY <2>1, <2>3, <2>4
<1>15. CASE Hang(w)
  BY <1>15 DEF Hang, Advance, Goto
<1>16. CASE Report(w)
  BY <1>0, <1>t, <1>16 DEF Report, Goto, TaskEnds
<1>17. CASE WorkerCrash(w)
  <2>1. <<>> \in Seq(Runs \cup {Stop})
    OBVIOUS
  <2> QED
    BY <1>0, <1>17, <2>1 DEF WorkerCrash, TaskEnds
<1>18. CASE Subscribe(w)
  BY <1>18 DEF Subscribe
<1>19. CASE StreamDrops(w)
  <2>1. <<>> \in Seq(Runs \cup {Stop})
    OBVIOUS
  <2> QED
    BY <1>19, <2>1 DEF StreamDrops
<1>20. CASE ReportFails(w)
  BY <1>0, <1>20 DEF ReportFails, TaskEnds
<1> QED
  BY <1>1, <1>2, <1>3, <1>4, <1>5, <1>6, <1>7, <1>8, <1>9, <1>10, <1>11,
     <1>12, <1>13, <1>14, <1>15, <1>16, <1>17, <1>18, <1>19, <1>20 DEF Work

\* A step of the orchestrator or of an engine keeps the types.
LEMMA OrchType ==
  ASSUME TypeOK,
         (\E r \in Runs : StartRun(r)) \/ StopSandbox \/ StopAll \/ EngineCrash
  PROVE  TypeOK'
<1> USE NoneNew DEF TypeOK, streamVars, taskVars, redisVars, orchVars
<1>1. \A w \in Workers, c \in Runs \cup {Stop} :
          Append(inbox[w], c) \in Seq(Runs \cup {Stop})
  BY InboxAppend
<1>b. \A c \in Runs \cup {Stop} :
          Broadcast(c) => inbox' \in [Workers -> Seq(Runs \cup {Stop})]
  BY <1>1 DEF Broadcast
<1>2. CASE \E r \in Runs : StartRun(r)
  BY <1>b, <1>2 DEF StartRun
<1>3. CASE StopSandbox
  BY <1>3 DEF StopSandbox
<1>4. CASE StopAll
  BY <1>b, <1>4 DEF StopAll
<1>5. CASE EngineCrash
  BY <1>5 DEF EngineCrash
<1> QED
  BY <1>2, <1>3, <1>4, <1>5

\* Nor does the expiry of a set change them.
LEMMA ExpireType ==
  ASSUME TypeOK, NEW r \in Runs, FleetExpires(r)
  PROVE  TypeOK'
  BY DEF FleetExpires, TypeOK, streamVars, taskVars, orchVars

-----------------------------------------------------------------------------
(* What a step does to the rest of the invariant, by the kind of step.     *)

\* The conjuncts of FleetInv besides the types.
Rest == LeaderHolds /\ Elected /\ ReportedLeft /\ ProbeOver /\ OneReport

\* A worker that probes a run holds its lock, so only one does.
LEMMA OneProber ==
  ASSUME LeaderHolds, NEW v \in Workers, pc[v] \in Probing
  PROVE  leads[v] /\ lock[task[v]] = v
  BY DEF LeaderHolds, Probing, Leading

\* A step that touches neither the workers' places nor Redis.
LEMMA Framed ==
  ASSUME Rest, UNCHANGED <<setting, task, pc, leads, lock, probed, reports>>
  PROVE  Rest'
  BY DEF Rest, LeaderHolds, Elected, ReportedLeft, ProbeOver, Quiet, OneReport

\* A worker that only moves on in run_load: leader's work stays with leaders,
\* no one gets past the election of a run without a leader, no one starts to
\* probe but from the barrier, and no one gets past the probe before it is over.
LEMMA Moving ==
  ASSUME TypeOK, Rest,
         NEW w \in Workers, NEW to,
         pc' = [pc EXCEPT ![w] = to],
         UNCHANGED <<setting, task, leads, lock, probed, reports>>,
         to \in Leading => leads[w],
         to \in {"poll"} \cup Leading \cup Past => lock[task[w]] # None,
         to \in Probing => pc[w] \in Probing,
         to \in Past /\ "poll" \notin setting =>
             \A v \in Workers \ {w} : task[v] = task[w] => pc[v] \notin Probing
  PROVE  Rest'
<1> USE DEF Rest
<1>0. \A v \in Workers : pc'[v] = IF v = w THEN to ELSE pc[v]
  BY DEF TypeOK
<1>1. LeaderHolds'
  BY <1>0 DEF LeaderHolds
<1>2. Elected'
  BY <1>0 DEF Elected
<1>3. ReportedLeft' /\ OneReport'
  BY DEF ReportedLeft, OneReport
<1>4. \A r \in Runs : Quiet(r) => Quiet(r)'
  BY <1>0 DEF Quiet
<1>5. to \in Past => to \notin Probing
  BY DEF Past, Probing, Loading
<1>6. ASSUME NEW v \in Workers, "poll" \notin setting, pc'[v] \in Past
      PROVE  Quiet(task[v])'
  <2>1. CASE v = w
    BY <1>0, <1>5, <1>6, <2>1 DEF Quiet
  <2>2. CASE v # w
    <3>1. Quiet(task[v])
      BY <1>0, <1>6, <2>2 DEF ProbeOver
    <3> QED
      BY <1>0, <3>1 DEF Quiet
  <2> QED
    BY <2>1, <2>2
<1>7. ProbeOver'
  BY <1>4, <1>6 DEF ProbeOver
<1> QED
  BY <1>1, <1>2, <1>3, <1>7

\* A worker whose task ends, for whatever reason.
LEMMA Leaving ==
  ASSUME TypeOK, Rest, NEW w \in Workers, TaskEnds(w),
         UNCHANGED <<setting, lock, probed>>,
         \A r \in Runs : reports'[r] = reports[r]
  PROVE  Rest'
<1> USE NoneNew DEF Rest
<1>0. \A v \in Workers :
          /\ pc'[v] = IF v = w THEN "idle" ELSE pc[v]
          /\ task'[v] = IF v = w THEN None ELSE task[v]
          /\ leads'[v] = IF v = w THEN FALSE ELSE leads[v]
  BY DEF TypeOK, TaskEnds
<1>n. "idle" \notin {"poll"} \cup Leading \cup Past \cup Probing
  BY DEF Leading, Past, Probing, Loading
<1>1. LeaderHolds'
  BY <1>0, <1>n DEF LeaderHolds
<1>2. Elected'
  BY <1>0, <1>n DEF Elected
<1>3. ReportedLeft' /\ OneReport'
  <2>1. OneReport'
    BY DEF OneReport
  <2>2. ASSUME NEW r \in Runs, reports'[r] > 0
        PROVE  lock'[r] # None /\ \A v \in Workers : task'[v] = r => ~leads'[v]
    <3>1. lock[r] # None /\ \A v \in Workers : task[v] = r => ~leads[v]
      BY <2>2 DEF ReportedLeft
    <3> QED
      BY <1>0, <3>1
  <2> QED BY <2>1, <2>2 DEF ReportedLeft
<1>4. \A r \in Runs : Quiet(r) => Quiet(r)'
  BY <1>0, <1>n DEF Quiet
<1>5. ASSUME NEW v \in Workers, "poll" \notin setting, pc'[v] \in Past
      PROVE  Quiet(task[v])'
  <2>1. v # w /\ pc[v] \in Past /\ task'[v] = task[v]
    BY <1>0, <1>5, <1>n
  <2>2. Quiet(task[v])
    BY <1>5, <2>1 DEF ProbeOver
  <2> QED
    BY <1>0, <1>n, <2>1, <2>2 DEF Quiet
<1>6. ProbeOver'
  BY <1>4, <1>5 DEF ProbeOver
<1> QED
  BY <1>1, <1>2, <1>3, <1>6

-----------------------------------------------------------------------------
(* The steps that change what the invariant is about.                      *)

\* A start is taken by a worker without a task, which leads nothing.
LEMMA TakeStartStep ==
  ASSUME TypeOK, Rest, NEW w \in Workers, TakeStart(w)
  PROVE  Rest'
<1> USE NoneNew DEF Rest, redisVars
<1>1. CASE task[w] # None
  BY <1>1, Framed DEF TakeStart
<1>2. CASE task[w] = None
  <2>1. /\ task' = [task EXCEPT ![w] = Head(inbox[w])]
        /\ pc' = [pc EXCEPT ![w] = "register"]
        /\ UNCHANGED <<setting, leads, lock, probed, reports>>
    BY <1>2 DEF TakeStart
  <2>2. \A v \in Workers :
            /\ pc'[v] = IF v = w THEN "register" ELSE pc[v]
            /\ v # w => task'[v] = task[v]
    BY <2>1 DEF TypeOK
  <2>3. leads[w] = FALSE
    BY <1>2 DEF LeaderHolds, TypeOK
  <2>n. "register" \notin {"poll"} \cup Leading \cup Past \cup Probing
    BY DEF Leading, Past, Probing, Loading
  <2>4. LeaderHolds'
    BY <2>1, <2>2, <2>3, <2>n DEF LeaderHolds
  <2>5. Elected'
    BY <2>1, <2>2, <2>n DEF Elected
  <2>6. ReportedLeft' /\ OneReport'
    BY <2>1, <2>2, <2>3 DEF ReportedLeft, OneReport
  <2>7. \A r \in Runs : Quiet(r) => Quiet(r)'
    BY <2>2, <2>n DEF Quiet
  <2>8. ASSUME NEW v \in Workers, "poll" \notin setting, pc'[v] \in Past
        PROVE  Quiet(task[v])'
    <3>1. v # w /\ pc[v] \in Past /\ task'[v] = task[v]
      BY <2>2, <2>8, <2>n
    <3>2. Quiet(task[v])
      BY <2>8, <3>1 DEF ProbeOver
    <3> QED
      BY <2>2, <2>n, <3>1, <3>2 DEF Quiet
  <2>9. ProbeOver'
    BY <2>1, <2>7, <2>8 DEF ProbeOver
  <2> QED
    BY <2>4, <2>5, <2>6, <2>9
<1> QED
  BY <1>1, <1>2

\* The winner of an election finds a run nobody led, reported or got past.
LEMMA ElectStep ==
  ASSUME TypeOK, Rest, NEW w \in Workers, Elect(w)
  PROVE  Rest'
<1> USE NoneNew DEF Rest
<1>1. CASE lock[task[w]] # None
  <2>1. /\ pc' = [pc EXCEPT ![w] = "poll"]
        /\ UNCHANGED <<setting, task, leads, lock, probed, reports>>
    BY <1>1 DEF Elect
  <2>2. "poll" \notin Leading \cup Probing \cup Past
    BY DEF Leading, Past, Probing, Loading
  <2> QED
    BY <1>1, <2>1, <2>2, Moving
<1>2. CASE lock[task[w]] = None
  <2>1. /\ pc[w] = "elect"
        /\ pc' = [pc EXCEPT ![w] = "barrier"]
        /\ lock' = [lock EXCEPT ![task[w]] = w]
        /\ leads' = [leads EXCEPT ![w] = TRUE]
        /\ UNCHANGED <<setting, task, probed, reports>>
    BY <1>2 DEF Elect
  <2>2. task[w] \in Runs
    BY <2>1 DEF TypeOK
  <2>3. /\ \A v \in Workers :
              /\ pc'[v] = IF v = w THEN "barrier" ELSE pc[v]
              /\ leads'[v] = IF v = w THEN TRUE ELSE leads[v]
        /\ \A r \in Runs : lock'[r] = IF r = task[w] THEN w ELSE lock[r]
    BY <2>1, <2>2 DEF TypeOK
  <2>4. ~probed[task[w]] /\ reports[task[w]] = 0
    BY <1>2, <2>2 DEF ProbeOver, ReportedLeft, TypeOK
  <2>5. \A v \in Workers : pc[v] \in Past => task[v] # task[w]
    BY <1>2 DEF Elected
  <2>n. "barrier" \notin Past
    BY DEF Past, Loading
  <2>6. \A v \in Workers : leads[v] => task[v] \in Runs /\ task[v] # task[w]
    BY <1>2 DEF LeaderHolds, TypeOK
  <2>7. LeaderHolds'
    <3>1. ASSUME NEW v \in Workers
          PROVE  /\ leads'[v] => task[v] # None /\ lock'[task[v]] = v
                 /\ pc'[v] \in Leading => leads'[v]
      <4>1. CASE v = w
        BY <2>2, <2>3, <4>1
      <4>2. CASE v # w
        BY <2>3, <2>6, <4>2 DEF LeaderHolds
      <4> QED
        BY <4>1, <4>2
    <3> QED
      BY <2>1, <3>1 DEF LeaderHolds
  <2>8. Elected'
    <3>1. ASSUME NEW v \in Workers, pc'[v] \in {"poll"} \cup Leading \cup Past
          PROVE  lock'[task[v]] # None
      <4>1. CASE v = w
        BY <2>2, <2>3, <4>1
      <4>2. CASE v # w
        <5>1. pc[v] \in {"poll"} \cup Leading \cup Past
          BY <2>3, <3>1, <4>2
        <5>2. task[v] \in Runs
          BY <5>1 DEF TypeOK, Leading, Past, Loading
        <5> QED
          BY <2>3, <5>1, <5>2 DEF Elected
      <4> QED
        BY <4>1, <4>2
    <3> QED
      BY <2>1, <3>1 DEF Elected
  <2>9. ReportedLeft' /\ OneReport'
    BY <2>1, <2>3, <2>4 DEF ReportedLeft, OneReport
  <2>10. \A r \in Runs : r # task[w] /\ Quiet(r) => Quiet(r)'
    BY <2>1, <2>3 DEF Quiet
  <2>11. ASSUME NEW v \in Workers, "poll" \notin setting, pc'[v] \in Past
         PROVE  Quiet(task[v])'
    <3>1. v # w /\ pc[v] \in Past /\ task[v] # task[w]
      BY <2>3, <2>5, <2>11, <2>n
    <3>2. Quiet(task[v])
      BY <2>11, <3>1 DEF ProbeOver
    <3> QED
      BY <2>1, <2>3, <3>1, <3>2 DEF Quiet
  <2>12. ProbeOver'
    BY <2>1, <2>3, <2>4, <2>10, <2>11 DEF ProbeOver
  <2> QED
    BY <2>7, <2>8, <2>9, <2>12
<1> QED
  BY <1>1, <1>2

\* The leader raises the flag only when its probe, the only one, is over.
LEMMA SetProbedStep ==
  ASSUME TypeOK, Rest, NEW w \in Workers, SetProbed(w)
  PROVE  Rest'
<1> USE NoneNew DEF Rest
<1>1. /\ pc[w] = "flag"
      /\ pc' = [pc EXCEPT ![w] = "announce"]
      /\ probed' = [probed EXCEPT ![task[w]] = TRUE]
      /\ UNCHANGED <<setting, task, leads, lock, reports>>
  BY DEF SetProbed, Goto
<1>2. task[w] \in Runs
  BY <1>1 DEF TypeOK
<1>3. /\ \A v \in Workers : pc'[v] = IF v = w THEN "announce" ELSE pc[v]
      /\ \A r \in Runs : probed'[r] = IF r = task[w] THEN TRUE ELSE probed[r]
  BY <1>1, <1>2 DEF TypeOK
<1>4. "flag" \in Probing \cap Leading /\ "announce" \in Leading \ Probing
  BY DEF Probing, Leading
<1>5. \A v \in Workers \ {w} : task[v] = task[w] => pc[v] \notin Probing
  BY <1>1, <1>4, OneProber
<1>6. leads[w] /\ lock[task[w]] = w
  BY <1>1, <1>4, OneProber
<1>7. LeaderHolds'
  BY <1>1, <1>3, <1>6 DEF LeaderHolds
<1>8. Elected'
  BY <1>1, <1>3, <1>6 DEF Elected
<1>9. ReportedLeft' /\ OneReport'
  BY <1>1 DEF ReportedLeft, OneReport
<1>10. \A r \in Runs : Quiet(r) \/ r = task[w] => Quiet(r)'
  BY <1>1, <1>3, <1>4, <1>5 DEF Quiet
<1>11. ASSUME NEW v \in Workers, "poll" \notin setting, pc'[v] \in Past
       PROVE  Quiet(task[v])'
  <2>1. CASE task[v] = task[w]
    BY <1>1, <1>3, <1>4, <1>5, <2>1 DEF Quiet
  <2>2. CASE task[v] # task[w]
    <3>1. pc[v] \in Past
      BY <1>3, <1>11, <2>2
    <3>2. Quiet(task[v])
      BY <1>11, <3>1 DEF ProbeOver
    <3> QED
      BY <1>1, <1>3, <1>4, <3>2 DEF Quiet
  <2> QED
    BY <2>1, <2>2
<1>12. ProbeOver'
  BY <1>1, <1>2, <1>3, <1>6, <1>10, <1>11 DEF ProbeOver
<1> QED
  BY <1>7, <1>8, <1>9, <1>12

\* Only the leader reports, and a run reported before has no leader left.
LEMMA ReportStep ==
  ASSUME TypeOK, Rest, NEW w \in Workers, Report(w)
  PROVE  Rest'
<1> USE NoneNew DEF Rest
<1>1. /\ pc[w] = "report"
      /\ reports' = [reports EXCEPT ![task[w]] = @ + 1]
      /\ TaskEnds(w)
      /\ UNCHANGED <<setting, lock, probed>>
  BY DEF Report, redisVars
<1>2. task[w] \in Runs
  BY <1>1 DEF TypeOK
<1>3. leads[w] /\ lock[task[w]] = w
  BY <1>1 DEF LeaderHolds, Leading
<1>4. reports[task[w]] = 0
  <2>1. reports[task[w]] \in Nat
    BY <1>2 DEF TypeOK
  <2>2. ~(reports[task[w]] > 0)
    BY <1>2, <1>3, Zenon DEF ReportedLeft
  <2> QED
    BY <2>1, <2>2
<1>5. \A r \in Runs : reports'[r] = IF r = task[w] THEN 1 ELSE reports[r]
  BY <1>1, <1>2, <1>4 DEF TypeOK
<1>6. \A v \in Workers :
          /\ pc'[v] = IF v = w THEN "idle" ELSE pc[v]
          /\ task'[v] = IF v = w THEN None ELSE task[v]
          /\ leads'[v] = IF v = w THEN FALSE ELSE leads[v]
  BY <1>1 DEF TypeOK, TaskEnds
<1>n. "idle" \notin {"poll"} \cup Leading \cup Past \cup Probing
  BY DEF Leading, Past, Probing, Loading
<1>7. LeaderHolds'
  BY <1>1, <1>6, <1>n DEF LeaderHolds
<1>8. Elected'
  BY <1>1, <1>6, <1>n DEF Elected
<1>9. OneReport'
  BY <1>5 DEF OneReport
<1>10. ReportedLeft'
  <2>1. ASSUME NEW r \in Runs, reports'[r] > 0
        PROVE  lock'[r] # None /\ \A v \in Workers : task'[v] = r => ~leads'[v]
    <3>1. CASE r = task[w]
      <4>1. lock'[r] # None
        BY <1>1, <1>3, <3>1
      <4>2. ASSUME NEW v \in Workers, task'[v] = r
            PROVE  v # w /\ ~leads[v]
        <5>1. v # w /\ task[v] = r
          BY <1>2, <1>6, <3>1, <4>2
        <5> QED
          BY <1>3, <3>1, <5>1 DEF LeaderHolds
      <4> QED
        BY <1>6, <4>1, <4>2
    <3>2. CASE r # task[w]
      <4>1. reports[r] > 0
        BY <1>5, <2>1, <3>2
      <4>2. lock[r] # None /\ \A v \in Workers : task[v] = r => ~leads[v]
        BY <4>1 DEF ReportedLeft
      <4>3. ASSUME NEW v \in Workers, task'[v] = r
            PROVE  v # w /\ task[v] = r
        BY <1>6, <4>3
      <4> QED
        BY <1>1, <1>6, <4>2, <4>3
    <3> QED
      BY <3>1, <3>2
  <2> QED
    BY <2>1 DEF ReportedLeft
<1>11. \A r \in Runs : Quiet(r) => Quiet(r)'
  BY <1>6, <1>n DEF Quiet
<1>12. ASSUME NEW v \in Workers, "poll" \notin setting, pc'[v] \in Past
       PROVE  Quiet(task[v])'
  <2>1. v # w /\ pc[v] \in Past /\ task'[v] = task[v]
    BY <1>6, <1>12, <1>n
  <2>2. Quiet(task[v])
    BY <1>12, <2>1 DEF ProbeOver
  <2> QED
    BY <1>6, <1>n, <2>1, <2>2 DEF Quiet
<1>13. ProbeOver'
  BY <1>1, <1>11, <1>12 DEF ProbeOver
<1> QED
  BY <1>7, <1>8, <1>9, <1>10, <1>13

-----------------------------------------------------------------------------
(* The shares.                                                             *)

\* The conjuncts of FleetInv that the shares rest on.
Even == Begun /\ Registered /\ SetLives /\ EqualShares

\* Where the commands and the task of a worker come from: nothing is under way
\* after a step of its own that was not before.
LEMMA OwnStep ==
  ASSUME TypeOK, NEW w \in Workers, Work(w) \/ WorkerCrash(w) \/ StreamDrops(w)
  PROVE  /\ UNCHANGED <<setting, started>>
         /\ \A v \in Workers \ {w} :
               /\ inbox'[v] = inbox[v] /\ task'[v] = task[v]
               /\ pc'[v] = pc[v] /\ share'[v] = share[v] /\ leads'[v] = leads[v]
         /\ \A i \in 1..Len(inbox'[w]) : \E j \in 1..Len(inbox[w]) : inbox'[w][i] = inbox[w][j]
         /\ \/ task'[w] = task[w] /\ (pc'[w] = "register" => pc[w] = "register")
            \/ task'[w] = None
            \/ \E j \in 1..Len(inbox[w]) : task'[w] = inbox[w][j]
<1> DEFINE Tasks == \/ task'[w] = task[w] /\ (pc'[w] = "register" => pc[w] = "register")
                    \/ task'[w] = None
                    \/ \E j \in 1..Len(inbox[w]) : task'[w] = inbox[w][j]
           Box == \A i \in 1..Len(inbox'[w]) : \E j \in 1..Len(inbox[w]) : inbox'[w][i] = inbox[w][j]
           Others == \A v \in Workers \ {w} :
                        /\ inbox'[v] = inbox[v] /\ task'[v] = task[v]
                        /\ pc'[v] = pc[v] /\ share'[v] = share[v] /\ leads'[v] = leads[v]
<1>0. /\ inbox \in [Workers -> Seq(Runs \cup {Stop})] /\ task \in [Workers -> Runs \cup {None}]
      /\ pc \in [Workers -> PCs] /\ share \in [Workers -> 0..Cardinality(Workers)]
      /\ leads \in [Workers -> BOOLEAN]
  BY DEF TypeOK
<1>1. UNCHANGED <<setting, started>>
  BY DEF Work, Subscribe, TakeStart, TakeStop, Cancelled, Register, Elect, Barrier, ProbeEnds,
         SetProbed, Announce, PollEnds, Count, SweepEnds, BurstEnds, ClosedEnds, Hang, Report,
         ReportFails, WorkerCrash, StreamDrops, Advance, Goto, orchVars
<1>2. CASE inbox' = inbox
  <2>1. Box
    BY <1>2
  <2>2. ~TakeStart(w)
    <3>1. ASSUME TakeStart(w) PROVE FALSE
      <4>1. inbox[w] \in Seq(Runs \cup {Stop}) /\ inbox[w] # <<>> /\ inbox'[w] = Tail(inbox[w])
        BY <1>0, <3>1 DEF TakeStart
      <4>2. Len(Tail(inbox[w])) = Len(inbox[w]) - 1 /\ Len(inbox[w]) \in Nat
        BY <4>1, HeadTailProperties, LenProperties
      <4>3. inbox[w] = Tail(inbox[w])
        BY <1>2, <4>1
      <4>4. Len(inbox[w]) = Len(inbox[w]) - 1
        BY <4>2, <4>3
      <4> QED BY <4>2, <4>4
    <3> QED BY <3>1
  <2>3. Others /\ Tasks
    <3>1. CASE TaskEnds(w)
      BY <1>0, <1>2, <3>1 DEF TaskEnds
    <3>2. CASE UNCHANGED <<task, share, leads>> /\ \E to \in PCs : pc' = [pc EXCEPT ![w] = to] /\ to # "register"
      BY <1>0, <1>2, <3>2
    <3>3. CASE UNCHANGED taskVars
      BY <1>2, <3>3 DEF taskVars
    <3>4. CASE Count(w)
      BY <1>0, <1>2, <3>4 DEF Count, Goto
    <3>5. CASE TakeStop(w)
      BY <1>0, <1>2, <3>5 DEF TakeStop
    <3>p. /\ {"idle", "register", "elect", "barrier", "probe", "flag", "announce",
              "poll", "count", "report", "cancelling"} \subseteq PCs
          /\ {"sweep", "burst", "closed", "refused", "hung"} \subseteq PCs
      BY DEF PCs, Loading
    <3>6. CASE Register(w) \/ SetProbed(w)
      BY <3>6, <3>p, <3>2 DEF Register, SetProbed, Goto
    <3>7. CASE Elect(w)
      <4>1. CASE lock[task[w]] = None
        BY <1>0, <1>2, <3>7, <4>1 DEF Elect
      <4>2. CASE lock[task[w]] # None
        BY <3>7, <4>2, <3>p, <3>2 DEF Elect
      <4> QED BY <4>1, <4>2
    <3>8. CASE \E to \in PCs \ {"register"}, from \in PCs : Advance(w, from, to)
      BY <3>8, <3>2 DEF Advance, Goto
    <3>9. CASE ClosedEnds(w)
      BY <3>1, <3>2, <3>9, <3>p DEF ClosedEnds
    <3>10. CASE BurstEnds(w)
      <4>1. PICK to \in {"closed", "refused"} : Advance(w, "burst", to)
        BY <3>10, Zenon DEF BurstEnds
      <4> QED BY <4>1, <3>8, <3>p
    <3>11. CASE Barrier(w) \/ ProbeEnds(w) \/ Announce(w) \/ PollEnds(w) \/ SweepEnds(w) \/ Hang(w)
      BY <3>8, <3>11, <3>p DEF Barrier, ProbeEnds, Announce, PollEnds, SweepEnds, Hang
    <3> QED
      BY <2>2, <3>1, <3>3, <3>4, <3>5, <3>6, <3>7, <3>9, <3>10, <3>11
      DEF Work, Subscribe, Cancelled, Report, ReportFails, WorkerCrash, StreamDrops
  <2> QED BY <1>1, <2>1, <2>3
<1>3. CASE TakeStart(w) \/ TakeStop(w)
  <2>1. /\ inbox[w] # <<>> /\ inbox' = [inbox EXCEPT ![w] = Tail(@)] /\ UNCHANGED <<share, leads>>
    BY <1>3 DEF TakeStart, TakeStop
  <2>2. inbox[w] \in Seq(Runs \cup {Stop}) /\ inbox'[w] = Tail(inbox[w])
    BY <1>0, <2>1
  <2>3. /\ Len(inbox[w]) \in Nat /\ Len(inbox[w]) # 0
        /\ Head(inbox[w]) = inbox[w][1] /\ Len(Tail(inbox[w])) = Len(inbox[w]) - 1
        /\ \A i \in 1..Len(Tail(inbox[w])) : Tail(inbox[w])[i] = inbox[w][i + 1]
    BY <2>1, <2>2, HeadTailProperties, LenProperties, EmptySeq
  <2>4. \A i \in 1..Len(Tail(inbox[w])) : i + 1 \in 1..Len(inbox[w])
    BY <2>3
  <2>5. Box
    BY <2>2, <2>3, <2>4
  <2>6. 1 \in 1..Len(inbox[w])
    BY <2>3
  <2>7. Others
    BY <1>0, <1>3, <2>1 DEF TakeStart, TakeStop
  <2>8. Tasks
    <3>1. CASE TakeStop(w)
      BY <1>0, <3>1 DEF TakeStop
    <3>2. CASE TakeStart(w) /\ task[w] = None
      <4>1. task'[w] = inbox[w][1]
        BY <1>0, <2>3, <3>2 DEF TakeStart
      <4> QED BY <2>6, <4>1
    <3>3. CASE TakeStart(w) /\ task[w] # None
      BY <3>3 DEF TakeStart
    <3> QED BY <1>3, <3>1, <3>2, <3>3
  <2> QED BY <1>1, <2>5, <2>7, <2>8
<1>4. CASE WorkerCrash(w) \/ StreamDrops(w)
  <2>1. inbox' = [inbox EXCEPT ![w] = <<>>] /\ (TaskEnds(w) \/ UNCHANGED taskVars)
    BY <1>4 DEF WorkerCrash, StreamDrops
  <2>2. 1..Len(inbox'[w]) = {}
    BY <1>0, <2>1, EmptySeq
  <2>3. Others /\ Tasks
    BY <1>0, <2>1 DEF TaskEnds, taskVars
  <2> QED BY <1>1, <2>2, <2>3
<1>5. inbox' = inbox \/ TakeStart(w) \/ TakeStop(w) \/ WorkerCrash(w) \/ StreamDrops(w)
  BY DEF Work, Subscribe, Cancelled, Register, Elect, Barrier, ProbeEnds,
         SetProbed, Announce, PollEnds, Count, SweepEnds, BurstEnds, ClosedEnds, Hang, Report,
         ReportFails, Advance, Goto, streamVars
<1> QED BY <1>2, <1>3, <1>4, <1>5

\* The places where nobody is to register for the run any more.
Late == {"probe", "flag"} \cup Past

\* A worker's own step brings nobody nearer to registering.
LEMMA NoneComes ==
  ASSUME TypeOK, NEW w \in Workers, Work(w) \/ WorkerCrash(w) \/ StreamDrops(w),
         NEW r \in Runs, NEW v \in Workers, Coming(v, r)'
  PROVE  Coming(v, r)
<1>1. CASE v # w
  <2>1. inbox'[v] = inbox[v] /\ task'[v] = task[v] /\ pc'[v] = pc[v]
    BY <1>1, OwnStep
  <2> QED BY <2>1 DEF Coming
<1>2. CASE v = w
  <2>1. CASE \E i \in 1..Len(inbox'[w]) : inbox'[w][i] = r
    <3>1. \E j \in 1..Len(inbox[w]) : inbox[w][j] = r
      BY <2>1, OwnStep
    <3> QED BY <1>2, <3>1 DEF Coming
  <2>2. CASE task'[w] = r /\ pc'[w] = "register"
    <3>1. \/ task[w] = r /\ pc[w] = "register"
          \/ \E j \in 1..Len(inbox[w]) : inbox[w][j] = r
      BY <2>2, OwnStep, NoneNew
    <3> QED BY <1>2, <3>1 DEF Coming
  <2> QED BY <1>2, <2>1, <2>2 DEF Coming
<1> QED BY <1>1, <1>2

LEMMA NobodyComes ==
  ASSUME TypeOK, NEW w \in Workers, Work(w) \/ WorkerCrash(w) \/ StreamDrops(w),
         NEW r \in Runs, AllIn(r)
  PROVE  AllIn(r)'
<1>1. setting' = setting
  BY OwnStep
<1> QED BY <1>1, NoneComes DEF AllIn

\* Where a worker goes that is past the count, or leads and comes to it: its
\* task ends, it stays, or it moves on.
LEMMA Onward ==
  ASSUME TypeOK, NEW w \in Workers, Work(w) \/ WorkerCrash(w) \/ StreamDrops(w),
         NEW held \in BOOLEAN,
         \/ pc[w] \in Loading \cup {"report", "cancelling"}
         \/ held /\ leads[w] /\ pc[w] \in {"probe", "flag", "announce", "count"}
  PROVE  \/ task'[w] = None
         \/ pc'[w] \in Loading \cup {"report", "cancelling"}
         \/ held /\ leads'[w] /\ pc'[w] \in {"probe", "flag", "announce", "count"}
<1> USE DEF Loading
<1>0. pc \in [Workers -> PCs] /\ leads \in [Workers -> BOOLEAN] /\ task \in [Workers -> Runs \cup {None}]
  BY DEF TypeOK
<1>1. CASE TaskEnds(w)
  BY <1>0, <1>1 DEF TaskEnds
<1>2. CASE UNCHANGED <<pc, leads>>
  BY <1>2
<1>3. CASE TakeStop(w)
  BY <1>0, <1>3 DEF TakeStop
<1>4. CASE TakeStart(w)
  <2>1. task[w] # None
    BY DEF TypeOK
  <2> QED BY <1>2, <1>4, <2>1 DEF TakeStart
<1>5. CASE Register(w) \/ Elect(w) \/ Barrier(w) \/ PollEnds(w)
  BY <1>5 DEF Register, Elect, Barrier, PollEnds, Advance, Goto
<1>6. CASE ProbeEnds(w) \/ SetProbed(w) \/ Announce(w)
  BY <1>0, <1>6 DEF ProbeEnds, SetProbed, Announce, Advance, Goto
<1>7. CASE Count(w) \/ SweepEnds(w) \/ Hang(w)
  BY <1>0, <1>7 DEF Count, SweepEnds, Hang, Advance, Goto
<1>8. CASE BurstEnds(w)
  <2>1. PICK to \in {"closed", "refused"} : Advance(w, "burst", to)
    BY <1>8, Zenon DEF BurstEnds
  <2> QED BY <1>0, <2>1 DEF Advance, Goto
<1>9. CASE ClosedEnds(w)
  BY <1>0, <1>1, <1>9 DEF ClosedEnds
<1> QED
  BY <1>1, <1>2, <1>3, <1>4, <1>5, <1>6, <1>7, <1>8, <1>9
  DEF Work, Subscribe, Cancelled, Report, ReportFails, WorkerCrash, StreamDrops, taskVars

\* Once all have read the keys of a run, no step of a worker changes that.
LEMMA ReadStays ==
  ASSUME TypeOK, NEW w \in Workers, Work(w) \/ WorkerCrash(w) \/ StreamDrops(w),
         NEW r \in Runs, AllRead(r)
  PROVE  AllRead(r)'
<1> USE NoneNew
<1>1. \A v \in Workers : ~Coming(v, r)'
  BY NoneComes DEF AllRead
<1>2. ASSUME NEW v \in Workers, task'[v] = r
      PROVE  \/ pc'[v] \in Loading \cup {"report", "cancelling"}
             \/ /\ "held" \in setting' /\ leads'[v]
                /\ pc'[v] \in {"probe", "flag", "announce", "count"}
  <2>0. setting' = setting
    BY OwnStep
  <2>1. CASE v # w
    <3>1. task'[v] = task[v] /\ pc'[v] = pc[v] /\ leads'[v] = leads[v]
      BY <2>1, OwnStep
    <3> QED BY <1>2, <2>0, <3>1 DEF AllRead
  <2>2. CASE v = w
    <3>1. \/ task'[w] = task[w] \/ task'[w] = None
          \/ \E j \in 1..Len(inbox[w]) : task'[w] = inbox[w][j]
      BY OwnStep
    <3>2. task[w] = r
      BY <1>2, <2>2, <3>1 DEF AllRead, Coming
    <3> DEFINE held == "held" \in setting
    <3>3. \/ pc[w] \in Loading \cup {"report", "cancelling"}
          \/ held /\ leads[w] /\ pc[w] \in {"probe", "flag", "announce", "count"}
      BY <3>2 DEF AllRead
    <3>4. held \in BOOLEAN
      OBVIOUS
    <3> HIDE DEF held
    <3>5. \/ pc'[w] \in Loading \cup {"report", "cancelling"}
          \/ held /\ leads'[w] /\ pc'[w] \in {"probe", "flag", "announce", "count"}
      BY <1>2, <2>2, <3>3, <3>4, Onward
    <3> QED BY <2>0, <2>2, <3>5 DEF held
  <2> QED BY <2>1, <2>2
<1> QED BY <1>1, <1>2 DEF AllRead

\* Who gets to the probe or past it was let through when all were in.
LEMMA LetThrough ==
  ASSUME TypeOK, Rest, Even, NEW w \in Workers,
         Work(w) \/ WorkerCrash(w) \/ StreamDrops(w), pc'[w] \in Late
  PROVE  task'[w] = task[w] /\ task[w] \in Runs /\ AllIn(task[w])
<1> USE DEF Late, Past, Loading
<1>n. {"idle", "register", "elect", "barrier", "poll", "cancelling"} \cap Late = {}
  OBVIOUS
<1>a. pc[w] \in Late => task[w] \in Runs /\ AllIn(task[w])
  BY NoneNew DEF TypeOK, Even, Registered
<1>0. pc \in [Workers -> PCs]
  BY DEF TypeOK
<1>1. CASE TaskEnds(w)
  BY <1>0, <1>1, <1>n DEF TaskEnds
<1>2. CASE UNCHANGED <<task, pc>>
  BY <1>2, <1>a
<1>3. CASE TakeStart(w)
  <2>1. pc'[w] = "register" \/ UNCHANGED <<task, pc>>
    BY <1>0, <1>3 DEF TakeStart
  <2> QED BY <1>2, <1>n, <2>1
<1>4. CASE TakeStop(w)
  <2>1. task[w] # None => pc'[w] = "cancelling"
    BY <1>0, <1>4 DEF TakeStop
  <2>2. task[w] = None => pc'[w] = "idle"
    BY <1>0, <1>4 DEF TakeStop, TypeOK
  <2> QED BY <1>n, <2>1, <2>2
<1>5. CASE Register(w) \/ Elect(w)
  <2>1. pc'[w] \in {"elect", "barrier", "poll"}
    BY <1>0, <1>5 DEF Register, Elect, Goto
  <2> QED BY <1>n, <2>1
<1>6. CASE Barrier(w)
  <2>1. task' = task /\ AllIn(task[w]) /\ pc[w] = "barrier"
    BY <1>6 DEF Barrier, Advance, Goto
  <2> QED BY <2>1, NoneNew DEF TypeOK
<1>7. CASE PollEnds(w)
  <2>1. /\ task' = task /\ pc[w] = "poll"
        /\ probed[task[w]] \/ AllIn(task[w])
    BY <1>7 DEF PollEnds, Advance, Goto
  <2>2. task[w] \in Runs
    BY <2>1 DEF TypeOK
  <2> QED BY <2>1, <2>2 DEF Even, Registered
<1>8. CASE ProbeEnds(w) \/ Announce(w) \/ SweepEnds(w) \/ Hang(w) \/ SetProbed(w) \/ Count(w)
  <2>1. pc[w] \in {"probe", "flag", "announce", "count", "sweep", "closed"} /\ task' = task
    BY <1>8 DEF ProbeEnds, Announce, SweepEnds, Hang, SetProbed, Count, Advance, Goto
  <2> QED BY <1>a, <2>1
<1>9. CASE BurstEnds(w)
  <2>1. PICK to \in {"closed", "refused"} : Advance(w, "burst", to)
    BY <1>9, Zenon DEF BurstEnds
  <2> QED BY <1>a, <2>1 DEF Advance, Goto
<1>10. CASE ClosedEnds(w)
  <2>1. pc[w] \in {"closed", "refused"} /\ (TaskEnds(w) \/ task' = task)
    BY <1>10 DEF ClosedEnds
  <2> QED BY <1>1, <1>a, <2>1
<1> QED
  BY <1>1, <1>2, <1>3, <1>4, <1>5, <1>6, <1>7, <1>8, <1>9, <1>10
  DEF Work, Subscribe, Cancelled, Report, ReportFails, WorkerCrash, StreamDrops, taskVars

\* Workers enter the sets of Redis by registering only.
LEMMA OnlyRegister ==
  ASSUME NEW w \in Workers, Work(w) \/ WorkerCrash(w) \/ StreamDrops(w), ~Register(w)
  PROVE  members' = members /\ joined' = joined
  BY DEF Work, Subscribe, TakeStart, TakeStop, Cancelled, Elect, Barrier, ProbeEnds, SetProbed,
         Announce, PollEnds, Count, SweepEnds, BurstEnds, ClosedEnds, Hang,
         Report, ReportFails, WorkerCrash, StreamDrops, Advance, Goto, redisVars

\* A worker past its registration for a run has joined it.
LEMMA JoinedStays ==
  ASSUME TypeOK, SetLives, NEW w \in Workers, Work(w) \/ WorkerCrash(w) \/ StreamDrops(w),
         NEW v \in Workers, pc'[v] \notin {"idle", "register", "cancelling"}
  PROVE  v \in joined'[task'[v]]
<1>0. /\ pc \in [Workers -> PCs] /\ task \in [Workers -> Runs \cup {None}]
      /\ joined \in [Runs -> SUBSET Workers]
      /\ \A u \in Workers : pc[u] # "idle" => task[u] \in Runs
  BY DEF TypeOK
<1>1. \A r \in Runs : joined[r] \subseteq joined'[r]
  <2>1. CASE Register(w)
    BY <1>0, <2>1 DEF Register, Goto
  <2> QED BY <2>1, OnlyRegister
<1>2. CASE v # w
  <2>1. pc'[v] = pc[v] /\ task'[v] = task[v]
    BY <1>2, OwnStep
  <2> QED BY <1>0, <1>1, <2>1 DEF SetLives
<1>3. CASE v = w
  <2>1. CASE Register(w)
    BY <1>0, <1>3, <2>1 DEF Register, Goto
  <2>2. CASE TaskEnds(w)
    BY <1>0, <1>3, <2>2 DEF TaskEnds
  <2>3. CASE TakeStart(w) \/ TakeStop(w)
    <3>1. task[w] # None /\ TakeStart(w) => pc' = pc /\ task' = task
      BY DEF TakeStart
    <3>2. (pc' = pc /\ task' = task) \/ pc'[w] \in {"idle", "register", "cancelling"}
      BY <1>0, <2>3, <3>1 DEF TakeStart, TakeStop
    <3> QED BY <1>0, <1>1, <1>3, <3>2 DEF SetLives
  <2>4. CASE /\ task' = task
             /\ pc' = pc \/ pc[w] \notin {"idle", "register", "cancelling"}
    BY <1>0, <1>1, <1>3, <2>4 DEF SetLives
  <2>5. CASE Elect(w) \/ Barrier(w) \/ ProbeEnds(w) \/ SetProbed(w) \/ Announce(w) \/ PollEnds(w)
    BY <2>4, <2>5 DEF Elect, Barrier, ProbeEnds, SetProbed, Announce, PollEnds, Advance, Goto
  <2>6. CASE Count(w) \/ SweepEnds(w) \/ Hang(w)
    BY <2>4, <2>6 DEF Count, SweepEnds, Hang, Advance, Goto
  <2>7. CASE BurstEnds(w)
    BY <2>4, <2>7 DEF BurstEnds, Advance, Goto
  <2>8. CASE ClosedEnds(w)
    BY <2>2, <2>4, <2>8 DEF ClosedEnds
  <2> QED
    BY <2>1, <2>2, <2>3, <2>4, <2>5, <2>6, <2>7, <2>8
    DEF Work, Subscribe, Cancelled, Report, ReportFails, WorkerCrash, StreamDrops, taskVars
<1> QED BY <1>2, <1>3

\* A worker that counts finds the set whole, or it is a leader that was held
\* until the set was gone.
LEMMA CountShare ==
  ASSUME TypeOK, SetLives, NEW w \in Workers, Count(w)
  PROVE  \/ share'[w] = Cardinality(joined[task[w]])
         \/ /\ "held" \in setting /\ leads'[w]
            /\ members[task[w]] = {} /\ share'[w] = 1
<1> DEFINE S == members[task[w]]
<1>1. pc[w] = "count" /\ task[w] \in Runs /\ leads' = leads
  BY DEF Count, Goto, TypeOK
<1>0. w \in joined[task[w]]
  BY <1>1 DEF SetLives
<1>2. share'[w] = IF S = {} THEN 1 ELSE Cardinality(S)
  BY DEF Count, TypeOK
<1>3. CASE S = joined[task[w]]
  BY <1>0, <1>2, <1>3
<1>4. CASE S # joined[task[w]]
  <2>1. S = {} /\ AllRead(task[w])
    BY <1>1, <1>4 DEF SetLives
  <2>2. "held" \in setting /\ leads[w]
    BY <1>1, <2>1 DEF AllRead, Loading
  <2> QED BY <1>1, <1>2, <2>1, <2>2
<1> QED BY <1>3, <1>4

\* A worker that loads and has not just counted loaded before, as it does now.
LEMMA StillLoading ==
  ASSUME TypeOK, NEW w \in Workers, Work(w) \/ WorkerCrash(w) \/ StreamDrops(w),
         ~Count(w), pc'[w] \in Loading
  PROVE  pc[w] \in Loading /\ share' = share /\ leads' = leads
<1>0. pc \in [Workers -> PCs]
  BY DEF TypeOK
<1>1. CASE UNCHANGED <<pc, share, leads>>
  BY <1>1
<1>2. ASSUME NEW to, pc' = [pc EXCEPT ![w] = to], to \notin Loading PROVE FALSE
  BY <1>0, <1>2
<1>n. \A to \in {"idle", "register", "elect", "barrier", "probe", "flag", "announce",
                 "poll", "count", "report", "cancelling"} : to \notin Loading
  BY DEF Loading
<1>3. CASE SweepEnds(w) \/ Hang(w)
  BY <1>3 DEF SweepEnds, Hang, Advance, Goto, Loading
<1>4. CASE BurstEnds(w)
  <2>1. PICK to \in {"closed", "refused"} : Advance(w, "burst", to)
    BY <1>4, Zenon DEF BurstEnds
  <2> QED BY <2>1 DEF Advance, Goto, Loading
<1>5. CASE TaskEnds(w)
  BY <1>2, <1>5, <1>n DEF TaskEnds
<1>6. CASE TakeStart(w)
  BY <1>1, <1>2, <1>6, <1>n DEF TakeStart
<1>7. CASE TakeStop(w)
  <2>1. task[w] = None => UNCHANGED <<pc, share, leads>>
    BY <1>0, <1>7 DEF TakeStop
  <2>2. task[w] # None => pc' = [pc EXCEPT ![w] = "cancelling"]
    BY <1>7 DEF TakeStop
  <2> QED BY <1>1, <1>2, <1>n, <2>1, <2>2
<1>8. CASE Register(w) \/ SetProbed(w)
  BY <1>2, <1>8, <1>n DEF Register, SetProbed, Goto
<1>9. CASE Elect(w)
  <2>1. pc' = [pc EXCEPT ![w] = "barrier"] \/ pc' = [pc EXCEPT ![w] = "poll"]
    BY <1>9 DEF Elect
  <2> QED BY <1>2, <1>n, <2>1
<1>10. CASE Barrier(w) \/ ProbeEnds(w) \/ Announce(w) \/ PollEnds(w)
  BY <1>2, <1>10, <1>n DEF Barrier, ProbeEnds, Announce, PollEnds, Advance, Goto
<1>11. CASE ClosedEnds(w)
  BY <1>2, <1>5, <1>11, <1>n DEF ClosedEnds
<1> QED
  BY <1>1, <1>3, <1>4, <1>5, <1>6, <1>7, <1>8, <1>9, <1>10, <1>11
  DEF Work, Subscribe, Cancelled, Report, ReportFails, WorkerCrash, StreamDrops, taskVars

\* A worker's own step keeps what the shares rest on, and the shares.
LEMMA WorkEven ==
  ASSUME TypeOK, Rest, Even, NEW w \in Workers, Work(w) \/ WorkerCrash(w) \/ StreamDrops(w)
  PROVE  Even'
<1> USE NoneNew
<1>0. /\ UNCHANGED <<setting, started>>
      /\ \A v \in Workers \ {w} : /\ inbox'[v] = inbox[v] /\ task'[v] = task[v]
                                  /\ pc'[v] = pc[v] /\ share'[v] = share[v] /\ leads'[v] = leads[v]
  BY OwnStep
<1>1. Begun'
  <2>1. \A i \in 1..Len(inbox'[w]) : inbox'[w][i] \in started \cup {Stop}
    BY OwnStep DEF Even, Begun
  <2>2. task'[w] # None => task'[w] \in started
    <3>1. task'[w] # None => task'[w] # Stop
      <4>1. TakeStart(w) \/ task'[w] = task[w] \/ task'[w] = None
        BY DEF TypeOK, Work, Subscribe, TakeStop, Cancelled, Register, Elect, Barrier, ProbeEnds,
               SetProbed, Announce, PollEnds, Count, SweepEnds, BurstEnds, ClosedEnds, Hang,
               Report, ReportFails, WorkerCrash, StreamDrops, Advance, Goto, TaskEnds, taskVars
      <4>2. TakeStart(w) => task'[w] = task[w] \/ task'[w] # Stop
        BY DEF TakeStart, TypeOK
      <4> QED BY <4>1, <4>2, FleetAssumption DEF TypeOK
    <3>2. \/ task'[w] = task[w] \/ task'[w] = None
          \/ \E j \in 1..Len(inbox[w]) : task'[w] = inbox[w][j]
      BY OwnStep
    <3> QED BY <3>1, <3>2 DEF Even, Begun
  <2>6. \A r \in Runs : joined'[r] # {} => joined[r] # {} \/ (r = task[w] /\ task[w] # None)
    <3>1. CASE Register(w)
      <4>1. task[w] \in Runs
        BY <3>1 DEF Register, Goto, TypeOK
      <4> QED BY <3>1, <4>1 DEF Register, TypeOK
    <3>2. ASSUME ~Register(w) PROVE joined' = joined
      BY <3>2, OnlyRegister
    <3> QED BY <3>1, <3>2
  <2>3. \A r \in Runs : lock'[r] # None => lock[r] # None \/ (r = task[w] /\ task[w] # None)
    <3>1. CASE Elect(w)
      <4>1. task[w] \in Runs
        BY <3>1 DEF Elect, TypeOK
      <4> QED BY <3>1, <4>1 DEF Elect, TypeOK
    <3>2. ASSUME ~Elect(w) PROVE lock' = lock
      BY <3>2
      DEF Work, Subscribe, TakeStart, TakeStop, Cancelled, Register, Barrier, ProbeEnds,
          SetProbed, Announce, PollEnds, Count, SweepEnds, BurstEnds, ClosedEnds, Hang,
          Report, ReportFails, WorkerCrash, StreamDrops, Advance, Goto, redisVars
    <3> QED BY <3>1, <3>2
  <2>4. \A v \in Workers \ {w} : /\ task'[v] # None => task'[v] \in started
                                 /\ \A i \in 1..Len(inbox'[v]) : inbox'[v][i] \in started \cup {Stop}
    BY <1>0 DEF Even, Begun
  <2>5. \A r \in Runs : lock'[r] # None \/ joined'[r] # {} => r \in started
    BY <2>3, <2>6 DEF Even, Begun
  <2> QED BY <1>0, <2>1, <2>2, <2>4, <2>5 DEF Begun
<1>2. \A v \in Workers : pc'[v] \in Late => task'[v] \in Runs /\ AllIn(task'[v])
  <2>1. ASSUME NEW v \in Workers \ {w}, pc[v] \in Late PROVE task[v] \in Runs /\ AllIn(task[v])
    BY <2>1 DEF Late, Past, Loading, TypeOK, Even, Registered
  <2>2. pc'[w] \in Late => task'[w] \in Runs /\ AllIn(task'[w])
    BY LetThrough
  <2> QED BY <1>0, <2>1, <2>2
<1>3. Registered'
  <2>1. ASSUME NEW r \in Runs, probed'[r] PROVE AllIn(r)
    <3>1. CASE SetProbed(w)
      <4>1. pc[w] = "flag" /\ task[w] \in Runs /\ (probed[r] \/ r = task[w])
        BY <2>1, <3>1 DEF SetProbed, Goto, TypeOK
      <4> QED BY <4>1 DEF Even, Registered
    <3>2. ASSUME ~SetProbed(w) PROVE probed' = probed
      BY <3>2
      DEF Work, Subscribe, TakeStart, TakeStop, Cancelled, Register, Elect, Barrier, ProbeEnds,
          Announce, PollEnds, Count, SweepEnds, BurstEnds, ClosedEnds, Hang,
          Report, ReportFails, WorkerCrash, StreamDrops, Advance, Goto, redisVars
    <3> QED BY <2>1, <3>1, <3>2 DEF Even, Registered
  <2>2. \A r \in Runs : probed'[r] => AllIn(r)'
    BY <2>1, NobodyComes
  <2>3. ASSUME NEW v \in Workers, pc'[v] \in Late PROVE AllIn(task[v])'
    <3>1. PICK r \in Runs : r = task'[v] /\ AllIn(r)
      BY <1>2, <2>3
    <3>2. AllIn(r)'
      BY <3>1, NobodyComes
    <3>3. AllIn(r)' <=> AllIn(task[v])'
      BY <3>1 DEF AllIn, Coming
    <3> QED BY <3>2, <3>3
  <2> QED BY <2>2, <2>3 DEF Registered, Late
<1>4. SetLives'
  <2>1. ASSUME NEW v \in Workers, pc'[v] \notin {"idle", "register", "cancelling"}
        PROVE  v \in joined'[task'[v]]
    BY <2>1, JoinedStays DEF Even
  <2>2. ASSUME NEW r \in Runs, members'[r] # joined'[r]
        PROVE  members'[r] = {} /\ AllRead(r)'
    <3>1. CASE Register(w) /\ r = task[w]
      <4>1. members[r] = joined[r]
        BY <3>1 DEF Register, Goto, Even, SetLives, AllRead, Coming
      <4> QED BY <2>2, <3>1, <4>1 DEF Register, TypeOK
    <3>2. CASE ~(Register(w) /\ r = task[w])
      <4>1. members'[r] = members[r] /\ joined'[r] = joined[r]
        BY <3>2, OnlyRegister DEF TypeOK, Register
      <4>2. members[r] = {} /\ AllRead(r)
        BY <2>2, <4>1 DEF Even, SetLives
      <4> QED BY <4>1, <4>2, ReadStays
    <3> QED BY <3>1, <3>2
  <2> QED BY <2>1, <2>2 DEF SetLives
<1>5. EqualShares'
  <2> SUFFICES ASSUME "late" \notin setting, NEW v \in Workers, pc'[v] \in Loading
               PROVE  \/ share'[v] = Cardinality(joined'[task'[v]])
                      \/ /\ "held" \in setting /\ leads'[v]
                         /\ members'[task'[v]] = {} /\ share'[v] = 1
    BY <1>0 DEF EqualShares
  <2>1. pc'[v] \in Late
    BY DEF Late, Past
  <2>2. task'[v] \in Runs /\ AllIn(task'[v])
    BY <1>2, <2>1
  <2>3. members'[task'[v]] = members[task'[v]] /\ joined'[task'[v]] = joined[task'[v]]
    <3>1. CASE Register(w)
      <4>1. task[w] # task'[v]
        BY <2>2, <3>1 DEF AllIn, Coming, Register, Goto
      <4> QED BY <2>2, <3>1, <4>1 DEF TypeOK, Register
    <3> QED BY <3>1, OnlyRegister
  <2>4. CASE v # w
    <3>1. task'[v] = task[v] /\ pc[v] \in Loading
      BY <1>0, <2>4
    <3>2. share'[v] = share[v] /\ leads'[v] = leads[v]
      BY <1>0, <2>4
    <3>3. \/ share[v] = Cardinality(joined[task[v]])
          \/ "held" \in setting /\ leads[v] /\ members[task[v]] = {} /\ share[v] = 1
      BY <3>1 DEF Even, EqualShares
    <3>4. members'[task'[v]] = members[task[v]] /\ joined'[task'[v]] = joined[task[v]]
      BY <2>3, <3>1
    <3>5. Cardinality(joined'[task'[v]]) = Cardinality(joined[task[v]])
      BY <3>4
    <3> QED BY <3>2, <3>3, <3>4, <3>5
  <2>5. CASE v = w
    <3>0. task'[w] = task[w]
      BY <2>1, <2>5, LetThrough
    <3>1. CASE Count(w)
      <4>1. SetLives
        BY DEF Even
      <4>2. \/ share'[w] = Cardinality(joined[task[w]])
            \/ "held" \in setting /\ leads'[w] /\ members[task[w]] = {} /\ share'[w] = 1
        BY <3>1, <4>1, CountShare
      <4> QED BY <2>3, <2>5, <3>0, <4>2
    <3>2. CASE ~Count(w)
      <4>1. pc[w] \in Loading /\ share' = share /\ leads' = leads
        BY <2>5, <3>2, StillLoading
      <4> QED BY <2>3, <2>5, <3>0, <4>1 DEF Even, EqualShares
    <3> QED BY <3>1, <3>2
  <2> QED BY <2>4, <2>5
<1> QED BY <1>1, <1>3, <1>4, <1>5 DEF Even

\* A broadcast command comes last in the queues it reaches.
LEMMA BroadcastTo ==
  ASSUME TypeOK, NEW c \in Runs \cup {Stop}, Broadcast(c), NEW v \in Workers,
         NEW i \in 1..Len(inbox'[v])
  PROVE  inbox'[v][i] = c \/ (i \in 1..Len(inbox[v]) /\ inbox'[v][i] = inbox[v][i])
<1>0. inbox[v] \in Seq(Runs \cup {Stop})
  BY DEF TypeOK
<1>1. CASE inbox'[v] = inbox[v]
  BY <1>1
<1>2. CASE inbox'[v] = Append(inbox[v], c)
  <2> DEFINE new == Append(inbox[v], c)
  <2>1. /\ Len(inbox[v]) \in Nat /\ Len(new) = Len(inbox[v]) + 1
        /\ \A k \in 1..Len(inbox[v]) : new[k] = inbox[v][k]
        /\ new[Len(inbox[v]) + 1] = c
    BY <1>0, AppendProperties, LenProperties
  <2>2. i \in 1..Len(new) /\ inbox'[v][i] = new[i]
    BY <1>2
  <2> HIDE DEF new
  <2> QED BY <2>1, <2>2
<1> QED BY <1>1, <1>2 DEF Broadcast

\* A start reaches nobody who has done with its run, as it is the run's first.
LEMMA OrchEven ==
  ASSUME TypeOK, Rest, Even,
         (\E r \in Runs : StartRun(r)) \/ StopSandbox \/ StopAll \/ EngineCrash
  PROVE  Even'
<1> USE NoneNew
<1>1. UNCHANGED <<setting, task, pc, leads, share, members, joined, lock, probed>>
  BY DEF StartRun, StopSandbox, StopAll, EngineCrash, taskVars, redisVars
<1>2. PICK c \in Runs \cup {Stop} :
         /\ \A v \in Workers : \A i \in 1..Len(inbox'[v]) :
               inbox'[v][i] = c \/ (i \in 1..Len(inbox[v]) /\ inbox'[v][i] = inbox[v][i])
         /\ c # Stop => c \notin started
         /\ started' = started \cup ({c} \ {Stop}) \/ (c = Stop /\ started' = started)
  <2>1. CASE \E r \in Runs : StartRun(r)
    <3>1. PICK r \in Runs : Broadcast(r) /\ r \notin started /\ started' = started \cup {r}
      BY <2>1 DEF StartRun
    <3>2. r # Stop
      BY FleetAssumption
    <3> QED BY <3>1, <3>2, BroadcastTo
  <2>2. CASE StopAll
    BY <2>2, BroadcastTo DEF StopAll, orchVars
  <2>3. CASE StopSandbox \/ EngineCrash
    <3>1. inbox' = inbox /\ started' = started
      BY <2>3 DEF StopSandbox, EngineCrash, streamVars
    <3> QED BY <3>1
  <2> QED BY <2>1, <2>2, <2>3
<1>3. \A r \in Runs : r # c /\ AllIn(r) => AllIn(r)'
  BY <1>1, <1>2 DEF AllIn, Coming
<1>4. started \subseteq started' /\ (c = Stop \/ c \in started')
  BY <1>2
<1>5. Begun'
  <2>1. \A v \in Workers : \A i \in 1..Len(inbox'[v]) : inbox'[v][i] \in started' \cup {Stop}
    BY <1>2, <1>4 DEF Even, Begun
  <2> QED BY <1>1, <1>4, <2>1 DEF Even, Begun
<1>6. \A r \in Runs : r \in started => r # c
  BY <1>2, FleetAssumption
<1>7. Registered'
  <2>1. ASSUME NEW r \in Runs, probed[r] PROVE AllIn(r)'
    <3>1. r \in started /\ AllIn(r)
      BY <2>1 DEF Even, Begun, Registered, Rest, ProbeOver
    <3> QED BY <1>3, <1>6, <3>1
  <2>2. ASSUME NEW v \in Workers, pc[v] \in Late PROVE AllIn(task[v])'
    <3>1. task[v] \in Runs /\ task[v] \in started /\ AllIn(task[v])
      BY <2>2 DEF Even, Begun, Registered, TypeOK, Late, Past, Loading
    <3>2. PICK r \in Runs : r = task[v] /\ r \in started /\ AllIn(r)
      BY <3>1
    <3>3. AllIn(r)'
      BY <1>3, <1>6, <3>2
    <3>4. AllIn(r)' <=> AllIn(task[v])'
      BY <1>1, <3>2 DEF AllIn, Coming
    <3> QED BY <3>3, <3>4
  <2> QED BY <1>1, <2>1, <2>2 DEF Registered, Late
<1>8. EqualShares'
  BY <1>1 DEF Even, EqualShares
<1>9. SetLives'
  <2>1. ASSUME NEW r \in Runs, members[r] # joined[r] PROVE members[r] = {} /\ AllRead(r)'
    <3>1. members[r] = {} /\ AllRead(r) /\ r # c
      BY <1>6, <2>1 DEF Even, Begun, SetLives
    <3>2. \A v \in Workers : ~Coming(v, r)'
      BY <1>1, <1>2, <3>1 DEF AllRead, Coming
    <3> QED BY <1>1, <3>1, <3>2 DEF AllRead
  <2> QED BY <1>1, <2>1 DEF Even, SetLives
<1> QED BY <1>5, <1>7, <1>8, <1>9 DEF Even

\* A set expires when all who need it have read it, or a held leader is left.
LEMMA ExpireEven ==
  ASSUME TypeOK, Even, NEW r \in Runs, FleetExpires(r)
  PROVE  Even'
<1>1. /\ UNCHANGED <<setting, inbox, task, pc, leads, share, joined, lock, probed, started>>
      /\ AllRead(r) /\ \A q \in Runs : members'[q] = IF q = r THEN {} ELSE members[q]
  BY DEF FleetExpires, TypeOK, streamVars, taskVars, orchVars
<1>2. Begun'
  BY <1>1 DEF Even, Begun
<1>3. Registered'
  BY <1>1 DEF Even, Registered, AllIn, Coming
<1>4. \A q \in Runs : AllRead(q) => AllRead(q)'
  BY <1>1 DEF AllRead, Coming
<1>5. SetLives'
  BY <1>1, <1>4 DEF Even, SetLives
<1>6. EqualShares'
  <2>1. \A w \in Workers : pc[w] \in Loading => task[w] \in Runs
    BY DEF TypeOK, Loading
  <2> QED BY <1>1, <2>1 DEF Even, EqualShares
<1> QED BY <1>2, <1>3, <1>5, <1>6 DEF Even

-----------------------------------------------------------------------------
(* The theorems.                                                           *)

\* A step of run_load or a command keeps the rest of the invariant.
LEMMA WorkRest ==
  ASSUME TypeOK, Rest, NEW w \in Workers, Work(w) \/ WorkerCrash(w) \/ StreamDrops(w)
  PROVE  Rest'
<1> USE DEF Advance, Goto, redisVars, Leading, Probing, Past, Loading
<1>e. "poll" \notin setting => (pc[w] \in Past => Quiet(task[w]))
  BY DEF Rest, ProbeOver
<1>q. ASSUME Quiet(task[w])
      PROVE  \A v \in Workers \ {w} : task[v] = task[w] => pc[v] \notin Probing
  BY <1>q DEF Quiet
<1>h. pc[w] \in {"poll"} \cup Leading \cup Past => lock[task[w]] # None
  BY DEF Rest, Elected
<1>l. pc[w] \in Leading => leads[w]
  BY DEF Rest, LeaderHolds
<1>1. CASE TakeStart(w)
  BY <1>1, TakeStartStep
<1>2. CASE TakeStop(w)
  <2>1. CASE task[w] = None
    BY <1>2, <2>1, Framed DEF TakeStop, TypeOK
  <2>2. CASE task[w] # None
    BY <1>2, <2>2, Moving DEF TakeStop
  <2> QED
    BY <2>1, <2>2
<1>3. CASE Cancelled(w)
  BY <1>3, Leaving DEF Cancelled
<1>4. CASE Register(w)
  BY <1>4, Moving DEF Register
<1>5. CASE Elect(w)
  BY <1>5, ElectStep
<1>6. CASE Barrier(w)
  BY <1>6, <1>h, <1>l, Moving DEF Barrier
<1>7. CASE ProbeEnds(w)
  BY <1>7, <1>h, <1>l, Moving DEF ProbeEnds
<1>8. CASE SetProbed(w)
  BY <1>8, SetProbedStep
<1>9. CASE Announce(w)
  BY <1>9, <1>e, <1>q, <1>h, Moving DEF Announce
<1>10. CASE PollEnds(w)
  <2>1. task[w] \in Runs
    BY <1>10 DEF PollEnds, TypeOK
  <2>2. probed[task[w]] => Quiet(task[w])
    BY <2>1 DEF Rest, ProbeOver
  <2>3. task[lock[task[w]]] # task[w] => Quiet(task[w])
    BY OneProber DEF Rest, Quiet
  <2>4. "poll" \notin setting => Quiet(task[w])
    BY <1>10, <2>2, <2>3 DEF PollEnds
  <2> QED
    BY <1>10, <1>h, <1>q, <2>4, Moving DEF PollEnds
<1>11. CASE Count(w)
  BY <1>11, <1>e, <1>q, <1>h, Moving DEF Count
<1>12. CASE SweepEnds(w)
  BY <1>12, <1>e, <1>q, <1>h, Moving DEF SweepEnds
<1>13. CASE BurstEnds(w)
  <2>1. PICK to \in {"closed", "refused"} : Advance(w, "burst", to)
    BY <1>13, Zenon DEF BurstEnds
  <2> QED
    BY <2>1, <1>e, <1>q, <1>h, Moving
<1>14. CASE ClosedEnds(w)
  <2>1. CASE leads[w]
    BY <1>14, <2>1, <1>e, <1>q, <1>h, Moving DEF ClosedEnds
  <2>2. CASE ~leads[w]
    BY <1>14, <2>2, Leaving DEF ClosedEnds
  <2> QED
    BY <2>1, <2>2
<1>15. CASE Hang(w)
  BY <1>15, <1>e, <1>q, <1>h, Moving DEF Hang
<1>16. CASE Report(w)
  BY <1>16, ReportStep
<1>17. CASE WorkerCrash(w)
  BY <1>17, Leaving DEF WorkerCrash
<1>18. CASE Subscribe(w)
  BY <1>18, Framed DEF Subscribe, taskVars
<1>19. CASE StreamDrops(w)
  BY <1>19, Framed DEF StreamDrops, taskVars
<1>20. CASE ReportFails(w)
  BY <1>20, Leaving DEF ReportFails
<1> QED
  BY <1>1, <1>2, <1>3, <1>4, <1>5, <1>6, <1>7, <1>8, <1>9, <1>10, <1>11,
     <1>12, <1>13, <1>14, <1>15, <1>16, <1>17, <1>18, <1>19, <1>20 DEF Work

\* FleetInv holds initially.
LEMMA InitInv == Init => FleetInv
<1> SUFFICES ASSUME Init PROVE FleetInv
  OBVIOUS
<1> USE NoneNew DEF Init
<1>1. TypeOK
  <2>1. <<>> \in Seq(Runs \cup {Stop})
    OBVIOUS
  <2>2. 0 \in 0..Cardinality(Workers)
    BY MembersCount
  <2> QED
    BY <2>1, <2>2 DEF TypeOK, PCs
<1>2. LeaderHolds /\ Elected
  BY DEF LeaderHolds, Elected, Leading, Past, Loading
<1>3. ReportedLeft /\ OneReport /\ ProbeOver
  BY DEF ReportedLeft, OneReport, ProbeOver, Past, Loading
<1>4. Even
  <2>1. \A w \in Workers : 1..Len(inbox[w]) = {}
    BY EmptySeq
  <2> QED
    BY <2>1 DEF Even, Begun, Registered, SetLives, EqualShares, Past, Loading
<1> QED
  BY <1>1, <1>2, <1>3, <1>4 DEF FleetInv, Even

\* Every step keeps FleetInv.
LEMMA Inductive == FleetInv /\ [Next]_vars => FleetInv'
<1> SUFFICES ASSUME TypeOK, Rest, Even, [Next]_vars
             PROVE  TypeOK' /\ Rest' /\ Even'
  BY DEF FleetInv, Rest, Even
<1>1. CASE \E w \in Workers : Work(w) \/ WorkerCrash(w) \/ StreamDrops(w)
  BY <1>1, WorkType, WorkRest, WorkEven
<1>2. CASE (\E r \in Runs : StartRun(r)) \/ StopSandbox \/ StopAll \/ EngineCrash
  <2>1. UNCHANGED <<setting, task, pc, leads, lock, probed, reports>>
    BY <1>2
       DEF StartRun, StopSandbox, StopAll, EngineCrash, taskVars, redisVars
  <2> QED
    BY <1>2, <2>1, OrchType, OrchEven, Framed
<1>3. CASE \E r \in Runs : FleetExpires(r)
  <2>1. UNCHANGED <<setting, task, pc, leads, lock, probed, reports>>
    BY <1>3 DEF FleetExpires, taskVars
  <2> QED
    BY <1>3, <2>1, ExpireType, ExpireEven, Framed
<1>4. CASE UNCHANGED vars
  <2>1. UNCHANGED <<setting, task, pc, leads, lock, probed, reports>>
    BY <1>4 DEF vars
  <2>2. TypeOK'
    BY <1>4 DEF vars, TypeOK
  <2>3. Even'
    BY <1>4
    DEF vars, Even, Begun, Registered, SetLives, EqualShares, AllIn, AllRead, Coming
  <2> QED
    BY <2>1, <2>2, <2>3, Framed
<1> QED
  BY <1>1, <1>2, <1>3, <1>4 DEF Next

\* Every state of the fleet satisfies the inductive invariant.
THEOREM Inv == Spec => []FleetInv
  BY InitInv, Inductive, PTL DEF Spec

\* The state of the fleet is what its variables say: for every setting a
\* worker is idle exactly when it has no task (_dispatch and run_load).
THEOREM TypeCorrect == Spec => []TypeOK
<1>1. FleetInv => TypeOK
  BY DEF FleetInv
<1> QED
  BY <1>1, Inv, PTL

\* A run is reported done at most once: only the worker that set the lock of
\* the run reports it, and leaves the run as it does (end of run_load).
THEOREM OneReported == Spec => []OneReport
<1>1. FleetInv => OneReport
  BY DEF FleetInv
<1> QED
  BY <1>1, Inv, PTL

\* No worker offers load to a run that is probed, while no poll runs out: a
\* follower goes on only once the flag is set or the leader has left, and only
\* the holder of the lock probes (the leader and follower branches of run_load).
THEOREM ProbeUndisturbed == Spec => []ProbeAlone
<1>1. FleetInv => ProbeAlone
  <2> SUFFICES ASSUME FleetInv, "poll" \notin setting,
                      NEW v \in Workers, NEW w \in Workers,
                      pc[v] = "probe", task[w] = task[v], pc[w] \in Loading
               PROVE  FALSE
    BY DEF ProbeAlone
  <2>1. Quiet(task[w])
    BY DEF FleetInv, ProbeOver, Past
  <2> QED
    BY <2>1 DEF Quiet, Probing
<1> QED
  BY <1>1, Inv, PTL
\* Offered load adds up to the tagged rate: whoever offers load to a run has
\* divided by the number of workers that ever registered for it, unless some
\* register late (the barrier and the fleet_n of run_load, broadcast).
THEOREM SharesEqual == Spec => []EqualShares
<1>1. FleetInv => EqualShares
  BY DEF FleetInv
<1> QED
  BY <1>1, Inv, PTL
=============================================================================
