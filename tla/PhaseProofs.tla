----------------------------- MODULE PhaseProofs -----------------------------
(***************************************************************************)
(* Proofs about Phase: whatever the engine, redis or a stop command does,    *)
(* every count is reported at most once, a phase that ends in good order has *)
(* reported what was counted before stop_event was set, and no record on the *)
(* curve of a rate holds counts of the rate before.                         *)
(***************************************************************************)
EXTENDS Phase, BotProofs

-----------------------------------------------------------------------------
(* Counters.                                                               *)

LEMMA PlusFacts ==
  ASSUME NEW a \in Counters, NEW b \in Counters
  PROVE  /\ Plus(a, b) \in Counters
         /\ Plus(a, b).sent = a.sent + b.sent
         /\ Plus(a, b).acked = a.acked + b.acked
         /\ Plus(a, b).errors = a.errors + b.errors
BY DEF Counters, Plus

LEMMA CoversFacts ==
  ASSUME NEW a \in Counters, NEW b \in Counters
  PROVE  Covers(a, b) <=>
           a.sent >= b.sent /\ a.acked >= b.acked /\ a.errors >= b.errors
BY DEF Counters, Covers

\* The difference added to the baseline gives the counters.
LEMMA MinusFacts ==
  ASSUME NEW a \in Counters, NEW b \in Counters, Covers(a, b)
  PROVE  /\ Minus(a, b) \in Counters
         /\ Plus(b, Minus(a, b)) = a
<1>1. a.sent >= b.sent /\ a.acked >= b.acked /\ a.errors >= b.errors
  BY CoversFacts
<1>2. /\ Minus(a, b) = [sent |-> a.sent - b.sent,
                        acked |-> a.acked - b.acked,
                        errors |-> a.errors - b.errors]
  BY DEF Counters, Minus
<1>3. Minus(a, b) \in Counters
  BY <1>1, <1>2 DEF Counters
<1>4. Plus(b, Minus(a, b)) \in Counters
  BY <1>3, PlusFacts
<1>5. /\ Plus(b, Minus(a, b)).sent = a.sent
      /\ Plus(b, Minus(a, b)).acked = a.acked
      /\ Plus(b, Minus(a, b)).errors = a.errors
  BY <1>2, <1>3, PlusFacts DEF Counters
<1> QED
  BY <1>3, <1>4, <1>5 DEF Counters

\* A step of the bot only counts up.
LEMMA StatsGrow ==
  ASSUME TypeOK, TypeOK', [Next]_vars
  PROVE  /\ stats \in Counters /\ stats' \in Counters
         /\ Covers(stats', stats)
<1>1. stats \in Counters /\ stats' \in Counters
  BY DEF TypeOK, Counters, stats
<1>2. sent' >= sent /\ acked' >= acked /\ errors' >= errors
  BY DEF TypeOK, Next, Sender, Connect, ConnectFails, Loop, LoopEnds, Acquire,
         Pace, Drop, Send, SendRaises, Record, Drained, Receiver, Receive,
         ReceiverDies, EngineAcks, EngineSilent, EngineCrash, Halt, vars, env,
         senderVars, countVars, netVars
<1> QED
  BY <1>1, <1>2, CoversFacts DEF stats

-----------------------------------------------------------------------------
(* The bot within its phase.                                               *)

\* Cancelled in the gather, the bot leaves whatever it did.
LEMMA CancelKeepsBot ==
  ASSUME BotInv, CancelGather
  PROVE  BotInv' /\ stats' = stats
<1> USE DEF env, countVars
<1>1. wire' \in Seq(1..sent') /\ wire' = <<>> /\ Len(wire') = 0
  BY EmptySeq DEF CancelGather
<1>2. TypeOK'
  BY <1>1 DEF CancelGather, BotInv, TypeOK
<1>3. Accounting' /\ PermitsConserved' /\ InFlightBound'
  BY DEF CancelGather, BotInv, Accounting, PermitsConserved, InFlightBound
<1>4. Firing'
  BY DEF CancelGather, Firing
<1>5. UnderWay'
  BY <1>1 DEF CancelGather, BotInv, UnderWay
<1>6. stats' = stats
  BY DEF CancelGather, stats
<1> QED
  BY <1>2, <1>3, <1>4, <1>5, <1>6 DEF BotInv

\* Every other step of the phase is a step of the bot or none.
LEMMA BotOrCancel ==
  ASSUME [PhaseNext]_allVars
  PROVE  [Next]_vars \/ CancelGather
BY DEF PhaseNext, Within, Next, Reporter, Wake, Added, FinalAdded, AddFails,
       RunLoop, NextStep, StopEvent, Gathered, Reported, Deadline,
       CancelSleep, CancelReport, allVars

\* In every step of the phase, the bot keeps its invariant and counts up.
LEMMA PhaseKeepsBot ==
  ASSUME BotInv, [PhaseNext]_allVars
  PROVE  /\ BotInv'
         /\ stats \in Counters /\ stats' \in Counters
         /\ Covers(stats', stats)
<1>1. CASE [Next]_vars
  BY <1>1, BotSteps, StatsGrow DEF BotInv
<1>2. CASE CancelGather
  <2>1. stats \in Counters
    BY DEF BotInv, TypeOK, stats, Counters
  <2> QED
    BY <1>2, <2>1, CancelKeepsBot, CoversFacts DEF Counters
<1> QED
  BY <1>1, <1>2, BotOrCancel

-----------------------------------------------------------------------------
(* The reporter.                                                           *)

\* A flush that finds news moves the baseline to the counters, and what it
\* reports makes up the difference.
LEMMA TakeFacts ==
  ASSUME PhaseTypeOK, ReportedOnce, stats \in Counters, NEW to, Take(to)
  PROVE  /\ last' = stats
         /\ rec' \in Records
         /\ rec'.delta \in Counters
         /\ Plus(last, rec'.delta) = last'
         /\ rec'.since = since /\ rec'.step = step
         /\ since' = step /\ rpc' = to /\ seen' = stop
<1>1. Minus(stats, last) \in Counters /\ Plus(last, Minus(stats, last)) = stats
  BY MinusFacts DEF PhaseTypeOK, ReportedOnce
<1>2. step \in Nat /\ since \in Nat
  BY PhaseAssumption DEF PhaseTypeOK, LastStep
<1> QED
  BY <1>1, <1>2 DEF Take, Records

\* A step of the reporter leaves the counters, the run loop and the trouble.
LEMMA ReporterAlone ==
  ASSUME Reporter \/ AddFails \/ CancelReport
  PROVE  UNCHANGED <<vars, trouble, stop, step, stats>> /\ mode' = mode
BY DEF Reporter, Wake, Added, FinalAdded, AddFails, CancelReport, vars,
       loopVars, stats

\* What a step of the reporter does to what was told, by its kind: it looks
\* and finds no news, it takes a record, the record is added, or it is lost.
LEMMA ReporterCases ==
  ASSUME PhaseTypeOK, ReportedOnce, ReporterInv, stats \in Counters,
         Reporter \/ AddFails \/ CancelReport
  PROVE  \/ /\ rec = NoRec /\ rec' = NoRec /\ told' = told /\ last' = last
            /\ since' = step /\ rpc' \in {"sleep", "done"}
            /\ rpc' = "done" => seen'
         \/ /\ rec = NoRec /\ told' = told /\ rpc' = "flush"
            /\ Take("flush")
         \/ /\ rec # NoRec /\ told' = Plus(told, rec.delta)
            /\ rpc' = "final" /\ Take("final") /\ seen'
         \/ /\ rec # NoRec /\ told' = Plus(told, rec.delta) /\ rec' = NoRec
            /\ last' = last /\ since' = since /\ rpc' \in {"sleep", "done"}
            /\ rpc # "dead"
            /\ rpc' = "done" => seen'
         \/ /\ rec' = NoRec /\ last' = last /\ since' = since /\ rpc' = "dead"
            /\ rpc # "dead"
            /\ \/ told' = told
               \/ rec # NoRec /\ told' = Plus(told, rec.delta)
<1>1. CASE Wake
  BY <1>1 DEF Wake, ReporterInv, PhaseTypeOK, Take
<1>2. CASE Added
  BY <1>2 DEF Added, ReporterInv, PhaseTypeOK, Take
<1>3. CASE FinalAdded
  BY <1>3 DEF FinalAdded, ReporterInv, PhaseTypeOK
<1>4. CASE AddFails
  BY <1>4 DEF AddFails, ReporterInv, PhaseTypeOK
<1>5. CASE CancelReport
  BY <1>5 DEF CancelReport, ReporterInv, PhaseTypeOK
<1> QED
  BY <1>1, <1>2, <1>3, <1>4, <1>5 DEF Reporter

\* What was told, what is being added and the baseline stay in step.
LEMMA ReporterOnce ==
  ASSUME PhaseTypeOK, ReportedOnce, ReporterInv, stats \in Counters,
         Reporter \/ AddFails \/ CancelReport
  PROVE  /\ ReportedOnce'
         /\ last' \in Counters /\ told' \in Counters
         /\ rec' \in Records \cup {NoRec}
<1>1. stats' = stats /\ last \in Counters /\ told \in Counters
  BY ReporterAlone DEF PhaseTypeOK
<1>2. Covers(stats, last) /\ Covers(last, told) /\ Covers(stats, stats)
  BY <1>1, CoversFacts DEF ReportedOnce, Counters
<1>3. ASSUME rec # NoRec
      PROVE  /\ rec.delta \in Counters
             /\ Plus(told, rec.delta) = last
             /\ Plus(told, rec.delta) \in Counters
             /\ Covers(last, Plus(told, rec.delta))
             /\ rpc # "dead"
  <2>1. rec \in Records /\ rpc # "dead"
    BY <1>3 DEF PhaseTypeOK, ReporterInv
  <2>2. rec.delta \in Counters /\ Plus(told, rec.delta) = last
    BY <1>3, <2>1 DEF ReportedOnce, Records
  <2> QED
    BY <1>1, <2>1, <2>2, CoversFacts DEF Counters
<1>4. ASSUME rec = NoRec, rpc # "dead" PROVE last = told
  BY <1>4 DEF ReportedOnce
<1>5. ASSUME NEW to, Take(to)
      PROVE  /\ last' = stats /\ last' \in Counters
             /\ rec' \in Records /\ rec' # NoRec
             /\ rpc' = to
             /\ last' = Plus(last, rec'.delta)
             /\ Covers(last', last)
  <2>1. /\ last' = stats /\ rec' \in Records /\ rpc' = to
        /\ Plus(last, rec'.delta) = last'
    BY <1>5, TakeFacts
  <2> QED
    BY <1>1, <1>2, <2>1, PhaseAssumption
<1>6. CASE told' = told /\ last' = last /\ rec' = NoRec /\ rec = NoRec
           /\ rpc' # "dead"
  <2>1. rpc # "dead"
    BY <1>6, ReporterAlone DEF Reporter, Wake, Added, FinalAdded, AddFails,
       CancelReport, ReporterInv
  <2> QED
    BY <1>1, <1>2, <1>4, <1>6, <2>1 DEF ReportedOnce
<1>7. CASE rec = NoRec /\ told' = told /\ rpc' = "flush" /\ Take("flush")
  <2>1. rpc # "dead"
    BY <1>7 DEF Reporter, Wake, Added, FinalAdded, AddFails, CancelReport,
       ReporterInv
  <2>2. last' \in Counters /\ rec' \in Records /\ rec' # NoRec
        /\ last' = stats /\ last' = Plus(told', rec'.delta)
        /\ Covers(last', told')
    BY <1>4, <1>5, <1>7, <2>1
  <2> QED
    BY <1>1, <1>2, <1>7, <2>2 DEF ReportedOnce
<1>8. CASE rec # NoRec /\ told' = Plus(told, rec.delta) /\ Take("final")
  <2>1. last' \in Counters /\ rec' \in Records /\ rec' # NoRec
        /\ last' = stats /\ last' = Plus(told', rec'.delta)
        /\ Covers(last', told') /\ told' \in Counters
    BY <1>1, <1>3, <1>5, <1>8
  <2> QED
    BY <1>1, <1>2, <2>1 DEF ReportedOnce
<1>9. CASE rec # NoRec /\ told' = Plus(told, rec.delta) /\ rec' = NoRec
           /\ last' = last
  BY <1>1, <1>2, <1>3, <1>9 DEF ReportedOnce
<1>10. CASE told' = told /\ last' = last /\ rec' = NoRec /\ rpc' = "dead"
  BY <1>1, <1>2, <1>10 DEF ReportedOnce
<1> QED
  BY <1>6, <1>7, <1>8, <1>9, <1>10, ReporterCases

\* The other parts of the invariant after a step of the reporter.
LEMMA ReporterKeeps ==
  ASSUME PhaseTypeOK, ReportedOnce, ReporterInv, NoSmear, stats \in Counters,
         Reporter \/ AddFails \/ CancelReport
  PROVE  /\ rpc' \in {"sleep", "flush", "final", "done", "dead"}
         /\ since' \in 1..step' /\ seen' \in BOOLEAN
         /\ ctl' \in {"run", "gather", "report", "over", "raised", "cancelled"}
         /\ ReporterInv' /\ NoSmear'
<1>1. /\ mode' = mode /\ step' = step /\ step \in Nat /\ since \in 1..step
      /\ stop \in BOOLEAN /\ seen \in BOOLEAN
  BY ReporterAlone, PhaseAssumption DEF PhaseTypeOK, LastStep
<1>2. Measuring(step)' <=> Measuring(step)
  BY <1>1 DEF Measuring
<1>3. ASSUME NEW to, Take(to)
      PROVE  /\ rec' \in Records /\ rec' # NoRec
             /\ rec'.since = since /\ rec'.step = step
             /\ since' = step /\ rpc' = to /\ seen' = stop
  BY <1>3, TakeFacts, PhaseAssumption
<1>4. seen' \in BOOLEAN
  BY <1>1 DEF Reporter, Wake, Added, FinalAdded, AddFails, CancelReport, Take
<1>5. ctl' = ctl \/ CancelReport
  BY DEF Reporter, Wake, Added, FinalAdded, AddFails, loopVars
<1>6. rpc # "done"
  BY DEF Reporter, Wake, Added, FinalAdded, AddFails, CancelReport
<1>7. ctl' # "over" /\ ctl' \in {"run", "gather", "report", "over", "raised",
                                 "cancelled"}
  BY <1>5, <1>6 DEF PhaseTypeOK, CancelReport, ReporterInv
<1>8. ASSUME Measuring(step), rpc # "dead" PROVE since >= step - 1
  BY <1>8 DEF ReporterInv
<1>9. CASE rec' = NoRec /\ rpc' \in {"sleep", "done", "dead"}
            /\ (rpc' = "done" => seen') /\ since' \in {since, step}
            /\ rpc # "dead"
  BY <1>1, <1>2, <1>4, <1>7, <1>8, <1>9 DEF ReporterInv, NoSmear
<1>10. CASE Take("flush") /\ rpc # "dead"
  BY <1>1, <1>2, <1>3, <1>4, <1>7, <1>8, <1>10
     DEF ReporterInv, NoSmear, Measuring
<1>11. CASE Take("final") /\ seen' /\ rpc # "dead"
  <2>1. Take("final") /\ seen' = TRUE
    BY <1>4, <1>11
  <2>2. /\ rec' \in Records /\ rec' # NoRec
        /\ rec'.since = since /\ rec'.step = step
        /\ since' = step /\ rpc' = "final"
    BY <1>3, <2>1
  <2>3. ReporterInv'
    BY <1>1, <1>2, <1>7, <2>1, <2>2 DEF ReporterInv
  <2>4. NoSmear'
    BY <1>1, <1>2, <1>8, <1>11, <2>2 DEF NoSmear, Measuring
  <2> QED
    BY <1>1, <1>4, <1>7, <2>2, <2>3, <2>4
<1>12. rpc # "dead"
  BY DEF Reporter, Wake, Added, FinalAdded, AddFails, CancelReport
<1> QED
  BY <1>9, <1>10, <1>11, <1>12, ReporterCases

-----------------------------------------------------------------------------
(* The bot, its engine and the run loop.                                   *)

\* Of the other steps, the run loop's alone change anything of the phase; it
\* moves to the next step once the bots are settled, and ends in good order
\* after the reporter did.
LEMMA OtherCases ==
  ASSUME PhaseTypeOK, [PhaseNext]_allVars,
         ~(Reporter \/ AddFails \/ CancelReport)
  PROVE  /\ UNCHANGED <<reporterVars, trouble>> /\ mode' = mode
         /\ ctl' \in {"run", "gather", "report", "over", "raised", "cancelled"}
         /\ stop' \in BOOLEAN
         /\ step' = step \/ NextStep
         /\ ctl' = "over" => ctl = "over" \/ rpc = "done"
<1>1. CASE UNCHANGED phaseVars /\ [Next]_vars
  BY <1>1 DEF phaseVars, loopVars, PhaseTypeOK, Next, vars, env, Sender,
         Connect, ConnectFails, Loop, LoopEnds, Acquire, Pace, Drop, Send,
         SendRaises, Drained, Receiver, Receive, ReceiverDies, EngineAcks,
         EngineSilent, EngineCrash, Halt
<1>2. CASE NextStep \/ StopEvent \/ Gathered \/ Reported \/ CancelSleep
           \/ CancelGather
  BY <1>2 DEF NextStep, StopEvent, Gathered, Reported, CancelSleep,
         CancelGather, PhaseTypeOK, vars, env, Halt
<1>3. Deadline => UNCHANGED phaseVars /\ [Next]_vars
  BY DEF Deadline, Next
<1> QED
  BY <1>1, <1>2, <1>3 DEF PhaseNext, RunLoop, Within, allVars, Next

\* A step of the sweep stays within it, and the reporter has looked at the
\* counters since the bots left the rate before.
LEMMA StepFacts ==
  ASSUME PhaseTypeOK, mode' = mode, NextStep, ReporterInv
  PROVE  /\ step' \in 1..LastStep' /\ since \in 1..step'
         /\ Measuring(step)' /\ rpc # "dead" => since >= step' - 1
<1>1. /\ step \in Nat /\ since \in 1..step /\ step >= 1 /\ LastStep \in Nat
      /\ step' = step + 1 /\ step < LastStep /\ LastStep' = LastStep
  BY PhaseAssumption DEF PhaseTypeOK, LastStep, NextStep
<1>2. CASE Settled
  BY <1>1, <1>2 DEF Settled
<1>3. CASE Measuring(step)
  <2>1. step % 2 = 0 /\ step' % 2 # 0
    BY <1>1, <1>3 DEF Measuring
  <2> QED
    BY <1>1, <2>1 DEF Measuring
<1> QED
  BY <1>2, <1>3 DEF NextStep

LEMMA OtherKeeps ==
  ASSUME PhaseInv, [PhaseNext]_allVars,
         ~(Reporter \/ AddFails \/ CancelReport)
  PROVE  PhaseTypeOK' /\ ReportedOnce' /\ ReporterInv' /\ NoSmear'
<1>1. /\ UNCHANGED <<reporterVars, trouble>> /\ mode' = mode
      /\ ctl' \in {"run", "gather", "report", "over", "raised", "cancelled"}
      /\ stop' \in BOOLEAN
      /\ step' = step \/ NextStep
      /\ ctl' = "over" => ctl = "over" \/ rpc = "done"
  BY OtherCases DEF PhaseInv
<1>2. /\ BotInv' /\ stats \in Counters /\ stats' \in Counters
      /\ Covers(stats', stats)
  BY PhaseKeepsBot DEF PhaseInv
<1>3. /\ last' = last /\ told' = told /\ rec' = rec /\ rpc' = rpc
      /\ since' = since /\ seen' = seen
  BY <1>1 DEF reporterVars
<1>4. last \in Counters /\ told \in Counters
  BY DEF PhaseInv, PhaseTypeOK
<1>5. Covers(stats', last)
  BY <1>2, <1>4, CoversFacts DEF PhaseInv, ReportedOnce, Counters
<1>6. ReportedOnce'
  BY <1>3, <1>5 DEF PhaseInv, ReportedOnce
<1>7. NoSmear'
  BY <1>1, <1>3 DEF PhaseInv, NoSmear, Measuring
<1>8. /\ step' \in 1..LastStep' /\ since \in 1..step'
      /\ Measuring(step)' /\ rpc # "dead" => since >= step' - 1
  <2>1. CASE step' = step
    BY <1>1, <2>1 DEF PhaseInv, PhaseTypeOK, LastStep, ReporterInv, Measuring
  <2>2. CASE NextStep
    BY <1>1, <2>2, StepFacts DEF PhaseInv
  <2> QED
    BY <1>1, <2>1, <2>2
<1>9. ReporterInv'
  <2>1. rpc \in {"final", "done"} => seen
    BY DEF PhaseInv, ReporterInv
  <2>2. rpc' \in {"final", "done"} => seen'
    BY <1>3, <2>1
  <2>3. /\ rpc' \in {"flush", "final"} <=> rec' # NoRec
        /\ ctl' = "over" => rpc' = "done"
        /\ Measuring(step)' /\ rpc' # "dead" => since' >= step' - 1
    BY <1>1, <1>3, <1>8 DEF PhaseInv, ReporterInv
  <2> QED
    BY <2>2, <2>3 DEF ReporterInv
<1>10. PhaseTypeOK'
  <2>1. TypeOK'
    BY <1>2 DEF BotInv
  <2>2. seen' \in BOOLEAN
    BY <1>3 DEF PhaseInv, PhaseTypeOK
  <2>3. /\ trouble' \in Troubles
        /\ rpc' \in {"sleep", "flush", "final", "done", "dead"}
        /\ last' \in Counters /\ told' \in Counters
        /\ rec' \in Records \cup {NoRec}
        /\ since' \in 1..step'
    BY <1>1, <1>3, <1>8 DEF PhaseInv, PhaseTypeOK
  <2> QED
    BY <1>1, <1>8, <2>1, <2>2, <2>3 DEF PhaseTypeOK
<1> QED
  BY <1>6, <1>7, <1>9, <1>10

-----------------------------------------------------------------------------
(* Theorems.                                                               *)

LEMMA PhaseStarts == PhaseInit => PhaseInv
<1> SUFFICES ASSUME PhaseInit PROVE PhaseInv
  OBVIOUS
<1>1. BotInv /\ TypeOK
  BY BotStarts DEF PhaseInit, BotInv
<1>2. stats \in Counters
  BY <1>1 DEF TypeOK, stats, Counters
<1>3. ReportedOnce
  BY <1>2, CoversFacts DEF PhaseInit, ReportedOnce, Counters
<1>4. ReporterInv /\ NoSmear
  BY DEF PhaseInit, ReporterInv, NoSmear
<1>5. PhaseTypeOK
  <2>1. step \in 1..LastStep /\ since \in 1..step
    BY PhaseAssumption DEF PhaseInit, LastStep
  <2> QED
    BY <1>1, <1>2, <2>1 DEF PhaseInit, PhaseTypeOK
<1> QED
  BY <1>1, <1>3, <1>4, <1>5 DEF PhaseInv

LEMMA PhaseSteps == PhaseInv /\ [PhaseNext]_allVars => PhaseInv'
<1> SUFFICES ASSUME PhaseInv, [PhaseNext]_allVars PROVE PhaseInv'
  OBVIOUS
<1>1. BotInv' /\ stats \in Counters
  BY PhaseKeepsBot DEF PhaseInv
<1>2. CASE Reporter \/ AddFails \/ CancelReport
  <2>1. /\ ReportedOnce' /\ last' \in Counters /\ told' \in Counters
        /\ rec' \in Records \cup {NoRec}
    BY <1>1, <1>2, ReporterOnce DEF PhaseInv
  <2>2. /\ rpc' \in {"sleep", "flush", "final", "done", "dead"}
        /\ since' \in 1..step' /\ seen' \in BOOLEAN
        /\ ctl' \in {"run", "gather", "report", "over", "raised", "cancelled"}
        /\ ReporterInv' /\ NoSmear'
    BY <1>1, <1>2, ReporterKeeps DEF PhaseInv
  <2>3. UNCHANGED <<trouble, stop, step>> /\ mode' = mode
    BY <1>2, ReporterAlone
  <2>4. /\ trouble' \in Troubles /\ stop' \in BOOLEAN
        /\ step' \in 1..LastStep'
    BY <2>3 DEF PhaseInv, PhaseTypeOK, LastStep
  <2>5. PhaseTypeOK'
    BY <1>1, <2>1, <2>2, <2>4 DEF PhaseTypeOK, BotInv
  <2> QED
    BY <1>1, <2>1, <2>2, <2>5 DEF PhaseInv
<1>3. CASE ~(Reporter \/ AddFails \/ CancelReport)
  BY <1>1, <1>3, OtherKeeps DEF PhaseInv
<1> QED
  BY <1>2, <1>3

\* The inductive invariant of a phase (reporter, _flush and the run loops).
THEOREM PhaseInductive == PhaseSpec => []PhaseInv
<1> QED
  BY PhaseStarts, PhaseSteps, PTL DEF PhaseSpec

\* The state of a phase is well typed.
THEOREM PhaseTypes == PhaseSpec => []PhaseTypeOK
<1>1. PhaseInv => PhaseTypeOK
  BY DEF PhaseInv
<1> QED
  BY <1>1, PhaseInductive, PTL

\* Nothing a bot counted is reported twice, and nothing is reported that it did
\* not count, though the baseline moves before the xadd (_flush).
THEOREM OnceReported == PhaseSpec => []ReportedOnce
<1>1. PhaseInv => ReportedOnce
  BY DEF PhaseInv
<1> QED
  BY <1>1, PhaseInductive, PTL

\* A phase that ends in good order has reported what was counted before
\* stop_event was set (the final flush).
THEOREM CompleteAtEnd == PhaseSpec => []FinalComplete
<1>1. PhaseInv => FinalComplete
  <2> SUFFICES ASSUME PhaseInv, ctl = "over" PROVE seen /\ told = last
    BY DEF FinalComplete
  <2>1. rpc = "done"
    BY DEF PhaseInv, ReporterInv
  <2>2. seen
    BY <2>1 DEF PhaseInv, ReporterInv
  <2>3. rec = NoRec
    BY <2>1 DEF PhaseInv, ReporterInv
  <2> QED
    BY <2>1, <2>2, <2>3 DEF PhaseInv, ReportedOnce
<1> QED
  BY <1>1, PhaseInductive, PTL

\* The settling step keeps the counts of one rate off the curve of the next
\* (run_sweep, run_burst).
THEOREM RatesApart == PhaseSpec => []NoSmear
<1>1. PhaseInv => NoSmear
  BY DEF PhaseInv
<1> QED
  BY <1>1, PhaseInductive, PTL

\* The bot of a phase keeps its invariant, a cancelled one too.
THEOREM BotInPhase == PhaseSpec => []BotInv
<1>1. PhaseInv => BotInv
  BY DEF PhaseInv
<1> QED
  BY <1>1, PhaseInductive, PTL
=============================================================================
