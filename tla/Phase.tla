-------------------------------- MODULE Phase --------------------------------
(***************************************************************************)
(* One phase of a fleet worker's load (run_closed, run_sweep, run_burst in   *)
(* bot_fleet/fleet.py): a bot, the reporter task that adds what the bot      *)
(* counted to the telemetry stream, and the run loop that steps through the  *)
(* rates, sets stop_event, gathers the bots and awaits the reporter.  A stop *)
(* command cancels the run loop wherever it waits.                          *)
(*                                                                         *)
(* The run loop numbers its steps: in the open modes an odd step settles on  *)
(* the next rate (tag rate 0, which telemetry ignores), the even step after  *)
(* it measures at that rate.  The closed phase is one step.  The latency     *)
(* histogram grows with acked and is not told apart from it.                *)
(***************************************************************************)
EXTENDS Bot

CONSTANTS
    MaxFaults,  \* bound: kinds of misbehaviour of one engine
    Rates,      \* number of rates of a sweep
    Troubles,   \* what goes wrong besides the engine: "none", an "xadd"
                \* fails, "cancel" of the run
    NoRec       \* no record is being added

Counters == [sent : Nat, acked : Nat, errors : Nat]

\* A record of the stream: what was counted from step since to step.
Records == [delta : Counters, step : Nat, since : Nat]

ASSUME PhaseAssumption ==
    /\ MaxFaults \in Nat
    /\ Rates \in Nat \ {0}
    /\ Troubles \subseteq {"none", "xadd", "cancel"}
    /\ NoRec \notin Records

VARIABLES
    trouble,    \* what goes wrong sooner or later
    ctl,        \* run loop: "run", "gather", "report", "over", "raised",
                \*           "cancelled"
    stop,       \* stop_event
    step,       \* step of the run loop
    rpc,        \* reporter: "sleep", "flush", "final", "done", "dead"
    last,       \* counters at the last flush
    since,      \* step in which the reporter last looked at the counters
    rec,        \* record whose xadd is under way, or NoRec
    told,       \* totals of the records in the stream
    seen        \* history: the reporter has looked at the counters since
                \* stop_event was set

loopVars     == <<ctl, stop, step>>
reporterVars == <<rpc, last, since, rec, told, seen>>
phaseVars    == <<trouble, loopVars, reporterVars>>
allVars      == <<vars, phaseVars>>

stats == [sent |-> sent, acked |-> acked, errors |-> errors]

Plus(a, b)  == [x \in DOMAIN a |-> a[x] + b[x]]
Minus(a, b) == [x \in DOMAIN a |-> a[x] - b[x]]
Covers(a, b) == \A x \in DOMAIN a : a[x] >= b[x]

LastStep == IF mode = "closed" THEN 1 ELSE 2 * Rates

\* Mutant of Measuring: a settling step is tagged with its rate already.
MeasuringAlways(k) == mode = "open"

\* The tag of a step has a rate, so that telemetry puts it on the curve.
Measuring(k) == mode = "open" /\ k % 2 = 0

PhaseInit ==
    /\ Init
    /\ Cardinality(faults) <= MaxFaults
    /\ trouble \in Troubles
    /\ ctl = "run"
    /\ stop = FALSE
    /\ step = 1
    /\ rpc = "sleep"
    /\ last = stats
    /\ since = 1
    /\ rec = NoRec
    /\ told = stats
    /\ seen = FALSE

-----------------------------------------------------------------------------
(* The reporter.                                                           *)

\* Mutant of Take: the baseline stays where it was.
TakeKeepsBaseline(to) ==
    /\ since' = step
    /\ seen' = stop
    /\ rpc' = to
    /\ rec' = [delta |-> Minus(stats, last), step |-> step, since |-> since]
    /\ UNCHANGED last

\* _flush with something to report: the baseline moves to the counters before
\* the xadd of the difference is awaited.
Take(to) ==
    /\ since' = step
    /\ seen' = stop
    /\ rpc' = to
    /\ last' = stats
    /\ rec' = [delta |-> Minus(stats, last), step |-> step, since |-> since]

\* The sleep of 0.2 s is over.  Without news there is no record, and the loop
\* goes on to its condition; once stopped, the final flush finds none either.
Wake ==
    /\ rpc = "sleep"
    /\ IF stats # last
         THEN Take("flush")
         ELSE /\ since' = step
              /\ seen' = stop
              /\ rpc' = IF stop THEN "done" ELSE "sleep"
              /\ UNCHANGED <<last, rec>>
    /\ UNCHANGED <<vars, trouble, loopVars, told>>

\* Mutant of Added: a stopped reporter leaves without the final flush.
AddedNoFinal ==
    /\ rpc = "flush"
    /\ told' = Plus(told, rec.delta)
    /\ rec' = NoRec
    /\ rpc' = IF stop THEN "done" ELSE "sleep"
    /\ UNCHANGED <<vars, trouble, loopVars, last, since, seen>>

\* The record is in the stream.  A reporter that finds stop_event set flushes
\* once more, without a sleep.
Added ==
    /\ rpc = "flush"
    /\ told' = Plus(told, rec.delta)
    /\ IF stop /\ stats # last
         THEN Take("final")
         ELSE /\ rec' = NoRec
              /\ rpc' = IF stop THEN "done" ELSE "sleep"
              /\ seen' = stop
              /\ UNCHANGED <<last, since>>
    /\ UNCHANGED <<vars, trouble, loopVars>>

FinalAdded ==
    /\ rpc = "final"
    /\ told' = Plus(told, rec.delta)
    /\ rec' = NoRec
    /\ rpc' = "done"
    /\ UNCHANGED <<vars, trouble, loopVars, last, since, seen>>

\* xadd raises, and the task ends: the record is in the stream or lost, and
\* the baseline has moved past it all the same.
AddFails ==
    /\ trouble = "xadd"
    /\ rpc \in {"flush", "final"}
    /\ told' \in {told, Plus(told, rec.delta)}
    /\ rec' = NoRec
    /\ rpc' = "dead"
    /\ UNCHANGED <<vars, trouble, loopVars, last, since, seen>>

Reporter == Wake \/ Added \/ FinalAdded

-----------------------------------------------------------------------------
(* The run loop.                                                           *)

\* A settling step takes 1 s: time for the reporter, which sleeps 0.2 s, to
\* look at the counters, unless it is dead.  (An xadd is taken to be faster.)
Settled == rpc = "dead" \/ since = step

\* Mutant of NextStep: no time to settle.
NextStepAtOnce ==
    /\ ctl = "run"
    /\ step < LastStep
    /\ step' = step + 1
    /\ UNCHANGED <<vars, trouble, ctl, stop, reporterVars>>

NextStep ==
    /\ ctl = "run"
    /\ step < LastStep
    /\ Measuring(step) \/ Settled
    /\ step' = step + 1
    /\ UNCHANGED <<vars, trouble, ctl, stop, reporterVars>>

\* stop_event.set() after the last step.
StopEvent ==
    /\ ctl = "run"
    /\ step = LastStep
    /\ Halt
    /\ stop' = TRUE
    /\ ctl' = "gather"
    /\ UNCHANGED <<trouble, step, reporterVars>>

\* The bots have ended: the reporter is awaited.
Gathered ==
    /\ ctl = "gather"
    /\ pc = "done"
    /\ ctl' = "report"
    /\ UNCHANGED <<vars, trouble, stop, step, reporterVars>>

\* await rep returns, or raises what ended the reporter.
Reported ==
    /\ ctl = "report"
    /\ rpc \in {"done", "dead"}
    /\ ctl' = IF rpc = "done" THEN "over" ELSE "raised"
    /\ UNCHANGED <<vars, trouble, stop, step, reporterVars>>

\* A stop command cancels the run while it sleeps through a step: the bot and
\* the reporter of the phase are tasks of their own and go on, the bot to its
\* deadline, the reporter without an end, as nobody sets stop_event any more.
CancelSleep ==
    /\ trouble = "cancel"
    /\ ctl = "run"
    /\ ctl' = "cancelled"
    /\ UNCHANGED <<vars, trouble, stop, step, reporterVars>>

\* While it gathers the bots: they are cancelled with it and close their
\* connections, and the receiver reads on to the end of what it has.
CancelGather ==
    /\ trouble = "cancel"
    /\ ctl = "gather"
    /\ ctl' = "cancelled"
    /\ pc' = "done"
    /\ conn' = FALSE
    /\ wire' = <<>>
    /\ UNCHANGED <<env, rx, halt, left, sem, countVars, sent, errors, engine,
                   acks, trouble, stop, step, reporterVars>>

\* While it awaits the reporter, which is cancelled with it; the record under
\* way is in the stream or not.
CancelReport ==
    /\ trouble = "cancel"
    /\ ctl = "report"
    /\ rpc \notin {"done", "dead"}
    /\ ctl' = "cancelled"
    /\ rpc' = "dead"
    /\ told' \in IF rec = NoRec THEN {told} ELSE {told, Plus(told, rec.delta)}
    /\ rec' = NoRec
    /\ UNCHANGED <<vars, trouble, stop, step, last, since, seen>>

\* Mutant of Deadline: the bots of a cancelled phase wait for stop_event.
DeadlineOfLoop ==
    /\ ctl = "gather"
    /\ Halt
    /\ UNCHANGED phaseVars

\* The deadline lies after the end of the phase, so that a bot meets it only
\* where stop_event was not set in time: in a phase that was cancelled.
Deadline ==
    /\ ctl = "cancelled"
    /\ Halt
    /\ UNCHANGED phaseVars

RunLoop == NextStep \/ StopEvent \/ Gathered \/ Reported \/ Deadline

\* A step of the bot or of its engine.
Within(A) == A /\ UNCHANGED phaseVars

PhaseNext ==
    \/ Within(Sender) \/ Within(Receiver)
    \/ Within(EngineAcks) \/ Within(EngineSilent) \/ Within(EngineCrash)
    \/ Reporter \/ AddFails
    \/ RunLoop
    \/ CancelSleep \/ CancelGather \/ CancelReport

PhaseSpec == PhaseInit /\ [][PhaseNext]_allVars

\* As in Bot; the reporter and the run loop are tasks of the same event loop,
\* and redis answers an xadd or breaks the connection.
PhaseLiveSpec ==
    /\ PhaseSpec
    /\ WF_allVars(Within(Sender))
    /\ WF_allVars(Within(Receiver))
    /\ WF_allVars(Within(EngineAcks))
    /\ WF_allVars(Reporter)
    /\ WF_allVars(RunLoop)

-----------------------------------------------------------------------------
(* Properties.                                                             *)

PhaseTypeOK ==
    /\ TypeOK
    /\ trouble \in Troubles
    /\ ctl \in {"run", "gather", "report", "over", "raised", "cancelled"}
    /\ stop \in BOOLEAN
    /\ step \in 1..LastStep
    /\ rpc \in {"sleep", "flush", "final", "done", "dead"}
    /\ last \in Counters
    /\ since \in 1..step
    /\ rec \in Records \cup {NoRec}
    /\ told \in Counters
    /\ seen \in BOOLEAN

\* Every count reaches the stream once, in one record: what was added and what
\* is being added make up the baseline, which never runs ahead of the counters.
\* A failed xadd loses the record, but nothing is told twice (_flush).
ReportedOnce ==
    /\ Covers(stats, last)
    /\ Covers(last, told)
    /\ rpc # "dead" =>
         last = IF rec = NoRec THEN told ELSE Plus(told, rec.delta)

\* A phase that ends in good order has reported whatever was counted before
\* stop_event was set: the reporter looked at the counters after that, and what
\* it saw is in the stream.  Only acks of the half second of draining may be
\* missing (the final flush).
FinalComplete ==
    ctl = "over" => seen /\ told = last

\* A record on the curve of a rate holds nothing that was counted before the
\* bots began to settle on that rate, when they still ran at the one before.
NoSmear ==
    rec # NoRec /\ Measuring(rec.step) => rec.since >= rec.step - 1

\* A phase that is stopped or cancelled ends with its bot, under the engine
\* behaviour that lets a bot end (HaltEndsBot): run_load goes on or is rid of
\* it, even if the reporter dies.  The reporter ends once stop_event is set,
\* whatever the engine does to the bot.  Where it is never set, in a phase that
\* was cancelled in its sleep, the bot has its deadline, but the reporter has
\* none: its loop goes on every 0.2 s for as long as the worker runs.
PhaseEnds ==
    /\ (stop \/ ctl = "cancelled") /\ (mode = "open" \/ faults \subseteq {"twice"})
           ~> pc = "done" /\ ctl \in {"over", "raised", "cancelled"}
    /\ stop ~> rpc \in {"done", "dead"}

-----------------------------------------------------------------------------
(* The inductive invariant.                                                *)

\* A record is held while its xadd is under way; the final flush comes after
\* stop_event; and once the bots settled on a rate the reporter has looked at
\* the counters since they left the one before.
ReporterInv ==
    /\ rpc \in {"flush", "final"} <=> rec # NoRec
    /\ rpc \in {"final", "done"} => seen
    /\ ctl = "over" => rpc = "done"
    /\ Measuring(step) /\ rpc # "dead" => since >= step - 1

PhaseInv ==
    /\ PhaseTypeOK
    /\ BotInv
    /\ ReportedOnce
    /\ ReporterInv
    /\ NoSmear
=============================================================================
