------------------------------ MODULE Telemetry ------------------------------
(***************************************************************************)
(* The telemetry ingester (telemetry/ingester.py): one process with four     *)
(* asyncio tasks.  control_listener learns which submission a run is of,     *)
(* sample_consumer folds the fleet's samples into the aggregate of their     *)
(* run, publisher shows the leaderboard, and persist_listener writes a run   *)
(* that is reported done to the database.  The process may be killed and is  *)
(* restarted; it then recovers the leaderboard from the database.           *)
(*                                                                         *)
(* A sample is its position in the Redis stream, an aggregate the set of     *)
(* samples folded into it.  Percentiles and the score formula (metrics.py)   *)
(* are left out.                                                           *)
(***************************************************************************)
EXTENDS Naturals, Sequences

CONSTANTS
    Runs,       \* runs of the fleet
    Subs,       \* submissions
    Unknown,    \* "?", the submission of an aggregate made by a sample
    None,       \* no run, no snapshot, no position
    MaxSamples, \* bound: entries of the stream
    MaxCrashes, \* bound: kills of the ingester
    Settings    \* sets of what can go wrong in a deployment, see What

\* "crash" of the ingester (a lost Redis connection ends main() too), "db" out
\* of reach, an ingester that is "slow" against the sleeps of the fleet and
\* its own, and samples in the "gap" between two XREADs from "$".
What == {"crash", "db", "slow", "gap"}

VARIABLES
    setting,    \* what can go wrong in this deployment
    subOf,      \* subOf[r]: submission of r, or None before its start
    doneAt,     \* doneAt[r]: length of the stream when r was reported done
    stream,     \* arena:samples: the run of each entry
    proc,       \* the ingester: "down", "boot", "up"
    pool,       \* the database pool exists (POOL is not None)
    control,    \* start messages buffered for control_listener
    events,     \* done messages buffered for persist_listener
    listens,    \* channels subscribed: subset of {"control", "events"}
    from,       \* position the pending XREAD reads from, or None
    anchored,   \* last_id is an entry id, no longer "$"
    RUNS,       \* the aggregates, in the order of the dict
    BEST,       \* BEST[s]: snapshot of submission s, or None
    saving,     \* run whose persist_listener sleeps, or None
    snap,       \* snapshot being written, or None
    db,         \* rows of table runs
    shown,      \* the board in arena:snapshot, as BEST; NoBoard if it is empty
                \* or holds a status event
    crashes     \* kills so far

fleetVars  == <<subOf, doneAt, stream>>
brokerVars == <<control, events, listens>>
readVars   == <<from, anchored>>
boardVars  == <<RUNS, BEST, shown>>
saveVars   == <<saving, snap, db>>
procVars   == <<proc, pool, crashes>>
vars == <<setting, subOf, doneAt, stream, proc, pool, control, events,
          listens, from, anchored, RUNS, BEST, saving, snap, db, shown,
          crashes>>

Labels   == Subs \cup {Unknown}
Snapshot == [run : Runs, sub : Labels, got : SUBSET (1..MaxSamples)]

ASSUME TelemetryAssumption ==
    /\ None \notin Runs \cup Subs
    /\ Unknown \notin Subs \cup {None}
    /\ None \notin Snapshot
    /\ None \notin 0..MaxSamples
    /\ MaxSamples \in Nat
    /\ MaxCrashes \in Nat
    /\ Settings \subseteq SUBSET What

NoBoard  == [s \in Labels |-> None]

\* The positions of a run in RUNS: one, or none.
At(r) == {k \in 1..Len(RUNS) : RUNS[k].run = r}

Init ==
    /\ setting \in Settings
    /\ subOf = [r \in Runs |-> None]
    /\ doneAt = [r \in Runs |-> None]
    /\ stream = <<>>
    /\ proc = "up"
    /\ pool = TRUE
    /\ control = <<>>
    /\ events = <<>>
    /\ listens = {"control", "events"}
    /\ from = None
    /\ anchored = FALSE
    /\ RUNS = <<>>
    /\ BEST = NoBoard
    /\ saving = None
    /\ snap = None
    /\ db = {}
    /\ shown = NoBoard
    /\ crashes = 0

-----------------------------------------------------------------------------
(* What the orchestrator and the fleet send.                               *)

\* A message published on a channel reaches who is subscribed at the time.
Published(channel, buffer, r) ==
    IF channel \in listens THEN Append(buffer, r) ELSE buffer

\* The start of a run, to the fleet and to the ingester.
StartRun(r, s) ==
    /\ subOf[r] = None
    /\ subOf' = [subOf EXCEPT ![r] = s]
    /\ control' = Published("control", control, r)
    /\ UNCHANGED <<setting, doneAt, stream, procVars, events, listens, readVars,
                   boardVars, saveVars>>

\* The start has been handled by the time the fleet has something to send
\* (the leader sleeps 1.5 s first), unless the ingester is slow.
StartHandled == "slow" \in setting \/ control = <<>>

\* A worker adds a sample: the probe's counts, a tick of its reporter, or the
\* last tick of a worker that is still at it when the leader reported.
AddSample(r) ==
    /\ subOf[r] # None
    /\ Len(stream) < MaxSamples
    /\ StartHandled
    /\ proc = "up" /\ from = None => "gap" \in setting
    /\ stream' = Append(stream, r)
    /\ UNCHANGED <<setting, subOf, doneAt, procVars, brokerVars, readVars,
                   boardVars, saveVars>>

\* The leader reports the run done.
ReportDone(r) ==
    /\ subOf[r] # None
    /\ doneAt[r] = None
    /\ StartHandled
    /\ doneAt' = [doneAt EXCEPT ![r] = Len(stream)]
    /\ events' = Published("events", events, r)
    /\ UNCHANGED <<setting, subOf, stream, procVars, control, listens, readVars,
                   boardVars, saveVars>>

\* publish_event of the orchestrator: a status (a build, a start, an end of a
\* run) takes the place of the board in arena:snapshot.
StatusEvent ==
    /\ shown' = NoBoard
    /\ UNCHANGED <<setting, fleetVars, procVars, brokerVars, readVars, RUNS, BEST,
                   saveVars>>

Fleet ==
    \E r \in Runs :
        \/ \E s \in Subs : StartRun(r, s)
        \/ AddSample(r)
        \/ ReportDone(r)

-----------------------------------------------------------------------------
(* The tasks of the ingester.                                              *)

\* Mutant of LearnStart: only an aggregate that exists is labelled.
LearnLabelOnly ==
    /\ control # <<>>
    /\ control' = Tail(control)
    /\ RUNS' = [k \in 1..Len(RUNS) |->
                  IF k \in At(Head(control))
                    THEN [RUNS[k] EXCEPT !.sub = subOf[Head(control)]]
                    ELSE RUNS[k]]
    /\ UNCHANGED <<setting, fleetVars, procVars, events, listens, readVars, BEST,
                   shown, saveVars>>

\* control_listener: a start makes a new aggregate, in the place of one that
\* a sample of the run has made.
LearnStart ==
    /\ control # <<>>
    /\ control' = Tail(control)
    /\ LET r   == Head(control)
           agg == [run |-> r, sub |-> subOf[r], got |-> {}]
       IN  RUNS' = IF At(r) = {} THEN Append(RUNS, agg)
                   ELSE [k \in 1..Len(RUNS) |->
                           IF k \in At(r) THEN agg ELSE RUNS[k]]
    /\ UNCHANGED <<setting, fleetVars, procVars, events, listens, readVars, BEST,
                   shown, saveVars>>

\* Mutant of Apply: the aggregate of a sample is looked up by its label.
ApplyUnlabelled(aggs, i) ==
    IF \E k \in 1..Len(aggs) : aggs[k].run = stream[i] /\ aggs[k].sub = Unknown
      THEN aggs
      ELSE Append(aggs, [run |-> stream[i], sub |-> Unknown, got |-> {i}])

\* _apply: entry i is folded into the aggregate of its run, which is made if
\* it does not exist.
Apply(aggs, i) ==
    IF \E k \in 1..Len(aggs) : aggs[k].run = stream[i]
      THEN [k \in 1..Len(aggs) |->
              IF aggs[k].run = stream[i]
                THEN [aggs[k] EXCEPT !.got = @ \cup {i}]
                ELSE aggs[k]]
      ELSE Append(aggs, [run |-> stream[i], sub |-> Unknown, got |-> {i}])

\* XREAD from "$" is sent: it reads what is added from now on.
SendRead ==
    /\ proc = "up"
    /\ from = None
    /\ from' = Len(stream)
    /\ UNCHANGED <<setting, fleetVars, procVars, brokerVars, anchored, boardVars,
                   saveVars>>

\* It returns nothing in half a second, and "$" is asked for again.
ReadNothing ==
    /\ from = Len(stream)
    /\ ~anchored
    /\ from' = None
    /\ UNCHANGED <<setting, fleetVars, procVars, brokerVars, anchored, boardVars,
                   saveVars>>

\* It returns entries, which are folded in one by one; the next XREAD reads
\* after them.  An entry that was just missed is the next answer's, so the
\* steps of one answer need not be one.
ReadSample ==
    /\ from # None
    /\ from < Len(stream)
    /\ RUNS' = Apply(RUNS, from + 1)
    /\ from' = from + 1
    /\ anchored' = TRUE
    /\ UNCHANGED <<setting, fleetVars, procVars, brokerVars, BEST, shown,
                   saveVars>>

\* persist_listener takes a done message; a run it does not know is skipped.
TakeDone ==
    /\ events # <<>>
    /\ saving = None
    /\ events' = Tail(events)
    /\ saving' = IF At(Head(events)) = {} THEN None ELSE Head(events)
    /\ UNCHANGED <<setting, fleetVars, procVars, control, listens, readVars,
                   boardVars, snap, db>>

\* Mutant of TakeSnapshot: no sleep before the snapshot.
TakeSnapshotAtOnce ==
    /\ saving # None
    /\ snap = None
    /\ \E k \in At(saving) : snap' = RUNS[k]
    /\ UNCHANGED <<setting, fleetVars, procVars, brokerVars, readVars, boardVars,
                   saving, db>>

\* A second later the snapshot is taken.  Unless the ingester is slow, that
\* is time enough to have read what was added before the report.
TakeSnapshot ==
    /\ saving # None
    /\ snap = None
    /\ "slow" \notin setting /\ from # None => from >= doneAt[saving]
    /\ \E k \in At(saving) : snap' = RUNS[k]
    /\ UNCHANGED <<setting, fleetVars, procVars, brokerVars, readVars, boardVars,
                   saving, db>>

\* store.persist_run: the row is inserted; without a pool nothing is, and an
\* exception is logged.
Persist ==
    /\ snap # None
    /\ \/ pool /\ db' = db \cup {snap}
       \/ (~pool \/ "db" \in setting) /\ UNCHANGED db
    /\ saving' = None
    /\ snap' = None
    /\ UNCHANGED <<setting, fleetVars, procVars, brokerVars, readVars, boardVars>>

\* The snapshot of the last aggregate of each submission takes its place.
Latest ==
    [s \in Labels |->
        LET mine == {k \in 1..Len(RUNS) : RUNS[k].sub = s}
        IN  IF mine = {} THEN BEST[s]
            ELSE RUNS[CHOOSE k \in mine : \A j \in mine : j <= k]]

\* Mutant of Publish: a board that has not changed is not shown again.
PublishChanges ==
    /\ proc = "up"
    /\ BEST' = Latest
    /\ shown' = IF BEST' = BEST THEN shown ELSE BEST'
    /\ UNCHANGED <<setting, fleetVars, procVars, brokerVars, readVars, RUNS,
                   saveVars>>

\* publisher: every half second the board is brought up to date and, if there
\* is anything on it, shown, whatever took its place.
Publish ==
    /\ proc = "up"
    /\ BEST' = Latest
    /\ shown' = IF BEST' = NoBoard THEN shown ELSE BEST'
    /\ UNCHANGED <<setting, fleetVars, procVars, brokerVars, readVars, RUNS,
                   saveVars>>

-----------------------------------------------------------------------------
(* Kills and restarts.                                                     *)

\* The process is killed, and all it held in memory is gone.
Crash ==
    /\ "crash" \in setting
    /\ crashes < MaxCrashes
    /\ proc # "down"
    /\ crashes' = crashes + 1
    /\ proc' = "down"
    /\ pool' = FALSE
    /\ control' = <<>>
    /\ events' = <<>>
    /\ listens' = {}
    /\ from' = None
    /\ anchored' = FALSE
    /\ RUNS' = <<>>
    /\ BEST' = NoBoard
    /\ saving' = None
    /\ snap' = None
    /\ UNCHANGED <<setting, fleetVars, db, shown>>

\* It is started again: store.connect, or no pool after 90 attempts.
Connect ==
    /\ proc = "down"
    /\ proc' = "boot"
    /\ pool' \in {TRUE} \cup (IF "db" \in setting THEN {FALSE} ELSE {})
    /\ UNCHANGED <<setting, fleetVars, crashes, brokerVars, readVars, boardVars,
                   saveVars>>

\* Mutant of Recover: the board starts blank.
RecoverNothing ==
    /\ proc = "boot"
    /\ proc' = "up"
    /\ UNCHANGED <<setting, fleetVars, pool, crashes, brokerVars, readVars,
                   boardVars, saveVars>>

\* store.load_best: one row, the best-scoring, of each submission that has any.
Recover ==
    /\ proc = "boot"
    /\ proc' = "up"
    /\ BEST' \in {b \in [Labels -> db \cup {None}] :
                    \A s \in Labels :
                       LET rows == IF pool THEN {x \in db : x.sub = s} ELSE {}
                       IN  IF rows = {} THEN b[s] = None ELSE b[s] \in rows}
    /\ UNCHANGED <<setting, fleetVars, pool, crashes, brokerVars, readVars, RUNS,
                   shown, saveVars>>

\* The listeners subscribe, each in its own time.
Subscribe(channel) ==
    /\ proc = "up"
    /\ channel \notin listens
    /\ listens' = listens \cup {channel}
    /\ UNCHANGED <<setting, fleetVars, procVars, control, events, readVars,
                   boardVars, saveVars>>

ControlListener  == LearnStart \/ Subscribe("control")
PersistListener  == TakeDone \/ TakeSnapshot \/ Persist \/ Subscribe("events")
Consumer         == SendRead \/ ReadNothing \/ ReadSample
Main             == Connect \/ Recover

Next ==
    \/ Fleet
    \/ ControlListener
    \/ PersistListener
    \/ Consumer
    \/ Publish
    \/ Main
    \/ Crash
    \/ StatusEvent

\* The event loop runs every ready task, and a killed process is restarted.
\* The fleet, the crash and status events owe nothing.
Fairness ==
    /\ WF_vars(ControlListener)
    /\ WF_vars(PersistListener)
    /\ WF_vars(Consumer)
    /\ WF_vars(Publish)
    /\ WF_vars(Main)

Spec     == Init /\ [][Next]_vars
LiveSpec == Spec /\ Fairness

-----------------------------------------------------------------------------
(* Properties.                                                             *)

\* Types of the variables; a run has one aggregate at most, as RUNS is a dict.
TypeOK ==
    /\ setting \in Settings
    /\ subOf \in [Runs -> Subs \cup {None}]
    /\ doneAt \in [Runs -> 0..MaxSamples \cup {None}]
    /\ stream \in Seq(Runs) /\ Len(stream) <= MaxSamples
    /\ proc \in {"down", "boot", "up"}
    /\ pool \in BOOLEAN
    /\ control \in Seq(Runs)
    /\ events \in Seq(Runs)
    /\ listens \subseteq {"control", "events"}
    /\ from \in 0..MaxSamples \cup {None}
    /\ anchored \in BOOLEAN
    /\ RUNS \in Seq(Snapshot)
    /\ \A j, k \in 1..Len(RUNS) : RUNS[j].run = RUNS[k].run => j = k
    /\ BEST \in [Labels -> Snapshot \cup {None}]
    /\ saving \in Runs \cup {None}
    /\ snap \in Snapshot \cup {None}
    /\ db \subseteq Snapshot
    /\ shown \in [Labels -> Snapshot \cup {None}]
    /\ crashes \in 0..MaxCrashes

\* A run is written with its full curve: the row of a run under its
\* submission's name holds every sample added before the run was reported, as
\* long as the ingester keeps up and reads from the first sample on.  A restart
\* in mid-run loses samples, but then it loses the name with them.
Curve(row) ==
    row.sub # Unknown =>
        \A i \in 1..doneAt[row.run] : stream[i] = row.run => i \in row.got
RowsComplete ==
    setting \cap {"slow", "gap"} = {} => \A row \in db : Curve(row)

\* Every board the publisher writes has each submission with a finished run in
\* the database, across kills and restarts of the ingester.
FinishedStay ==
    [][Publish =>
         \A row \in db : "db" \notin setting /\ row.sub \in Subs
                            => shown'[row.sub] # None]_vars

\* Such a submission is on the board in arena:snapshot again and again, though
\* kills keep the board from being written and status events overwrite it: a
\* fresh dashboard is sent no board for a while, but not for good.
BoardReturns ==
    \A s \in Subs :
        "db" \notin setting /\ (\E row \in db : row.sub = s) ~> shown[s] # None

\* A run that is reported done is written to the database if nothing fails.
DonePersisted ==
    \A r \in Runs :
        setting \subseteq {"gap"} /\ doneAt[r] # None
            ~> \E row \in db : row.run = r

\* Restarts lose no finished run: the row comes, whenever the ingester was
\* killed.
NoFinishedRunLost ==
    \A r \in Runs :
        "db" \notin setting /\ doneAt[r] # None ~> \E row \in db : row.run = r
-----------------------------------------------------------------------------
(* The inductive invariant of RowsComplete and FinishedStay.               *)

\* Messages and samples are of started runs, reports of runs reported.
Sent ==
    /\ \A i \in 1..Len(control) : subOf[control[i]] # None
    /\ \A i \in 1..Len(events) : doneAt[events[i]] # None
    /\ \A i \in 1..Len(stream) : subOf[stream[i]] # None
    /\ \A r \in Runs : doneAt[r] # None => doneAt[r] <= Len(stream)

\* A process that is not up holds nothing; one with a database has its pool.
Blank ==
    /\ proc # "up" => /\ RUNS = <<>> /\ control = <<>> /\ events = <<>>
                      /\ saving = None /\ snap = None /\ from = None /\ listens = {}
    /\ "db" \notin setting /\ proc # "down" => pool

\* What has been read of the stream, or need not be: nothing is added while
\* no XREAD is pending, unless there is a gap.
Read == IF from = None THEN Len(stream) ELSE from

\* An aggregate under a submission's name has all that was read of its run,
\* as the start was handled before the first sample.
Aggregates ==
    /\ Read <= Len(stream)
    /\ \A k \in 1..Len(RUNS) : RUNS[k].sub \in {Unknown, subOf[RUNS[k].run]}
    /\ "slow" \notin setting =>
          \A i \in 1..Len(control), j \in 1..Len(stream) : stream[j] # control[i]
    /\ setting \cap {"slow", "gap"} = {} =>
          \A k \in 1..Len(RUNS) : RUNS[k].sub # Unknown =>
              \A i \in 1..Read : stream[i] = RUNS[k].run => i \in RUNS[k].got

\* What is being written is of a reported run and will be a full row.
Saving ==
    /\ saving # None => doneAt[saving] # None
    /\ \A row \in db : doneAt[row.run] # None
    /\ snap # None =>
          /\ doneAt[snap.run] # None
          /\ setting \cap {"slow", "gap"} = {} => Curve(snap)

\* A submission with a row is on the next board.
OnBoard(s) == BEST[s] # None \/ \E k \in 1..Len(RUNS) : RUNS[k].sub = s
Boarded ==
    /\ "db" \notin setting /\ proc = "up" =>
          \A row \in db : row.sub \in Subs => OnBoard(row.sub)
    /\ snap # None /\ snap.sub \in Subs => OnBoard(snap.sub)

TelemetryInv ==
    TypeOK /\ Sent /\ Blank /\ Aggregates /\ Saving /\ Boarded /\ RowsComplete
=============================================================================
