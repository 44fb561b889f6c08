--------------------------------- MODULE Bot ---------------------------------
(***************************************************************************)
(* One load bot of a fleet worker (bot_fleet/fleet.py, bot): a sender that   *)
(* fires orders at the contestant's engine, up to an in-flight window in the *)
(* closed-loop mode or paced with a cap on what is outstanding in the open   *)
(* one, and a receiver task that matches acks to send times.  The engine is  *)
(* a contestant's program: it may crash, fall silent, ack twice or send what *)
(* is no ack at all.                                                       *)
(*                                                                         *)
(* Sender and receiver share one asyncio loop; an action is the code between *)
(* two awaits.  Orders are numbered in the order they are sent, so that      *)
(* stats.sent is also the id of the last order.                             *)
(***************************************************************************)
EXTENDS Naturals, Sequences, FiniteSets

CONSTANTS
    Modes,          \* phases the bot is used in: "closed", "open"
    Window,         \* WINDOW: permits of the semaphore (closed)
    MaxOutstanding, \* MAX_OUTSTANDING: overload guard (open)
    Burst,          \* state.burst: orders per wake-up (open)
    MaxSent,        \* bound: orders sent before the run loop halts the bot
    Faults          \* what engines may do: "crash", "silent", "twice",
                    \* "garbage"

ASSUME BotAssumption ==
    /\ Modes \subseteq {"closed", "open"}
    /\ Window \in Nat \ {0}
    /\ MaxOutstanding \in Nat \ {0}
    /\ Burst \in Nat \ {0}
    /\ MaxSent \in Nat
    /\ Faults \subseteq {"crash", "silent", "twice", "garbage"}

VARIABLES
    mode,       \* open_loop
    faults,     \* what the engine at hand does sooner or later
    pc,         \* sender: "connect", "top", "acquire", "pace", "send",
                \*         "drain", "done"
    rx,         \* receiver task: "off", "run", "dead", "cancelled"
    halt,       \* stop_event is set or the deadline has passed
    left,       \* orders left to fire in this wake-up
    sem,        \* permits of the semaphore
    sendTimes,  \* keys of send_times: orders sent and not acked
    outstanding,\* the counter of the same name
    sent,       \* stats.sent of this bot
    acked,      \* stats.acked
    errors,     \* stats.errors
    conn,       \* the WebSocket connection is open
    engine,     \* engine: "up", "silent", "down"
    wire,       \* orders on their way to the engine or waiting in it
    acks        \* acks on their way to the bot; 0 is a message that does not
                \* parse

env        == <<mode, faults>>
senderVars == <<pc, left, sent, errors>>
countVars  == <<sendTimes, outstanding, acked>>
netVars    == <<conn, engine, wire, acks>>
vars == <<mode, faults, pc, rx, halt, left, sem, sendTimes, outstanding,
          sent, acked, errors, conn, engine, wire, acks>>

\* Orders fired per wake-up: one in the closed mode.
PerWake == IF mode = "closed" THEN 1 ELSE Burst

Init ==
    /\ mode \in Modes
    /\ faults \in SUBSET Faults
    /\ pc = "connect"
    /\ rx = "off"
    /\ halt = FALSE
    /\ left = 0
    /\ sem = Window
    /\ sendTimes = {}
    /\ outstanding = 0
    /\ sent = 0
    /\ acked = 0
    /\ errors = 0
    /\ conn = FALSE
    /\ engine = "up"
    /\ wire = <<>>
    /\ acks = <<>>

-----------------------------------------------------------------------------
(* The sender.                                                             *)

\* The connection is made and the receiver task started.
Connect ==
    /\ pc = "connect"
    /\ engine # "down"
    /\ conn' = TRUE
    /\ rx' = "run"
    /\ pc' = "top"
    /\ UNCHANGED <<env, halt, left, sem, countVars, sent, errors, engine,
                   wire, acks>>

\* The engine is gone: the outer except counts one error.
ConnectFails ==
    /\ pc = "connect"
    /\ engine = "down"
    /\ errors' = errors + 1
    /\ pc' = "done"
    /\ UNCHANGED <<env, rx, halt, left, sem, countVars, sent, netVars>>

\* The while condition.  stop_event and the deadline are looked at here only.
Loop ==
    /\ pc = "top"
    /\ ~halt
    /\ sent + PerWake <= MaxSent
    /\ pc' = IF mode = "closed" THEN "acquire" ELSE "pace"
    /\ UNCHANGED <<env, rx, halt, left, sem, countVars, sent, errors,
                   netVars>>

LoopEnds ==
    /\ pc = "top"
    /\ halt
    /\ pc' = "drain"
    /\ UNCHANGED <<env, rx, halt, left, sem, countVars, sent, errors,
                   netVars>>

\* Closed loop: wait for a permit of the window.
Acquire ==
    /\ pc = "acquire"
    /\ sem > 0
    /\ sem' = sem - 1
    /\ left' = 1
    /\ pc' = "send"
    /\ UNCHANGED <<env, rx, halt, countVars, sent, errors, netVars>>

\* Open loop: the pacing sleep ends and a burst begins.
Pace ==
    /\ pc = "pace"
    /\ left' = Burst
    /\ pc' = "send"
    /\ UNCHANGED <<env, rx, halt, sem, countVars, sent, errors, netVars>>

\* Mutant of Drop: a saturated bot waits for acks instead of dropping.
DropNothing ==
    /\ pc = "send"
    /\ mode = "open"
    /\ outstanding >= MaxOutstanding
    /\ UNCHANGED vars

\* Open loop, saturated: the rest of the burst is dropped.
Drop ==
    /\ pc = "send"
    /\ mode = "open"
    /\ outstanding >= MaxOutstanding
    /\ left' = 0
    /\ pc' = "top"
    /\ UNCHANGED <<env, rx, halt, sem, countVars, sent, errors, netVars>>

\* Mutant of Record: the guard is not looked at inside the burst.
RecordUnguarded ==
    /\ pc = "send"
    /\ left < Burst \/ outstanding < MaxOutstanding
    /\ sent' = sent + 1
    /\ sendTimes' = sendTimes \cup {sent + 1}
    /\ outstanding' = outstanding + 1
    /\ UNCHANGED acked

\* The book-keeping of an order, done before ws.send is awaited.
Record ==
    /\ pc = "send"
    /\ mode = "open" => outstanding < MaxOutstanding
    /\ sent' = sent + 1
    /\ sendTimes' = sendTimes \cup {sent + 1}
    /\ outstanding' = outstanding + 1
    /\ UNCHANGED acked

Send ==
    /\ Record
    /\ conn
    /\ wire' = Append(wire, sent + 1)
    /\ left' = left - 1
    /\ pc' = IF left = 1 THEN "top" ELSE "send"
    /\ UNCHANGED <<env, rx, halt, sem, errors, conn, engine, acks>>

\* ws.send raises on a closed connection: the permit is given back and the
\* exception leaves the bot, which counts one error.
SendRaises ==
    /\ Record
    /\ ~conn
    /\ sem' = IF mode = "closed" THEN sem + 1 ELSE sem
    /\ errors' = errors + 1
    /\ left' = 0
    /\ pc' = "done"
    /\ UNCHANGED <<env, rx, halt, netVars>>

\* After half a second of draining the receiver is cancelled and the
\* connection closed.  Acks still under way are lost.
Drained ==
    /\ pc = "drain"
    /\ pc' = "done"
    /\ rx' = "cancelled"
    /\ conn' = FALSE
    /\ wire' = <<>>
    /\ acks' = <<>>
    /\ UNCHANGED <<env, halt, left, sem, countVars, sent, errors, engine>>

Sender ==
    \/ Connect \/ ConnectFails \/ Loop \/ LoopEnds \/ Acquire \/ Pace
    \/ Drop \/ Send \/ SendRaises \/ Drained

-----------------------------------------------------------------------------
(* The receiver.                                                           *)

\* Mutants of Receive: every ack counts, the counter goes down for every ack,
\* no permit is given back.
ReceiveCountsAll ==
    /\ rx = "run"
    /\ acks # <<>>
    /\ Head(acks) # 0
    /\ acks' = Tail(acks)
    /\ sendTimes' = sendTimes \ {Head(acks)}
    /\ acked' = acked + 1
    /\ outstanding' = Cardinality(sendTimes')
    /\ sem' = IF mode = "closed" THEN sem + 1 ELSE sem
    /\ UNCHANGED <<env, senderVars, rx, halt, conn, engine, wire>>

ReceiveCountsDown ==
    /\ rx = "run"
    /\ acks # <<>>
    /\ Head(acks) # 0
    /\ acks' = Tail(acks)
    /\ sendTimes' = sendTimes \ {Head(acks)}
    /\ outstanding' = outstanding - 1
    /\ sem' = IF mode = "closed" THEN sem + 1 ELSE sem
    /\ UNCHANGED <<env, senderVars, acked, rx, halt, conn, engine, wire>>

ReceiveKeepsPermit ==
    /\ rx = "run"
    /\ acks # <<>>
    /\ Head(acks) # 0
    /\ acks' = Tail(acks)
    /\ sendTimes' = sendTimes \ {Head(acks)}
    /\ acked' = acked + 1
    /\ outstanding' = outstanding - 1
    /\ UNCHANGED <<env, senderVars, sem, rx, halt, conn, engine, wire>>

\* An ack is matched to its send time once; every ack releases a permit.
Receive ==
    /\ rx = "run"
    /\ acks # <<>>
    /\ Head(acks) # 0
    /\ acks' = Tail(acks)
    /\ IF Head(acks) \in sendTimes
         THEN /\ sendTimes' = sendTimes \ {Head(acks)}
              /\ acked' = acked + 1
              /\ outstanding' = outstanding - 1
         ELSE UNCHANGED countVars
    /\ sem' = IF mode = "closed" THEN sem + 1 ELSE sem
    /\ UNCHANGED <<env, senderVars, rx, halt, conn, engine, wire>>

\* The task ends when a message does not parse, or when ws.recv raises on a
\* closed connection whose buffered acks are read; nobody awaits it.
ReceiverDies ==
    /\ rx = "run"
    /\ IF acks = <<>> THEN ~conn ELSE Head(acks) = 0
    /\ rx' = "dead"
    /\ UNCHANGED <<env, senderVars, halt, sem, countVars, netVars>>

Receiver == Receive \/ ReceiverDies

-----------------------------------------------------------------------------
(* The engine and the run loop.                                            *)

\* The engine acks an order it takes: once, or as badly as it may.
EngineAcks ==
    /\ engine = "up"
    /\ conn
    /\ wire # <<>>
    /\ wire' = Tail(wire)
    /\ \/ acks' = Append(acks, Head(wire))
       \/ /\ "twice" \in faults
          /\ acks' = acks \o <<Head(wire), Head(wire)>>
       \/ /\ "garbage" \in faults
          /\ acks' = Append(acks, 0)
    /\ UNCHANGED <<env, senderVars, rx, halt, sem, countVars, conn, engine>>

\* It stops answering with the connection open.
EngineSilent ==
    /\ "silent" \in faults
    /\ engine = "up"
    /\ engine' = "silent"
    /\ UNCHANGED <<env, senderVars, rx, halt, sem, countVars, conn, wire,
                   acks>>

\* It exits, or its sandbox is stopped: the connection closes, and acks under
\* way may be lost with it.
EngineCrash ==
    /\ "crash" \in faults
    /\ engine # "down"
    /\ engine' = "down"
    /\ conn' = FALSE
    /\ wire' = <<>>
    /\ acks' \in {acks, <<>>}
    /\ UNCHANGED <<env, senderVars, rx, halt, sem, countVars>>

\* run_closed, run_sweep or run_burst sets stop_event, or the deadline passes.
Halt ==
    /\ ~halt
    /\ halt' = TRUE
    /\ UNCHANGED <<env, senderVars, rx, sem, countVars, netVars>>

Next == Sender \/ Receiver \/ EngineAcks \/ EngineSilent \/ EngineCrash \/ Halt

\* The loop runs every ready task, the run loop halts the bot after its last
\* step, and an engine that is up acks what it was sent.  Crashing and falling
\* silent are never owed.
Fairness ==
    /\ WF_vars(Sender)
    /\ WF_vars(Receiver)
    /\ WF_vars(EngineAcks)
    /\ WF_vars(Halt)

Spec     == Init /\ [][Next]_vars
LiveSpec == Spec /\ Fairness

-----------------------------------------------------------------------------
(* Properties.                                                             *)

\* Types of the variables; an id under way was sent.
TypeOK ==
    /\ mode \in Modes
    /\ faults \subseteq Faults
    /\ pc \in {"connect", "top", "acquire", "pace", "send", "drain", "done"}
    /\ rx \in {"off", "run", "dead", "cancelled"}
    /\ halt \in BOOLEAN
    /\ left \in Nat
    /\ sem \in Nat
    /\ sendTimes \subseteq 1..sent
    /\ outstanding \in Nat
    /\ sent \in Nat
    /\ acked \in Nat
    /\ errors \in Nat
    /\ conn \in BOOLEAN
    /\ engine \in {"up", "silent", "down"}
    /\ wire \in Seq(1..sent)
    /\ acks \in Seq(0..sent)

\* Every order sent is either acked once or outstanding, and the counter that
\* guards the open loop agrees with the send times, even when an engine acks
\* an order twice or the connection breaks.
Accounting ==
    /\ outstanding = Cardinality(sendTimes)
    /\ sent = acked + outstanding

\* Closed loop: no permit is lost.  Each is free, held by the sender, or out
\* with an order that waits for its ack; only an engine that acks twice makes
\* more of them.
PermitsConserved ==
    mode = "closed" /\ pc # "done" =>
        LET permits == sem + Cardinality(sendTimes)
                           + (IF pc = "send" THEN 1 ELSE 0)
        IN  permits >= Window /\ ("twice" \notin faults => permits = Window)

\* A closed-loop bot has at most WINDOW orders outstanding, unless its engine
\* acks twice; an open-loop bot at most MAX_OUTSTANDING, in the middle of a
\* burst too and whatever its engine does.
InFlightBound ==
    /\ mode = "closed" /\ "twice" \notin faults =>
          Cardinality(sendTimes) <= Window
    /\ mode = "open" => Cardinality(sendTimes) <= MaxOutstanding

\* A bot that is told to stop ends, and with it the gather of its phase: in
\* the open loop whatever the engine does, in the closed loop as long as the
\* engine acks every order.
HaltEndsBot ==
    halt /\ (mode = "open" \/ faults \subseteq {"twice"}) ~> pc = "done"

\* Errors never keep a run from completing: a bot told to stop ends in the
\* closed loop too.
HaltEndsEveryBot == halt ~> pc = "done"

-----------------------------------------------------------------------------
(* The inductive invariant.                                                *)

\* The sender keeps to its mode, and a wake-up has orders left to fire until it
\* is over: one in the closed loop.
Firing ==
    /\ pc = "acquire" => mode = "closed"
    /\ pc = "pace" => mode = "open"
    /\ pc = "send" => left > 0 /\ (mode = "closed" => left = 1)

\* Unless the engine acks twice, what is under way is one message for an order
\* that waits for its ack: each will match a send time when it is received.
UnderWay ==
    "twice" \notin faults =>
        /\ \A i \in 1..Len(wire) : wire[i] \in sendTimes
        /\ \A i \in 1..Len(acks) : acks[i] # 0 => acks[i] \in sendTimes
        /\ \A i, j \in 1..Len(wire) : wire[i] = wire[j] => i = j
        /\ \A i, j \in 1..Len(acks) : acks[i] = acks[j] /\ acks[i] # 0 => i = j
        /\ \A i \in 1..Len(wire), j \in 1..Len(acks) : wire[i] # acks[j]

BotInv ==
    /\ TypeOK
    /\ Accounting
    /\ PermitsConserved
    /\ InFlightBound
    /\ Firing
    /\ UnderWay
=============================================================================
