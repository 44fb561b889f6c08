-------------------------------- MODULE Probe --------------------------------
(***************************************************************************)
(* Clients of a reference engine: the correctness probe (scenarios.run) on  *)
(* a book of its own, or load clients.  The probe takes whatever comes next *)
(* for the ack it waits for, and counts as fills of its taker what carries  *)
(* its id.  Where the engine is slow, its waits of one second run out, and  *)
(* the answers reach it in the middle of the next iteration.               *)
(***************************************************************************)
EXTENDS EngineServer

CONSTANTS
    Iterations, \* iterations of the probe
    Prober,     \* connection of the probe
    Script,     \* Script[c]: the requests of a load client
    Modes       \* "probe", "slow" (its waits may run out), "load"

\* The ids of an iteration, and its price level.
ProbeId(i, k) == 10 * i + k

ProbeRequest(i, k) ==
    CASE k = 1 -> Limit(ProbeId(i, 1), "buy", i, 5)
      [] k = 2 -> Limit(ProbeId(i, 2), "buy", i, 5)
      [] k = 3 -> Limit(ProbeId(i, 3), "sell", i, 6)
      [] k = 4 -> CancelOf(ProbeId(i, 4), ProbeId(i, 2))

ASSUME ProbeAssumption ==
    /\ Iterations \in Nat \ {0}
    /\ Prober \in Conns
    /\ Modes \subseteq {"probe", "slow", "load"}
    /\ \A i \in 1..Iterations, k \in 1..4 : ProbeRequest(i, k) \in Request
    /\ \A c \in Conns : Script[c] \in Seq(Request)

VARIABLES
    mode,       \* who connects, in this behaviour
    iter,       \* iteration of the probe
    order,      \* its request: 1, 2, 3 (makers A and B, taker C), 4 (cancel)
    at,         \* what it does: "send", "ack", "fills" or "end"
    seen,       \* messages it has received
    got,        \* fills of the taker of this iteration
    late,       \* iterations whose wait for fills ran out
    failed,     \* iterations that did not pass
    scripted    \* scripted[c]: requests a load client has sent

probeVars  == <<mode, iter, order, at, seen, got, late, failed, scripted>>
systemVars == <<serverVars, probeVars>>

ProbeInit ==
    /\ ServerInit
    /\ mode \in Modes
    /\ iter = 1
    /\ order = 1
    /\ at = "send"
    /\ seen = 0
    /\ got = <<>>
    /\ late = {}
    /\ failed = {}
    /\ scripted = [c \in Conns |-> 0]

\* Who connects: the probe alone, or the load clients.
Users == IF mode = "load" THEN Conns \ {Prober} ELSE {Prober}

ProbeSends ==
    /\ at = "send"
    /\ ClientSends(Prober, ProbeRequest(iter, order))
    /\ at' = "ack"
    /\ seen' = IF seen = 0 THEN 1 ELSE seen
    /\ UNCHANGED <<mode, iter, order, got, late, failed, scripted>>

\* After the cancel comes the next iteration, after the others the next order.
NextOrder ==
    IF order < 4
      THEN /\ order' = order + 1
           /\ at' = IF order = 3 THEN "fills" ELSE "send"
           /\ UNCHANGED <<iter, got>>
      ELSE /\ order' = 1
           /\ iter' = iter + 1
           /\ got' = <<>>
           /\ at' = IF iter = Iterations THEN "end" ELSE "send"

\* ws.recv returns the next message, which is taken for the ack.
ProbeAcked ==
    /\ at = "ack"
    /\ client[Prober] = "here"
    /\ seen < Len(wire[Prober])
    /\ seen' = seen + 1
    /\ NextOrder
    /\ UNCHANGED <<serverVars, mode, late, failed, scripted>>

\* The wait for the ack of the cancel runs out; the others have no timeout.
AckRunsOut ==
    /\ mode = "slow"
    /\ at = "ack"
    /\ order = 4
    /\ client[Prober] = "here"
    /\ NextOrder
    /\ UNCHANGED <<serverVars, mode, seen, late, failed, scripted>>

\* The iteration passes if the taker was filled by A, then by B.
Verdict(fs) ==
    /\ failed' = IF fs = << <<ProbeId(iter, 1), 5>>, <<ProbeId(iter, 2), 1>> >>
                   THEN failed ELSE failed \cup {iter}
    /\ at' = "send"

\* Mutant of IsFill: the fill of any taker counts.
IsAnyFill(m) == m.kind = "fill"

\* A fill of the taker of this iteration.
IsFill(m) == m.kind = "fill" /\ m.id = ProbeId(iter, 3)

\* The next message, while fewer than two fills have come.
ProbeReceives ==
    /\ at = "fills"
    /\ client[Prober] = "here"
    /\ seen < Len(wire[Prober])
    /\ seen' = seen + 1
    /\ LET m == wire[Prober][seen + 1]
       IN  got' = IF IsFill(m) THEN Append(got, <<m.maker, m.qty>>) ELSE got
    /\ IF Len(got') = 2 THEN Verdict(got') ELSE UNCHANGED <<failed, at>>
    /\ UNCHANGED <<serverVars, mode, iter, order, late, scripted>>

FillsRunOut ==
    /\ mode = "slow"
    /\ at = "fills"
    /\ client[Prober] = "here"
    /\ late' = late \cup {iter}
    /\ Verdict(got)
    /\ UNCHANGED <<serverVars, mode, iter, order, seen, got, scripted>>

\* The end of "async with".
ProbeLeaves ==
    /\ at = "end"
    /\ ClientLeaves(Prober)
    /\ UNCHANGED probeVars

\* A load client sends its orders without waiting for anything.
LoadSends(c) ==
    /\ c # Prober
    /\ scripted[c] < Len(Script[c])
    /\ ClientSends(c, Script[c][scripted[c] + 1])
    /\ scripted' = [scripted EXCEPT ![c] = @ + 1]
    /\ UNCHANGED <<mode, iter, order, at, seen, got, late, failed>>

LoadLeaves(c) ==
    /\ c # Prober
    /\ scripted[c] = Len(Script[c])
    /\ ClientLeaves(c)
    /\ UNCHANGED probeVars

Probing   == ProbeSends \/ ProbeAcked \/ ProbeReceives \/ ProbeLeaves
Connects  == \E c \in Users : ClientConnects(c) /\ UNCHANGED probeVars
EngineRuns == \E c \in Conns : EngineStep(c) /\ UNCHANGED probeVars

ProbeNext ==
    \/ Connects \/ EngineRuns \/ Probing \/ AckRunsOut \/ FillsRunOut
    \/ \E c \in Users :
          \/ LoadSends(c) \/ LoadLeaves(c)
          \/ ClientDies(c) /\ UNCHANGED probeVars

\* The engine works as long as there is work: none of its steps repeats for
\* ever, so no thread or connection needs fairness of its own.  Clients connect
\* and the probe goes on; load clients and kills are free.
Fairness == WF_systemVars(EngineRuns) /\ WF_systemVars(Connects) /\ WF_systemVars(Probing)

ProbeSpec == ProbeInit /\ [][ProbeNext]_systemVars /\ Fairness

-----------------------------------------------------------------------------
(* Properties.                                                             *)

Message ==
    {Hello, CloseFrame} \cup [kind : {"ack"}, id : Ids]
      \cup [kind : {"fill"}, id : Ids, px : Prices, qty : Nat, maker : Ids]

ServerTypeOK ==
    /\ TypeOK
    /\ client \in [Conns -> {"out", "here", "leaving", "gone"}]
    /\ inbox \in [Conns -> Seq(Request \cup {CloseFrame})]
    /\ stage \in [Conns -> {"none", "http", "ws", "ended"}]
    /\ websockets \subseteq Conns
    /\ step \in [Conns -> {"read", "ack", "lock", "book", "reply"}]
    /\ request \in [Conns -> Request \cup {None}]
    /\ replies \in [Conns -> Seq(Fill)]
    /\ {posts, writeBuffers, sending, sent, wire} \subseteq [Conns -> Seq(Message)]
    /\ {writing, closing} \subseteq [Conns -> BOOLEAN]

\* One handler at most is in the book, exactly while an order is matched.
LockInv ==
    /\ \A c \in Conns : step[c] = "book" => taker # None
    /\ taker # None => \E c \in Conns : \A d \in Conns : step[d] = "book" <=> d = c

\* A handler has a request while it is at work.
HandlerInv(c) ==
    /\ (request[c] = None) <=> (step[c] = "read")
    /\ step[c] # "read" => stage[c] = "ws"

\* What is buffered waits for a write that is under way.
BufferInv(c) ==
    /\ sending[c] # <<>> => writing[c]
    /\ writing[c] \/ writeBuffers[c] = <<>> \/ closing[c]
    /\ closing[c] => stage[c] = "ended" \/ client[c] = "gone"
    /\ ~Crow => sending[c] = <<>> /\ writeBuffers[c] = <<>> /\ posts[c] = <<>>
    /\ stage[c] = "http" => Crow
    /\ stage[c] \in {"none", "http"} =>
          /\ sent[c] = <<>> /\ wire[c] = <<>>
          /\ sending[c] = <<>> /\ writeBuffers[c] = <<>> /\ posts[c] = <<>>

\* What a handler sent to a client that is there has been written, or is in
\* the hands of async_write, buffered or posted, in this order.
Ledger(c) ==
    stage[c] = "ws" /\ client[c] # "gone" =>
        sent[c] = wire[c] \o (sending[c] \o (writeBuffers[c] \o posts[c]))

\* A client receives what its handler sent in the order it was sent, with
\* nothing left out: the probe counts on the ack coming before the fills.
Prefix(s, t) == Len(s) <= Len(t) /\ s = SubSeq(t, 1, Len(s))
InOrder == \A c \in Conns : Prefix(wire[c], sent[c])

\* The inductive invariant of the server.
ConnInv(c) == HandlerInv(c) /\ BufferInv(c) /\ Ledger(c) /\ Prefix(wire[c], sent[c])
ServerInv  == ServerTypeOK /\ LockInv /\ \A c \in Conns : ConnInv(c)

\* In the Python, Go and Rust engines an order is acked before it is matched.
AckFirst ==
    \A c \in Conns : step[c] = "book" /\ client[c] # "gone" =>
        \E i \in 1..Len(wire[c]) : wire[c][i] = AckOf(request[c].id)
AckFirstElsewhere == ~Crow => AckFirst

\* In every engine a client receives the ack of an order before its fills, as
\* the probe counts on.
AckBeforeFills ==
    \A c \in Conns : \A n \in 1..Len(wire[c]) : wire[c][n].kind = "fill" =>
        \E m \in 1..(n - 1) : wire[c][m] = AckOf(wire[c][n].id)

\* An iteration of the probe fails only if its own wait for fills ran out:
\* answers that come late do not spoil the iterations after it.
ProbeVerdict == failed \subseteq late

\* Connections whose clients have left or were killed are closed and forgotten
\* in the end.
Removed ==
    <>[](\A c \in Conns : client[c] \in {"leaving", "gone"} =>
            stage[c] = "ended" /\ c \notin websockets)

\* All that was sent to clients that stay reaches them.
Delivered ==
    <>[](\A c \in Conns : client[c] = "here" => wire[c] = sent[c])

\* The probe comes to its end, unless it is killed.
ProbeEnds ==
    <>(mode = "load" \/ at = "end" \/ client[Prober] = "gone")

-----------------------------------------------------------------------------
(* The inductive invariant behind ProbeVerdict, of a probe that is connected *)
(* and has not ended.                                                      *)

Live == mode # "load" /\ client[Prober] \in {"out", "here"} /\ at # "end"

\* Nobody but the probe uses its engine.
Alone ==
    /\ mode = "load" => client[Prober] = "out"
    /\ mode # "load" => \A c \in Conns \ {Prober} : client[c] = "out" /\ stage[c] = "none"

\* Requests are numbered as they are asked; this many were asked, and read.
Number(i, k) == 4 * (i - 1) + k
Asked   == Number(iter, order - 1) + (IF at = "ack" THEN 1 ELSE 0)
ReadNow == Asked - Len(inbox[Prober])

\* Answers to the taker of iteration i.
IsFillOf(m, i) == m.kind = "fill" /\ m.id = ProbeId(i, 3)
Mentions(m, i) == m.kind \in {"ack", "fill"} /\ m.id = ProbeId(i, 3)
FromA(m, i) == m.maker = ProbeId(i, 1) /\ m.qty = 5
FromB(m, i) == m.maker = ProbeId(i, 2) /\ m.qty = 1

\* A taker is answered by its ack, then its fill from A, then that from B, and
\* not before it was asked for.
Answers(i) ==
    LET s == sent[Prober]
    IN  /\ \A n \in 1..Len(s) : IsFillOf(s[n], i) =>
              /\ FromA(s[n], i) \/ FromB(s[n], i)
              /\ \E m \in 1..(n - 1) : s[m] = AckOf(ProbeId(i, 3))
        /\ \A n, m \in 1..Len(s) : n < m /\ IsFillOf(s[n], i) /\ IsFillOf(s[m], i) =>
              FromA(s[n], i) /\ FromB(s[m], i)
        /\ \A n \in 1..Len(s) : Mentions(s[n], i) => Number(i, 3) <= Asked

\* What the probe has received of the answers to the taker of this iteration.
Received(n) == IsFillOf(sent[Prober][n], iter)

Listening ==
    /\ seen \in 0..Len(wire[Prober])
    /\ order < 4 => got = <<>>
    /\ at = "fills" => order = 4
    /\ at = "ack" /\ order = 3 =>
          \A n \in 1..seen : ~Mentions(sent[Prober][n], iter)
    /\ at = "fills" =>
          \/ got = <<>> /\ \A n \in 1..seen : ~Received(n)
          \/ /\ got = << <<ProbeId(iter, 1), 5>> >>
             /\ \E n \in 1..seen : Received(n)
          \/ /\ got = << <<ProbeId(iter, 2), 1>> >>
             /\ \E n \in 1..seen : Received(n) /\ FromB(sent[Prober][n], iter)

\* Maker A or B as it rests, and the fills of the taker.
Maker(i, k, qty, stamp) ==
    [id |-> ProbeId(i, k), side |-> "buy", px |-> i, qty |-> qty, at |-> stamp]
PlaceOf(i, stamp) == [side |-> "buy", px |-> i, at |-> stamp]
FillA(i) == [px |-> i, qty |-> 5, maker |-> ProbeId(i, 1)]
FillB(i) == [px |-> i, qty |-> 1, maker |-> ProbeId(i, 2)]

\* B rests alone, and is found by its id.
OnlyB(i, qty) ==
    \E m \in 0..arrived :
        orders = {Maker(i, 2, qty, m)} /\ index[ProbeId(i, 2)] = PlaceOf(i, m)

\* The book before request k of iteration i is carried out.
Resting(i, k) ==
    \/ k \in {1, 5} /\ orders = {}
    \/ k = 2 /\ \E n \in 0..arrived : orders = {Maker(i, 1, 5, n)}
    \/ k = 3 /\ \E n, m \in 0..arrived :
          /\ n < m
          /\ orders = {Maker(i, 1, 5, n), Maker(i, 2, 5, m)}
          /\ index[ProbeId(i, 2)] = PlaceOf(i, m)
    \/ k = 4 /\ OnlyB(i, 4)

\* The request while it is matched.
AsTaker(i, k, qty) ==
    [id |-> ProbeId(i, k), side |-> IF k = 3 THEN "sell" ELSE "buy", px |-> i, qty |-> qty]

Matching(i, k) ==
    \/ k \in {1, 2} /\ Resting(i, k) /\ taker = AsTaker(i, k, 5) /\ fills = <<>>
    \/ k = 3 /\ Resting(i, 3) /\ taker = AsTaker(i, 3, 6) /\ fills = <<>>
    \/ k = 3 /\ OnlyB(i, 5) /\ taker = AsTaker(i, 3, 1) /\ fills = <<FillA(i)>>
    \/ k = 3 /\ OnlyB(i, 4) /\ taker = AsTaker(i, 3, 0) /\ fills = <<FillA(i), FillB(i)>>

\* The fills of the taker that are still to be sent, and those that were.
Replying(i, k) ==
    LET s == sent[Prober]
    IN  \/ replies[Prober] = <<>>
        \/ /\ k = 3
           /\ replies[Prober] = <<FillA(i), FillB(i)>>
           /\ \A n \in 1..Len(s) : ~IsFillOf(s[n], i)
        \/ /\ k = 3
           /\ replies[Prober] = <<FillB(i)>>
           /\ \A n \in 1..Len(s) : IsFillOf(s[n], i) => FromA(s[n], i)

\* What was sent before and while the handler is at request k of iteration i.
AnsweredTo(i, k) ==
    LET s == sent[Prober]
        st == step[Prober]
    IN  /\ \A n \in 1..Len(s), j \in 1..Iterations : Mentions(s[n], j) =>
              \/ Number(j, 3) < Number(i, k)
              \/ j = i /\ k = 3 /\ st \in {"lock", "book", "reply"}
        /\ k = 3 /\ st \in {"lock", "book", "reply"} =>
              \E m \in 1..Len(s) : s[m] = AckOf(ProbeId(i, 3))
        /\ k = 3 /\ st \in {"lock", "book"} => \A n \in 1..Len(s) : ~IsFillOf(s[n], i)

\* The handler is about to read request k of iteration i, or at work on it.
HandlerAt(i, k) ==
    LET st == step[Prober]
    IN  /\ Number(i, k) = ReadNow + (IF st = "read" THEN 1 ELSE 0)
        /\ st # "read" => i <= Iterations /\ request[Prober] = ProbeRequest(i, k)
        /\ st \in {"read", "ack", "lock"} => Resting(i, k) /\ taker = None
        /\ st = "book" => Matching(i, k)
        /\ st = "reply" => Resting(i, k + 1) /\ taker = None /\ Replying(i, k)
        /\ st # "reply" => replies[Prober] = <<>>
        /\ AnsweredTo(i, k)

\* What is under way to the engine are the requests asked and not read, in order.
Queued ==
    \A j \in 1..Len(inbox[Prober]), i \in 1..Iterations, k \in 1..4 :
        Number(i, k) = ReadNow + j => inbox[Prober][j] = ProbeRequest(i, k)

InStep == Queued /\ \E i \in 1..(Iterations + 1), k \in 1..4 : HandlerAt(i, k)

Served ==
    /\ \A i \in 1..Iterations : Answers(i)
    /\ Listening
    /\ stage[Prober] # "ended" => InStep

ProbeInv ==
    /\ ProbeVerdict
    /\ Alone
    /\ Live => Served
=============================================================================
