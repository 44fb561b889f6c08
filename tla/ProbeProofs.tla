----------------------------- MODULE ProbeProofs -----------------------------
(***************************************************************************)
(* Theorems about the order of the answers of an engine, for any number of  *)
(* connections, iterations and ids: the engines that write before they go   *)
(* on ack an order before it is matched, and an iteration of the            *)
(* correctness probe fails only if its own wait for fills ran out.  The     *)
(* second rests on ProbeInv, which follows the requests of the probe        *)
(* through the connection and the book, and their answers back, however far *)
(* the engine lags behind.                                                 *)
(***************************************************************************)
EXTENDS ServerProofs

-----------------------------------------------------------------------------
(* A step of the engine for one connection leaves the others alone.         *)

SameHandler(d) ==
    /\ stage'[d] = stage[d] /\ inbox'[d] = inbox[d] /\ sent'[d] = sent[d]
    /\ step'[d] = step[d] /\ request'[d] = request[d] /\ replies'[d] = replies[d]

LEMMA Elsewhere ==
  ASSUME ServerTypeOK, NEW c \in Conns, EngineStep(c), NEW d \in Conns \ {c}
  PROVE  SameHandler(d) /\ client' = client
<1>0. /\ stage \in [Conns -> {"none", "http", "ws", "ended"}]
      /\ inbox \in [Conns -> Seq(Request \cup {CloseFrame})]
      /\ sent \in [Conns -> Seq(Message)] /\ replies \in [Conns -> Seq(Fill)]
      /\ step \in [Conns -> {"read", "ack", "lock", "book", "reply"}]
      /\ request \in [Conns -> Request \cup {None}]
  BY DEF ServerTypeOK
<1> USE DEF SameHandler
<1>1. CASE Accept(c)
  BY <1>0, <1>1 DEF Accept, handler
<1>2. CASE Upgrade(c)
  BY <1>0, <1>2 DEF Upgrade, handler
<1>3. CASE UpgradeFails(c)
  BY <1>0, <1>3 DEF UpgradeFails, handler
<1>4. CASE Serve(c)
  BY <1>0, <1>4 DEF Serve, handler
<1>5. CASE ReadRequest(c)
  BY <1>0, <1>5 DEF ReadRequest
<1>6. CASE Ack(c)
  BY <1>0, <1>6 DEF Ack, Send
<1>7. CASE Enter(c)
  BY <1>0, <1>7 DEF Enter
<1>8. CASE Work(c)
  <2>1. UNCHANGED <<client, inbox, stage, request, sent>>
    BY <1>8 DEF Work
  <2>2. \/ step' = [step EXCEPT ![c] = "reply"] /\ replies' = [replies EXCEPT ![c] = fills']
        \/ step' = step /\ replies' = replies
    BY <1>8 DEF Work
  <2> QED BY <1>0, <2>1, <2>2
<1>9. CASE WorkCancel(c)
  BY <1>0, <1>9 DEF WorkCancel
<1>10. CASE Reply(c)
  BY <1>0, <1>10 DEF Reply, Send
<1>11. CASE Return(c)
  BY <1>0, <1>11 DEF Return
<1>12. CASE RunPost(c)
  BY <1>0, <1>12 DEF RunPost, handler
<1>13. CASE SocketTakes(c)
  BY <1>0, <1>13 DEF SocketTakes, handler
<1>14. CASE WriteDone(c)
  BY <1>0, <1>14 DEF WriteDone, handler
<1>15. CASE WriteFails(c)
  BY <1>0, <1>15 DEF WriteFails, handler
<1>16. CASE ReadClose(c)
  <2>1. sent' = sent \/ sent' = [sent EXCEPT ![c] = Append(@, CloseFrame)]
    BY <1>16 DEF ReadClose
  <2>2. sent'[d] = sent[d]
    BY <1>0, <2>1
  <2> QED BY <1>0, <1>16, <2>2 DEF ReadClose, handler
<1>17. CASE ReadFails(c)
  BY <1>0, <1>17 DEF ReadFails, handler
<1>18. CASE SendFails(c)
  <2>1. UNCHANGED <<client, inbox, sent>>
    BY <1>18 DEF SendFails
  <2>2. step'[d] = step[d] /\ request'[d] = request[d] /\ replies'[d] = replies[d]
        /\ stage'[d] = stage[d]
    <3>1. CASE engine = "python"
      BY <1>0, <1>18, <3>1 DEF SendFails
    <3>2. CASE engine # "python"
      BY <1>0, <1>18, <3>2 DEF SendFails
    <3> QED BY <3>1, <3>2
  <2> QED BY <2>1, <2>2
<1> QED
  BY <1>1, <1>2, <1>3, <1>4, <1>5, <1>6, <1>7, <1>8, <1>9, <1>10, <1>11, <1>12, <1>13, <1>14, <1>15, <1>16, <1>17, <1>18 DEF EngineStep

-----------------------------------------------------------------------------
(* Acks before matches.                                                    *)

\* The handler of a connection has written the ack of what it carries out.
Acked(c) ==
    ~Crow /\ step[c] \in {"lock", "book"} /\ client[c] # "gone" =>
        \E i \in 1..Len(wire[c]) : wire[c][i] = AckOf(request[c].id)

\* What was written stays written.
Longer(s, t) == Len(s) <= Len(t) /\ \A n \in 1..Len(s) : t[n] = s[n]

LEMMA LongerSelf ==
  ASSUME NEW S, NEW s \in Seq(S)
  PROVE  Longer(s, s)
<1>1. Len(s) \in Nat
  BY LenProperties
<1> QED BY <1>1 DEF Longer

LEMMA LongerAppend ==
  ASSUME NEW S, NEW s \in Seq(S), NEW e \in S
  PROVE  /\ Longer(s, Append(s, e)) /\ Len(s) \in Nat
         /\ Len(Append(s, e)) = Len(s) + 1 /\ Append(s, e)[Len(s) + 1] = e
<1>1. /\ Len(s) \in Nat /\ Len(Append(s, e)) = Len(s) + 1
      /\ \A n \in 1..Len(s) : Append(s, e)[n] = s[n]
      /\ Append(s, e)[Len(s) + 1] = e
  BY LenProperties, AppendProperties
<1> QED BY <1>1 DEF Longer

\* A handler that stays before the end of its request stays acked.
LEMMA AckedKept ==
  ASSUME NEW d \in Conns, Acked(d), Crow' <=> Crow, Longer(wire[d], wire'[d]),
         step'[d] \in {"lock", "book"} => step[d] \in {"lock", "book"} /\ request'[d] = request[d],
         client[d] = "gone" => client'[d] = "gone",
         Len(wire[d]) \in Nat, Len(wire'[d]) \in Nat
  PROVE  Acked(d)'
<1> SUFFICES ASSUME ~Crow', step'[d] \in {"lock", "book"}, client'[d] # "gone"
             PROVE  \E i \in 1..Len(wire'[d]) : wire'[d][i] = AckOf(request'[d].id)
  BY DEF Acked
<1>1. PICK i \in 1..Len(wire[d]) : wire[d][i] = AckOf(request[d].id)
  BY DEF Acked
<1>2. i \in 1..Len(wire'[d]) /\ wire'[d][i] = wire[d][i]
  BY <1>1 DEF Longer
<1> QED BY <1>1, <1>2

\* What a handler sends in an engine that writes before it goes on.
LEMMA SendWrites ==
  ASSUME ServerTypeOK, NEW c \in Conns, NEW m \in Message, Send(c, m), ~Crow
  PROVE  /\ \A d \in Conns : Longer(wire[d], wire'[d])
         /\ \E i \in 1..Len(wire'[c]) : wire'[c][i] = m
<1>1. wire \in [Conns -> Seq(Message)] /\ wire' = [wire EXCEPT ![c] = Append(@, m)]
  BY DEF ServerTypeOK, Send
<1>2. wire'[c] = Append(wire[c], m) /\ \A d \in Conns \ {c} : wire'[d] = wire[d]
  BY <1>1
<1>3. /\ Longer(wire[c], Append(wire[c], m)) /\ Len(wire[c]) \in Nat
      /\ Len(Append(wire[c], m)) = Len(wire[c]) + 1
      /\ Append(wire[c], m)[Len(wire[c]) + 1] = m
  BY <1>1, LongerAppend
<1>4. \A d \in Conns : Longer(wire[d], wire'[d])
  BY <1>1, <1>2, <1>3, LongerSelf
<1>5. \E i \in 1..Len(wire'[c]) : wire'[c][i] = m
  <2>1. Len(wire[c]) + 1 \in 1..Len(wire'[c])
    BY <1>2, <1>3
  <2> QED BY <1>2, <1>3, <2>1
<1> QED BY <1>4, <1>5

\* The id of the request a handler is at work on, and what it may send.
LEMMA AnswersAreMessages ==
  ASSUME ServerInv, NEW c \in Conns, step[c] # "read"
  PROVE  /\ request[c] \in Request /\ stage[c] = "ws"
         /\ AckOf(request[c].id) \in Message
         /\ replies[c] # <<>> => FillOf(request[c].id, Head(replies[c])) \in Message
<1>1. request[c] \in Request /\ stage[c] = "ws" /\ replies[c] \in Seq(Fill)
  BY DEF ServerInv, ConnInv, HandlerInv, ServerTypeOK
<1>2. request[c].id \in Ids
  BY <1>1, CancelFields
<1>3. AckOf(request[c].id) \in Message
  BY <1>2 DEF Message, AckOf
<1>4. ASSUME replies[c] # <<>> PROVE FillOf(request[c].id, Head(replies[c])) \in Message
  <2>1. Head(replies[c]) \in Fill
    BY <1>1, <1>4, HeadTailProperties
  <2> QED BY <1>2, <2>1 DEF Message, FillOf, Fill
<1> QED BY <1>1, <1>3, <1>4

\* A step of an engine that writes before it goes on.
LEMMA EngineAcked ==
  ASSUME ServerInv, ServerInv', ~Crow, engine' = engine, NEW c \in Conns, EngineStep(c),
         NEW d \in Conns, Acked(d)
  PROVE  Acked(d)'
<1>0. /\ ServerTypeOK /\ ServerTypeOK' /\ ConnInv(c) /\ BufferInv(c)
      /\ Crow' <=> Crow
  BY DEF ServerInv, ConnInv, Crow
<1>1. /\ wire[d] \in Seq(Message) /\ Len(wire[d]) \in Nat /\ Len(wire'[d]) \in Nat
      /\ Longer(wire[d], wire[d])
  BY <1>0, LongerSelf, LenProperties DEF ServerTypeOK
<1>2. ASSUME wire' = wire, client' = client,
             step'[d] \in {"lock", "book"} =>
                step[d] \in {"lock", "book"} /\ request'[d] = request[d]
      PROVE  Acked(d)'
  BY <1>0, <1>1, <1>2, AckedKept
<1>3. CASE Accept(c) \/ Upgrade(c) \/ UpgradeFails(c) \/ RunPost(c) \/ WriteDone(c)
           \/ WriteFails(c) \/ ReadFails(c)
  BY <1>2, <1>3
  DEF Accept, Upgrade, UpgradeFails, RunPost, WriteDone, WriteFails, ReadFails, handler
<1>4. CASE Serve(c)
  <2>1. step[c] = "read" /\ step' = step /\ request' = request /\ client' = client
    BY <1>0, <1>4 DEF Serve, handler, ConnInv, HandlerInv, ServerTypeOK
  <2>2. d # c => wire'[d] = wire[d]
    BY <1>0, <1>4 DEF Serve, ServerTypeOK
  <2>3. CASE d = c
    BY <2>1, <2>3 DEF Acked
  <2>4. CASE d # c
    BY <1>0, <1>1, <2>1, <2>2, <2>4, AckedKept
  <2> QED BY <2>3, <2>4
<1>5. CASE ReadRequest(c) \/ Return(c)
  <2>1. step'[d] \in {"lock", "book"} => d # c
    <3>1. step \in [Conns -> {"read", "ack", "lock", "book", "reply"}]
      BY <1>0 DEF ServerTypeOK
    <3>2. step' = [step EXCEPT ![c] = "ack"] \/ step' = [step EXCEPT ![c] = "read"]
      BY <1>5 DEF ReadRequest, Return
    <3> QED BY <3>1, <3>2
  <2>2. d # c => step'[d] = step[d] /\ request'[d] = request[d]
    BY <1>0, Elsewhere DEF SameHandler
  <2> QED BY <1>2, <1>5, <2>1, <2>2 DEF ReadRequest, Return
<1>6. CASE Enter(c) \/ Work(c) \/ WorkCancel(c)
  <2>1. step'[d] \in {"lock", "book"} => step[d] \in {"lock", "book"}
    <3>1. step[c] \in {"lock", "book"}
      BY <1>6 DEF Enter, Work, WorkCancel
    <3>2. d # c => step'[d] = step[d]
      BY <1>0, Elsewhere DEF SameHandler
    <3> QED BY <3>1, <3>2
  <2> QED BY <1>2, <1>6, <2>1 DEF Enter, Work, WorkCancel
<1>7. CASE Ack(c)
  <2>1. step[c] = "ack"
    BY <1>7 DEF Ack
  <2>2. AckOf(request[c].id) \in Message /\ Send(c, AckOf(request[c].id))
    BY <1>7, <2>1, AnswersAreMessages DEF Ack
  <2>3. /\ \A e \in Conns : Longer(wire[e], wire'[e])
        /\ \E i \in 1..Len(wire'[c]) : wire'[c][i] = AckOf(request[c].id)
    BY <1>0, <2>2, SendWrites
  <2>4. request' = request /\ client' = client /\ (d # c => step'[d] = step[d])
    BY <1>0, <1>7 DEF Ack, ServerTypeOK
  <2>5. CASE d = c
    BY <2>3, <2>4, <2>5 DEF Acked
  <2>6. CASE d # c
    BY <1>0, <1>1, <2>3, <2>4, <2>6, AckedKept
  <2> QED BY <2>5, <2>6
<1>8. CASE Reply(c)
  <2>1. step[c] # "read" /\ replies[c] # <<>> /\ step' = step /\ request' = request /\ client' = client
    BY <1>8 DEF Reply
  <2>2. /\ FillOf(request[c].id, Head(replies[c])) \in Message
        /\ Send(c, FillOf(request[c].id, Head(replies[c])))
    BY <1>8, <2>1, AnswersAreMessages DEF Reply
  <2>3. Longer(wire[d], wire'[d])
    BY <1>0, <2>2, SendWrites
  <2> QED BY <1>0, <1>1, <2>1, <2>3, AckedKept
<1>9. CASE SendFails(c)
  <2>1. client' = client /\ client[c] = "gone" /\ wire' = wire
    BY <1>9 DEF SendFails
  <2>2. d # c => step'[d] = step[d] /\ request'[d] = request[d]
    BY <1>0, Elsewhere DEF SameHandler
  <2>3. CASE d = c
    BY <2>1, <2>3 DEF Acked
  <2>4. CASE d # c
    BY <1>2, <2>1, <2>2, <2>4
  <2> QED BY <2>3, <2>4
<1>10. CASE SocketTakes(c)
  BY <1>0, <1>10 DEF SocketTakes, BufferInv
<1>11. CASE ReadClose(c)
  BY <1>2, <1>11 DEF ReadClose, handler
<1> QED
  BY <1>3, <1>4, <1>5, <1>6, <1>7, <1>8, <1>9, <1>10, <1>11 DEF EngineStep

\* Every step of engine and clients.
LEMMA NextAcked ==
  ASSUME ServerInv, ServerInv', ClientInv, [ProbeNext]_systemVars,
         NEW d \in Conns, Acked(d)
  PROVE  Acked(d)'
<1>0. engine' = engine /\ (Crow' <=> Crow) /\ ServerTypeOK /\ ServerTypeOK'
  BY BookStep, SameSetting DEF Crow, ServerInv
<1>1. /\ Len(wire[d]) \in Nat /\ Len(wire'[d]) \in Nat /\ Longer(wire[d], wire[d])
  BY <1>0, LongerSelf, LenProperties DEF ServerTypeOK
<1>2. CASE Crow
  BY <1>0, <1>2 DEF Acked
<1>3. ASSUME UNCHANGED <<step, request, wire>>, client[d] = "gone" => client'[d] = "gone"
      PROVE  Acked(d)'
  BY <1>0, <1>1, <1>3, AckedKept
<1>4. ASSUME NEW c \in Conns, EngineStep(c), ~Crow PROVE Acked(d)'
  BY <1>0, <1>4, EngineAcked
<1>5. ASSUME UNCHANGED serverVars PROVE Acked(d)'
  BY <1>3, <1>5 DEF serverVars, handler
<1>6. ASSUME NEW c, ClientConnects(c) \/ ClientLeaves(c) \/ ClientDies(c) PROVE Acked(d)'
  <2>1. client[d] = "gone" => client'[d] = "gone"
    BY <1>0, <1>6 DEF ClientConnects, ClientLeaves, ClientDies, ServerTypeOK
  <2> QED BY <1>3, <1>6, <2>1 DEF ClientConnects, ClientLeaves, ClientDies, handler
<1>7. ASSUME NEW c, NEW f, ClientSends(c, f) PROVE Acked(d)'
  BY <1>3, <1>7 DEF ClientSends, handler
<1> QED
  BY <1>2, <1>4, <1>5, <1>6, <1>7
  DEF ProbeNext, Connects, EngineRuns, Probing, ProbeSends, ProbeAcked, AckRunsOut,
      ProbeReceives, FillsRunOut, ProbeLeaves, LoadSends, LoadLeaves, systemVars

\* In the Python, Go and Rust engines a client has been sent the ack of its
\* order before the order is matched, whatever other clients do.
THEOREM AckedFirst == ProbeSpec => []AckFirstElsewhere
<1> DEFINE Inv == ServerInv /\ ClientInv
           All == \A d \in Conns : Acked(d)
<1>1. ProbeInit => Inv /\ All
  <2>1. ProbeInit => All
    BY DEF ProbeInit, ServerInit, Acked
  <2> QED BY <2>1, InitServer, InitClients
<1>2. Inv /\ [ProbeNext]_systemVars => Inv'
  BY NextServer, NextClients
<1>3. Inv /\ All /\ Inv' /\ [ProbeNext]_systemVars => All'
  BY NextAcked
<1>4. All => AckFirstElsewhere
  BY DEF Acked, AckFirstElsewhere, AckFirst
<1> HIDE DEF Inv, All
<1> QED BY <1>1, <1>2, <1>3, <1>4, PTL DEF ProbeSpec

-----------------------------------------------------------------------------
(* Acks before fills.                                                      *)

FillsAcked(s) ==
    \A n \in 1..Len(s) : s[n].kind = "fill" =>
        \E m \in 1..(n - 1) : s[m] = AckOf(s[n].id)

\* What a handler has sent when it is through with the ack of its request; only
\* a write to a client that has gone may have been left out.
AckSent(c) ==
    step[c] \in {"lock", "book", "reply"} /\ (Crow \/ client[c] # "gone") =>
        \E m \in 1..Len(sent[c]) : sent[c][m] = AckOf(request[c].id)

Answering(c) == FillsAcked(sent[c]) /\ AckSent(c)

LEMMA FillsAckedGrow ==
  ASSUME NEW s \in Seq(Message), NEW e \in Message, FillsAcked(s),
         e.kind = "fill" => \E m \in 1..Len(s) : s[m] = AckOf(e.id)
  PROVE  FillsAcked(Append(s, e))
<1> DEFINE t == Append(s, e)
<1>1. /\ Len(s) \in Nat /\ Len(t) = Len(s) + 1 /\ t[Len(s) + 1] = e
      /\ \A n \in 1..Len(s) : t[n] = s[n]
  BY LongerAppend DEF Longer
<1> HIDE DEF t
<1>2. ASSUME NEW n \in 1..Len(t), t[n].kind = "fill"
      PROVE  \E m \in 1..(n - 1) : t[m] = AckOf(t[n].id)
  <2>1. CASE n \in 1..Len(s)
    <3>1. PICK m \in 1..(n - 1) : s[m] = AckOf(s[n].id)
      BY <1>1, <1>2, <2>1 DEF FillsAcked
    <3>2. m \in 1..Len(s) /\ t[m] = s[m]
      BY <1>1, <2>1
    <3> QED BY <1>1, <2>1, <3>1, <3>2
  <2>2. CASE n = Len(s) + 1
    <3>1. PICK m \in 1..Len(s) : s[m] = AckOf(e.id)
      BY <1>1, <1>2, <2>2
    <3>2. m \in 1..(n - 1) /\ t[m] = s[m]
      BY <1>1, <2>2
    <3> QED BY <1>1, <2>2, <3>1, <3>2
  <2> QED BY <1>1, <2>1, <2>2
<1>3. FillsAcked(t)
  BY <1>2 DEF FillsAcked
<1> QED BY <1>3 DEF t

\* A step of the engine for the connection at hand.
LEMMA OwnAnswering ==
  ASSUME ServerInv, engine' = engine, NEW c \in Conns, EngineStep(c), Answering(c)
  PROVE  Answering(c)'
<1> DEFINE s == sent[c]
<1>0. /\ ServerTypeOK /\ ConnInv(c) /\ BufferInv(c) /\ HandlerInv(c) /\ (Crow' <=> Crow)
      /\ s \in Seq(Message) /\ sent \in [Conns -> Seq(Message)] /\ FillsAcked(s) /\ AckSent(c)
  BY DEF ServerInv, ConnInv, ServerTypeOK, Crow, Answering
<1>1. ASSUME sent'[c] = s, client' = client,
             step'[c] \in {"lock", "book", "reply"} =>
                step[c] \in {"lock", "book", "reply"} /\ request'[c] = request[c]
      PROVE  Answering(c)'
  BY <1>0, <1>1 DEF Answering, FillsAcked, AckSent, AckOf
<1>2. CASE Accept(c) \/ UpgradeFails(c) \/ RunPost(c) \/ SocketTakes(c) \/ WriteDone(c)
           \/ WriteFails(c) \/ ReadFails(c)
  BY <1>1, <1>2
  DEF Accept, UpgradeFails, RunPost, SocketTakes, WriteDone, WriteFails, ReadFails, handler
<1>3. CASE Upgrade(c) \/ Serve(c)
  <2>1. step'[c] = "read" /\ sent'[c] = <<Hello>>
    BY <1>0, <1>3 DEF Upgrade, Serve, handler, HandlerInv
  <2>2. FillsAcked(<<Hello>>)
    BY DEF FillsAcked, Hello
  <2> QED BY <2>1, <2>2 DEF Answering, FillsAcked, AckSent, AckOf
<1>4. CASE ReadRequest(c) \/ Return(c)
  <2>1. step'[c] \in {"ack", "read"} /\ sent' = sent /\ client' = client
    BY <1>0, <1>4 DEF ReadRequest, Return, ServerTypeOK
  <2> QED BY <1>1, <2>1
<1>5. CASE Enter(c) \/ Work(c) \/ WorkCancel(c)
  <2>1. /\ step[c] \in {"lock", "book", "reply"} /\ sent' = sent /\ client' = client
        /\ request' = request
    BY <1>5 DEF Enter, Work, WorkCancel
  <2> QED BY <1>1, <2>1
<1>6. ASSUME NEW m \in Message, sent'[c] = Append(s, m), FillsAcked(Append(s, m)),
             step'[c] \in {"lock", "book", "reply"} =>
                \/ m = AckOf(request'[c].id)
                \/ \E n \in 1..Len(s) : s[n] = AckOf(request'[c].id)
      PROVE  Answering(c)'
  <2> DEFINE t == Append(s, m)
  <2>1. /\ Len(s) \in Nat /\ Len(t) = Len(s) + 1 /\ t[Len(s) + 1] = m
        /\ \A n \in 1..Len(s) : t[n] = s[n]
    BY <1>0, <1>6, LongerAppend DEF Longer
  <2>2. sent'[c] = t /\ FillsAcked(t)
    BY <1>6
  <2> HIDE DEF s, t
  <2>3. \A n \in 1..Len(s) : n \in 1..Len(t)
    BY <2>1
  <2>4. Len(s) + 1 \in 1..Len(t)
    BY <2>1
  <2>5. step'[c] \in {"lock", "book", "reply"} =>
          \E n \in 1..Len(t) : t[n] = AckOf(request'[c].id)
    BY <1>6, <2>1, <2>3, <2>4
  <2> QED BY <2>2, <2>5 DEF Answering, FillsAcked, AckSent, AckOf
<1>7. CASE Ack(c)
  <2>1. AckOf(request[c].id) \in Message /\ Send(c, AckOf(request[c].id))
        /\ request' = request
    BY <1>7, AnswersAreMessages DEF Ack
  <2>2. sent'[c] = Append(s, AckOf(request[c].id))
    BY <1>0, <2>1 DEF Send
  <2>3. FillsAcked(Append(s, AckOf(request[c].id)))
    <3>1. AckOf(request[c].id).kind # "fill"
      BY DEF AckOf
    <3> QED BY <1>0, <2>1, <3>1, FillsAckedGrow
  <2> QED BY <1>6, <2>1, <2>2, <2>3
<1>8. CASE Reply(c)
  <2> DEFINE m == FillOf(request[c].id, Head(replies[c]))
  <2>1. m \in Message /\ Send(c, m) /\ request' = request /\ step[c] = "reply"
    BY <1>8, AnswersAreMessages DEF Reply
  <2>2. sent'[c] = Append(s, m) /\ (Crow \/ client[c] # "gone")
    BY <1>0, <2>1 DEF Send
  <2>3. \E n \in 1..Len(s) : s[n] = AckOf(request[c].id)
    BY <1>0, <2>1, <2>2 DEF AckSent
  <2>4. m.id = request[c].id
    BY DEF FillOf
  <2> HIDE DEF m
  <2>5. FillsAcked(Append(s, m))
    BY <1>0, <2>1, <2>3, <2>4, FillsAckedGrow
  <2> QED BY <1>6, <2>1, <2>2, <2>3, <2>5
<1>9. CASE SendFails(c)
  <2>1. sent' = sent /\ client' = client /\ client[c] = "gone" /\ ~Crow
    BY <1>9 DEF SendFails
  <2> QED BY <1>0, <2>1 DEF Answering, AckSent
<1>10. CASE ReadClose(c)
  <2>1. step[c] = "read" /\ step' = step /\ client' = client
    BY <1>10 DEF ReadClose, ReadReady, handler
  <2>2. CASE sent' = sent
    BY <1>1, <2>1, <2>2
  <2>3. CASE sent' # sent
    <3>1. sent'[c] = Append(s, CloseFrame)
      BY <1>0, <1>10, <2>3 DEF ReadClose
    <3>2. CloseFrame \in Message /\ CloseFrame.kind # "fill"
      BY DEF CloseFrame, Message
    <3>3. FillsAcked(Append(s, CloseFrame))
      BY <1>0, <3>2, FillsAckedGrow
    <3> QED BY <1>6, <2>1, <3>1, <3>2, <3>3
  <2> QED BY <2>2, <2>3
<1> QED
  BY <1>2, <1>3, <1>4, <1>5, <1>7, <1>8, <1>9, <1>10 DEF EngineStep

\* Every step of engine and clients.
LEMMA NextAnswering ==
  ASSUME ServerInv, [ProbeNext]_systemVars, NEW d \in Conns, Answering(d)
  PROVE  Answering(d)'
<1>0. engine' = engine /\ (Crow' <=> Crow) /\ ServerTypeOK
  BY BookStep, SameSetting DEF Crow, ServerInv
<1>1. ASSUME sent'[d] = sent[d], step'[d] = step[d], request'[d] = request[d],
             client[d] = "gone" => client'[d] = "gone"
      PROVE  Answering(d)'
  BY <1>0, <1>1 DEF Answering, FillsAcked, AckSent, AckOf
<1>2. ASSUME NEW c \in Conns, EngineStep(c) PROVE Answering(d)'
  <2>1. CASE c = d
    BY <1>0, <1>2, <2>1, OwnAnswering
  <2>2. CASE c # d
    BY <1>0, <1>1, <1>2, <2>2, Elsewhere DEF SameHandler
  <2> QED BY <2>1, <2>2
<1>3. ASSUME UNCHANGED serverVars PROVE Answering(d)'
  BY <1>1, <1>3 DEF serverVars, handler
<1>4. ASSUME NEW c, ClientConnects(c) \/ ClientLeaves(c) \/ ClientDies(c) PROVE Answering(d)'
  <2>1. client[d] = "gone" => client'[d] = "gone"
    BY <1>0, <1>4 DEF ClientConnects, ClientLeaves, ClientDies, ServerTypeOK
  <2> QED BY <1>1, <1>4, <2>1 DEF ClientConnects, ClientLeaves, ClientDies, handler
<1>5. ASSUME NEW c, NEW f, ClientSends(c, f) PROVE Answering(d)'
  BY <1>1, <1>5 DEF ClientSends, handler
<1> QED
  BY <1>2, <1>3, <1>4, <1>5
  DEF ProbeNext, Connects, EngineRuns, Probing, ProbeSends, ProbeAcked, AckRunsOut,
      ProbeReceives, FillsRunOut, ProbeLeaves, LoadSends, LoadLeaves, systemVars

\* Messages that have been written are among those sent.
LEMMA WrittenIsSent ==
  ASSUME ServerInv, NEW c \in Conns
  PROVE  /\ sent[c] \in Seq(Message) /\ wire[c] \in Seq(Message)
         /\ Len(sent[c]) \in Nat /\ Len(wire[c]) \in Nat
         /\ Len(wire[c]) <= Len(sent[c])
         /\ \A n \in 1..Len(wire[c]) : wire[c][n] = sent[c][n]
<1> DEFINE s == sent[c]
           w == wire[c]
<1>1. s \in Seq(Message) /\ w \in Seq(Message) /\ Prefix(w, s)
  BY DEF ServerInv, ServerTypeOK, ConnInv
<1>2. Len(s) \in Nat /\ Len(w) \in Nat
  BY <1>1, LenProperties
<1> HIDE DEF s, w
<1>3. Len(w) <= Len(s) /\ w = SubSeq(s, 1, Len(w))
  BY <1>1 DEF Prefix
<1>4. \A n \in 1..Len(w) : SubSeq(s, 1, Len(w))[n] = s[n]
  <2>1. \A n \in 1..Len(w) : s[n] \in Message
    BY <1>1, <1>2, <1>3, ElementOfSeq
  <2> QED BY <1>1, <1>2, <1>3, <2>1, SubSeqProperties
<1>5. \A n \in 1..Len(w) : w[n] = s[n]
  BY <1>3, <1>4
<1> QED BY <1>1, <1>2, <1>3, <1>5 DEF s, w

\* In every engine and for every client, the ack of an order is written before
\* its fills, also where the handler only posts what it sends.
THEOREM AckedBeforeFilled == ProbeSpec => []AckBeforeFills
<1> DEFINE All == \A d \in Conns : Answering(d)
<1>1. ProbeInit => All
  BY DEF ProbeInit, ServerInit, Answering, FillsAcked, AckSent
<1>2. ServerInv /\ All /\ [ProbeNext]_systemVars => All'
  BY NextAnswering
<1>3. ServerInv /\ All => AckBeforeFills
  <2> SUFFICES ASSUME ServerInv, All, NEW c \in Conns, NEW n \in 1..Len(wire[c]),
                      wire[c][n].kind = "fill"
               PROVE  \E m \in 1..(n - 1) : wire[c][m] = AckOf(wire[c][n].id)
    BY DEF AckBeforeFills
  <2>1. /\ Len(wire[c]) \in Nat /\ Len(sent[c]) \in Nat /\ Len(wire[c]) <= Len(sent[c])
        /\ \A m \in 1..Len(wire[c]) : wire[c][m] = sent[c][m]
    BY WrittenIsSent
  <2>2. n \in 1..Len(sent[c]) /\ wire[c][n] = sent[c][n]
    BY <2>1
  <2>3. PICK m \in 1..(n - 1) : sent[c][m] = AckOf(sent[c][n].id)
    BY <2>2 DEF Answering, FillsAcked
  <2>4. m \in 1..Len(wire[c])
    BY <2>1
  <2> QED BY <2>1, <2>2, <2>3, <2>4
<1> HIDE DEF All
<1> QED BY <1>1, <1>2, <1>3, ServerCorrect, PTL DEF ProbeSpec

-----------------------------------------------------------------------------
(* The requests of the probe, and what the book does with them.             *)

\* The requests of an iteration, one by one.
LEMMA RequestIs ==
  ASSUME NEW i
  PROVE  /\ \A k \in 1..3 : ProbeRequest(i, k) =
              [t |-> "limit", id |-> ProbeId(i, k),
               side |-> IF k = 3 THEN "sell" ELSE "buy", px |-> i,
               qty |-> IF k = 3 THEN 6 ELSE 5]
         /\ ProbeRequest(i, 4) =
              [t |-> "cancel", id |-> ProbeId(i, 4), target |-> ProbeId(i, 2)]
<1>1. /\ ProbeRequest(i, 1) = Limit(ProbeId(i, 1), "buy", i, 5)
      /\ ProbeRequest(i, 2) = Limit(ProbeId(i, 2), "buy", i, 5)
      /\ ProbeRequest(i, 3) = Limit(ProbeId(i, 3), "sell", i, 6)
      /\ ProbeRequest(i, 4) = CancelOf(ProbeId(i, 4), ProbeId(i, 2))
  BY DEF ProbeRequest
<1>2. \A k \in 1..3 : k = 1 \/ k = 2 \/ k = 3
  OBVIOUS
<1> QED BY <1>1, <1>2 DEF Limit, CancelOf

\* What the probe asks for is in the sets of the engine.
LEMMA ProbeFields ==
  ASSUME NEW i \in 1..Iterations, NEW k \in 1..3
  PROVE  /\ i \in Prices /\ i \in Nat /\ i # None /\ ProbeId(i, k) \in Ids
         /\ Iterations \in Nat
<1>1. ProbeRequest(i, k) \in Request /\ Iterations \in Nat
  BY ProbeAssumption
<1>2. /\ ProbeRequest(i, k).t = "limit" /\ ProbeRequest(i, k).id = ProbeId(i, k)
      /\ ProbeRequest(i, k).px = i
  BY RequestIs
<1>3. \A r \in Request : r.t = "limit" => r.px \in Prices /\ r.id \in Ids
  <2> SUFFICES ASSUME NEW r \in Request, r.t = "limit" PROVE r.px \in Prices /\ r.id \in Ids
    OBVIOUS
  <2>1. \/ \E id \in Ids, side \in Sides, px \in Prices, qty \in 1..MaxQty :
              r = [t |-> "limit", id |-> id, side |-> side, px |-> px, qty |-> qty]
        \/ \E id \in Ids, side \in Sides, qty \in 1..MaxQty :
              r = [t |-> "market", id |-> id, side |-> side, px |-> None, qty |-> qty]
        \/ \E id \in Ids, target \in Ids : r = [t |-> "cancel", id |-> id, target |-> target]
    BY DEF Request, Limit, Market, CancelOf
  <2> QED BY <2>1
<1>4. i \in Prices /\ ProbeId(i, k) \in Ids
  BY <1>1, <1>2, <1>3
<1> QED BY <1>1, <1>4, BookAssumption

\* Fills come one after the other.
LEMMA AppendSecond ==
  ASSUME NEW x, NEW y
  PROVE  /\ Append(<<>>, x) = <<x>>
         /\ Append(<<x>>, y) = <<x, y>>
<1> DEFINE S == {x, y}
<1>1. <<>> \in Seq(S) /\ <<x>> \in Seq(S) /\ <<x, y>> \in Seq(S)
  OBVIOUS
<1>2. /\ Append(<<x>>, y) \in Seq(S) /\ Len(Append(<<x>>, y)) = 2
      /\ Append(<<x>>, y)[1] = x /\ Append(<<x>>, y)[2] = y
  BY <1>1, AppendProperties
<1>3. Append(<<x>>, y) = <<x, y>>
  <2> DEFINE s == Append(<<x>>, y)
             t == <<x, y>>
  <2>1. Len(t) = 2 /\ t[1] = x /\ t[2] = y
    OBVIOUS
  <2>2. \A i \in 1..2 : i = 1 \/ i = 2
    OBVIOUS
  <2>3. s \in Seq(S) /\ t \in Seq(S) /\ Len(s) = Len(t)
    BY <1>1, <1>2, <2>1
  <2>4. \A i \in 1..Len(s) : s[i] = t[i]
    BY <1>2, <2>1, <2>2
  <2> HIDE DEF s, t
  <2>5. s = t
    BY <2>3, <2>4, SeqEqual
  <2> QED BY <2>5 DEF s, t
<1> QED BY <1>3

\* An order that is matched is not none.
LEMMA TakerFields ==
  ASSUME NEW i \in 1..Iterations, NEW k \in 1..3, NEW q \in Nat
  PROVE  AsTaker(i, k, q) # None
<1>1. AsTaker(i, k, q) \in Taker
  BY ProbeFields DEF AsTaker, Taker, Sides
<1> QED BY <1>1, NoneAssumption DEF AsTaker

\* Orders of one price level only trade as the book allows: maker A and B are
\* matched with nothing, and rest.
LEMMA MakersRest ==
  ASSUME BookInv, NEW i \in 1..Iterations, NEW k \in {1, 2}, Matching(i, k),
         (\E o \in orders : TakeWhole(o) \/ TakePart(o) \/ RestMerged(o)) \/ Finish \/ Rest
  PROVE  taker' = None /\ fills' = <<>> /\ Resting(i, k + 1)'
<1>1. /\ Resting(i, k) /\ taker = AsTaker(i, k, 5) /\ fills = <<>>
      /\ taker.id = ProbeId(i, k) /\ taker.side = "buy" /\ taker.px = i /\ taker.qty = 5
      /\ taker # None
  BY TakerFields DEF Matching, AsTaker
<1>2. /\ i \in Nat /\ i # None /\ ProbeId(i, k) \in Ids /\ arrived \in Nat
      /\ index \in [Ids -> Loc \cup {None}]
  BY ProbeFields DEF BookInv, TypeOK
<1>3. \A o \in orders : o.side = "buy" /\ o.id # ProbeId(i, k)
  BY <1>1, <1>2 DEF Resting, Maker, ProbeId
<1>4. ASSUME NEW o \in orders PROVE ~TakeWhole(o) /\ ~TakePart(o) /\ ~RestMerged(o)
  BY <1>1, <1>3, <1>4 DEF TakeWhole, TakePart, RestMerged, Matches, Merges, Opposite
<1>5. Rest
  BY <1>1, <1>2, <1>4 DEF Finish
<1>6. /\ orders' = orders \cup {Maker(i, k, 5, arrived)} /\ arrived' = arrived
      /\ index' = [index EXCEPT ![ProbeId(i, k)] = PlaceOf(i, arrived)]
      /\ taker' = None /\ fills' = <<>>
  BY <1>1, <1>5 DEF Rest, Maker, PlaceOf
<1>7. index'[ProbeId(i, k)] = PlaceOf(i, arrived)
  BY <1>2, <1>6
<1>8. CASE k = 1
  <2>1. orders' = {Maker(i, 1, 5, arrived)}
    BY <1>1, <1>6, <1>8 DEF Resting
  <2> QED BY <1>2, <1>6, <1>8, <2>1 DEF Resting
<1>9. CASE k = 2
  <2>1. PICK n \in 0..arrived : orders = {Maker(i, 1, 5, n)}
    BY <1>1, <1>9 DEF Resting
  <2>2. n < arrived
    BY <1>1, <2>1 DEF BookInv, Stamped, Maker
  <2>3. orders' = {Maker(i, 1, 5, n), Maker(i, 2, 5, arrived)}
    BY <1>6, <1>9, <2>1
  <2> QED BY <1>2, <1>6, <1>7, <1>9, <2>2, <2>3 DEF Resting
<1> QED BY <1>6, <1>8, <1>9

\* While the taker has a quantity left and a maker rests, the match goes on.
LEMMA MatchGoesOn ==
  ASSUME BookInv, NEW i \in 1..Iterations, NEW q \in Nat \ {0},
         taker = AsTaker(i, 3, q), NEW o \in orders, o.side = "buy", o.px = i
  PROVE  ~MatchOver
<1>1. taker.side = "sell" /\ taker.px = i /\ taker.qty = q /\ i \in Nat
  BY ProbeFields DEF AsTaker
<1>2. i \in prices["buy"]
  BY DEF BookInv, LevelsExact, Sides
<1>3. Crosses(i)
  BY <1>1 DEF Crosses, Better
<1> QED BY <1>1, <1>2, <1>3 DEF MatchOver, Opposite

\* The taker is filled by A, which is older, then by B, and nothing of it rests.
LEMMA TakerFills ==
  ASSUME BookInv, NEW i \in 1..Iterations, Matching(i, 3),
         (\E o \in orders : TakeWhole(o) \/ TakePart(o) \/ RestMerged(o)) \/ Finish \/ Rest
  PROVE  \/ taker' # None /\ Matching(i, 3)'
         \/ taker' = None /\ fills' = <<FillA(i), FillB(i)>> /\ Resting(i, 4)'
<1>0. /\ i \in Nat /\ i # None /\ ProbeId(i, 1) \in Ids /\ ProbeId(i, 2) \in Ids
      /\ arrived \in Nat /\ index \in [Ids -> Loc \cup {None}]
      /\ ProbeId(i, 1) # ProbeId(i, 2)
  BY ProbeFields DEF BookInv, TypeOK, ProbeId
<1>1. CASE Resting(i, 3) /\ taker = AsTaker(i, 3, 6) /\ fills = <<>>
  <2>1. PICK n, m \in 0..arrived :
          /\ n < m
          /\ orders = {Maker(i, 1, 5, n), Maker(i, 2, 5, m)}
          /\ index[ProbeId(i, 2)] = PlaceOf(i, m)
    BY <1>1 DEF Resting
  <2> DEFINE a == Maker(i, 1, 5, n)
             b == Maker(i, 2, 5, m)
  <2>2. /\ a \in orders /\ b \in orders /\ a # b /\ orders \ {a} = {b}
        /\ a.at = n /\ b.at = m /\ a.px = i /\ b.px = i /\ a.side = "buy" /\ b.side = "buy"
        /\ a.qty = 5 /\ b.qty = 5 /\ a.id = ProbeId(i, 1)
    BY <1>0, <2>1 DEF Maker
  <2>3. taker.qty = 6
    BY <1>1 DEF AsTaker
  <2>4. ~MatchOver
    BY <1>1, <2>2, MatchGoesOn
  <2>5. PICK o \in orders : TakeWhole(o) \/ TakePart(o)
    BY <2>4 DEF Finish, Rest, RestMerged
  <2>6. o = a
    <3>1. o = b => ~Front(o)
      BY <2>1, <2>2 DEF Front, Level
    <3> QED BY <2>1, <2>5, <3>1 DEF TakeWhole, TakePart, Matches
  <2>7. TakeWhole(a)
    BY <2>2, <2>3, <2>5, <2>6 DEF TakePart
  <2>8. /\ orders' = {b} /\ arrived' = arrived
        /\ index' = [index EXCEPT ![ProbeId(i, 1)] = None]
        /\ taker' = [AsTaker(i, 3, 6) EXCEPT !.qty = 6 - 5]
        /\ fills' = Append(<<>>, [px |-> i, qty |-> 5, maker |-> ProbeId(i, 1)])
    BY <1>1, <2>2, <2>3, <2>7 DEF TakeWhole
  <2>9. /\ index'[ProbeId(i, 2)] = PlaceOf(i, m)
        /\ taker' = AsTaker(i, 3, 1) /\ taker' # None
        /\ fills' = <<FillA(i)>>
    <3>1. index'[ProbeId(i, 2)] = PlaceOf(i, m)
      BY <1>0, <2>1, <2>8
    <3>2. taker' = AsTaker(i, 3, 1) /\ taker' # None
      <4>1. [AsTaker(i, 3, 6) EXCEPT !.qty = 6 - 5] = AsTaker(i, 3, 1)
        BY DEF AsTaker
      <4>2. AsTaker(i, 3, 1) # None
        BY TakerFields
      <4> QED BY <2>8, <4>1, <4>2
    <3>3. fills' = <<FillA(i)>>
      BY <2>8 DEF FillA
    <3> QED BY <3>1, <3>2, <3>3
  <2>10. OnlyB(i, 5)'
    BY <2>1, <2>8, <2>9 DEF OnlyB
  <2> QED BY <2>9, <2>10 DEF Matching
<1>2. CASE OnlyB(i, 5) /\ taker = AsTaker(i, 3, 1) /\ fills = <<FillA(i)>>
  <2>1. PICK m \in 0..arrived :
          orders = {Maker(i, 2, 5, m)} /\ index[ProbeId(i, 2)] = PlaceOf(i, m)
    BY <1>2 DEF OnlyB
  <2> DEFINE b == Maker(i, 2, 5, m)
  <2>2. /\ b \in orders /\ b.px = i /\ b.side = "buy" /\ b.qty = 5 /\ b.id = ProbeId(i, 2)
        /\ [b EXCEPT !.qty = 4] = Maker(i, 2, 4, m)
    BY <2>1 DEF Maker
  <2>3. taker.qty = 1 /\ taker # None
    BY <1>2, TakerFields DEF AsTaker
  <2>4. ~MatchOver
    BY <1>2, <2>2, MatchGoesOn
  <2>5. TakePart(b)
    <3>1. PICK o \in orders : TakeWhole(o) \/ TakePart(o)
      BY <2>4 DEF Finish, Rest, RestMerged
    <3>2. o = b
      BY <2>1
    <3> QED BY <2>2, <2>3, <3>1, <3>2 DEF TakeWhole
  <2>6. /\ orders' = (orders \ {b}) \cup {[b EXCEPT !.qty = @ - taker.qty]}
        /\ taker' = [taker EXCEPT !.qty = 0]
        /\ fills' = Append(fills, [px |-> i, qty |-> 1, maker |-> ProbeId(i, 2)])
        /\ index' = index /\ arrived' = arrived
    BY <2>2, <2>3, <2>5 DEF TakePart
  <2>7. orders' = {Maker(i, 2, 4, m)}
    <3>1. [b EXCEPT !.qty = @ - taker.qty] = Maker(i, 2, 4, m)
      BY <2>2, <2>3
    <3> QED BY <2>1, <2>6, <3>1
  <2>8. taker' = AsTaker(i, 3, 0) /\ taker' # None /\ fills' = <<FillA(i), FillB(i)>>
    <3>1. taker' = AsTaker(i, 3, 0) /\ AsTaker(i, 3, 0) # None
      <4>1. [AsTaker(i, 3, 1) EXCEPT !.qty = 0] = AsTaker(i, 3, 0)
        BY DEF AsTaker
      <4>2. AsTaker(i, 3, 0) # None
        BY TakerFields
      <4> QED BY <1>2, <2>6, <4>1, <4>2
    <3>2. fills' = <<FillA(i), FillB(i)>>
      <4>1. fills' = Append(<<FillA(i)>>, FillB(i))
        BY <1>2, <2>6 DEF FillB
      <4> QED BY <4>1, AppendSecond
    <3> QED BY <3>1, <3>2
  <2>9. OnlyB(i, 4)'
    BY <2>1, <2>6, <2>7 DEF OnlyB
  <2> QED BY <2>8, <2>9 DEF Matching
<1>3. CASE OnlyB(i, 4) /\ taker = AsTaker(i, 3, 0) /\ fills = <<FillA(i), FillB(i)>>
  <2>1. taker.qty = 0
    BY <1>3 DEF AsTaker
  <2>2. Finish
    BY <2>1 DEF TakeWhole, TakePart, Matches, RestMerged, Rest
  <2>3. taker' = None /\ fills' = fills /\ UNCHANGED <<orders, index, arrived>>
    BY <2>2 DEF Finish
  <2>4. OnlyB(i, 4)'
    BY <1>3, <2>3 DEF OnlyB
  <2> QED BY <1>3, <2>3, <2>4 DEF Resting
<1> QED BY <1>1, <1>2, <1>3 DEF Matching

\* The cancel takes B, which is all that rests, out of the book.
LEMMA CancelEmpties ==
  ASSUME BookInv, NEW i \in 1..Iterations, Resting(i, 4), Cancel(ProbeId(i, 2))
  PROVE  orders' = {}
<1>1. PICK m \in 0..arrived :
        orders = {Maker(i, 2, 4, m)} /\ index[ProbeId(i, 2)] = PlaceOf(i, m)
  BY DEF Resting, OnlyB
<1>2. Erased(ProbeId(i, 2)) = orders
  BY <1>1 DEF Erased, Level, Maker, PlaceOf
<1> QED BY <1>2 DEF Cancel

-----------------------------------------------------------------------------
(* What is sent and received.                                              *)

\* Only the answers of a taker carry its id.
LEMMA OwnIds ==
  ASSUME NEW i \in Int, NEW j \in Int, NEW k \in 1..4
  PROVE  ProbeId(i, k) = ProbeId(j, 3) <=> i = j /\ k = 3
  BY DEF ProbeId

\* The two fills of a taker differ.
LEMMA FillsDiffer ==
  ASSUME NEW i \in Int, NEW m
  PROVE  ~(FromA(m, i) /\ FromB(m, i))
  BY DEF FromA, FromB

\* Answers stay as they are when nothing is sent.
LEMMA AnswersKept ==
  ASSUME NEW i \in 1..Iterations, Answers(i), sent'[Prober] = sent[Prober],
         Asked \in Int, Asked' \in Int, Asked <= Asked', Number(i, 3) \in Int
  PROVE  Answers(i)'
  BY DEF Answers, IsFillOf, Mentions, FromA, FromB

\* They grow by a message if it is in its place.
LEMMA AnswersGrow ==
  ASSUME NEW i \in 1..Iterations, Answers(i), sent[Prober] \in Seq(Message),
         NEW m \in Message, sent'[Prober] = Append(sent[Prober], m), Asked' = Asked,
         Mentions(m, i) => Number(i, 3) <= Asked,
         IsFillOf(m, i) =>
            /\ FromA(m, i) \/ FromB(m, i)
            /\ \E n \in 1..Len(sent[Prober]) : sent[Prober][n] = AckOf(ProbeId(i, 3))
            /\ \A n \in 1..Len(sent[Prober]) :
                  IsFillOf(sent[Prober][n], i) => FromA(sent[Prober][n], i) /\ FromB(m, i)
  PROVE  Answers(i)'
<1> DEFINE s == sent[Prober]
           t == sent'[Prober]
           l == Len(s)
<1>1. /\ l \in Nat /\ Len(t) = l + 1 /\ t[l + 1] = m
      /\ \A n \in 1..l : t[n] = s[n]
      /\ \A n \in 1..Len(t) : n \in 1..l \/ n = l + 1
  BY LongerAppend DEF Longer
<1>2. /\ \A n \in 1..l : IsFillOf(s[n], i) =>
            /\ FromA(s[n], i) \/ FromB(s[n], i)
            /\ \E k \in 1..(n - 1) : s[k] = AckOf(ProbeId(i, 3))
      /\ \A n, k \in 1..l : n < k /\ IsFillOf(s[n], i) /\ IsFillOf(s[k], i) =>
            FromA(s[n], i) /\ FromB(s[k], i)
      /\ \A n \in 1..l : Mentions(s[n], i) => Number(i, 3) <= Asked
  BY DEF Answers
<1> HIDE DEF s, t, l
<1>3. /\ Mentions(m, i) => Number(i, 3) <= Asked
      /\ IsFillOf(m, i) =>
            /\ FromA(m, i) \/ FromB(m, i)
            /\ \E n \in 1..l : s[n] = AckOf(ProbeId(i, 3))
            /\ \A n \in 1..l : IsFillOf(s[n], i) => FromA(s[n], i) /\ FromB(m, i)
  BY DEF s, l
<1>4. ASSUME NEW n \in 1..Len(t), IsFillOf(t[n], i)
      PROVE  /\ FromA(t[n], i) \/ FromB(t[n], i)
             /\ \E k \in 1..(n - 1) : t[k] = AckOf(ProbeId(i, 3))
  <2>1. CASE n \in 1..l
    <3>1. PICK k \in 1..(n - 1) : s[k] = AckOf(ProbeId(i, 3))
      BY <1>1, <1>2, <1>4, <2>1
    <3>2. k \in 1..l /\ t[k] = s[k]
      BY <1>1, <2>1
    <3>3. FromA(t[n], i) \/ FromB(t[n], i)
      BY <1>1, <1>2, <1>4, <2>1
    <3> QED BY <3>1, <3>2, <3>3
  <2>2. CASE n = l + 1
    <3>1. PICK k \in 1..l : s[k] = AckOf(ProbeId(i, 3))
      BY <1>1, <1>3, <1>4, <2>2
    <3>2. k \in 1..(n - 1) /\ t[k] = s[k]
      BY <1>1, <2>2
    <3>3. FromA(t[n], i) \/ FromB(t[n], i)
      BY <1>1, <1>3, <1>4, <2>2
    <3> QED BY <3>1, <3>2, <3>3
  <2> QED BY <1>1, <2>1, <2>2
<1>5. ASSUME NEW n \in 1..Len(t), NEW k \in 1..Len(t), n < k,
             IsFillOf(t[n], i), IsFillOf(t[k], i)
      PROVE  FromA(t[n], i) /\ FromB(t[k], i)
  <2>1. n \in 1..l /\ t[n] = s[n]
    BY <1>1, <1>5
  <2>2. CASE k \in 1..l
    BY <1>1, <1>2, <1>5, <2>1, <2>2
  <2>3. CASE k = l + 1
    BY <1>1, <1>3, <1>5, <2>1, <2>3
  <2> QED BY <1>1, <2>2, <2>3
<1>6. ASSUME NEW n \in 1..Len(t), Mentions(t[n], i) PROVE Number(i, 3) <= Asked
  <2>1. CASE n \in 1..l
    BY <1>1, <1>2, <1>6, <2>1
  <2>2. CASE n = l + 1
    BY <1>1, <1>3, <1>6, <2>2
  <2> QED BY <1>1, <2>1, <2>2
<1>7. /\ \A n \in 1..Len(t) : IsFillOf(t[n], i) =>
            /\ FromA(t[n], i) \/ FromB(t[n], i)
            /\ \E k \in 1..(n - 1) : t[k] = AckOf(ProbeId(i, 3))
      /\ \A n, k \in 1..Len(t) : n < k /\ IsFillOf(t[n], i) /\ IsFillOf(t[k], i) =>
            FromA(t[n], i) /\ FromB(t[k], i)
      /\ \A n \in 1..Len(t) : Mentions(t[n], i) => Number(i, 3) <= Asked'
  BY <1>4, <1>5, <1>6
<1> QED BY <1>7 DEF t, Answers, IsFillOf, Mentions, FromA, FromB, Number

\* What the probe has received is not changed by what is sent after it.
LEMMA ListeningKept ==
  ASSUME Listening, UNCHANGED probeVars, Longer(sent[Prober], sent'[Prober]),
         seen <= Len(sent[Prober]), Len(sent[Prober]) \in Nat, Len(wire[Prober]) \in Nat,
         Len(wire'[Prober]) \in Nat, Len(wire[Prober]) <= Len(wire'[Prober])
  PROVE  Listening'
<1>1. /\ seen' = seen /\ iter' = iter /\ got' = got /\ at' = at /\ order' = order
      /\ seen \in Nat /\ seen <= Len(wire[Prober])
  BY DEF probeVars, Listening
<1>2. seen' \in 0..Len(wire'[Prober])
  BY <1>1
<1>3. \A n \in 1..seen : sent'[Prober][n] = sent[Prober][n]
  BY <1>1 DEF Longer
<1>4. \A n \in 1..seen :
        /\ Received(n)' <=> Received(n)
        /\ FromB(sent'[Prober][n], iter') <=> FromB(sent[Prober][n], iter)
        /\ Mentions(sent'[Prober][n], iter') <=> Mentions(sent[Prober][n], iter)
  BY <1>1, <1>3 DEF Received, IsFillOf
<1>5. order' < 4 => got' = <<>>
  BY <1>1 DEF Listening
<1>6. at' = "fills" => order' = 4
  BY <1>1 DEF Listening
<1>7. at' = "ack" /\ order' = 3 =>
        \A n \in 1..seen' : ~Mentions(sent'[Prober][n], iter')
  BY <1>1, <1>4 DEF Listening
<1>8. at' = "fills" =>
        \/ got' = <<>> /\ \A n \in 1..seen' : ~Received(n)'
        \/ /\ got' = << <<ProbeId(iter', 1), 5>> >>
           /\ \E n \in 1..seen' : Received(n)'
        \/ /\ got' = << <<ProbeId(iter', 2), 1>> >>
           /\ \E n \in 1..seen' : Received(n)' /\ FromB(sent'[Prober][n], iter')
  BY <1>1, <1>4 DEF Listening
<1> QED BY <1>2, <1>5, <1>6, <1>7, <1>8 DEF Listening, ProbeId, Mentions, FromB

-----------------------------------------------------------------------------
(* Steps of the engine that leave the requests of the probe alone.          *)

\* A wire only grows, and a step of the engine is no step of a client.
LEMMA WireGrows ==
  ASSUME ServerInv, NEW c \in Conns, EngineStep(c), NEW d \in Conns
  PROVE  Len(wire[d]) \in Nat /\ Len(wire[d]) <= Len(wire'[d]) /\ client' = client
<1>0. /\ wire \in [Conns -> Seq(Message)] /\ ConnInv(c) /\ BufferInv(c) /\ ServerTypeOK
      /\ \A s \in Seq(Message) : Len(s) \in Nat
  BY LenProperties DEF ServerInv, ServerTypeOK, ConnInv
<1>1. ASSUME wire' = wire, client' = client
      PROVE  Len(wire[d]) \in Nat /\ Len(wire[d]) <= Len(wire'[d]) /\ client' = client
  BY <1>0, <1>1
<1>2. ASSUME NEW s, wire' = [wire EXCEPT ![c] = s], Len(wire[c]) <= Len(s), client' = client
      PROVE  Len(wire[d]) \in Nat /\ Len(wire[d]) <= Len(wire'[d]) /\ client' = client
  <2>1. wire'[d] = IF d = c THEN s ELSE wire[d]
    BY <1>0, <1>2
  <2> QED BY <1>0, <1>2, <2>1
<1>3. ASSUME NEW m \in Message
      PROVE  Len(wire[c]) <= Len(Append(wire[c], m))
  <2>1. Len(Append(wire[c], m)) = Len(wire[c]) + 1 /\ Len(wire[c]) \in Nat
    BY <1>0, LongerAppend
  <2> QED BY <2>1
<1>4. CASE Accept(c) \/ Upgrade(c) \/ UpgradeFails(c) \/ ReadRequest(c) \/ Enter(c)
           \/ Work(c) \/ WorkCancel(c) \/ Return(c) \/ SendFails(c) \/ RunPost(c)
           \/ WriteDone(c) \/ WriteFails(c) \/ ReadFails(c)
  BY <1>1, <1>4
  DEF Accept, Upgrade, UpgradeFails, ReadRequest, Enter, Work, WorkCancel, Return,
      SendFails, RunPost, WriteDone, WriteFails, ReadFails
<1>5. CASE Serve(c)
  <2>1. wire[c] = <<>> /\ wire' = [wire EXCEPT ![c] = <<Hello>>] /\ client' = client
    BY <1>0, <1>5 DEF Serve, BufferInv
  <2>2. Len(<<>>) <= Len(<<Hello>>)
    OBVIOUS
  <2> QED BY <1>2, <2>1, <2>2
<1>6. CASE Ack(c) \/ Reply(c)
  <2>1. PICK m \in Message : Send(c, m)
    BY <1>6, AnswersAreMessages DEF Ack, Reply
  <2>2. client' = client
    BY <1>6 DEF Ack, Reply
  <2>3. wire' = wire \/ wire' = [wire EXCEPT ![c] = Append(wire[c], m)]
    BY <2>1 DEF Send
  <2> QED BY <1>1, <1>2, <1>3, <2>2, <2>3
<1>7. CASE SocketTakes(c)
  <2>1. Head(sending[c]) \in Message
    BY <1>0, <1>7, HeadTailProperties DEF SocketTakes, ServerTypeOK
  <2> QED BY <1>2, <1>3, <1>7, <2>1 DEF SocketTakes
<1>8. CASE ReadClose(c)
  <2>1. CASE wire' = wire
    BY <1>1, <1>8, <2>1 DEF ReadClose
  <2>2. CASE wire' # wire
    <3>1. CloseAnswer(c) /\ client' = client
      BY <1>8, <2>2 DEF ReadClose
    <3> DEFINE n == Append(writeBuffers[c], CloseFrame)
    <3>2. wire' = [wire EXCEPT ![c] = wire[c] \o n]
      BY <2>2, <3>1 DEF CloseAnswer
    <3>3. n \in Seq(Message)
      <4>1. CloseFrame \in Message /\ writeBuffers[c] \in Seq(Message)
        BY <1>0 DEF Message, ServerTypeOK
      <4> QED BY <4>1, AppendProperties
    <3>4. Len(wire[c]) <= Len(wire[c] \o n)
      <4> HIDE DEF n
      <4>1. Len(wire[c] \o n) = Len(wire[c]) + Len(n)
        BY <1>0, <3>3, ConcatProperties
      <4> QED BY <1>0, <3>3, <4>1
    <3> QED BY <1>2, <3>1, <3>2, <3>4
  <2> QED BY <2>1, <2>2
<1> QED
  BY <1>4, <1>5, <1>6, <1>7, <1>8 DEF EngineStep

\* The engine does nothing with the book for a client that never came.
LEMMA NobodyThere ==
  ASSUME ServerInv, NEW c \in Conns, client[c] = "out", stage[c] = "none", EngineStep(c)
  PROVE  UNCHANGED <<orders, index, arrived, taker, fills, stage>>
<1>1. step[c] = "read"
  BY DEF ServerInv, ConnInv, HandlerInv
<1>2. WriteDone(c) \/ WriteFails(c) \/ RunPost(c)
  BY <1>1
  DEF EngineStep, Accept, Upgrade, UpgradeFails, Serve, ReadRequest, Ack, Enter, Work,
      WorkCancel, Reply, Return, SendFails, SocketTakes, ReadClose, ReadFails, ReadReady
<1> QED BY <1>2 DEF WriteDone, WriteFails, RunPost, book

\* Where the probe is alone, it stays so.
LEMMA AloneKept ==
  ASSUME ServerInv, Alone, NEW c \in Conns, EngineStep(c), mode' = mode
  PROVE  Alone'
<1>1. client' = client
  BY WireGrows
<1>2. CASE mode = "load"
  BY <1>1, <1>2 DEF Alone
<1>3. CASE mode # "load"
  <2>1. ASSUME NEW d \in Conns \ {Prober} PROVE client'[d] = "out" /\ stage'[d] = "none"
    <3>1. client[d] = "out" /\ stage[d] = "none"
      BY <1>3 DEF Alone
    <3>2. CASE c = d
      BY <1>1, <3>1, <3>2, NobodyThere
    <3>3. CASE c # d
      BY <1>1, <3>1, <3>3, Elsewhere DEF SameHandler, ServerInv
    <3> QED BY <3>2, <3>3
  <2> QED BY <1>3, <2>1 DEF Alone
<1> QED BY <1>2, <1>3

\* The same for the probe.
LEMMA WireIsSent ==
  ASSUME ServerInv
  PROVE  /\ sent[Prober] \in Seq(Message) /\ wire[Prober] \in Seq(Message)
         /\ Len(sent[Prober]) \in Nat /\ Len(wire[Prober]) \in Nat
         /\ Len(wire[Prober]) <= Len(sent[Prober])
         /\ \A n \in 1..Len(wire[Prober]) : wire[Prober][n] = sent[Prober][n]
  BY ProbeAssumption, WrittenIsSent

-----------------------------------------------------------------------------
(* The handler at the requests of the probe.                                *)

\* The requests asked are those of the iterations so far.
LEMMA Counting ==
  ASSUME ServerTypeOK, ClientInv, at # "end"
  PROVE  /\ Asked \in Int /\ Asked <= 4 * Iterations /\ iter \in 1..Iterations
         /\ Iterations \in Nat /\ order \in 1..4
         /\ inbox[Prober] \in Seq(Request \cup {CloseFrame}) /\ Len(inbox[Prober]) \in Nat
         /\ ReadNow \in Int /\ ReadNow <= Asked
<1>1. iter \in 1..Iterations /\ order \in 1..4 /\ Iterations \in Nat
  BY ProbeAssumption DEF ClientInv
<1>2. inbox[Prober] \in Seq(Request \cup {CloseFrame}) /\ Len(inbox[Prober]) \in Nat
  BY ProbeAssumption, LenProperties DEF ServerTypeOK
<1>3. Asked \in Int /\ Asked <= 4 * Iterations
  BY <1>1 DEF Asked, Number
<1> QED BY <1>1, <1>2, <1>3 DEF ReadNow

\* What is resting looks the same however many orders arrived since.
LEMMA RestingKept ==
  ASSUME NEW i, NEW k, Resting(i, k), orders' = orders, index' = index,
         arrived \in Nat, arrived' \in Nat, arrived <= arrived'
  PROVE  Resting(i, k)'
<1>1. 0..arrived \subseteq 0..arrived'
  OBVIOUS
<1>2. OnlyB(i, 4) => OnlyB(i, 4)'
  BY <1>1 DEF OnlyB, Maker, PlaceOf, ProbeId
<1> QED BY <1>1, <1>2 DEF Resting, Maker, PlaceOf, ProbeId

\* Nothing that the handler works with has changed.
LEMMA HandlerKept ==
  ASSUME NEW i, NEW k, HandlerAt(i, k), ReadNow' = ReadNow, sent'[Prober] = sent[Prober],
         step'[Prober] = step[Prober], request'[Prober] = request[Prober],
         replies'[Prober] = replies[Prober],
         UNCHANGED <<orders, index, arrived, taker, fills>>
  PROVE  HandlerAt(i, k)'
<1>1. Resting(i, k)' <=> Resting(i, k)
  BY DEF Resting, OnlyB, Maker, PlaceOf, ProbeId
<1>2. Resting(i, k + 1)' <=> Resting(i, k + 1)
  BY DEF Resting, OnlyB, Maker, PlaceOf, ProbeId
<1>3. Matching(i, k)' <=> Matching(i, k)
  BY DEF Matching, Resting, OnlyB, Maker, PlaceOf, ProbeId, AsTaker, FillA, FillB
<1>4. Replying(i, k)' <=> Replying(i, k)
  BY DEF Replying, IsFillOf, FromA, FillA, FillB, ProbeId
<1>5. AnsweredTo(i, k)' <=> AnsweredTo(i, k)
  BY DEF AnsweredTo, IsFillOf, Mentions, ProbeId, Number, AckOf
<1> QED
  BY <1>1, <1>2, <1>3, <1>4, <1>5 DEF HandlerAt, Number, ProbeRequest

LEMMA QueuedKept ==
  ASSUME Queued, ReadNow' = ReadNow, inbox'[Prober] = inbox[Prober]
  PROVE  Queued'
  BY DEF Queued, Number, ProbeRequest

\* As many requests were asked and read as before.
LEMMA CountKept ==
  ASSUME UNCHANGED probeVars, inbox'[Prober] = inbox[Prober]
  PROVE  Asked' = Asked /\ ReadNow' = ReadNow
  BY DEF Asked, ReadNow, Number, probeVars

\* Answers and what the probe has received, where nothing is sent.
LEMMA NothingSent ==
  ASSUME ServerInv, ServerInv', ClientInv, at # "end", Served, UNCHANGED probeVars,
         sent'[Prober] = sent[Prober], Len(wire[Prober]) <= Len(wire'[Prober])
  PROVE  (\A i \in 1..Iterations : Answers(i)') /\ Listening'
<1>1. Asked' = Asked /\ Asked \in Int
  BY Counting DEF Asked, Number, probeVars, ServerInv
<1>2. \A i \in 1..Iterations : Answers(i)'
  BY <1>1, AnswersKept DEF Served, Number
<1>3. seen <= Len(sent[Prober])
  BY WireIsSent DEF Served, Listening
<1>4. Len(wire'[Prober]) \in Nat
  BY ProbeAssumption, LenProperties DEF ServerInv, ServerTypeOK
<1>5. Longer(sent[Prober], sent'[Prober])
  BY WireIsSent, LongerSelf
<1> QED BY <1>2, <1>3, <1>4, <1>5, WireIsSent, ListeningKept DEF Served

\* A step that neither sends to the probe nor works for it.
LEMMA QuietStep ==
  ASSUME ServerInv, ServerInv', ClientInv, at # "end", Served, UNCHANGED probeVars,
         SameHandler(Prober), UNCHANGED <<orders, index, arrived, taker, fills>>,
         Len(wire[Prober]) <= Len(wire'[Prober])
  PROVE  Served'
<1>1. (\A i \in 1..Iterations : Answers(i)') /\ Listening'
  BY NothingSent DEF SameHandler
<1>2. stage'[Prober] # "ended" => InStep'
  <2> SUFFICES ASSUME stage'[Prober] # "ended" PROVE InStep'
    OBVIOUS
  <2>1. PICK i \in 1..(Iterations + 1), k \in 1..4 : Queued /\ HandlerAt(i, k)
    BY DEF Served, InStep, SameHandler
  <2>2. HandlerAt(i, k)' /\ Queued'
    BY <2>1, CountKept, HandlerKept, QueuedKept DEF SameHandler
  <2> QED BY <2>2 DEF InStep
<1> QED BY <1>1, <1>2 DEF Served

\* A greeting or a close frame is no answer to a taker.
LEMMA NoAnswer ==
  ASSUME NEW m \in {Hello, CloseFrame}, NEW i
  PROVE  m \in Message /\ ~Mentions(m, i) /\ ~IsFillOf(m, i)
  BY DEF Hello, CloseFrame, Mentions, IsFillOf, Message

\* What was answered stays answered when a message is sent.
LEMMA MessageSent ==
  ASSUME ServerInv, ServerInv', ClientInv, at # "end", Served, UNCHANGED probeVars,
         NEW m \in Message, sent'[Prober] = Append(sent[Prober], m),
         Len(wire[Prober]) <= Len(wire'[Prober]),
         \A i \in 1..Iterations :
            /\ Mentions(m, i) => Number(i, 3) <= Asked
            /\ IsFillOf(m, i) =>
                  /\ FromA(m, i) \/ FromB(m, i)
                  /\ \E n \in 1..Len(sent[Prober]) : sent[Prober][n] = AckOf(ProbeId(i, 3))
                  /\ \A n \in 1..Len(sent[Prober]) :
                        IsFillOf(sent[Prober][n], i) =>
                           FromA(sent[Prober][n], i) /\ FromB(m, i)
  PROVE  (\A i \in 1..Iterations : Answers(i)') /\ Listening'
<1>0. sent[Prober] \in Seq(Message)
  BY WireIsSent
<1>1. Asked' = Asked
  BY DEF Asked, Number, probeVars
<1>2. ASSUME NEW i \in 1..Iterations PROVE Answers(i)'
  <2>1. Answers(i)
    BY DEF Served
  <2> QED BY <1>0, <1>1, <2>1, AnswersGrow
<1>3. Listening'
  <2>1. seen <= Len(sent[Prober])
    BY WireIsSent DEF Served, Listening
  <2>2. Longer(sent[Prober], sent'[Prober])
    BY <1>0, LongerAppend
  <2>3. Len(wire'[Prober]) \in Nat
    BY ProbeAssumption, LenProperties DEF ServerInv, ServerTypeOK
  <2> QED BY <2>1, <2>2, <2>3, WireIsSent, ListeningKept DEF Served
<1> QED BY <1>2, <1>3

\* The connection of the probe is answered.
LEMMA Greeted ==
  ASSUME ServerInv, ServerInv', ClientInv, at # "end", Served, UNCHANGED probeVars,
         Upgrade(Prober) \/ Serve(Prober)
  PROVE  Served'
<1>0. /\ stage[Prober] \in {"none", "http"} /\ ServerTypeOK /\ Prober \in Conns
      /\ step[Prober] = "read" /\ sent[Prober] = <<>>
  BY ProbeAssumption DEF ServerInv, ConnInv, HandlerInv, BufferInv, Upgrade, Serve
<1>1. /\ sent'[Prober] = <<Hello>>
      /\ UNCHANGED <<orders, index, arrived, taker, fills, inbox, step, request, replies>>
  BY <1>0 DEF Upgrade, Serve, book, handler, ServerTypeOK
<1>2. Len(wire[Prober]) <= Len(wire'[Prober])
  <2>1. EngineStep(Prober)
    BY DEF EngineStep
  <2> QED BY <1>0, <2>1, WireGrows
<1>3. <<Hello>> = Append(<<>>, Hello)
  BY AppendSecond
<1>4. (\A i \in 1..Iterations : Answers(i)') /\ Listening'
  BY <1>0, <1>1, <1>2, <1>3, MessageSent, NoAnswer
<1>5. InStep'
  <2>1. PICK i \in 1..(Iterations + 1), k \in 1..4 : Queued /\ HandlerAt(i, k)
    BY <1>0 DEF Served, InStep
  <2>2. Queued'
    BY <1>1, <2>1, CountKept, QueuedKept
  <2>3. AnsweredTo(i, k)'
    <3>1. \A n \in 1..Len(sent'[Prober]) : sent'[Prober][n] = Hello
      BY <1>1
    <3>2. \A j : ~Mentions(Hello, j)
      BY NoAnswer
    <3> QED BY <1>0, <1>1, <3>1, <3>2 DEF AnsweredTo, Mentions
  <2>4. Resting(i, k)' /\ taker' = None /\ replies'[Prober] = <<>>
    BY <1>0, <1>1, <2>1 DEF HandlerAt, Resting, OnlyB, Maker, PlaceOf, ProbeId
  <2>5. ReadNow' = ReadNow
    BY <1>1, CountKept
  <2>6. HandlerAt(i, k)'
    BY <1>0, <1>1, <2>1, <2>3, <2>4, <2>5 DEF HandlerAt, Number
  <2> QED BY <2>2, <2>6 DEF InStep
<1> QED BY <1>4, <1>5 DEF Served

\* A close frame ends the connection, but not what was sent.
LEMMA Closed ==
  ASSUME ServerInv, ServerInv', ClientInv, at # "end", Served, UNCHANGED probeVars,
         ReadClose(Prober)
  PROVE  Served'
<1>0. ServerTypeOK /\ Prober \in Conns
  BY ProbeAssumption DEF ServerInv
<1>1. stage'[Prober] = "ended"
  BY <1>0 DEF ReadClose, ServerTypeOK
<1>2. Len(wire[Prober]) <= Len(wire'[Prober])
  <2>1. EngineStep(Prober)
    BY DEF EngineStep
  <2> QED BY <1>0, <2>1, WireGrows
<1>3. CASE sent' = sent
  BY <1>1, <1>2, <1>3, NothingSent DEF Served
<1>4. CASE sent' # sent
  <2>1. sent' = [sent EXCEPT ![Prober] = Append(@, CloseFrame)]
    BY <1>4 DEF ReadClose
  <2>2. sent'[Prober] = Append(sent[Prober], CloseFrame)
    BY <1>0, <2>1 DEF ServerTypeOK
  <2>3. (\A i \in 1..Iterations : Answers(i)') /\ Listening'
    BY <1>2, <2>2, MessageSent, NoAnswer
  <2> QED BY <1>1, <2>3 DEF Served
<1> QED BY <1>3, <1>4

-----------------------------------------------------------------------------
(* Steps of the handler of the probe.                                       *)

\* The request the handler of the probe is at.
LEMMA AtRequest ==
  ASSUME ServerInv, ClientInv, at # "end", Served, stage[Prober] = "ws"
  PROVE  \E i \in 1..(Iterations + 1), k \in 1..4 :
            /\ Queued /\ HandlerAt(i, k) /\ Number(i, k) \in Int /\ i \in Nat
            /\ step[Prober] # "read" =>
                  /\ i \in 1..Iterations /\ Number(i, k) = ReadNow
                  /\ request[Prober] = ProbeRequest(i, k)
                  /\ request[Prober].id = ProbeId(i, k)
<1>1. PICK i \in 1..(Iterations + 1), k \in 1..4 : Queued /\ HandlerAt(i, k)
  BY DEF Served, InStep
<1>2. Iterations \in Nat /\ ReadNow \in Int
  BY Counting DEF ServerInv
<1>3. ProbeRequest(i, k).id = ProbeId(i, k)
  <2>1. k = 1 \/ k = 2 \/ k = 3 \/ k = 4
    OBVIOUS
  <2> QED BY <2>1, RequestIs
<1>4. step[Prober] # "read" =>
        i <= Iterations /\ Number(i, k) = ReadNow /\ request[Prober] = ProbeRequest(i, k)
  BY <1>1, <1>2 DEF HandlerAt
<1> QED BY <1>1, <1>2, <1>3, <1>4 DEF Number

\* What was answered so far, where nothing is sent.
LEMMA AnsweredKept ==
  ASSUME NEW i, NEW k, AnsweredTo(i, k), sent'[Prober] = sent[Prober],
         step'[Prober] \in {"lock", "book", "reply"} <=> step[Prober] \in {"lock", "book", "reply"},
         step'[Prober] \in {"lock", "book"} => step[Prober] \in {"lock", "book"}
  PROVE  AnsweredTo(i, k)'
  BY DEF AnsweredTo, IsFillOf, Mentions, ProbeId, Number, AckOf

LEMMA RestingSame ==
  ASSUME NEW i, NEW k, Resting(i, k), UNCHANGED <<orders, index, arrived>>
  PROVE  Resting(i, k)'
  BY DEF Resting, OnlyB, Maker, PlaceOf, ProbeId

\* The next request is the one that was asked next.
LEMMA RequestRead ==
  ASSUME ServerInv, ServerInv', ClientInv, at # "end", Served, UNCHANGED probeVars,
         ReadRequest(Prober)
  PROVE  Served'
<1> DEFINE q == inbox[Prober]
<1>0. /\ ServerTypeOK /\ Prober \in Conns /\ stage[Prober] = "ws" /\ step[Prober] = "read"
      /\ q \in Seq(Request \cup {CloseFrame}) /\ q # <<>> /\ Len(q) \in Nat
  BY ProbeAssumption, LenProperties DEF ServerInv, ServerTypeOK, ReadRequest, ReadReady
<1>1. PICK i \in 1..(Iterations + 1), k \in 1..4 :
        Queued /\ HandlerAt(i, k) /\ Number(i, k) \in Int /\ i \in Nat
  BY <1>0, AtRequest
<1>2. /\ step'[Prober] = "ack" /\ request'[Prober] = Head(q) /\ inbox'[Prober] = Tail(q)
      /\ replies' = replies /\ stage' = stage /\ sent' = sent /\ wire' = wire
      /\ UNCHANGED <<orders, index, arrived, taker>>
  BY <1>0 DEF ReadRequest, book, ServerTypeOK
<1>3. /\ Len(Tail(q)) = Len(q) - 1 /\ \A j \in 1..Len(Tail(q)) : Tail(q)[j] = q[j + 1]
      /\ Len(q) > 0 /\ Head(q) = q[1]
  BY <1>0, HeadTailProperties, EmptySeq
<1>4. /\ Asked \in Int /\ Asked <= 4 * Iterations /\ Iterations \in Nat
      /\ Asked' = Asked /\ ReadNow = Asked - Len(q) /\ ReadNow' = ReadNow + 1
  <2>1. Asked \in Int /\ Asked <= 4 * Iterations /\ Iterations \in Nat
    BY <1>0, Counting
  <2>2. Asked' = Asked
    BY DEF Asked, Number, probeVars
  <2>3. ReadNow = Asked - Len(q) /\ ReadNow' = Asked' - Len(inbox'[Prober])
    BY DEF ReadNow
  <2>4. Len(inbox'[Prober]) = Len(q) - 1
    BY <1>2, <1>3
  <2> HIDE DEF q
  <2> QED BY <1>0, <2>1, <2>2, <2>3, <2>4
<1>5. Number(i, k) = ReadNow + 1 /\ i \in 1..Iterations
  <2>1. Number(i, k) = ReadNow + 1
    BY <1>0, <1>1 DEF HandlerAt
  <2> HIDE DEF q
  <2>2. Number(i, k) <= Asked
    BY <1>0, <1>3, <1>4, <2>1
  <2>3. 4 * (i - 1) + k <= 4 * Iterations
    BY <1>1, <1>4, <2>2 DEF Number
  <2> QED BY <1>1, <1>4, <2>1, <2>3
<1>6. Head(q) = ProbeRequest(i, k)
  <2>1. 1 \in 1..Len(q)
    BY <1>0, <1>3
  <2> QED BY <1>1, <1>3, <1>5, <2>1 DEF Queued
<1>7. HandlerAt(i, k)'
  <2>1. Resting(i, k)' /\ taker' = None /\ replies'[Prober] = <<>>
    BY <1>0, <1>1, <1>2, RestingSame DEF HandlerAt
  <2>2. AnsweredTo(i, k)'
    BY <1>0, <1>1, <1>2, AnsweredKept DEF HandlerAt
  <2>3. Number(i, k)' = ReadNow'
    BY <1>4, <1>5 DEF Number
  <2> QED BY <1>2, <1>4, <1>5, <1>6, <2>1, <2>2, <2>3 DEF HandlerAt, ProbeRequest, Number
<1>8. Queued'
  <2> SUFFICES ASSUME NEW j \in 1..Len(Tail(q)), NEW i2 \in 1..Iterations, NEW k2 \in 1..4,
                      Number(i2, k2) = ReadNow + 1 + j
               PROVE  Tail(q)[j] = ProbeRequest(i2, k2)
    <3>1. inbox'[Prober] = Tail(q) /\ ReadNow' = ReadNow + 1
      BY <1>2, <1>4
    <3> HIDE DEF q
    <3>2. \A j \in 1..Len(inbox'[Prober]), i2 \in 1..Iterations, k2 \in 1..4 :
            Number(i2, k2) = ReadNow' + j => inbox'[Prober][j] = ProbeRequest(i2, k2)
      BY <3>1
    <3> QED BY <3>2 DEF Queued, Number, ProbeRequest, ProbeId, Limit, CancelOf
  <2>1. ReadNow \in Int
    BY <1>0, Counting
  <2>2. j + 1 \in 1..Len(q) /\ Number(i2, k2) = ReadNow + (j + 1) /\ Tail(q)[j] = q[j + 1]
    <3> HIDE DEF q
    <3> QED BY <1>0, <1>3, <2>1
  <2>3. q[j + 1] = ProbeRequest(i2, k2)
    BY <1>1, <2>2 DEF Queued
  <2> QED BY <2>2, <2>3
<1>9. (\A j \in 1..Iterations : Answers(j)') /\ Listening'
  BY <1>2, NothingSent, WireIsSent
<1> QED BY <1>7, <1>8, <1>9 DEF Served, InStep

\* The ack of a request mentions it and no other.
LEMMA RequestAcked ==
  ASSUME ServerInv, ServerInv', ClientInv, at # "end", Served, UNCHANGED probeVars,
         Ack(Prober)
  PROVE  Served'
<1> DEFINE s == sent[Prober]
           t == sent'[Prober]
<1>0. /\ ServerTypeOK /\ Prober \in Conns /\ stage[Prober] = "ws" /\ step[Prober] = "ack"
      /\ request[Prober].id \in Ids
  <2>1. stage[Prober] = "ws" /\ step[Prober] = "ack" /\ request[Prober] \in Request
    BY ProbeAssumption DEF ServerInv, ConnInv, HandlerInv, Ack, ServerTypeOK
  <2> QED BY <2>1, ProbeAssumption, CancelFields DEF ServerInv
<1>1. PICK i \in 1..Iterations, k \in 1..4 :
        /\ Queued /\ HandlerAt(i, k) /\ Number(i, k) \in Int /\ i \in Nat
        /\ Number(i, k) = ReadNow /\ request[Prober] = ProbeRequest(i, k)
        /\ request[Prober].id = ProbeId(i, k)
  BY <1>0, AtRequest
<1> DEFINE m == AckOf(ProbeId(i, k))
<1>2. /\ t = Append(s, m) /\ step'[Prober] = "lock" /\ m \in Message
      /\ UNCHANGED <<orders, index, arrived, taker, stage, request, replies, inbox>>
  <2>1. m \in Message
    BY <1>0, <1>1, AnswersAreMessages
  <2>2. Send(Prober, m)
    BY <1>1 DEF Ack
  <2>3. t = Append(s, m)
    BY <1>0, <2>2 DEF Send, ServerTypeOK
  <2> QED BY <1>0, <2>1, <2>3 DEF Ack, book, ServerTypeOK
<1>3. \A j \in Int : ~IsFillOf(m, j) /\ (Mentions(m, j) <=> j = i /\ k = 3)
  BY <1>1, OwnIds DEF AckOf, IsFillOf, Mentions
<1>4. /\ s \in Seq(Message) /\ Len(s) \in Nat /\ Len(t) = Len(s) + 1
      /\ \A n \in 1..Len(s) : t[n] = s[n]
      /\ t[Len(s) + 1] = m
  BY <1>2, WireIsSent, LongerAppend DEF Longer
<1>5. ReadNow <= Asked /\ ReadNow' = ReadNow /\ Asked' = Asked /\ Iterations \in Nat
  BY <1>0, <1>2, Counting, CountKept
<1>6. (\A j \in 1..Iterations : Answers(j)') /\ Listening'
  <2>1. Len(wire[Prober]) <= Len(wire'[Prober])
    <3>1. EngineStep(Prober)
      BY DEF EngineStep
    <3> QED BY <1>0, <3>1, WireGrows
  <2>2. \A j \in 1..Iterations : ~IsFillOf(m, j) /\ (Mentions(m, j) => Number(j, 3) <= Asked)
    BY <1>1, <1>3, <1>5
  <2> HIDE DEF m
  <2> QED BY <1>2, <2>1, <2>2, MessageSent
<1>7. AnsweredTo(i, k)'
  <2>1. \A n \in 1..Len(s), j \in 1..Iterations :
          Mentions(s[n], j) => Number(j, 3) < Number(i, k)
    BY <1>0, <1>1 DEF HandlerAt, AnsweredTo
  <2> HIDE DEF s, t, m
  <2>2. \A n \in 1..Len(t), j \in 1..Iterations :
          Mentions(t[n], j) => Number(j, 3) < Number(i, k) \/ (j = i /\ k = 3)
    <3> SUFFICES ASSUME NEW n \in 1..Len(t), NEW j \in 1..Iterations, Mentions(t[n], j)
                 PROVE  Number(j, 3) < Number(i, k) \/ (j = i /\ k = 3)
      OBVIOUS
    <3>1. CASE n \in 1..Len(s)
      BY <1>4, <2>1, <3>1
    <3>2. CASE n = Len(s) + 1
      BY <1>3, <1>4, <3>2
    <3> QED BY <1>4, <3>1, <3>2
  <2>3. k = 3 => \E n \in 1..Len(t) : t[n] = AckOf(ProbeId(i, 3))
    <3>1. Len(s) + 1 \in 1..Len(t)
      BY <1>4
    <3> QED BY <1>4, <3>1 DEF m
  <2>4. k = 3 => \A n \in 1..Len(t) : ~IsFillOf(t[n], i)
    <3> SUFFICES ASSUME k = 3, NEW n \in 1..Len(t) PROVE ~IsFillOf(t[n], i)
      OBVIOUS
    <3>1. CASE n \in 1..Len(s)
      <4>1. ~Mentions(s[n], i)
        BY <1>1, <2>1, <3>1
      <4> QED BY <1>4, <3>1, <4>1 DEF IsFillOf, Mentions
    <3>2. CASE n = Len(s) + 1
      BY <1>3, <1>4, <3>2
    <3> QED BY <1>4, <3>1, <3>2
  <2> QED
    BY <1>2, <2>2, <2>3, <2>4 DEF t, AnsweredTo, Mentions, IsFillOf, Number, ProbeId, AckOf
<1>8. HandlerAt(i, k)'
  <2>1. Resting(i, k)' /\ taker' = None /\ replies'[Prober] = <<>>
    BY <1>0, <1>1, <1>2, RestingSame DEF HandlerAt
  <2> HIDE DEF s, t, m
  <2> QED BY <1>1, <1>2, <1>5, <1>7, <2>1 DEF HandlerAt, Number, ProbeRequest
<1>9. Queued'
  BY <1>1, <1>2, <1>5, QueuedKept
<1>10. i \in 1..(Iterations + 1)
  BY ProbeAssumption
<1> QED BY <1>6, <1>8, <1>9, <1>10 DEF Served, InStep

\* Requests 1, 2 and 3 enter the book as takers.
LEMMA RequestEnters ==
  ASSUME ServerInv, ServerInv', ClientInv, BookInv, BookInv', at # "end", Served,
         UNCHANGED probeVars, Enter(Prober)
  PROVE  Served'
<1>0. /\ ServerTypeOK /\ Prober \in Conns /\ stage[Prober] = "ws" /\ step[Prober] = "lock"
      /\ arrived \in Nat /\ arrived' \in Nat
  BY ProbeAssumption DEF ServerInv, ConnInv, HandlerInv, Enter, BookInv, TypeOK
<1>1. PICK i \in 1..Iterations, k \in 1..4 :
        /\ Queued /\ HandlerAt(i, k) /\ Number(i, k) = ReadNow
        /\ request[Prober] = ProbeRequest(i, k)
  BY <1>0, AtRequest
<1>2. k \in 1..3
  <2>1. k # 4
    BY <1>1, RequestIs DEF Enter
  <2> QED BY <2>1
<1>3. /\ request[Prober].id = ProbeId(i, k) /\ request[Prober].px = i
      /\ request[Prober].side = (IF k = 3 THEN "sell" ELSE "buy")
      /\ request[Prober].qty = (IF k = 3 THEN 6 ELSE 5)
  BY <1>1, <1>2, RequestIs
<1>4. /\ taker' = AsTaker(i, k, IF k = 3 THEN 6 ELSE 5) /\ fills' = <<>>
      /\ arrived' = arrived + 1 /\ UNCHANGED <<orders, index>>
      /\ step'[Prober] = "book"
      /\ UNCHANGED <<stage, request, replies, inbox, sent, wire>>
  BY <1>0, <1>3 DEF Enter, Arrive, AsTaker, ServerTypeOK
<1>5. Resting(i, k)
  BY <1>0, <1>1 DEF HandlerAt
<1>6. Resting(i, k)'
  BY <1>0, <1>4, <1>5, RestingKept
<1>7. Matching(i, k)'
  <2>1. k = 1 \/ k = 2 \/ k = 3
    BY <1>2
  <2> QED BY <1>4, <1>6, <2>1 DEF Matching, AsTaker, ProbeId
<1>8. AnsweredTo(i, k)'
  BY <1>0, <1>1, <1>4, AnsweredKept DEF HandlerAt
<1>9. Asked' = Asked /\ ReadNow' = ReadNow
  BY <1>4, CountKept
<1>10. HandlerAt(i, k)'
  <2>1. replies'[Prober] = <<>>
    BY <1>0, <1>1, <1>4 DEF HandlerAt
  <2>2. i <= Iterations /\ request'[Prober] = ProbeRequest(i, k)'
    <3>1. Iterations \in Nat
      BY ProbeAssumption
    <3> QED BY <1>1, <1>4, <3>1 DEF ProbeRequest
  <2> QED BY <1>1, <1>4, <1>7, <1>8, <1>9, <2>1, <2>2 DEF HandlerAt, Number
<1>11. Queued' /\ (\A j \in 1..Iterations : Answers(j)') /\ Listening'
  BY <1>1, <1>4, <1>9, QueuedKept, NothingSent, WireIsSent
<1>12. i \in 1..(Iterations + 1)
  BY ProbeAssumption
<1> QED BY <1>10, <1>11, <1>12 DEF Served, InStep

\* A step of the match loop, or its end.
LEMMA RequestMatched ==
  ASSUME ServerInv, ServerInv', ClientInv, BookInv, at # "end", Served,
         UNCHANGED probeVars, Work(Prober)
  PROVE  Served'
<1>0. /\ ServerTypeOK /\ Prober \in Conns /\ stage[Prober] = "ws" /\ step[Prober] = "book"
      /\ (\E o \in orders : TakeWhole(o) \/ TakePart(o) \/ RestMerged(o)) \/ Finish \/ Rest
      /\ Iterations \in Nat
  BY ProbeAssumption DEF ServerInv, ConnInv, HandlerInv, Work
<1>1. PICK i \in 1..Iterations, k \in 1..4 :
        /\ Queued /\ HandlerAt(i, k) /\ Number(i, k) = ReadNow
        /\ request[Prober] = ProbeRequest(i, k)
  BY <1>0, AtRequest
<1>2. Matching(i, k) /\ k \in 1..3 /\ replies[Prober] = <<>>
  BY <1>0, <1>1 DEF HandlerAt, Matching
<1>3. /\ UNCHANGED <<stage, request, inbox, sent, wire>>
      /\ taker' = None => step'[Prober] = "reply" /\ replies'[Prober] = fills'
      /\ taker' # None => step'[Prober] = "book" /\ replies'[Prober] = <<>>
  BY <1>0, <1>2 DEF Work, ServerTypeOK
<1>4. \/ taker' # None /\ Matching(i, k)'
      \/ /\ taker' = None /\ Resting(i, k + 1)'
         /\ fills' = <<>> \/ (k = 3 /\ fills' = <<FillA(i), FillB(i)>>)
  <2>1. CASE k \in {1, 2}
    BY <1>0, <1>2, <2>1, MakersRest
  <2>2. CASE k = 3
    <3>1. \/ taker' # None /\ Matching(i, 3)'
          \/ taker' = None /\ fills' = <<FillA(i), FillB(i)>> /\ Resting(i, 4)'
      BY <1>0, <1>2, <2>2, TakerFills
    <3>2. Resting(i, 4)' => Resting(i, k + 1)'
      BY <2>2 DEF Resting
    <3>3. Matching(i, 3)' => Matching(i, k)'
      BY <2>2
    <3> QED BY <2>2, <3>1, <3>2, <3>3
  <2> QED BY <1>2, <2>1, <2>2
<1>5. AnsweredTo(i, k)'
  BY <1>0, <1>1, <1>3, AnsweredKept DEF HandlerAt
<1>6. Asked' = Asked /\ ReadNow' = ReadNow /\ request'[Prober] = ProbeRequest(i, k)'
  BY <1>1, <1>3, CountKept DEF ProbeRequest
<1>7. taker' = None => Replying(i, k)'
  <2> SUFFICES ASSUME taker' = None, fills' # <<>> PROVE Replying(i, k)'
    BY <1>3 DEF Replying
  <2>1. k = 3 /\ replies'[Prober] = <<FillA(i), FillB(i)>>
    BY <1>3, <1>4
  <2>2. \A n \in 1..Len(sent[Prober]) : ~IsFillOf(sent[Prober][n], i)
    BY <1>0, <1>1, <2>1 DEF HandlerAt, AnsweredTo
  <2> QED BY <1>3, <2>1, <2>2 DEF Replying, FillA, FillB, ProbeId, IsFillOf
<1>8. HandlerAt(i, k)'
  <2>1. CASE taker' = None
    BY <1>1, <1>3, <1>4, <1>5, <1>6, <1>7, <2>1 DEF HandlerAt, Number
  <2>2. CASE taker' # None
    BY <1>1, <1>3, <1>4, <1>5, <1>6, <2>2 DEF HandlerAt, Number
  <2> QED BY <2>1, <2>2
<1>9. Queued' /\ (\A j \in 1..Iterations : Answers(j)') /\ Listening'
  BY <1>1, <1>3, <1>6, QueuedKept, NothingSent, WireIsSent
<1>10. i \in 1..(Iterations + 1)
  BY <1>0
<1> QED BY <1>8, <1>9, <1>10 DEF Served, InStep

\* The cancel leaves an empty book to the next iteration.
LEMMA CancelDone ==
  ASSUME ServerInv, ServerInv', ClientInv, BookInv, at # "end", Served,
         UNCHANGED probeVars, WorkCancel(Prober)
  PROVE  Served'
<1>0. /\ ServerTypeOK /\ Prober \in Conns /\ stage[Prober] = "ws" /\ step[Prober] = "lock"
      /\ Iterations \in Nat
  BY ProbeAssumption DEF ServerInv, ConnInv, HandlerInv, WorkCancel
<1>1. PICK i \in 1..Iterations, k \in 1..4 :
        /\ Queued /\ HandlerAt(i, k) /\ Number(i, k) = ReadNow
        /\ request[Prober] = ProbeRequest(i, k)
  BY <1>0, AtRequest
<1>2. k = 4 /\ request[Prober].target = ProbeId(i, 2)
  <2>1. k \notin 1..3
    BY <1>1, RequestIs DEF WorkCancel
  <2> QED BY <1>1, <2>1, RequestIs
<1>3. /\ UNCHANGED <<stage, request, inbox, sent, wire, replies, taker>>
      /\ step'[Prober] = "reply"
      /\ index[ProbeId(i, 2)] # None => Cancel(ProbeId(i, 2))
  BY <1>0, <1>2 DEF WorkCancel, ServerTypeOK, Cancel, book
<1>4. Resting(i, 4) /\ taker = None /\ replies[Prober] = <<>>
  BY <1>0, <1>1, <1>2 DEF HandlerAt
<1>5. index[ProbeId(i, 2)] # None
  <2>1. PICK m \in 0..arrived : index[ProbeId(i, 2)] = PlaceOf(i, m)
    BY <1>4 DEF Resting, OnlyB
  <2>2. PlaceOf(i, m) \in Loc
    BY ProbeFields DEF PlaceOf, Loc, Sides, BookInv, TypeOK
  <2> QED BY <2>1, <2>2, NoneAssumption
<1>6. Resting(i, 5)'
  BY <1>3, <1>4, <1>5, CancelEmpties DEF Resting
<1>7. AnsweredTo(i, k)'
  BY <1>0, <1>1, <1>3, AnsweredKept DEF HandlerAt
<1>8. Asked' = Asked /\ ReadNow' = ReadNow /\ request'[Prober] = ProbeRequest(i, k)'
  BY <1>1, <1>3, CountKept DEF ProbeRequest
<1>9. HandlerAt(i, k)'
  BY <1>1, <1>2, <1>3, <1>4, <1>6, <1>7, <1>8 DEF HandlerAt, Number, Replying
<1>10. Queued' /\ (\A j \in 1..Iterations : Answers(j)') /\ Listening'
  BY <1>1, <1>3, <1>8, QueuedKept, NothingSent, WireIsSent
<1>11. i \in 1..(Iterations + 1)
  BY <1>0
<1> QED BY <1>9, <1>10, <1>11 DEF Served, InStep

\* The next request is that of the same iteration, or the first of the next.
LEMMA RequestDone ==
  ASSUME ServerInv, ServerInv', ClientInv, BookInv, at # "end", Served,
         UNCHANGED probeVars, Return(Prober)
  PROVE  Served'
<1>0. /\ ServerTypeOK /\ Prober \in Conns /\ stage[Prober] = "ws" /\ step[Prober] = "reply"
      /\ Iterations \in Nat /\ replies[Prober] = <<>>
  BY ProbeAssumption DEF ServerInv, ConnInv, HandlerInv, Return
<1>1. PICK i \in 1..Iterations, k \in 1..4 :
        /\ Queued /\ HandlerAt(i, k) /\ Number(i, k) = ReadNow /\ Number(i, k) \in Int
  BY <1>0, AtRequest
<1>2. /\ UNCHANGED <<stage, inbox, sent, wire, replies, orders, index, arrived, taker>>
      /\ step'[Prober] = "read"
  BY <1>0 DEF Return, ServerTypeOK, book
<1>3. PICK i2 \in 1..(Iterations + 1), k2 \in 1..4 :
        Number(i2, k2) = Number(i, k) + 1 /\ (Resting(i, k + 1) => Resting(i2, k2))
  <2>1. CASE k = 4
    <3>1. /\ i + 1 \in 1..(Iterations + 1) /\ Number(i + 1, 1) = Number(i, k) + 1
          /\ Resting(i, k + 1) => Resting(i + 1, 1)
      BY <1>0, <2>1 DEF Number, Resting
    <3> QED BY <3>1
  <2>2. CASE k # 4
    <3>1. i \in 1..(Iterations + 1) /\ k + 1 \in 1..4 /\ Number(i, k + 1) = Number(i, k) + 1
      BY <1>0, <2>2 DEF Number
    <3> QED BY <3>1
  <2> QED BY <2>1, <2>2
<1>4. Resting(i2, k2)' /\ taker' = None
  BY <1>0, <1>1, <1>2, <1>3, RestingSame DEF HandlerAt
<1>5. AnsweredTo(i2, k2)'
  <2>1. \A n \in 1..Len(sent[Prober]), j \in 1..Iterations :
          Mentions(sent[Prober][n], j) => Number(j, 3) < Number(i2, k2)
    <3> SUFFICES ASSUME NEW n \in 1..Len(sent[Prober]), NEW j \in 1..Iterations,
                        Mentions(sent[Prober][n], j)
                 PROVE  Number(j, 3) < Number(i2, k2)
      OBVIOUS
    <3>1. Number(j, 3) < Number(i, k) \/ (j = i /\ k = 3)
      BY <1>0, <1>1 DEF HandlerAt, AnsweredTo
    <3>2. Number(j, 3) \in Int
      BY DEF Number
    <3> QED BY <1>1, <1>3, <3>1, <3>2
  <2> QED BY <1>2, <2>1 DEF AnsweredTo, Mentions, Number, ProbeId
<1>6. Asked' = Asked /\ ReadNow' = ReadNow
  BY <1>2, CountKept
<1>7. HandlerAt(i2, k2)'
  BY <1>0, <1>1, <1>2, <1>3, <1>4, <1>5, <1>6 DEF HandlerAt, Number
<1>8. Queued' /\ (\A j \in 1..Iterations : Answers(j)') /\ Listening'
  BY <1>1, <1>2, <1>6, QueuedKept, NothingSent, WireIsSent
<1> QED BY <1>7, <1>8 DEF Served, InStep

\* The fills of the taker are sent after its ack, that from A first.
LEMMA FillSent ==
  ASSUME ServerInv, ServerInv', ClientInv, at # "end", Served, UNCHANGED probeVars,
         Reply(Prober)
  PROVE  Served'
<1> DEFINE s == sent[Prober]
           t == sent'[Prober]
           r == replies[Prober]
<1>0. /\ ServerTypeOK /\ Prober \in Conns /\ stage[Prober] = "ws" /\ step[Prober] = "reply"
      /\ Iterations \in Nat /\ r # <<>> /\ r \in Seq(Fill)
  BY ProbeAssumption DEF ServerInv, ConnInv, HandlerInv, Reply, ServerTypeOK
<1>1. PICK i \in 1..Iterations, k \in 1..4 :
        /\ Queued /\ HandlerAt(i, k) /\ Number(i, k) = ReadNow /\ Number(i, k) \in Int
        /\ request[Prober].id = ProbeId(i, k) /\ i \in Nat
  BY <1>0, AtRequest
<1>2. k = 3 /\ Replying(i, k) /\ AnsweredTo(i, k) /\ taker = None /\ Resting(i, k + 1)
  BY <1>0, <1>1 DEF HandlerAt, Replying
<1> DEFINE m == FillOf(ProbeId(i, 3), Head(r))
<1>3. /\ t = Append(s, m) /\ m \in Message /\ replies'[Prober] = Tail(r)
      /\ UNCHANGED <<orders, index, arrived, taker, stage, request, step, inbox>>
  <2>1. m \in Message
    BY <1>0, <1>1, <1>2, AnswersAreMessages
  <2>2. Send(Prober, m)
    BY <1>1, <1>2 DEF Reply
  <2>3. t = Append(s, m)
    BY <1>0, <2>2 DEF Send, ServerTypeOK
  <2>4. replies'[Prober] = Tail(r)
    BY <1>0 DEF Reply, ServerTypeOK
  <2> QED BY <2>1, <2>3, <2>4 DEF Reply, book
<1>4. /\ \A j \in Int : (Mentions(m, j) <=> j = i) /\ (IsFillOf(m, j) <=> j = i)
      /\ m.maker = Head(r).maker /\ m.qty = Head(r).qty
  BY <1>1, OwnIds DEF FillOf, IsFillOf, Mentions
<1>5. \/ /\ r = <<FillA(i), FillB(i)>> /\ FromA(m, i) /\ Tail(r) = <<FillB(i)>>
         /\ \A n \in 1..Len(s) : ~IsFillOf(s[n], i)
      \/ /\ r = <<FillB(i)>> /\ FromB(m, i) /\ Tail(r) = <<>>
         /\ \A n \in 1..Len(s) : IsFillOf(s[n], i) => FromA(s[n], i)
  <2>1. CASE r = <<FillA(i), FillB(i)>> /\ \A n \in 1..Len(s) : ~IsFillOf(s[n], i)
    <3>1. Head(r) = FillA(i) /\ Tail(r) = <<FillB(i)>>
      BY <2>1
    <3>2. FromA(m, i)
      BY <1>4, <3>1 DEF FromA, FillA
    <3> QED BY <2>1, <3>1, <3>2
  <2>2. CASE r = <<FillB(i)>> /\ \A n \in 1..Len(s) : IsFillOf(s[n], i) => FromA(s[n], i)
    <3>1. Head(r) = FillB(i) /\ Tail(r) = <<>>
      BY <2>2
    <3>2. FromB(m, i)
      BY <1>4, <3>1 DEF FromB, FillB
    <3> QED BY <2>2, <3>1, <3>2
  <2> QED BY <1>0, <1>2, <2>1, <2>2 DEF Replying
<1>6. /\ s \in Seq(Message) /\ Len(s) \in Nat /\ Len(t) = Len(s) + 1
      /\ \A n \in 1..Len(s) : t[n] = s[n]
      /\ t[Len(s) + 1] = m
  BY <1>3, WireIsSent, LongerAppend DEF Longer
<1>7. ReadNow <= Asked /\ ReadNow' = ReadNow /\ Asked' = Asked
  BY <1>0, <1>3, Counting, CountKept
<1>8. \E n \in 1..Len(s) : s[n] = AckOf(ProbeId(i, 3))
  BY <1>0, <1>2 DEF AnsweredTo
<1>9. (\A j \in 1..Iterations : Answers(j)') /\ Listening'
  <2>1. Len(wire[Prober]) <= Len(wire'[Prober])
    <3>1. EngineStep(Prober)
      BY DEF EngineStep
    <3> QED BY <1>0, <3>1, WireGrows
  <2>2. ASSUME NEW j \in 1..Iterations
        PROVE  /\ Mentions(m, j) => Number(j, 3) <= Asked
               /\ IsFillOf(m, j) =>
                     /\ FromA(m, j) \/ FromB(m, j)
                     /\ \E n \in 1..Len(s) : s[n] = AckOf(ProbeId(j, 3))
                     /\ \A n \in 1..Len(s) :
                           IsFillOf(s[n], j) => FromA(s[n], j) /\ FromB(m, j)
    <3> HIDE DEF m, s
    <3>1. CASE j = i
      BY <1>1, <1>2, <1>5, <1>7, <1>8, <3>1
    <3>2. CASE j # i
      BY <1>4, <3>2
    <3> QED BY <3>1, <3>2
  <2> HIDE DEF m
  <2> QED BY <1>3, <2>1, <2>2, MessageSent
<1>10. AnsweredTo(i, k)'
  <2> HIDE DEF s, t, m
  <2>1. \A n \in 1..Len(s), j \in 1..Iterations :
          Mentions(s[n], j) => Number(j, 3) < Number(i, k) \/ j = i
    BY <1>2 DEF AnsweredTo, s
  <2>2. \A n \in 1..Len(t), j \in 1..Iterations :
          Mentions(t[n], j) => Number(j, 3) < Number(i, k) \/ j = i
    <3> SUFFICES ASSUME NEW n \in 1..Len(t), NEW j \in 1..Iterations, Mentions(t[n], j)
                 PROVE  Number(j, 3) < Number(i, k) \/ j = i
      OBVIOUS
    <3>1. CASE n \in 1..Len(s)
      BY <1>6, <2>1, <3>1
    <3>2. CASE n = Len(s) + 1
      BY <1>4, <1>6, <3>2
    <3> QED BY <1>6, <3>1, <3>2
  <2>3. \E n \in 1..Len(t) : t[n] = AckOf(ProbeId(i, 3))
    BY <1>6, <1>8
  <2> QED
    BY <1>0, <1>2, <1>3, <2>2, <2>3 DEF t, AnsweredTo, Mentions, Number, ProbeId, AckOf
<1>11. Replying(i, k)'
  <2> HIDE DEF s, t, m, r
  <2>1. CASE Tail(r) = <<>>
    BY <1>3, <2>1 DEF Replying, r
  <2>2. CASE Tail(r) # <<>>
    <3>1. \A n \in 1..Len(t) : IsFillOf(t[n], i) => FromA(t[n], i)
      <4> SUFFICES ASSUME NEW n \in 1..Len(t), IsFillOf(t[n], i) PROVE FromA(t[n], i)
        OBVIOUS
      <4>1. CASE n \in 1..Len(s)
        BY <1>5, <1>6, <2>2, <4>1
      <4>2. CASE n = Len(s) + 1
        BY <1>5, <1>6, <2>2, <4>2
      <4> QED BY <1>6, <4>1, <4>2
    <3>2. replies'[Prober] = <<FillB(i)>>
      BY <1>3, <1>5, <2>2
    <3> QED BY <1>2, <3>1, <3>2 DEF Replying, t, FillB, ProbeId, IsFillOf, FromA
  <2> QED BY <2>1, <2>2
<1>12. HandlerAt(i, k)'
  <2>1. Resting(i, k + 1)'
    BY <1>2, <1>3, RestingSame
  <2>2. i <= Iterations /\ request'[Prober] = ProbeRequest(i, k)'
    BY <1>0, <1>1, <1>3 DEF HandlerAt, ProbeRequest
  <2> HIDE DEF s, t, m, r
  <2> QED BY <1>0, <1>1, <1>2, <1>3, <1>7, <1>10, <1>11, <2>1, <2>2 DEF HandlerAt, Number
<1>13. Queued'
  BY <1>1, <1>3, <1>7, QueuedKept
<1>14. i \in 1..(Iterations + 1)
  BY <1>0
<1> QED BY <1>9, <1>12, <1>13, <1>14 DEF Served, InStep

\* No step of the engine unsettles a probe that is there.
LEMMA EngineServes ==
  ASSUME ServerInv, ServerInv', ClientInv, BookInv, BookInv', Alone, Live, Served,
         UNCHANGED probeVars, NEW c \in Conns, EngineStep(c)
  PROVE  Served'
<1>0. /\ ServerTypeOK /\ Prober \in Conns /\ at # "end" /\ client[Prober] # "gone"
      /\ Len(wire[Prober]) <= Len(wire'[Prober])
  BY ProbeAssumption, WireGrows DEF ServerInv, Live
<1>1. CASE c # Prober
  <2>1. SameHandler(Prober)
    BY <1>0, <1>1, Elsewhere
  <2>2. UNCHANGED <<orders, index, arrived, taker, fills>>
    BY <1>1, NobodyThere DEF Alone, Live
  <2> QED BY <1>0, <2>1, <2>2, QuietStep
<1>2. CASE c = Prober
  <2>1. ASSUME SameHandler(Prober), UNCHANGED book PROVE Served'
    BY <1>0, <2>1, QuietStep DEF book
  <2>2. CASE Upgrade(Prober) \/ Serve(Prober)
    BY <1>0, <2>2, Greeted
  <2>3. CASE ReadRequest(Prober)
    BY <1>0, <2>3, RequestRead
  <2>4. CASE Ack(Prober)
    BY <1>0, <2>4, RequestAcked
  <2>5. CASE Enter(Prober)
    BY <1>0, <2>5, RequestEnters
  <2>6. CASE Work(Prober)
    BY <1>0, <2>6, RequestMatched
  <2>7. CASE WorkCancel(Prober)
    BY <1>0, <2>7, CancelDone
  <2>8. CASE Reply(Prober)
    BY <1>0, <2>8, FillSent
  <2>9. CASE Return(Prober)
    BY <1>0, <2>9, RequestDone
  <2>10. CASE ReadClose(Prober)
    BY <1>0, <2>10, Closed
  <2>11. CASE RunPost(Prober) \/ SocketTakes(Prober) \/ WriteDone(Prober)
              \/ WriteFails(Prober)
    BY <2>1, <2>11
    DEF RunPost, SocketTakes, WriteDone, WriteFails, handler, SameHandler
  <2>12. CASE Accept(Prober)
    <3>1. /\ step[Prober] = step'[Prober] /\ stage[Prober] = "none" /\ stage'[Prober] = "http"
          /\ UNCHANGED <<book, inbox, handler, sent, wire>>
      BY <1>0, <2>12 DEF Accept, handler, ServerTypeOK
    <3>2. PICK i \in 1..(Iterations + 1), k \in 1..4 : Queued /\ HandlerAt(i, k)
      BY <3>1 DEF Served, InStep
    <3>3. UNCHANGED <<orders, index, arrived, taker, fills, inbox, sent, step, request, replies>>
      BY <3>1 DEF book, handler
    <3>4. HandlerAt(i, k)' /\ Queued'
      BY <3>2, <3>3, CountKept, HandlerKept, QueuedKept
    <3>5. (\A j \in 1..Iterations : Answers(j)') /\ Listening'
      BY <1>0, <3>1, NothingSent
    <3> QED BY <3>2, <3>4, <3>5 DEF Served, InStep
  <2>13. ~SendFails(Prober) /\ ~ReadFails(Prober) /\ ~UpgradeFails(Prober)
    BY <1>0 DEF SendFails, ReadFails, UpgradeFails
  <2> QED
    BY <1>2, <2>2, <2>3, <2>4, <2>5, <2>6, <2>7, <2>8, <2>9, <2>10, <2>11, <2>12, <2>13
    DEF EngineStep
<1> QED BY <1>1, <1>2

-----------------------------------------------------------------------------
(* Steps of the probe.                                                      *)

\* A step of the probe that asks for nothing.
LEMMA ProbeMoves ==
  ASSUME ServerInv, Served, UNCHANGED serverVars, Asked' = Asked, Asked \in Int, Listening'
  PROVE  Served'
<1>1. /\ UNCHANGED <<orders, index, arrived, taker, fills, inbox, stage, step, request,
                     replies, sent, wire>>
      /\ ReadNow' = ReadNow
  BY DEF serverVars, book, handler, ReadNow
<1>2. \A i \in 1..Iterations : Answers(i)'
  BY <1>1, AnswersKept DEF Served, Number
<1>3. stage'[Prober] # "ended" => InStep'
  <2> SUFFICES ASSUME stage'[Prober] # "ended" PROVE InStep'
    OBVIOUS
  <2>1. PICK i \in 1..(Iterations + 1), k \in 1..4 : Queued /\ HandlerAt(i, k)
    BY <1>1 DEF Served, InStep
  <2>2. HandlerAt(i, k)' /\ Queued'
    BY <1>1, <2>1, HandlerKept, QueuedKept
  <2> QED BY <2>2 DEF InStep
<1> QED BY <1>2, <1>3 DEF Served

\* What it receives next was sent before what comes later.
LEMMA NextReceived ==
  ASSUME ServerInv, ClientInv, at # "end", Served, seen < Len(wire[Prober])
  PROVE  /\ seen \in Nat /\ seen + 1 \in 1..Len(sent[Prober])
         /\ wire[Prober][seen + 1] = sent[Prober][seen + 1]
         /\ seen + 1 \in 0..Len(wire[Prober])
         /\ iter \in 1..Iterations /\ Asked \in Int /\ order \in 1..4
<1>1. seen \in 0..Len(wire[Prober]) /\ Len(wire[Prober]) \in Nat /\ Len(sent[Prober]) \in Nat
      /\ Len(wire[Prober]) <= Len(sent[Prober])
  BY WireIsSent DEF Served, Listening
<1>2. seen + 1 \in 1..Len(wire[Prober])
  BY <1>1
<1> QED BY <1>1, <1>2, WireIsSent, Counting DEF ServerInv

\* The message taken for the ack: that of the taker comes before its fills.
LEMMA AckTaken ==
  ASSUME ServerInv, ClientInv, Served, at = "ack", NextOrder, UNCHANGED serverVars,
         \/ seen' = seen + 1 /\ seen < Len(wire[Prober])
         \/ seen' = seen /\ order = 4
  PROVE  Served'
<1>0. /\ iter \in 1..Iterations /\ order \in 1..4 /\ Asked \in Int /\ at # "end"
  BY Counting DEF ServerInv
<1>1. Asked' = Asked
  <2>1. CASE order < 4
    <3>1. order' = order + 1 /\ iter' = iter /\ at' # "ack"
      BY <2>1 DEF NextOrder
    <3> QED BY <1>0, <3>1 DEF Asked, Number
  <2>2. CASE order = 4
    <3>1. order' = 1 /\ iter' = iter + 1 /\ at' # "ack"
      BY <2>2 DEF NextOrder
    <3> QED BY <1>0, <2>2, <3>1 DEF Asked, Number
  <2> QED BY <1>0, <2>1, <2>2
<1>2. seen' \in 0..Len(wire[Prober]) /\ sent' = sent /\ wire' = wire
  BY <1>0, NextReceived DEF Served, Listening, serverVars
<1>3. Listening'
  <2>1. CASE order = 3
    <3>1. order' = 4 /\ iter' = iter /\ at' = "fills" /\ got' = got /\ got = <<>>
      BY <2>1 DEF NextOrder, Served, Listening
    <3>2. seen' = seen + 1 /\ seen + 1 \in 1..Len(sent[Prober]) /\ seen \in Nat
      BY <1>0, <2>1, NextReceived
    <3>3. \A n \in 1..seen : ~Mentions(sent[Prober][n], iter)
      BY <2>1 DEF Served, Listening
    <3>4. ~IsFillOf(sent[Prober][seen + 1], iter)
      <4> SUFFICES ASSUME IsFillOf(sent[Prober][seen + 1], iter) PROVE FALSE
        OBVIOUS
      <4>1. PICK m \in 1..((seen + 1) - 1) : sent[Prober][m] = AckOf(ProbeId(iter, 3))
        BY <1>0, <3>2 DEF Served, Answers
      <4>2. m \in 1..seen /\ Mentions(sent[Prober][m], iter)
        BY <3>2, <4>1 DEF Mentions, AckOf
      <4> QED BY <3>3, <4>2
    <3>5. \A n \in 1..(seen + 1) : ~IsFillOf(sent[Prober][n], iter)
      <4>1. \A n \in 1..(seen + 1) : n \in 1..seen \/ n = seen + 1
        BY <3>2
      <4> QED BY <3>3, <3>4, <4>1 DEF IsFillOf, Mentions
    <3> QED
      BY <1>2, <3>1, <3>2, <3>5 DEF Listening, Received, IsFillOf, ProbeId
  <2>2. CASE order \in {1, 2}
    <3>1. order' = order + 1 /\ at' = "send" /\ got' = got /\ got = <<>>
      BY <2>2 DEF NextOrder, Served, Listening
    <3> QED BY <1>2, <2>2, <3>1 DEF Listening
  <2>3. CASE order = 4
    <3>1. order' = 1 /\ at' \in {"send", "end"} /\ got' = <<>>
      BY <2>3 DEF NextOrder
    <3> QED BY <1>2, <3>1 DEF Listening
  <2> QED BY <1>0, <2>1, <2>2, <2>3
<1> QED BY <1>0, <1>1, <1>3, ProbeMoves

\* A request joins those under way to the engine, before it can be answered.
LEMMA RequestAsked ==
  ASSUME ServerInv, ClientInv, Served, ProbeSends
  PROVE  Served'
<1> DEFINE q == inbox[Prober]
           r == ProbeRequest(iter, order)
<1>0. /\ iter \in 1..Iterations /\ order \in 1..4 /\ Asked \in Int /\ at = "send"
      /\ q \in Seq(Request \cup {CloseFrame}) /\ Len(q) \in Nat /\ r \in Request
      /\ inbox \in [Conns -> Seq(Request \cup {CloseFrame})] /\ Prober \in Conns
      /\ wire[Prober] # <<>>
  BY Counting, Requests, ProbeAssumption DEF ServerInv, ServerTypeOK, ProbeSends, ClientSends
<1>1. /\ UNCHANGED <<orders, index, arrived, taker, fills, stage, step, request, replies,
                     sent, wire, iter, order, got>>
      /\ at' = "ack" /\ inbox'[Prober] = Append(q, r)
      /\ seen' = IF seen = 0 THEN 1 ELSE seen
  BY <1>0 DEF ProbeSends, ClientSends, book, handler
<1>2. /\ Len(Append(q, r)) = Len(q) + 1 /\ Append(q, r)[Len(q) + 1] = r
      /\ \A j \in 1..Len(q) : Append(q, r)[j] = q[j]
  BY <1>0, AppendProperties
<1>3. Asked = Number(iter, order - 1) /\ Asked' = Asked + 1 /\ ReadNow' = ReadNow
      /\ ReadNow = Asked - Len(q) /\ Asked' = Number(iter, order)
  <2>1. Asked = Number(iter, order - 1) /\ Asked' = Number(iter, order - 1) + 1
    BY <1>0, <1>1 DEF Asked, Number
  <2>2. ReadNow = Asked - Len(q) /\ ReadNow' = Asked' - Len(inbox'[Prober])
    BY DEF ReadNow
  <2>3. Len(inbox'[Prober]) = Len(q) + 1
    BY <1>1, <1>2
  <2> HIDE DEF q, r
  <2>4. Number(iter, order) = Number(iter, order - 1) + 1
    BY <1>0 DEF Number
  <2> QED BY <1>0, <2>1, <2>2, <2>3, <2>4
<1>4. \A i \in 1..Iterations : Answers(i)'
  BY <1>0, <1>1, <1>3, AnswersKept DEF Served, Number
<1>5. Listening'
  <2>1. seen \in 0..Len(wire[Prober]) /\ Len(wire[Prober]) \in Nat
        /\ Len(wire[Prober]) <= Len(sent[Prober]) /\ Len(sent[Prober]) \in Nat
        /\ wire[Prober] \in Seq(Message)
    BY WireIsSent DEF Served, Listening
  <2>2. Len(wire[Prober]) > 0
    BY <1>0, <2>1, EmptySeq
  <2>3. seen' \in 1..Len(wire[Prober])
    BY <1>1, <2>1, <2>2
  <2>4. order = 3 => \A n \in 1..seen' : ~Mentions(sent[Prober][n], iter)
    <3> SUFFICES ASSUME order = 3, NEW n \in 1..seen', Mentions(sent[Prober][n], iter)
                 PROVE  FALSE
      OBVIOUS
    <3>1. n \in 1..Len(sent[Prober])
      BY <2>1, <2>3
    <3>2. Number(iter, 3) <= Asked
      BY <1>0, <3>1 DEF Served, Answers
    <3> QED BY <1>0, <1>3, <3>2
  <2>5. order < 4 => got = <<>>
    BY DEF Served, Listening
  <2> QED BY <1>1, <2>3, <2>4, <2>5 DEF Listening, Mentions, ProbeId
<1>6. stage'[Prober] # "ended" => InStep'
  <2> SUFFICES ASSUME stage'[Prober] # "ended" PROVE InStep'
    OBVIOUS
  <2>1. PICK i \in 1..(Iterations + 1), k \in 1..4 : Queued /\ HandlerAt(i, k)
    BY <1>1 DEF Served, InStep
  <2>2. HandlerAt(i, k)'
    BY <1>1, <1>3, <2>1, HandlerKept
  <2>3. Queued'
    <3> SUFFICES ASSUME NEW j \in 1..(Len(q) + 1), NEW i2 \in 1..Iterations, NEW k2 \in 1..4,
                        Number(i2, k2) = ReadNow + j
                 PROVE  Append(q, r)[j] = ProbeRequest(i2, k2)
      <4>1. /\ inbox'[Prober] = Append(q, r) /\ Len(inbox'[Prober]) = Len(q) + 1
            /\ ReadNow' = ReadNow
        BY <1>1, <1>2, <1>3
      <4> HIDE DEF q, r
      <4>2. \A j \in 1..Len(inbox'[Prober]), i2 \in 1..Iterations, k2 \in 1..4 :
              Number(i2, k2) = ReadNow' + j => inbox'[Prober][j] = ProbeRequest(i2, k2)
        BY <4>1
      <4> QED BY <4>2 DEF Queued, Number, ProbeRequest, ProbeId, Limit, CancelOf
    <3>1. CASE j \in 1..Len(q)
      BY <1>2, <2>1, <3>1 DEF Queued
    <3>2. CASE j = Len(q) + 1
      <4>1. Number(i2, k2) = Number(iter, order)
        <5> HIDE DEF q, r
        <5> QED BY <1>0, <1>3, <3>2
      <4>2. i2 = iter /\ k2 = order
        BY <1>0, <4>1 DEF Number
      <4> QED BY <1>2, <3>2, <4>2
    <3> QED BY <1>0, <3>1, <3>2
  <2> QED BY <2>2, <2>3 DEF InStep
<1> QED BY <1>4, <1>5, <1>6 DEF Served

\* The fills of the taker come one by one, that from A first.
LEMMA FillReceived ==
  ASSUME ServerInv, ClientInv, Served, ProbeReceives
  PROVE  Served' /\ failed' = failed
<1> DEFINE s == sent[Prober]
           m == s[seen + 1]
           a == <<ProbeId(iter, 1), 5>>
           b == <<ProbeId(iter, 2), 1>>
<1>0. /\ at = "fills" /\ order = 4 /\ seen' = seen + 1 /\ UNCHANGED serverVars
      /\ iter' = iter /\ order' = order /\ seen < Len(wire[Prober])
      /\ IF Len(got') = 2 THEN Verdict(got') ELSE UNCHANGED <<failed, at>>
  BY DEF ProbeReceives, Served, Listening
<1>1. /\ seen \in Nat /\ seen + 1 \in 1..Len(s) /\ wire[Prober][seen + 1] = m
      /\ seen + 1 \in 0..Len(wire[Prober]) /\ iter \in 1..Iterations /\ Asked \in Int
      /\ \A n \in 1..seen : n \in 1..Len(s) /\ n < seen + 1
  <2>1. /\ seen \in Nat /\ seen + 1 \in 1..Len(s) /\ wire[Prober][seen + 1] = m
        /\ seen + 1 \in 0..Len(wire[Prober]) /\ iter \in 1..Iterations /\ Asked \in Int
    BY <1>0, NextReceived
  <2>2. Len(s) \in Nat
    BY WireIsSent
  <2> QED BY <2>1, <2>2
<1>2. got' = IF IsFillOf(m, iter) THEN Append(got, <<m.maker, m.qty>>) ELSE got
  <2>1. got' = IF IsFill(m) THEN Append(got, <<m.maker, m.qty>>) ELSE got
    BY <1>1 DEF ProbeReceives
  <2>2. IsFill(m) <=> IsFillOf(m, iter)
    BY DEF IsFill, IsFillOf
  <2> QED BY <2>1, <2>2
<1>3. Answers(iter)
  BY <1>1 DEF Served
<1>4. IsFillOf(m, iter) => (FromA(m, iter) /\ <<m.maker, m.qty>> = a)
                             \/ (FromB(m, iter) /\ <<m.maker, m.qty>> = b)
  BY <1>1, <1>3 DEF Answers, FromA, FromB
<1>5. \A n \in 1..seen : IsFillOf(m, iter) /\ Received(n) =>
        FromA(s[n], iter) /\ FromB(m, iter)
  BY <1>1, <1>3 DEF Answers, Received
<1>6. \/ got = <<>> /\ \A n \in 1..seen : ~Received(n)
      \/ got = <<a>> /\ \E n \in 1..seen : Received(n)
      \/ got = <<b>> /\ \E n \in 1..seen : Received(n) /\ FromB(s[n], iter)
  BY <1>0 DEF Served, Listening
<1>7. \/ got' = <<>> /\ \A n \in 1..(seen + 1) : ~Received(n)
      \/ got' = <<a>> /\ \E n \in 1..(seen + 1) : Received(n)
      \/ got' = <<b>> /\ \E n \in 1..(seen + 1) : Received(n) /\ FromB(s[n], iter)
      \/ got' = <<a, b>>
  <2> HIDE DEF a, b, m, s
  <2>0. /\ \A n \in 1..seen : n \in 1..(seen + 1)
        /\ \A n \in 1..(seen + 1) : n \in 1..seen \/ n = seen + 1
        /\ seen + 1 \in 1..(seen + 1)
    BY <1>1
  <2>1. CASE ~IsFillOf(m, iter)
    <3>1. got' = got /\ ~Received(seen + 1)
      BY <1>2, <2>1 DEF Received, m, s
    <3> QED BY <1>6, <2>0, <3>1
  <2>2. CASE IsFillOf(m, iter)
    <3>1. got' = Append(got, <<m.maker, m.qty>>) /\ Received(seen + 1) /\ s[seen + 1] = m
      BY <1>2, <2>2 DEF Received, m, s
    <3>2. CASE got = <<>>
      <4>1. got' = <<a>> \/ (got' = <<b>> /\ FromB(m, iter))
        BY <1>4, <2>2, <3>1, <3>2, AppendSecond
      <4> QED BY <2>0, <3>1, <4>1
    <3>3. CASE got = <<a>> /\ \E n \in 1..seen : Received(n)
      <4>1. FromB(m, iter)
        BY <1>5, <2>2, <3>3
      <4>2. <<m.maker, m.qty>> = b
        BY <4>1 DEF FromB, b
      <4> QED BY <3>1, <3>3, <4>2, AppendSecond
    <3>4. CASE \E n \in 1..seen : Received(n) /\ FromB(s[n], iter)
      BY <1>1, <1>5, <2>2, <3>4, FillsDiffer
    <3> QED BY <1>6, <3>2, <3>3, <3>4
  <2> QED BY <2>1, <2>2
<1>8. /\ failed' = failed /\ at' \in {"fills", "send"}
      /\ at' = "fills" => got' # <<a, b>>
  <2>1. CASE Len(got') = 2
    <3>1. Len(<<>>) # 2 /\ Len(<<a>>) # 2 /\ Len(<<b>>) # 2
      OBVIOUS
    <3>2. got' = <<a, b>>
      <4> HIDE DEF a, b, m, s
      <4> QED BY <1>7, <2>1, <3>1
    <3> QED BY <1>0, <2>1, <3>2 DEF Verdict
  <2>2. CASE Len(got') # 2
    <3>1. Len(<<a, b>>) = 2
      OBVIOUS
    <3> HIDE DEF a, b, m, s
    <3> QED BY <1>0, <2>2, <3>1
  <2> QED BY <2>1, <2>2
<1>9. Listening'
  <2>1. sent' = sent /\ wire' = wire
    BY <1>0 DEF serverVars
  <2>2. at' = "fills" =>
          \/ got' = <<>> /\ \A n \in 1..seen' : ~Received(n)'
          \/ got' = <<a>> /\ \E n \in 1..seen' : Received(n)'
          \/ got' = <<b>> /\ \E n \in 1..seen' : Received(n)' /\ FromB(s[n], iter)'
    <3>1. \A n : (Received(n)' <=> Received(n)) /\ (FromB(s[n], iter)' <=> FromB(s[n], iter))
      BY <1>0, <2>1 DEF Received, IsFillOf, FromB, ProbeId
    <3> HIDE DEF a, b, s
    <3> QED BY <1>0, <1>7, <1>8, <3>1
  <2> QED BY <1>0, <1>1, <1>8, <2>1, <2>2 DEF Listening, ProbeId
<1>10. Asked' = Asked
  BY <1>0, <1>8 DEF Asked, Number
<1> QED BY <1>0, <1>1, <1>8, <1>9, <1>10, ProbeMoves

\* The wait for fills runs out.
LEMMA FillsMissed ==
  ASSUME ServerInv, ClientInv, Served, FillsRunOut
  PROVE  Served' /\ failed' \subseteq failed \cup {iter} /\ late' = late \cup {iter}
<1>1. /\ at = "fills" /\ at' = "send" /\ UNCHANGED <<serverVars, iter, order, seen, got>>
      /\ failed' \subseteq failed \cup {iter} /\ late' = late \cup {iter}
  BY DEF FillsRunOut, Verdict
<1>2. Asked' = Asked /\ Asked \in Int
  BY <1>1, Counting DEF Asked, Number, ServerInv
<1>3. sent' = sent /\ wire' = wire
  BY <1>1 DEF serverVars
<1>4. Listening'
  BY <1>1, <1>3 DEF Served, Listening
<1> QED BY <1>1, <1>2, <1>4, ProbeMoves

-----------------------------------------------------------------------------
(* The probe and its engine.                                                *)

LEMMA InitProbe == ProbeInit => ProbeInv
<1> SUFFICES ASSUME ProbeInit PROVE ProbeInv
  OBVIOUS
<1>0. /\ Prober \in Conns /\ Iterations \in Nat \ {0} /\ client[Prober] = "out"
      /\ stage[Prober] = "none" /\ sent[Prober] = <<>> /\ wire[Prober] = <<>>
      /\ inbox[Prober] = <<>> /\ step[Prober] = "read" /\ replies[Prober] = <<>>
      /\ orders = {} /\ taker = None /\ at = "send" /\ iter = 1 /\ order = 1 /\ seen = 0
      /\ got = <<>>
  BY ProbeAssumption DEF ProbeInit, ServerInit, Init
<1>1. ProbeVerdict
  BY DEF ProbeInit, ProbeVerdict
<1>2. Alone
  BY <1>0 DEF ProbeInit, ServerInit, Alone
<1>3. \A i \in 1..Iterations : Answers(i)
  BY <1>0 DEF Answers
<1>4. Listening
  BY <1>0 DEF Listening
<1>5. Asked = 0 /\ ReadNow = 0
  <2>1. Asked = 0
    BY <1>0 DEF Asked, Number
  <2>2. Len(inbox[Prober]) = 0
    BY <1>0
  <2> QED BY <2>1, <2>2 DEF ReadNow
<1>6. HandlerAt(1, 1)
  <2>1. Resting(1, 1) /\ AnsweredTo(1, 1) /\ Number(1, 1) = 1
    BY <1>0 DEF Resting, AnsweredTo, Number
  <2> QED BY <1>0, <1>5, <2>1 DEF HandlerAt
<1>7. Queued
  BY <1>0 DEF Queued
<1>8. 1 \in 1..(Iterations + 1) /\ 1 \in 1..4
  BY <1>0
<1> QED BY <1>1, <1>2, <1>3, <1>4, <1>6, <1>7, <1>8 DEF ProbeInv, Served, InStep

\* Load clients, and whoever leaves, do not meet a probe that is there.
LEMMA UserSteps ==
  ASSUME ServerInv, ServerInv', ClientInv, ProbeInv, NEW c \in Users,
         \/ ClientConnects(c) /\ UNCHANGED probeVars
         \/ ClientDies(c) /\ UNCHANGED probeVars
         \/ LoadSends(c) \/ LoadLeaves(c)
         \/ c = Prober /\ ProbeLeaves
  PROVE  Alone' /\ (Live' => Served')
<1>0. /\ Prober \in Conns /\ ServerTypeOK /\ client \in [Conns -> {"out", "here", "leaving", "gone"}]
      /\ Alone /\ (Live => Served) /\ c \in Conns
      /\ mode' = mode /\ at' = at /\ stage' = stage
  BY ProbeAssumption
  DEF ServerInv, ServerTypeOK, ProbeInv, Users, ClientConnects, ClientDies, LoadSends,
      LoadLeaves, ProbeLeaves, ClientSends, ClientLeaves, probeVars
<1>1. /\ c = Prober <=> mode # "load"
      /\ \A d \in Conns \ {c} : client'[d] = client[d]
  <2>1. c = Prober <=> mode # "load"
    BY <1>0 DEF Users
  <2>2. client' = client \/ \E v : client' = [client EXCEPT ![c] = v]
    BY DEF ClientConnects, ClientDies, LoadSends, LoadLeaves, ProbeLeaves, ClientSends,
           ClientLeaves
  <2>3. ASSUME NEW v, client' = [client EXCEPT ![c] = v]
        PROVE  \A d \in Conns \ {c} : client'[d] = client[d]
    BY <1>0, <2>3
  <2> QED BY <2>1, <2>2, <2>3
<1>2. Alone'
  <2>1. CASE mode = "load"
    BY <1>0, <1>1, <2>1 DEF Alone
  <2>2. CASE mode # "load"
    BY <1>0, <1>1, <2>2 DEF Alone
  <2> QED BY <2>1, <2>2
<1>3. ASSUME Live' PROVE Served'
  <2>1. mode # "load" /\ c = Prober /\ at # "end" /\ client'[Prober] \in {"out", "here"}
    BY <1>0, <1>1, <1>3 DEF Live
  <2>2. ClientConnects(c) /\ UNCHANGED probeVars
    BY <1>0, <2>1 DEF LoadSends, LoadLeaves, ProbeLeaves, ClientDies
  <2>3. Live /\ Served
    BY <1>0, <2>1, <2>2 DEF Live, ClientConnects
  <2>4. /\ SameHandler(Prober) /\ UNCHANGED <<orders, index, arrived, taker, fills>>
        /\ wire' = wire
    BY <2>2 DEF ClientConnects, SameHandler, handler, book
  <2>5. Len(wire[Prober]) <= Len(wire'[Prober])
    BY <2>4, WireIsSent
  <2> QED BY <2>1, <2>2, <2>3, <2>4, <2>5, QuietStep
<1> QED BY <1>2, <1>3

LEMMA NextProbe ==
  ASSUME ServerInv, ServerInv', ClientInv, BookInv, BookInv', ProbeInv,
         [ProbeNext]_systemVars
  PROVE  ProbeInv'
<1>0. ProbeVerdict /\ Alone /\ (Live => Served) /\ Prober \in Conns
  BY ProbeAssumption DEF ProbeInv
<1>1. ASSUME NEW c \in Conns, EngineStep(c), UNCHANGED probeVars PROVE ProbeInv'
  <2>1. Alone'
    BY <1>0, <1>1, AloneKept DEF probeVars
  <2>2. Live' => Live
    <3>1. client' = client
      BY <1>1, WireGrows
    <3> QED BY <1>1, <3>1 DEF Live, probeVars
  <2>3. Live => Served'
    BY <1>0, <1>1, EngineServes
  <2>4. ProbeVerdict'
    BY <1>0, <1>1 DEF ProbeVerdict, probeVars
  <2> QED BY <2>1, <2>2, <2>3, <2>4 DEF ProbeInv
<1>2. ASSUME NEW c \in Users,
             \/ ClientConnects(c) /\ UNCHANGED probeVars
             \/ ClientDies(c) /\ UNCHANGED probeVars
             \/ LoadSends(c) \/ LoadLeaves(c)
             \/ c = Prober /\ ProbeLeaves
      PROVE  ProbeInv'
  <2>1. Alone' /\ (Live' => Served')
    BY <1>2, UserSteps
  <2>2. ProbeVerdict'
    BY <1>0, <1>2 DEF ProbeVerdict, probeVars, LoadSends, LoadLeaves, ProbeLeaves
  <2> QED BY <2>1, <2>2 DEF ProbeInv
\* In a step of the probe it is there, and stays alone.
<1>3. ASSUME client[Prober] = "here", at # "end", UNCHANGED <<client, stage, mode>>
      PROVE  Served /\ Alone'
  <2>1. mode # "load"
    BY <1>0, <1>3 DEF Alone
  <2> QED BY <1>0, <1>3, <2>1 DEF Live, Alone
<1>4. CASE ProbeSends
  <2>1. /\ client[Prober] = "here" /\ at # "end" /\ UNCHANGED <<client, stage, mode>>
        /\ UNCHANGED <<late, failed>>
    BY <1>4 DEF ProbeSends, ClientSends
  <2>2. Served'
    BY <1>3, <1>4, <2>1, RequestAsked
  <2> QED BY <1>0, <1>3, <2>1, <2>2 DEF ProbeInv, ProbeVerdict
<1>5. CASE ProbeAcked \/ AckRunsOut
  <2>1. /\ client[Prober] = "here" /\ at = "ack" /\ NextOrder
        /\ UNCHANGED <<serverVars, mode, late, failed>>
        /\ \/ seen' = seen + 1 /\ seen < Len(wire[Prober])
           \/ seen' = seen /\ order = 4
    BY <1>5 DEF ProbeAcked, AckRunsOut
  <2>2. UNCHANGED <<client, stage, mode>>
    BY <2>1 DEF serverVars
  <2>3. Served /\ Alone'
    BY <1>3, <2>1, <2>2
  <2>4. Served'
    BY <2>1, <2>3, AckTaken
  <2> QED BY <1>0, <2>1, <2>3, <2>4 DEF ProbeInv, ProbeVerdict
<1>6. CASE ProbeReceives
  <2>1. /\ client[Prober] = "here" /\ at # "end" /\ UNCHANGED <<client, stage, mode>>
        /\ late' = late
    BY <1>6 DEF ProbeReceives, serverVars
  <2>2. Served' /\ failed' = failed
    BY <1>3, <1>6, <2>1, FillReceived
  <2> QED BY <1>0, <1>3, <2>1, <2>2 DEF ProbeInv, ProbeVerdict
<1>7. CASE FillsRunOut
  <2>1. client[Prober] = "here" /\ at # "end" /\ UNCHANGED <<client, stage, mode>>
    BY <1>7 DEF FillsRunOut, serverVars
  <2>2. Served' /\ failed' \subseteq failed \cup {iter} /\ late' = late \cup {iter}
    BY <1>3, <1>7, <2>1, FillsMissed
  <2>3. ProbeVerdict'
    BY <1>0, <2>2 DEF ProbeVerdict
  <2> QED BY <1>3, <2>1, <2>2, <2>3 DEF ProbeInv
<1>8. CASE ProbeLeaves
  <2>1. Prober \in Users
    <3>1. mode # "load"
      BY <1>0, <1>8 DEF ProbeLeaves, ClientLeaves, Alone
    <3> QED BY <3>1 DEF Users
  <2> QED BY <1>2, <1>8, <2>1
<1>9. CASE UNCHANGED systemVars
  <2>1. UNCHANGED <<client, stage, mode, at, late, failed, probeVars>>
        /\ SameHandler(Prober) /\ UNCHANGED <<orders, index, arrived, taker, fills>>
        /\ wire' = wire
    BY <1>9 DEF systemVars, serverVars, probeVars, SameHandler, handler, book
  <2>2. Alone' /\ (Live' => Live) /\ ProbeVerdict'
    BY <1>0, <2>1 DEF Alone, Live, ProbeVerdict
  <2>3. Live => Served'
    <3>1. Len(wire[Prober]) <= Len(wire'[Prober])
      BY <2>1, WireIsSent
    <3> QED BY <1>0, <2>1, <3>1, QuietStep DEF Live
  <2> QED BY <2>2, <2>3 DEF ProbeInv
<1> QED
  BY <1>1, <1>2, <1>4, <1>5, <1>6, <1>7, <1>8, <1>9
  DEF ProbeNext, Connects, EngineRuns, Probing

\* An iteration of the probe fails only if its own wait for fills ran out,
\* however many iterations there are and however late the engine answers.
THEOREM VerdictKept == ProbeSpec => []ProbeVerdict
<1> DEFINE Inv == ServerInv /\ ClientInv /\ BookInv
<1>1. ProbeInit => Inv /\ ProbeInv
  BY InitServer, InitClients, InitBook, InitProbe DEF ProbeInit, ServerInit
<1>2. Inv /\ [ProbeNext]_systemVars => Inv'
  BY NextServer, NextClients, BookStep, NextBook
<1>3. Inv /\ ProbeInv /\ Inv' /\ [ProbeNext]_systemVars => ProbeInv'
  BY NextProbe
<1>4. ProbeInv => ProbeVerdict
  BY DEF ProbeInv
<1> HIDE DEF Inv
<1> QED BY <1>1, <1>2, <1>3, <1>4, PTL DEF ProbeSpec
=============================================================================
