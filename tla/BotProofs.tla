------------------------------- MODULE BotProofs -------------------------------
(***************************************************************************)
(* Theorems about Bot for every window, cap, burst and bound and every      *)
(* misbehaviour of engines: orders are accounted for, permits conserved and *)
(* the in-flight bounds kept.                                               *)
(***************************************************************************)
EXTENDS Bot, FiniteSetTheorems, SequenceTheorems, TLAPS

-----------------------------------------------------------------------------
(* Facts about the data.                                                   *)

\* Appending puts the element last and moves nothing.
LEMMA AppendFacts ==
  ASSUME NEW S, NEW q \in Seq(S), NEW e \in S
  PROVE  /\ Append(q, e) \in Seq(S)
         /\ Len(q) \in Nat
         /\ Len(Append(q, e)) = Len(q) + 1
         /\ \A i \in 1..Len(q) : Append(q, e)[i] = q[i]
         /\ Append(q, e)[Len(q) + 1] = e
  BY AppendProperties, LenProperties

\* Popping takes the first element and shifts the others.
LEMMA PopFacts ==
  ASSUME NEW S, NEW q \in Seq(S), q # <<>>
  PROVE  /\ Head(q) \in S
         /\ Head(q) = q[1]
         /\ Tail(q) \in Seq(S)
         /\ Len(q) \in Nat
         /\ Len(q) >= 1
         /\ Len(Tail(q)) = Len(q) - 1
         /\ \A i \in 1..Len(Tail(q)) : Tail(q)[i] = q[i + 1]
<1>1. Len(q) \in Nat /\ Len(q) >= 1 /\ Head(q) = q[1]
  OBVIOUS
<1>2. /\ Head(q) \in S
      /\ Tail(q) \in Seq(S)
      /\ Len(Tail(q)) = Len(q) - 1
      /\ \A i \in 1..Len(Tail(q)) : Tail(q)[i] = q[i + 1]
  BY HeadTailProperties
<1> QED BY <1>1, <1>2

\* The send times are finitely many.
LEMMA SendTimesFinite ==
  ASSUME TypeOK
  PROVE  IsFiniteSet(sendTimes) /\ Cardinality(sendTimes) \in Nat
<1>1. IsFiniteSet(1..sent)
  BY FS_Interval DEF TypeOK
<1> QED
  BY <1>1, FS_Subset, FS_CardinalityType DEF TypeOK

\* Sending an order adds a send time: its id is new.
LEMMA RecordCount ==
  ASSUME TypeOK, Record
  PROVE  Cardinality(sendTimes') = Cardinality(sendTimes) + 1
<1>1. sent + 1 \notin sendTimes
  BY DEF TypeOK
<1> QED
  BY <1>1, SendTimesFinite, FS_AddElement DEF Record

\* Removing a send time removes one.
LEMMA RemoveCount ==
  ASSUME TypeOK, NEW id \in sendTimes
  PROVE  /\ Cardinality(sendTimes \ {id}) = Cardinality(sendTimes) - 1
         /\ Cardinality(sendTimes) >= 1
<1>1. /\ Cardinality(sendTimes \ {id}) = Cardinality(sendTimes) - 1
      /\ IsFiniteSet(sendTimes \ {id})
  BY SendTimesFinite, FS_RemoveElement
<1>2. Cardinality(sendTimes \ {id}) \in Nat
  BY <1>1, FS_CardinalityType
<1> QED
  BY <1>1, <1>2, SendTimesFinite

-----------------------------------------------------------------------------
(* Accounting.                                                             *)

\* No order is sent yet, and none is outstanding.
LEMMA InitAccounting == Init => Accounting
  BY FS_EmptySet DEF Init, Accounting

\* Sending raises both counts, a matched ack moves one order from outstanding
\* to acked, and nothing else touches them.
LEMMA NextAccounting ==
  ASSUME TypeOK, Accounting, [Next]_vars
  PROVE  Accounting'
<1> USE DEF Accounting, env, senderVars, countVars, netVars
<1>1. CASE Record
  <2>1. Cardinality(sendTimes') = Cardinality(sendTimes) + 1
    BY <1>1, RecordCount
  <2>2. /\ sent' = sent + 1
        /\ outstanding' = outstanding + 1
        /\ acked' = acked
    BY <1>1 DEF Record
  <2>3. outstanding \in Nat /\ sent \in Nat /\ acked \in Nat
    BY DEF TypeOK
  <2> QED
    BY <2>1, <2>2, <2>3
<1>2. CASE Receive
  <2>1. CASE Head(acks) \in sendTimes
    <3>1. /\ Cardinality(sendTimes \ {Head(acks)}) = Cardinality(sendTimes) - 1
          /\ Cardinality(sendTimes) >= 1
      BY <2>1, RemoveCount
    <3>2. /\ sendTimes' = sendTimes \ {Head(acks)}
          /\ sent' = sent
          /\ acked' = acked + 1
          /\ outstanding' = outstanding - 1
      BY <1>2, <2>1 DEF Receive
    <3>3. outstanding \in Nat /\ acked \in Nat
      BY DEF TypeOK
    <3> QED
      BY <3>1, <3>2, <3>3
  <2>2. CASE Head(acks) \notin sendTimes
    BY <1>2, <2>2 DEF Receive
  <2> QED
    BY <2>1, <2>2
<1>3. CASE UNCHANGED <<sent, countVars>>
  BY <1>3
<1>4. Record \/ Receive \/ UNCHANGED <<sent, countVars>>
  BY DEF Next, Sender, Connect, ConnectFails, Loop, LoopEnds, Acquire, Pace,
         Drop, Send, SendRaises, Drained, Receiver, ReceiverDies, EngineAcks,
         EngineSilent, EngineCrash, Halt, vars
<1> QED
  BY <1>1, <1>2, <1>3, <1>4

-----------------------------------------------------------------------------
(* What is under way.                                                      *)

\* Nothing is under way at first.
LEMMA InitUnderWay == Init => Firing /\ UnderWay
  BY EmptySeq DEF Init, Firing, UnderWay

\* A step of the sender or of the engine's end leaves what was under way, adds
\* a new id to the wire, or drops everything of it.
LEMMA NextUnderWay ==
  ASSUME TypeOK, UnderWay, [Next]_vars
  PROVE  UnderWay'
<1> SUFFICES ASSUME "twice" \notin faults, faults' = faults
             PROVE  UnderWay'
  <2>1. faults' = faults
    BY DEF Next, Sender, Connect, ConnectFails, Loop, LoopEnds, Acquire, Pace,
           Drop, Send, SendRaises, Drained, Receiver, Receive, ReceiverDies,
           EngineAcks, EngineSilent, EngineCrash, Halt, vars, env
  <2> QED
    BY <2>1 DEF UnderWay
<1>1. CASE Send
  <2>1. /\ wire' = Append(wire, sent + 1)
        /\ acks' = acks
        /\ sendTimes' = sendTimes \cup {sent + 1}
    BY <1>1 DEF Send, Record
  <2>2. /\ wire \in Seq(Nat) /\ acks \in Seq(Nat) /\ sent \in Nat
        /\ \A i \in 1..Len(wire) : wire[i] <= sent
        /\ \A i \in 1..Len(acks) : acks[i] <= sent
    <3>1. wire \in Seq(Nat) /\ acks \in Seq(Nat) /\ sent \in Nat
      BY SeqMonotonic DEF TypeOK
    <3>2. /\ \A i \in 1..Len(wire) : wire[i] \in 1..sent
          /\ \A i \in 1..Len(acks) : acks[i] \in 0..sent
      BY ElementOfSeq DEF TypeOK
    <3> QED
      BY <3>1, <3>2
  <2>3. /\ Len(wire) \in Nat
        /\ Len(wire') = Len(wire) + 1
        /\ \A i \in 1..Len(wire) : wire'[i] = wire[i]
        /\ wire'[Len(wire) + 1] = sent + 1
    BY <2>1, <2>2, AppendFacts
  <2>4. sent + 1 \notin sendTimes
    BY DEF TypeOK
  <2>5. \A i \in 1..Len(wire') : wire'[i] \in sendTimes'
    BY <2>1, <2>3 DEF UnderWay
  <2>6. \A i \in 1..Len(acks') : acks'[i] # 0 => acks'[i] \in sendTimes'
    BY <2>1 DEF UnderWay
  <2>7. \A i, j \in 1..Len(wire') : wire'[i] = wire'[j] => i = j
    <3>1. \A i, j \in 1..Len(wire) : wire'[i] = wire'[j] => i = j
      BY <2>3 DEF UnderWay
    <3>2. \A i \in 1..Len(wire) : wire'[i] < sent + 1
      BY <2>2, <2>3
    <3>3. \A i \in 1..Len(wire') : i \in 1..Len(wire) \/ i = Len(wire) + 1
      BY <2>3
    <3>4. \A i \in 1..Len(wire) : wire'[i] # wire'[Len(wire) + 1]
      BY <2>2, <2>3, <3>2
    <3> QED
      BY <3>1, <3>3, <3>4
  <2>8. \A i \in 1..Len(wire'), j \in 1..Len(acks') : wire'[i] # acks'[j]
    BY <2>1, <2>2, <2>3 DEF UnderWay
  <2> QED
    BY <2>1, <2>5, <2>6, <2>7, <2>8 DEF UnderWay
<1>2. CASE EngineAcks
  <2>1. /\ wire # <<>>
        /\ wire' = Tail(wire)
        /\ sendTimes' = sendTimes
        /\ \E a \in {Head(wire), 0} : acks' = Append(acks, a)
    BY <1>2 DEF EngineAcks, countVars
  <2>2. wire \in Seq(Nat) /\ acks \in Seq(Nat)
    BY SeqMonotonic DEF TypeOK
  <2>3. /\ Head(wire) \in Nat /\ Head(wire) = wire[1]
        /\ Len(wire) \in Nat /\ Len(wire) >= 1
        /\ Len(wire') = Len(wire) - 1
        /\ \A i \in 1..Len(wire') : wire'[i] = wire[i + 1]
    BY <2>1, <2>2, PopFacts
  <2>4. PICK a \in {Head(wire), 0} : acks' = Append(acks, a)
    BY <2>1
  <2>5. /\ Len(acks) \in Nat
        /\ Len(acks') = Len(acks) + 1
        /\ \A i \in 1..Len(acks) : acks'[i] = acks[i]
        /\ acks'[Len(acks) + 1] = a
    BY <2>2, <2>3, <2>4, AppendFacts
  <2>6. /\ \A i \in 1..Len(wire') : wire'[i] \in sendTimes
        /\ \A i, j \in 1..Len(wire') : wire'[i] = wire'[j] => i = j
    <3>1. \A i \in 1..Len(wire') : i + 1 \in 1..Len(wire)
      BY <2>3
    <3>2. \A i \in 1..Len(wire') : wire'[i] \in sendTimes
      BY <2>3, <3>1 DEF UnderWay
    <3>3. ASSUME NEW i \in 1..Len(wire'), NEW j \in 1..Len(wire'), wire'[i] = wire'[j]
          PROVE  i = j
      <4>1. wire[i + 1] = wire[j + 1]
        BY <2>3, <3>3
      <4>2. i + 1 = j + 1
        BY <3>1, <4>1 DEF UnderWay
      <4> QED BY <4>2
    <3> QED BY <3>2, <3>3
  <2>7. \A i \in 1..Len(acks') : acks'[i] # 0 => acks'[i] \in sendTimes
    BY <2>3, <2>5 DEF UnderWay
  <2>8. \A i, j \in 1..Len(acks') :
           acks'[i] = acks'[j] /\ acks'[i] # 0 => i = j
    BY <2>3, <2>5 DEF UnderWay
  <2>9. \A i \in 1..Len(wire), j \in 1..Len(acks) : wire[i] # acks[j]
    BY DEF UnderWay
  <2>10. \A i \in 1..Len(wire) : wire[i] # 0
    BY ElementOfSeq DEF TypeOK
  <2>11. ASSUME NEW i \in 1..Len(wire'), NEW j \in 1..Len(acks')
         PROVE  wire'[i] # acks'[j]
    <3>1. i + 1 \in 1..Len(wire) /\ i + 1 # 1 /\ wire'[i] = wire[i + 1]
      BY <2>3
    <3>2. CASE j \in 1..Len(acks)
      BY <2>5, <2>9, <3>1, <3>2
    <3>3. CASE j = Len(acks) + 1
      <4>1. acks'[j] = wire[1] \/ acks'[j] = 0
        BY <2>3, <2>4, <2>5, <3>3
      <4>2. 1 \in 1..Len(wire)
        BY <2>3
      <4>3. wire[i + 1] # wire[1]
        BY <3>1, <4>2 DEF UnderWay
      <4>4. wire[i + 1] # 0
        BY <2>10, <3>1
      <4> QED BY <3>1, <4>1, <4>3, <4>4
    <3> QED BY <2>5, <3>2, <3>3
  <2> QED
    BY <2>1, <2>6, <2>7, <2>8, <2>11 DEF UnderWay
<1>3. CASE Receive
  <2>1. /\ acks # <<>>
        /\ Head(acks) # 0
        /\ acks' = Tail(acks)
        /\ wire' = wire
        /\ sendTimes' \in {sendTimes, sendTimes \ {Head(acks)}}
    BY <1>3 DEF Receive, countVars
  <2>2. wire \in Seq(Nat) /\ acks \in Seq(Nat)
    BY SeqMonotonic DEF TypeOK
  <2>3. /\ Head(acks) = acks[1]
        /\ Len(acks) \in Nat /\ Len(acks) >= 1
        /\ Len(acks') = Len(acks) - 1
        /\ \A i \in 1..Len(acks') : acks'[i] = acks[i + 1]
    BY <2>1, <2>2, PopFacts
  <2>4. \A i \in 1..Len(wire') : wire'[i] \in sendTimes'
    BY <2>1, <2>3 DEF UnderWay
  <2>5. \A i \in 1..Len(acks') : acks'[i] # 0 => acks'[i] \in sendTimes'
    BY <2>1, <2>3 DEF UnderWay
  <2>6. \A i, j \in 1..Len(acks') :
           acks'[i] = acks'[j] /\ acks'[i] # 0 => i = j
    BY <2>3 DEF UnderWay
  <2>7. \A i \in 1..Len(wire'), j \in 1..Len(acks') : wire'[i] # acks'[j]
    BY <2>1, <2>3 DEF UnderWay
  <2> QED
    BY <2>1, <2>4, <2>5, <2>6, <2>7 DEF UnderWay
<1>4. CASE SendRaises
  BY <1>4 DEF SendRaises, Record, netVars, UnderWay
<1>5. CASE Drained
  BY <1>5, EmptySeq DEF Drained, UnderWay
<1>6. CASE EngineCrash
  BY <1>6, EmptySeq DEF EngineCrash, countVars, UnderWay
<1>7. CASE UNCHANGED <<sendTimes, wire, acks>>
  BY <1>7 DEF UnderWay
<1> QED
  BY <1>1, <1>2, <1>3, <1>4, <1>5, <1>6, <1>7
     DEF Next, Sender, Connect, ConnectFails, Loop, LoopEnds, Acquire, Pace,
         Drop, Receiver, ReceiverDies, EngineSilent, Halt, vars, countVars,
         netVars

-----------------------------------------------------------------------------
(* Types.                                                                  *)

\* The initial state is well typed.
LEMMA InitType == Init => TypeOK
<1> SUFFICES ASSUME Init PROVE TypeOK
  OBVIOUS
<1>1. wire \in Seq(1..sent) /\ acks \in Seq(0..sent)
  BY EmptySeq DEF Init
<1>2. sem \in Nat
  BY BotAssumption DEF Init
<1> QED
  BY <1>1, <1>2 DEF Init, TypeOK

\* A bigger number of orders leaves room for every id under way.
LEMMA IdsUpTo ==
  ASSUME NEW m \in Nat, NEW n \in Nat, m <= n
  PROVE  /\ \A q \in Seq(1..m) : q \in Seq(1..n)
         /\ \A q \in Seq(0..m) : q \in Seq(0..n)
<1>1. 1..m \subseteq 1..n /\ 0..m \subseteq 0..n
  OBVIOUS
<1> QED
  BY <1>1, SeqMonotonic

\* Book-keeping keeps the types of what it changes.
LEMMA RecordType ==
  ASSUME TypeOK, Record
  PROVE  /\ sent' \in Nat
         /\ sendTimes' \subseteq 1..sent'
         /\ outstanding' \in Nat
         /\ acked' \in Nat
         /\ wire \in Seq(1..sent')
         /\ acks \in Seq(0..sent')
<1>1. /\ sent' = sent + 1 /\ sent \in Nat
      /\ wire \in Seq(1..sent) /\ acks \in Seq(0..sent)
  BY DEF Record, TypeOK
<1>2. wire \in Seq(1..sent') /\ acks \in Seq(0..sent')
  BY <1>1, IdsUpTo
<1> QED
  BY <1>1, <1>2 DEF Record, TypeOK

\* Every step keeps the types, and a wake-up ends when it has fired its orders.
LEMMA NextType ==
  ASSUME TypeOK, Firing, Accounting, [Next]_vars
  PROVE  TypeOK' /\ Firing'
<1> USE DEF Firing, env, senderVars, countVars, netVars
<1>1. CASE Send
  <2>1. wire' \in Seq(1..sent')
    <3>1. sent + 1 \in 1..sent'
      BY <1>1 DEF Send, Record, TypeOK
    <3>2. wire' = Append(wire, sent + 1)
      BY <1>1 DEF Send
    <3> QED
      BY <1>1, <3>1, <3>2, RecordType, AppendFacts DEF Send
  <2>2. /\ sent' \in Nat
        /\ sendTimes' \subseteq 1..sent'
        /\ outstanding' \in Nat
        /\ acked' \in Nat
        /\ acks \in Seq(0..sent')
    BY <1>1, RecordType DEF Send
  <2>3. left' \in Nat /\ Firing' /\ pc' \in {"top", "send"}
    BY <1>1 DEF Send, Record, TypeOK
  <2> QED
    BY <1>1, <2>1, <2>2, <2>3 DEF Send, TypeOK
<1>2. CASE SendRaises
  <2>1. /\ sent' \in Nat
        /\ sendTimes' \subseteq 1..sent'
        /\ outstanding' \in Nat
        /\ acked' \in Nat
        /\ wire \in Seq(1..sent')
        /\ acks \in Seq(0..sent')
    BY <1>2, RecordType DEF SendRaises
  <2> QED
    BY <1>2, <2>1 DEF SendRaises, TypeOK
<1>3. CASE Receive
  <2>1. acks' \in Seq(0..sent)
    BY <1>3, PopFacts DEF Receive, TypeOK
  <2>2. outstanding' \in Nat /\ acked' \in Nat /\ sendTimes' \subseteq 1..sent
    <3>1. CASE Head(acks) \in sendTimes
      <4>1. outstanding >= 1
        BY <3>1, RemoveCount DEF Accounting
      <4>2. outstanding \in Nat /\ acked \in Nat /\ sendTimes \subseteq 1..sent
        BY DEF TypeOK
      <4>3. /\ sendTimes' = sendTimes \ {Head(acks)}
            /\ acked' = acked + 1
            /\ outstanding' = outstanding - 1
        BY <1>3, <3>1 DEF Receive
      <4>4. sendTimes' \subseteq 1..sent
        BY <4>2, <4>3
      <4>5. outstanding' \in Nat /\ acked' \in Nat
        BY <4>1, <4>2, <4>3
      <4> QED
        BY <4>4, <4>5
    <3>2. CASE Head(acks) \notin sendTimes
      BY <1>3, <3>2 DEF Receive, TypeOK
    <3> QED
      BY <3>1, <3>2
  <2> QED
    BY <1>3, <2>1, <2>2 DEF Receive, TypeOK
<1>4. CASE EngineAcks
  <2>1. /\ wire # <<>>
        /\ wire' = Tail(wire)
        /\ \/ acks' = Append(acks, Head(wire))
           \/ acks' = acks \o <<Head(wire), Head(wire)>>
           \/ acks' = Append(acks, 0)
    BY <1>4 DEF EngineAcks
  <2>2. wire' \in Seq(1..sent) /\ Head(wire) \in 1..sent
    BY <2>1, PopFacts DEF TypeOK
  <2>3. /\ Head(wire) \in 0..sent /\ 0 \in 0..sent
        /\ acks \in Seq(0..sent)
    BY <2>2 DEF TypeOK
  <2>4. <<Head(wire), Head(wire)>> \in Seq(0..sent)
    BY <2>3
  <2>5. /\ Append(acks, Head(wire)) \in Seq(0..sent)
        /\ Append(acks, 0) \in Seq(0..sent)
    BY <2>3, AppendFacts
  <2>6. acks \o <<Head(wire), Head(wire)>> \in Seq(0..sent)
    BY <2>3, <2>4, ConcatProperties
  <2>7. acks' \in Seq(0..sent)
    BY <2>1, <2>5, <2>6
  <2> QED
    BY <1>4, <2>2, <2>7 DEF EngineAcks, TypeOK
<1>5. CASE Drained
  BY <1>5, EmptySeq DEF Drained, TypeOK
<1>6. CASE EngineCrash
  BY <1>6, EmptySeq DEF EngineCrash, TypeOK
<1>7. CASE Acquire
  BY <1>7 DEF Acquire, TypeOK
<1>8. CASE Pace
  BY <1>8, BotAssumption DEF Pace, TypeOK
<1>9. CASE Connect
  BY <1>9 DEF Connect, TypeOK
<1>10. CASE ConnectFails
  BY <1>10 DEF ConnectFails, TypeOK
<1>11. CASE Loop
  <2>1. mode \in {"closed", "open"}
    BY BotAssumption DEF TypeOK
  <2> QED
    BY <1>11, <2>1 DEF Loop, TypeOK
<1>12. CASE LoopEnds
  BY <1>12 DEF LoopEnds, TypeOK
<1>13. CASE Drop
  BY <1>13 DEF Drop, TypeOK
<1>14. CASE ReceiverDies \/ EngineSilent \/ Halt
  BY <1>14 DEF ReceiverDies, EngineSilent, Halt, TypeOK
<1>15. CASE UNCHANGED vars
  BY <1>15 DEF vars, TypeOK
<1> QED
  BY <1>1, <1>2, <1>3, <1>4, <1>5, <1>6, <1>7, <1>8, <1>9, <1>10, <1>11,
     <1>12, <1>13, <1>14, <1>15 DEF Next, Sender, Receiver

-----------------------------------------------------------------------------
(* Permits and bounds.                                                     *)

\* All permits are free at first, and nothing is outstanding.
LEMMA InitPermits == Init => PermitsConserved /\ InFlightBound
  BY FS_EmptySet, BotAssumption DEF Init, PermitsConserved, InFlightBound

\* A received ack gives a permit back; the order it matches gives up its own.
LEMMA ReceivePermits ==
  ASSUME TypeOK, UnderWay, Receive, mode = "closed"
  PROVE  /\ sem' = sem + 1
         /\ Cardinality(sendTimes') >= Cardinality(sendTimes) - 1
         /\ "twice" \notin faults =>
               Cardinality(sendTimes') = Cardinality(sendTimes) - 1
         /\ pc' = pc
<1>1. sem' = sem + 1 /\ pc' = pc
  BY DEF Receive, senderVars
<1>2. CASE Head(acks) \in sendTimes
  <2>1. sendTimes' = sendTimes \ {Head(acks)}
    BY <1>2 DEF Receive
  <2>2. Cardinality(sendTimes \ {Head(acks)}) = Cardinality(sendTimes) - 1
    BY <1>2, RemoveCount
  <2>3. Cardinality(sendTimes) \in Nat
    BY SendTimesFinite
  <2> QED
    BY <1>1, <2>1, <2>2, <2>3
<1>3. CASE Head(acks) \notin sendTimes
  <2>1. sendTimes' = sendTimes
    BY <1>3 DEF Receive, countVars
  <2>2. Cardinality(sendTimes) \in Nat
    BY SendTimesFinite
  <2>3. "twice" \in faults
    <3>1. /\ acks # <<>>
          /\ Head(acks) # 0
          /\ acks \in Seq(0..sent)
      BY DEF Receive, TypeOK
    <3>2. Head(acks) = acks[1] /\ 1 \in 1..Len(acks)
      BY <3>1, PopFacts
    <3> QED
      BY <1>3, <3>1, <3>2 DEF UnderWay
  <2> QED
    BY <1>1, <2>1, <2>2, <2>3
<1> QED
  BY <1>2, <1>3

\* A permit moves between the semaphore, the sender and the orders outstanding.
LEMMA NextPermits ==
  ASSUME TypeOK, Firing, UnderWay, PermitsConserved, [Next]_vars
  PROVE  PermitsConserved'
<1> SUFFICES ASSUME mode = "closed", pc' # "done",
                    mode' = mode, faults' = faults
             PROVE  PermitsConserved'
  <2>1. mode' = mode /\ faults' = faults
    BY DEF Next, Sender, Connect, ConnectFails, Loop, LoopEnds, Acquire, Pace,
           Drop, Send, SendRaises, Drained, Receiver, Receive, ReceiverDies,
           EngineAcks, EngineSilent, EngineCrash, Halt, vars, env
  <2> QED
    BY <2>1 DEF PermitsConserved
<1>1. sem \in Nat /\ Cardinality(sendTimes) \in Nat /\ Window \in Nat
  BY SendTimesFinite, BotAssumption DEF TypeOK
<1>2. CASE Send
  <2>1. /\ pc = "send" /\ pc' = "top" /\ sem' = sem
    BY <1>2 DEF Send, Record, Firing
  <2>2. Cardinality(sendTimes') = Cardinality(sendTimes) + 1
    BY <1>2, RecordCount DEF Send
  <2> QED
    BY <1>1, <2>1, <2>2 DEF PermitsConserved
<1>3. CASE Acquire
  <2>1. /\ pc = "acquire" /\ pc' = "send"
        /\ sem' = sem - 1 /\ sendTimes' = sendTimes
    BY <1>3 DEF Acquire, countVars
  <2> QED
    BY <1>1, <2>1 DEF PermitsConserved
<1>4. CASE Receive
  <2>1. Cardinality(sendTimes') \in Int
    BY <1>1, <1>4, RemoveCount DEF Receive, countVars
  <2> QED
    BY <1>1, <1>4, <2>1, ReceivePermits DEF PermitsConserved
<1>5. CASE Connect \/ Loop \/ LoopEnds
  <2>1. /\ pc # "done" /\ pc # "send" /\ pc' # "send"
        /\ sem' = sem /\ sendTimes' = sendTimes
    BY <1>5 DEF Connect, Loop, LoopEnds, countVars
  <2> QED
    BY <1>1, <2>1 DEF PermitsConserved
<1>6. CASE UNCHANGED <<pc, sem, sendTimes>>
  BY <1>6 DEF PermitsConserved
<1>7. ~ConnectFails /\ ~Pace /\ ~Drop /\ ~SendRaises /\ ~Drained
  BY DEF ConnectFails, Pace, Drop, SendRaises, Drained, Firing
<1> QED
  BY <1>2, <1>3, <1>4, <1>5, <1>6, <1>7
     DEF Next, Sender, Receiver, ReceiverDies, EngineAcks, EngineSilent,
         EngineCrash, Halt, vars, senderVars, countVars

\* Only sending an order adds a send time.
LEMMA SendTimesShrink ==
  ASSUME TypeOK, [Next]_vars, ~Record
  PROVE  /\ Cardinality(sendTimes') \in Nat
         /\ Cardinality(sendTimes') <= Cardinality(sendTimes)
<1>1. sendTimes' \in SUBSET sendTimes
  BY DEF Next, Sender, Connect, ConnectFails, Loop, LoopEnds, Acquire, Pace,
         Drop, Send, SendRaises, Drained, Receiver, Receive, ReceiverDies,
         EngineAcks, EngineSilent, EngineCrash, Halt, vars, countVars
<1> QED
  BY <1>1, SendTimesFinite, FS_Subset, FS_CardinalityType

\* Sending stays within the bounds: the closed loop pays with a permit, the open
\* loop looks at the guard.
LEMMA NextBound ==
  ASSUME BotInv, [Next]_vars
  PROVE  InFlightBound'
<1>1. /\ mode' = mode /\ faults' = faults
  BY DEF Next, Sender, Connect, ConnectFails, Loop, LoopEnds, Acquire, Pace,
         Drop, Send, SendRaises, Drained, Receiver, Receive, ReceiverDies,
         EngineAcks, EngineSilent, EngineCrash, Halt, vars, env
<1>2. /\ Cardinality(sendTimes) \in Nat /\ sem \in Nat
      /\ Window \in Nat /\ MaxOutstanding \in Nat
  BY SendTimesFinite, BotAssumption DEF BotInv, TypeOK
<1>3. CASE Record
  <2>1. /\ Cardinality(sendTimes') = Cardinality(sendTimes) + 1
        /\ pc = "send"
    BY <1>3, RecordCount DEF BotInv, Record
  <2>2. ASSUME mode = "closed", "twice" \notin faults
        PROVE  Cardinality(sendTimes') <= Window
    BY <1>2, <2>1, <2>2 DEF BotInv, PermitsConserved
  <2>3. ASSUME mode = "open" PROVE Cardinality(sendTimes') <= MaxOutstanding
    BY <1>2, <1>3, <2>1, <2>3 DEF BotInv, Accounting, Record
  <2> QED
    BY <1>1, <2>2, <2>3 DEF InFlightBound
<1>4. CASE ~Record
  <2>1. /\ Cardinality(sendTimes') \in Nat
        /\ Cardinality(sendTimes') <= Cardinality(sendTimes)
    BY <1>4, SendTimesShrink DEF BotInv
  <2> QED
    BY <1>1, <1>2, <2>1 DEF BotInv, InFlightBound
<1> QED
  BY <1>3, <1>4

\* The invariant holds in the beginning and is kept by every step.
LEMMA BotStarts == Init => BotInv
  BY InitType, InitAccounting, InitUnderWay, InitPermits DEF BotInv

LEMMA BotSteps == BotInv /\ [Next]_vars => BotInv'
<1> SUFFICES ASSUME BotInv, [Next]_vars PROVE BotInv'
  OBVIOUS
<1>1. TypeOK' /\ Firing'
  BY NextType DEF BotInv
<1>2. Accounting' /\ UnderWay' /\ PermitsConserved'
  BY NextAccounting, NextUnderWay, NextPermits DEF BotInv
<1>3. InFlightBound'
  BY NextBound
<1> QED
  BY <1>1, <1>2, <1>3 DEF BotInv

-----------------------------------------------------------------------------
(* Theorems.                                                               *)

\* The inductive invariant of a bot: counters, permits and what is under way to
\* and from its engine agree (bot and its receiver).
THEOREM Inductive == Spec => []BotInv
<1> QED
  BY BotStarts, BotSteps, PTL DEF Spec

\* The state of a bot is well typed, whatever its engine does.
THEOREM TypeCorrect == Spec => []TypeOK
<1>1. BotInv => TypeOK
  BY DEF BotInv
<1> QED
  BY <1>1, Inductive, PTL

\* Every order sent is acked once or outstanding, whatever the engine does
\* (bot and its receiver).
THEOREM Accounted == Spec => []Accounting
<1>1. BotInv => Accounting
  BY DEF BotInv
<1> QED
  BY <1>1, Inductive, PTL

\* No permit of the closed loop is lost, and none made up but by an engine
\* that acks twice.
THEOREM Permits == Spec => []PermitsConserved
<1>1. BotInv => PermitsConserved
  BY DEF BotInv
<1> QED
  BY <1>1, Inductive, PTL

\* The window and the overload guard bound the orders outstanding.
THEOREM InFlight == Spec => []InFlightBound
<1>1. BotInv => InFlightBound
  BY DEF BotInv
<1> QED
  BY <1>1, Inductive, PTL
=============================================================================
