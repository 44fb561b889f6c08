---------------------------- MODULE ServerProofs ----------------------------
(***************************************************************************)
(* Theorems about an engine that serves the clients of Probe, for any       *)
(* number of connections, io_contexts, ids and prices.  Two arguments:      *)
(* every step of the server is a step of OrderBook or leaves the book       *)
(* alone, so the book that is served concurrently keeps every promise of    *)
(* OrderBook; and the messages of a connection that its handler sent are,   *)
(* in order, on the wire, in the hands of async_write, buffered or posted   *)
(* (Ledger), so a client receives them in order and complete.               *)
(***************************************************************************)
EXTENDS Probe, OrderBookProofs

-----------------------------------------------------------------------------
(* Sequences.                                                              *)

\* A sequence is a prefix of whatever continues it.
LEMMA PrefixConcat ==
  ASSUME NEW S, NEW s \in Seq(S), NEW u \in Seq(S)
  PROVE  Prefix(s, s \o u)
<1> DEFINE t == s \o u
<1>1. t \in Seq(S) /\ Len(t) = Len(s) + Len(u) /\ Len(s) \in Nat /\ Len(u) \in Nat
  BY ConcatProperties, LenProperties
<1>2. \A i \in 1..Len(s) : t[i] = s[i]
  BY <1>1, ConcatProperties
<1>3. \A i \in 1..Len(s) : t[i] \in S
  BY <1>2, ElementOfSeq
<1> HIDE DEF t
<1>4. /\ SubSeq(t, 1, Len(s)) \in Seq(S)
      /\ Len(SubSeq(t, 1, Len(s))) = Len(s)
      /\ \A i \in 1..Len(s) : SubSeq(t, 1, Len(s))[i] = t[i]
  BY <1>1, <1>3, SubSeqProperties
<1>5. s = SubSeq(t, 1, Len(s))
  BY <1>2, <1>4, SeqEqual
<1> QED BY <1>1, <1>5 DEF Prefix, t

\* Every sequence is a prefix of itself.
LEMMA PrefixSelf ==
  ASSUME NEW S, NEW s \in Seq(S)
  PROVE  Prefix(s, s)
<1>1. s \o <<>> = s /\ <<>> \in Seq(S)
  BY ConcatEmptySeq, EmptySeq
<1> QED BY <1>1, PrefixConcat

\* A prefix stays one when the sequence grows.
LEMMA PrefixAppend ==
  ASSUME NEW S, NEW s \in Seq(S), NEW t \in Seq(S), NEW e \in S, Prefix(s, t)
  PROVE  Prefix(s, Append(t, e))
<1> DEFINE u == SubSeq(t, Len(s) + 1, Len(t))
<1>1. Len(s) \in Nat /\ Len(t) \in Nat /\ Len(s) <= Len(t)
  BY LenProperties DEF Prefix
<1>2. u \in Seq(S)
  <2>1. \A i \in Len(s) + 1 .. Len(t) : t[i] \in S
    BY <1>1, ElementOfSeq
  <2> QED BY <1>1, <2>1, SubSeqProperties
<1>3. t = s \o u
  <2>1. SubSeq(t, 1, Len(s)) \o u = SubSeq(t, 1, Len(t))
    <3>1. 1 \in 1..Len(t) + 1 /\ Len(s) \in 1 - 1 .. Len(t) /\ Len(t) \in Len(s)..Len(t)
      BY <1>1
    <3> QED BY <3>1, ConcatAdjacentSubSeq
  <2>2. SubSeq(t, 1, Len(t)) = t
    BY SubSeqFull
  <2>3. SubSeq(t, 1, Len(s)) = s
    BY DEF Prefix
  <2> QED BY <2>1, <2>2, <2>3
<1> HIDE DEF u
<1>4. Append(t, e) = s \o Append(u, e)
  <2>1. <<e>> \in Seq(S)
    OBVIOUS
  <2>2. Append(t, e) = t \o <<e>> /\ Append(u, e) = u \o <<e>>
    BY <1>2, AppendIsConcat
  <2>3. (s \o u) \o <<e>> = s \o (u \o <<e>>)
    BY <1>2, <2>1, ConcatAssociative
  <2> QED BY <1>3, <2>2, <2>3
<1>5. Append(u, e) \in Seq(S)
  BY <1>2, AppendProperties
<1> QED BY <1>4, <1>5, PrefixConcat

\* Appending to the last part appends to the whole.
LEMMA ConcatAppend ==
  ASSUME NEW S, NEW s \in Seq(S), NEW t \in Seq(S), NEW e \in S
  PROVE  s \o Append(t, e) = Append(s \o t, e)
<1>1. <<e>> \in Seq(S) /\ s \o t \in Seq(S)
  BY ConcatProperties
<1>2. Append(t, e) = t \o <<e>> /\ Append(s \o t, e) = (s \o t) \o <<e>>
  BY <1>1, AppendIsConcat
<1> QED BY <1>1, <1>2, ConcatAssociative

\* The head of the second part may go to the end of the first.
LEMMA MoveHead ==
  ASSUME NEW S, NEW s \in Seq(S), NEW t \in Seq(S), t # <<>>
  PROVE  Append(s, Head(t)) \o Tail(t) = s \o t
<1>1. Head(t) \in S /\ Tail(t) \in Seq(S) /\ <<Head(t)>> \in Seq(S)
  BY HeadTailProperties
<1>2. t = <<Head(t)>> \o Tail(t)
  OBVIOUS
<1>3. Append(s, Head(t)) = s \o <<Head(t)>>
  BY <1>1, AppendIsConcat
<1> QED BY <1>1, <1>2, <1>3, ConcatAssociative

-----------------------------------------------------------------------------
(* The book.                                                               *)

\* What limit and market are called with.
LEMMA OrderFields ==
  ASSUME NEW r \in Request, r.t # "cancel"
  PROVE  /\ r.id \in Ids /\ r.side \in Sides
         /\ r.px \in Prices \cup {None} /\ r.qty \in 1..MaxQty
<1>1. \/ \E id \in Ids, side \in Sides, px \in Prices, qty \in 1..MaxQty :
            r = [t |-> "limit", id |-> id, side |-> side, px |-> px, qty |-> qty]
      \/ \E id \in Ids, side \in Sides, qty \in 1..MaxQty :
            r = [t |-> "market", id |-> id, side |-> side, px |-> None, qty |-> qty]
      \/ \E id \in Ids, target \in Ids : r = [t |-> "cancel", id |-> id, target |-> target]
  BY DEF Request, Limit, Market, CancelOf
<1> QED BY <1>1

\* Every request has an id, and a cancel that of the order it is for.
LEMMA CancelFields ==
  ASSUME NEW r \in Request
  PROVE  r.id \in Ids /\ (r.t = "cancel" => r.target \in Ids)
<1>1. \/ \E id \in Ids, side \in Sides, px \in Prices, qty \in 1..MaxQty :
            r = [t |-> "limit", id |-> id, side |-> side, px |-> px, qty |-> qty]
      \/ \E id \in Ids, side \in Sides, qty \in 1..MaxQty :
            r = [t |-> "market", id |-> id, side |-> side, px |-> None, qty |-> qty]
      \/ \E id \in Ids, target \in Ids : r = [t |-> "cancel", id |-> id, target |-> target]
  BY DEF Request, Limit, Market, CancelOf
<1> QED BY <1>1

\* Every step of the server is a step of the book, or leaves it alone: the
\* book is worked on under its lock, and with what is in a request.
LEMMA BookStep ==
  ASSUME ServerInv, [ProbeNext]_systemVars
  PROVE  [Next]_vars
<1>0. \A c \in Conns : step[c] # "read" => request[c] \in Request
  BY DEF ServerInv, ServerTypeOK, ConnInv, HandlerInv
<1>1. ASSUME NEW c \in Conns, EngineStep(c) PROVE [Next]_vars
  <2>1. CASE Enter(c)
    <3>1. request[c] \in Request /\ request[c].t # "cancel"
      BY <1>0, <2>1 DEF Enter
    <3>2. /\ request[c].id \in Ids /\ request[c].side \in Sides
          /\ request[c].px \in Prices \cup {None} /\ request[c].qty \in 1..MaxQty
      BY <3>1, OrderFields
    <3> QED BY <2>1, <3>2 DEF Enter, Next
  <2>2. CASE Work(c)
    BY <2>2 DEF Work, Next
  <2>3. CASE WorkCancel(c)
    <3>1. request[c] \in Request /\ request[c].t = "cancel"
      BY <1>0, <2>3 DEF WorkCancel
    <3>2. request[c].target \in Ids
      BY <3>1, CancelFields
    <3>3. Cancel(request[c].target) \/ UNCHANGED vars
      BY <2>3 DEF WorkCancel, book, vars
    <3> QED BY <3>2, <3>3 DEF Next
  <2>4. ASSUME UNCHANGED book PROVE [Next]_vars
    BY <2>4 DEF book, vars
  <2> QED
    BY <1>1, <2>1, <2>2, <2>3, <2>4
    DEF EngineStep, Accept, Upgrade, UpgradeFails, Serve, ReadRequest, Ack, Reply,
        Return, SendFails, RunPost, SocketTakes, WriteDone, WriteFails, ReadClose,
        ReadFails
<1>2. ASSUME UNCHANGED book PROVE [Next]_vars
  BY <1>2 DEF book, vars
<1> QED
  BY <1>1, <1>2
  DEF ProbeNext, Connects, EngineRuns, Probing, AckRunsOut, FillsRunOut, ProbeSends,
      ProbeAcked, ProbeReceives, ProbeLeaves, LoadSends, LoadLeaves, ClientConnects,
      ClientSends, ClientLeaves, ClientDies, systemVars, serverVars

-----------------------------------------------------------------------------
(* What sending and writing do to a connection.                            *)

\* Messages may be put together in any grouping.
LEMMA Regroup ==
  ASSUME NEW s \in Seq(Message), NEW t \in Seq(Message), NEW u \in Seq(Message)
  PROVE  (s \o t) \o u = s \o (t \o u)
  BY ConcatAssociative

\* What the messages of a connection are.
LEMMA ConnTypes ==
  ASSUME ServerTypeOK, NEW c \in Conns
  PROVE  /\ sent[c] \in Seq(Message) /\ wire[c] \in Seq(Message)
         /\ posts[c] \in Seq(Message) /\ writeBuffers[c] \in Seq(Message)
         /\ sending[c] \in Seq(Message)
  BY DEF ServerTypeOK

\* Posted or written, a message that is sent goes to the end of all there is.
LEMMA SendKeeps ==
  ASSUME ServerTypeOK, NEW c \in Conns, BufferInv(c), Ledger(c),
         Prefix(wire[c], sent[c]), stage[c] = "ws",
         NEW m \in Message, Send(c, m)
  PROVE  /\ {posts', sent', wire'} \subseteq [Conns -> Seq(Message)]
         /\ \A d \in Conns \ {c} :
               posts'[d] = posts[d] /\ sent'[d] = sent[d] /\ wire'[d] = wire[d]
         /\ client[c] # "gone" =>
               sent'[c] = wire'[c] \o (sending[c] \o (writeBuffers[c] \o posts'[c]))
         /\ Prefix(wire'[c], sent'[c])
         /\ ~Crow => posts'[c] = <<>>
<1> DEFINE s == sent[c]
           w == wire[c]
           a == sending[c]
           b == writeBuffers[c]
           p == posts[c]
<1>0. /\ s \in Seq(Message) /\ w \in Seq(Message) /\ p \in Seq(Message)
      /\ b \in Seq(Message) /\ a \in Seq(Message)
  BY ConnTypes
<1>1. /\ {posts, sent, wire} \subseteq [Conns -> Seq(Message)]
      /\ sent' = [sent EXCEPT ![c] = Append(@, m)]
  BY DEF ServerTypeOK, Send
<1>2. Append(s, m) \in Seq(Message) /\ Append(w, m) \in Seq(Message) /\ Append(p, m) \in Seq(Message)
  BY <1>0, AppendProperties
<1>3. sent'[c] = Append(s, m) /\ sent' \in [Conns -> Seq(Message)]
  BY <1>1, <1>2
<1>4. client[c] # "gone" => s = w \o (a \o (b \o p))
  BY DEF Ledger
<1>5. CASE Crow /\ posts' = [posts EXCEPT ![c] = Append(@, m)] /\ wire' = wire
  <2>1. posts'[c] = Append(p, m) /\ posts' \in [Conns -> Seq(Message)]
    BY <1>1, <1>2, <1>5
  <2>3. Prefix(w, Append(s, m))
    BY <1>0, PrefixAppend
  <2> HIDE DEF s, w, a, b, p
  <2>2. w \o (a \o (b \o Append(p, m))) = Append(w \o (a \o (b \o p)), m)
    <3> DEFINE t == b \o p
               u == a \o t
    <3>1. t \in Seq(Message) /\ b \o Append(p, m) = Append(t, m)
      BY <1>0, ConcatProperties, ConcatAppend
    <3> HIDE DEF t
    <3>2. u \in Seq(Message) /\ a \o Append(t, m) = Append(u, m)
      BY <1>0, <3>1, ConcatProperties, ConcatAppend
    <3> HIDE DEF u
    <3>3. w \o Append(u, m) = Append(w \o u, m)
      BY <1>0, <3>2, ConcatAppend
    <3> QED BY <3>1, <3>2, <3>3 DEF t, u
  <2>4. client[c] # "gone" => sent'[c] = w \o (a \o (b \o posts'[c]))
    BY <1>3, <1>4, <2>1, <2>2
  <2>5. wire'[c] = w /\ wire' \in [Conns -> Seq(Message)]
    BY <1>1, <1>5 DEF w
  <2>6. \A d \in Conns \ {c} : posts'[d] = posts[d] /\ sent'[d] = sent[d] /\ wire'[d] = wire[d]
    BY <1>1, <1>5
  <2>7. Prefix(wire'[c], sent'[c])
    BY <1>3, <2>3, <2>5
  <2> QED BY <1>3, <1>5, <2>1, <2>4, <2>5, <2>6, <2>7 DEF a, b
<1>6. CASE ~Crow /\ client[c] # "gone" /\ wire' = [wire EXCEPT ![c] = Append(@, m)] /\ posts' = posts
  <2>1. wire'[c] = Append(w, m) /\ wire' \in [Conns -> Seq(Message)]
    BY <1>1, <1>2, <1>6
  <2>2. a = <<>> /\ b = <<>> /\ p = <<>>
    BY <1>6 DEF BufferInv
  <2>3. \A x \in Seq(Message) : x \o (<<>> \o (<<>> \o <<>>)) = x
    BY ConcatEmptySeq, EmptySeq
  <2>4. Prefix(Append(s, m), Append(s, m))
    BY <1>2, PrefixSelf
  <2> HIDE DEF s, w, a, b, p
  <2>5. s = w
    BY <1>0, <1>4, <1>6, <2>2, <2>3
  <2>6. posts'[c] = p /\ posts' \in [Conns -> Seq(Message)]
    BY <1>1, <1>6 DEF p
  <2>7. sent'[c] = wire'[c] \o (a \o (b \o posts'[c]))
    BY <1>2, <1>3, <2>1, <2>2, <2>3, <2>5, <2>6
  <2>8. \A d \in Conns \ {c} : posts'[d] = posts[d] /\ sent'[d] = sent[d] /\ wire'[d] = wire[d]
    BY <1>1, <1>6
  <2>9. Prefix(wire'[c], sent'[c])
    BY <1>3, <2>1, <2>4, <2>5
  <2> QED BY <1>3, <2>1, <2>2, <2>6, <2>7, <2>8, <2>9 DEF a, b
<1> QED BY <1>5, <1>6 DEF Send

\* do_write keeps the order of what is buffered behind what is being written,
\* and leaves a buffer waiting only for a write that is under way.
LEMMA DoWriteKeeps ==
  ASSUME ServerTypeOK, NEW c \in Conns, BufferInv(c),
         NEW buffered \in Seq(Message), DoWrite(c, buffered)
  PROVE  /\ {sending', writeBuffers'} \subseteq [Conns -> Seq(Message)]
         /\ writing' \in [Conns -> BOOLEAN]
         /\ \A d \in Conns \ {c} :
               /\ sending'[d] = sending[d] /\ writeBuffers'[d] = writeBuffers[d]
               /\ writing'[d] = writing[d]
         /\ sending'[c] \o writeBuffers'[c] = sending[c] \o buffered
         /\ sending'[c] # <<>> => writing'[c]
         /\ writing'[c] \/ writeBuffers'[c] = <<>>
<1>1. /\ {sending, writeBuffers} \subseteq [Conns -> Seq(Message)]
      /\ writing \in [Conns -> BOOLEAN]
  BY DEF ServerTypeOK
<1>2. sending[c] # <<>> => writing[c]
  BY DEF BufferInv
<1>3. CASE writing[c] \/ buffered = <<>>
  <2>1. /\ writeBuffers' = [writeBuffers EXCEPT ![c] = buffered]
        /\ sending' = sending /\ writing' = writing
    BY <1>3 DEF DoWrite
  <2> QED BY <1>1, <1>2, <1>3, <2>1
<1>4. CASE ~(writing[c] \/ buffered = <<>>)
  <2>1. /\ sending' = [sending EXCEPT ![c] = buffered]
        /\ writing' = [writing EXCEPT ![c] = TRUE]
        /\ writeBuffers' = [writeBuffers EXCEPT ![c] = <<>>]
    BY <1>4 DEF DoWrite
  <2>2. sending[c] = <<>> /\ <<>> \in Seq(Message)
    BY <1>2, <1>4
  <2>3. buffered \o <<>> = buffered /\ <<>> \o buffered = buffered
    BY ConcatEmptySeq
  <2>4. sending'[c] = buffered /\ writeBuffers'[c] = <<>> /\ writing'[c] = TRUE
    BY <1>1, <2>1
  <2>5. sending'[c] \o writeBuffers'[c] = sending[c] \o buffered
    BY <2>2, <2>3, <2>4
  <2> QED BY <1>1, <2>1, <2>2, <2>4, <2>5
<1> QED BY <1>3, <1>4

-----------------------------------------------------------------------------
(* A step of one connection.                                               *)

\* What the invariant of a connection is about.
SameConn(d) ==
    /\ client'[d] = client[d] /\ stage'[d] = stage[d]
    /\ step'[d] = step[d] /\ request'[d] = request[d]
    /\ posts'[d] = posts[d] /\ writeBuffers'[d] = writeBuffers[d]
    /\ sending'[d] = sending[d] /\ writing'[d] = writing[d] /\ closing'[d] = closing[d]
    /\ sent'[d] = sent[d] /\ wire'[d] = wire[d]

\* A connection that is left alone keeps its invariant.
LEMMA ConnKept ==
  ASSUME NEW d \in Conns, ConnInv(d), SameConn(d), engine' = engine
  PROVE  ConnInv(d)'
<1>1. HandlerInv(d)'
  BY DEF ConnInv, SameConn, HandlerInv
<1>2. BufferInv(d)'
  BY DEF ConnInv, SameConn, BufferInv, Crow
<1>3. Ledger(d)'
  BY DEF ConnInv, SameConn, Ledger
<1>4. Prefix(wire[d], sent[d])'
  BY DEF ConnInv, SameConn, Prefix
<1> QED BY <1>1, <1>2, <1>3, <1>4 DEF ConnInv

\* A step of one connection keeps the invariant if that connection keeps it.
LEMMA OneConn ==
  ASSUME ServerInv, NEW c \in Conns, engine' = engine,
         ServerTypeOK', LockInv', ConnInv(c)',
         \A d \in Conns \ {c} : SameConn(d)
  PROVE  ServerInv'
<1>1. \A d \in Conns \ {c} : ConnInv(d)'
  BY ConnKept DEF ServerInv
<1>2. \A d \in Conns : ConnInv(d)'
  BY <1>1
<1> QED BY <1>2 DEF ServerInv

\* Who is in the book changes only with the handlers.
LEMMA LockKept ==
  ASSUME LockInv, taker' = taker, step' = step
  PROVE  LockInv'
  BY DEF LockInv

\* The empty server.
LEMMA InitServer == ProbeInit => ServerInv
<1> SUFFICES ASSUME ProbeInit PROVE ServerInv
  OBVIOUS
<1>1. TypeOK
  BY InitType DEF ProbeInit, ServerInit
<1>2. <<>> \in Seq(Message) /\ <<>> \in Seq(Request \cup {CloseFrame}) /\ <<>> \in Seq(Fill)
  BY EmptySeq
<1>3. ServerTypeOK
  BY <1>1, <1>2 DEF ServerTypeOK, ProbeInit, ServerInit
<1>4. LockInv
  BY DEF LockInv, ProbeInit, ServerInit, Init
<1>5. ASSUME NEW c \in Conns PROVE ConnInv(c)
  <2>1. HandlerInv(c) /\ BufferInv(c) /\ Ledger(c)
    BY <1>5 DEF HandlerInv, BufferInv, Ledger, ProbeInit, ServerInit
  <2>2. wire[c] = <<>> /\ sent[c] = <<>>
    BY <1>5 DEF ProbeInit, ServerInit
  <2>3. Prefix(<<>>, <<>>)
    BY <1>2, PrefixSelf
  <2> QED BY <2>1, <2>2, <2>3 DEF ConnInv
<1> QED BY <1>3, <1>4, <1>5 DEF ServerInv

-----------------------------------------------------------------------------
(* Clients.                                                                *)

LEMMA ClientConnectsKeeps ==
  ASSUME ServerInv, TypeOK', NEW c \in Conns, ClientConnects(c)
  PROVE  ServerInv'
<1>1. ServerTypeOK'
  BY DEF ServerInv, ServerTypeOK, ClientConnects, handler, crow
<1>2. LockInv'
  BY LockKept DEF ServerInv, ClientConnects, book, handler
<1>3. \A d \in Conns \ {c} : SameConn(d)
  BY DEF SameConn, ServerInv, ServerTypeOK, ClientConnects, handler, crow
<1>4. ConnInv(c)'
  <2>1. client'[c] = "here" /\ client[c] = "out"
    BY DEF ServerInv, ServerTypeOK, ClientConnects
  <2>2. ConnInv(c)
    BY DEF ServerInv
  <2>3. HandlerInv(c)'
    BY <2>2 DEF ConnInv, HandlerInv, ClientConnects, handler
  <2>4. BufferInv(c)' /\ Ledger(c)'
    BY <2>1, <2>2 DEF ConnInv, BufferInv, Ledger, ClientConnects, crow, book, Crow
  <2>5. Prefix(wire[c], sent[c])'
    BY <2>2 DEF ConnInv, ClientConnects, Prefix
  <2> QED BY <2>3, <2>4, <2>5 DEF ConnInv
<1> QED BY <1>1, <1>2, <1>3, <1>4, OneConn DEF ClientConnects, book

LEMMA ClientSendsKeeps ==
  ASSUME ServerInv, TypeOK', NEW c \in Conns, NEW frame \in Request, ClientSends(c, frame)
  PROVE  ServerInv'
<1>1. ServerTypeOK'
  <2>1. Append(inbox[c], frame) \in Seq(Request \cup {CloseFrame})
    BY AppendProperties DEF ServerInv, ServerTypeOK
  <2> QED BY <2>1 DEF ServerInv, ServerTypeOK, ClientSends, handler, crow
<1>2. LockInv'
  BY LockKept DEF ServerInv, ClientSends, book, handler
<1>3. \A d \in Conns : SameConn(d)
  BY DEF SameConn, ClientSends, handler, crow
<1> QED BY <1>1, <1>2, <1>3, ConnKept DEF ServerInv, ClientSends, book

LEMMA ClientLeavesKeeps ==
  ASSUME ServerInv, TypeOK', NEW c \in Conns, ClientLeaves(c)
  PROVE  ServerInv'
<1>1. ServerTypeOK'
  <2>1. Append(inbox[c], CloseFrame) \in Seq(Request \cup {CloseFrame})
    BY AppendProperties DEF ServerInv, ServerTypeOK
  <2> QED BY <2>1 DEF ServerInv, ServerTypeOK, ClientLeaves, handler, crow
<1>2. LockInv'
  BY LockKept DEF ServerInv, ClientLeaves, book, handler
<1>3. \A d \in Conns \ {c} : SameConn(d)
  BY DEF SameConn, ServerInv, ServerTypeOK, ClientLeaves, handler, crow
<1>4. ConnInv(c)'
  <2>1. client'[c] = "leaving" /\ client[c] = "here"
    BY DEF ServerInv, ServerTypeOK, ClientLeaves
  <2>2. ConnInv(c)
    BY DEF ServerInv
  <2>3. HandlerInv(c)'
    BY <2>2 DEF ConnInv, HandlerInv, ClientLeaves, handler
  <2>4. BufferInv(c)' /\ Ledger(c)'
    BY <2>1, <2>2 DEF ConnInv, BufferInv, Ledger, ClientLeaves, crow, book, Crow
  <2>5. Prefix(wire[c], sent[c])'
    BY <2>2 DEF ConnInv, ClientLeaves, Prefix
  <2> QED BY <2>3, <2>4, <2>5 DEF ConnInv
<1> QED BY <1>1, <1>2, <1>3, <1>4, OneConn DEF ClientLeaves, book

LEMMA ClientDiesKeeps ==
  ASSUME ServerInv, TypeOK', NEW c \in Conns, ClientDies(c)
  PROVE  ServerInv'
<1>1. ServerTypeOK'
  BY DEF ServerInv, ServerTypeOK, ClientDies, handler, crow
<1>2. LockInv'
  BY LockKept DEF ServerInv, ClientDies, book, handler
<1>3. \A d \in Conns \ {c} : SameConn(d)
  BY DEF SameConn, ServerInv, ServerTypeOK, ClientDies, handler, crow
<1>4. ConnInv(c)'
  <2>1. client'[c] = "gone"
    BY DEF ServerInv, ServerTypeOK, ClientDies
  <2>2. ConnInv(c)
    BY DEF ServerInv
  <2>3. HandlerInv(c)'
    BY <2>2 DEF ConnInv, HandlerInv, ClientDies, handler
  <2>4. BufferInv(c)' /\ Ledger(c)'
    BY <2>1, <2>2 DEF ConnInv, BufferInv, Ledger, ClientDies, crow, book, Crow
  <2>5. Prefix(wire[c], sent[c])'
    BY <2>2 DEF ConnInv, ClientDies, Prefix
  <2> QED BY <2>3, <2>4, <2>5 DEF ConnInv
<1> QED BY <1>1, <1>2, <1>3, <1>4, OneConn DEF ClientDies, book

-----------------------------------------------------------------------------
(* Accepting.                                                              *)

LEMMA AcceptKeeps ==
  ASSUME ServerInv, TypeOK', NEW c \in Conns, Accept(c)
  PROVE  ServerInv'
<1>1. ServerTypeOK'
  BY DEF ServerInv, ServerTypeOK, Accept, handler, crow
<1>2. LockInv'
  BY LockKept DEF ServerInv, Accept, book, handler
<1>3. \A d \in Conns \ {c} : SameConn(d)
  BY DEF SameConn, ServerInv, ServerTypeOK, Accept, handler, crow
<1>4. ConnInv(c)'
  <2>1. stage'[c] = "http" /\ stage[c] = "none"
    BY DEF ServerInv, ServerTypeOK, Accept
  <2>2. ConnInv(c)
    BY DEF ServerInv
  <2>3. HandlerInv(c)'
    BY <2>1, <2>2 DEF ConnInv, HandlerInv, Accept, handler
  <2>4. BufferInv(c)' /\ Ledger(c)'
    BY <2>1, <2>2 DEF ConnInv, BufferInv, Ledger, Accept, crow, book, Crow
  <2>5. Prefix(wire[c], sent[c])'
    BY <2>2 DEF ConnInv, Accept, Prefix
  <2> QED BY <2>3, <2>4, <2>5 DEF ConnInv
<1> QED BY <1>1, <1>2, <1>3, <1>4, OneConn DEF Accept, book

\* The answer to the handshake is the first that is sent and buffered.
LEMMA UpgradeKeeps ==
  ASSUME ServerInv, TypeOK', NEW c \in Conns, Upgrade(c)
  PROVE  ServerInv'
<1>0. ConnInv(c) /\ ServerTypeOK /\ BufferInv(c)
  BY DEF ServerInv, ConnInv
<1>1. <<Hello>> \in Seq(Message) /\ <<>> \in Seq(Message)
  BY EmptySeq DEF Message
<1>2. /\ {sending', writeBuffers'} \subseteq [Conns -> Seq(Message)]
      /\ writing' \in [Conns -> BOOLEAN]
      /\ \A d \in Conns \ {c} :
            /\ sending'[d] = sending[d] /\ writeBuffers'[d] = writeBuffers[d]
            /\ writing'[d] = writing[d]
      /\ sending'[c] \o writeBuffers'[c] = sending[c] \o <<Hello>>
      /\ sending'[c] # <<>> => writing'[c]
      /\ writing'[c] \/ writeBuffers'[c] = <<>>
  <2>1. DoWrite(c, <<Hello>>)
    BY DEF Upgrade
  <2> QED BY <1>0, <1>1, <2>1, DoWriteKeeps
<1>3. ServerTypeOK'
  <2>1. stage' \in [Conns -> {"none", "http", "ws", "ended"}] /\ websockets' \subseteq Conns
    BY <1>0 DEF ServerTypeOK, Upgrade
  <2>2. sent' \in [Conns -> Seq(Message)]
    BY <1>0, <1>1 DEF ServerTypeOK, Upgrade
  <2>3. {posts', wire'} \subseteq [Conns -> Seq(Message)] /\ closing' \in [Conns -> BOOLEAN]
    BY <1>0 DEF ServerTypeOK, Upgrade
  <2>4. /\ client' \in [Conns -> {"out", "here", "leaving", "gone"}]
        /\ inbox' \in [Conns -> Seq(Request \cup {CloseFrame})]
    BY <1>0 DEF ServerTypeOK, Upgrade
  <2>5. /\ step' \in [Conns -> {"read", "ack", "lock", "book", "reply"}]
        /\ request' \in [Conns -> Request \cup {None}]
        /\ replies' \in [Conns -> Seq(Fill)]
    BY <1>0 DEF ServerTypeOK, Upgrade, handler
  <2> QED BY <1>2, <2>1, <2>2, <2>3, <2>4, <2>5 DEF ServerTypeOK
<1>4. LockInv'
  BY LockKept DEF ServerInv, Upgrade, book, handler
<1>5. \A d \in Conns \ {c} : SameConn(d)
  BY <1>0, <1>2 DEF SameConn, ServerTypeOK, Upgrade, handler
<1>6. ConnInv(c)'
  <2>1. /\ stage'[c] = "ws" /\ stage[c] = "http"
        /\ sent'[c] = <<Hello>> /\ wire' = wire /\ posts' = posts /\ closing' = closing
    BY <1>0 DEF ServerTypeOK, Upgrade
  <2>2. wire[c] = <<>> /\ posts[c] = <<>> /\ sending[c] = <<>>
    BY <1>0, <2>1 DEF BufferInv
  <2>3. HandlerInv(c)'
    BY <1>0, <2>1 DEF ConnInv, HandlerInv, Upgrade, handler
  <2>4. Crow
    BY <1>0, <2>1 DEF BufferInv
  <2>5. BufferInv(c)'
    BY <1>0, <1>2, <2>1, <2>2, <2>4 DEF BufferInv, Upgrade, book, Crow
  <2>6. Ledger(c)'
    <3>1. sending'[c] \in Seq(Message) /\ writeBuffers'[c] \in Seq(Message)
      BY <1>2
    <3>2. writeBuffers'[c] \o <<>> = writeBuffers'[c]
      BY <3>1, ConcatEmptySeq
    <3>3. <<>> \o <<Hello>> = <<Hello>>
      BY <1>1, ConcatEmptySeq
    <3>4. <<>> \o (sending'[c] \o (writeBuffers'[c] \o <<>>)) = <<Hello>>
      BY <1>2, <2>2, <3>2, <3>3
    <3> QED BY <2>1, <2>2, <3>4 DEF Ledger
  <2>7. Prefix(wire'[c], sent'[c])
    <3>1. <<>> \o <<Hello>> = <<Hello>>
      BY <1>1, ConcatEmptySeq
    <3> QED BY <1>1, <2>1, <2>2, <3>1, PrefixConcat
  <2> QED BY <2>3, <2>5, <2>6, <2>7 DEF ConnInv
<1> QED BY <1>3, <1>4, <1>5, <1>6, OneConn DEF Upgrade, book

LEMMA UpgradeFailsKeeps ==
  ASSUME ServerInv, TypeOK', NEW c \in Conns, UpgradeFails(c)
  PROVE  ServerInv'
<1>1. ServerTypeOK'
  BY DEF ServerInv, ServerTypeOK, UpgradeFails, handler, crow
<1>2. LockInv'
  BY LockKept DEF ServerInv, UpgradeFails, book, handler
<1>3. \A d \in Conns \ {c} : SameConn(d)
  BY DEF SameConn, ServerInv, ServerTypeOK, UpgradeFails, handler, crow
<1>4. ConnInv(c)'
  <2>1. stage'[c] = "ended" /\ stage[c] = "http"
    BY DEF ServerInv, ServerTypeOK, UpgradeFails
  <2>2. ConnInv(c)
    BY DEF ServerInv
  <2>3. HandlerInv(c)'
    BY <2>1, <2>2 DEF ConnInv, HandlerInv, UpgradeFails, handler
  <2>4. BufferInv(c)' /\ Ledger(c)'
    BY <2>1, <2>2 DEF ConnInv, BufferInv, Ledger, UpgradeFails, crow, book, Crow
  <2>5. Prefix(wire[c], sent[c])'
    BY <2>2 DEF ConnInv, UpgradeFails, Prefix
  <2> QED BY <2>3, <2>4, <2>5 DEF ConnInv
<1> QED BY <1>1, <1>2, <1>3, <1>4, OneConn DEF UpgradeFails, book

LEMMA ServeKeeps ==
  ASSUME ServerInv, TypeOK', NEW c \in Conns, Serve(c)
  PROVE  ServerInv'
<1>0. ConnInv(c) /\ ServerTypeOK /\ BufferInv(c)
  BY DEF ServerInv, ConnInv
<1>1. <<Hello>> \in Seq(Message) /\ <<>> \in Seq(Message)
  BY EmptySeq DEF Message
<1>2. ServerTypeOK'
  BY <1>0, <1>1 DEF ServerTypeOK, Serve, handler, crow
<1>3. LockInv'
  BY LockKept DEF ServerInv, Serve, book, handler
<1>4. \A d \in Conns \ {c} : SameConn(d)
  BY <1>0 DEF SameConn, ServerTypeOK, Serve, handler, crow
<1>5. ConnInv(c)'
  <2>1. /\ stage'[c] = "ws" /\ stage[c] = "none"
        /\ sent'[c] = <<Hello>> /\ wire'[c] = <<Hello>>
    BY <1>0 DEF ServerTypeOK, Serve
  <2>2. posts[c] = <<>> /\ sending[c] = <<>> /\ writeBuffers[c] = <<>>
    BY <1>0, <2>1 DEF BufferInv
  <2>3. HandlerInv(c)'
    BY <1>0, <2>1 DEF ConnInv, HandlerInv, Serve, handler
  <2>4. BufferInv(c)'
    BY <1>0, <2>1, <2>2 DEF BufferInv, Serve, book, crow, Crow
  <2>5. Ledger(c)'
    <3>1. <<Hello>> \o (<<>> \o (<<>> \o <<>>)) = <<Hello>>
      BY <1>1, ConcatEmptySeq
    <3> QED BY <2>1, <2>2, <3>1 DEF Ledger, Serve, crow
  <2>6. Prefix(wire'[c], sent'[c])
    BY <1>1, <2>1, PrefixSelf
  <2> QED BY <2>3, <2>4, <2>5, <2>6 DEF ConnInv
<1> QED BY <1>2, <1>3, <1>4, <1>5, OneConn DEF Serve, book

-----------------------------------------------------------------------------
(* The message handler.                                                    *)

LEMMA ReadRequestKeeps ==
  ASSUME ServerInv, TypeOK', NEW c \in Conns, ReadRequest(c)
  PROVE  ServerInv'
<1>0. ConnInv(c) /\ ServerTypeOK
  BY DEF ServerInv
<1>1. Head(inbox[c]) \in Request /\ Tail(inbox[c]) \in Seq(Request \cup {CloseFrame})
  <2>1. inbox[c] \in Seq(Request \cup {CloseFrame}) /\ inbox[c] # <<>> /\ Head(inbox[c]) # CloseFrame
    BY <1>0 DEF ServerTypeOK, ReadRequest
  <2> QED BY <2>1, HeadTailProperties
<1>2. ServerTypeOK'
  BY <1>0, <1>1 DEF ServerTypeOK, ReadRequest, crow
<1>3. LockInv'
  BY <1>0 DEF ServerInv, ServerTypeOK, LockInv, ReadRequest, ReadReady, book
<1>4. \A d \in Conns \ {c} : SameConn(d)
  BY <1>0 DEF SameConn, ServerTypeOK, ReadRequest, crow
<1>5. ConnInv(c)'
  <2>1. /\ step'[c] = "ack" /\ stage[c] = "ws" /\ stage' = stage
        /\ request'[c] \in Request
    BY <1>0, <1>1 DEF ServerTypeOK, ReadRequest, ReadReady
  <2>2. HandlerInv(c)'
    BY <2>1, ServerAssumption DEF HandlerInv
  <2>3. BufferInv(c)' /\ Ledger(c)' /\ Prefix(wire[c], sent[c])'
    BY <1>0 DEF ConnInv, BufferInv, Ledger, Prefix, ReadRequest, crow, book, Crow
  <2> QED BY <2>2, <2>3 DEF ConnInv
<1> QED BY <1>2, <1>3, <1>4, <1>5, OneConn DEF ReadRequest, book

LEMMA AckKeeps ==
  ASSUME ServerInv, TypeOK', NEW c \in Conns, Ack(c)
  PROVE  ServerInv'
<1>0. ConnInv(c) /\ ServerTypeOK /\ BufferInv(c) /\ Ledger(c) /\ Prefix(wire[c], sent[c])
  BY DEF ServerInv, ConnInv
<1>1. stage[c] = "ws" /\ step[c] = "ack" /\ request[c] \in Request
  BY <1>0 DEF ConnInv, HandlerInv, Ack, ServerTypeOK
<1>2. AckOf(request[c].id) \in Message
  BY <1>1, CancelFields DEF Message, AckOf
<1>3. /\ {posts', sent', wire'} \subseteq [Conns -> Seq(Message)]
      /\ \A d \in Conns \ {c} :
            posts'[d] = posts[d] /\ sent'[d] = sent[d] /\ wire'[d] = wire[d]
      /\ client[c] # "gone" =>
            sent'[c] = wire'[c] \o (sending[c] \o (writeBuffers[c] \o posts'[c]))
      /\ Prefix(wire'[c], sent'[c])
      /\ ~Crow => posts'[c] = <<>>
  BY <1>0, <1>1, <1>2, SendKeeps DEF Ack
<1>4. /\ writeBuffers' = writeBuffers /\ sending' = sending
      /\ writing' = writing /\ closing' = closing
  BY DEF Ack, Send
<1>5. ServerTypeOK'
  BY <1>0, <1>3, <1>4 DEF ServerTypeOK, Ack
<1>6. LockInv'
  BY <1>0 DEF ServerInv, ServerTypeOK, LockInv, Ack, book
<1>7. \A d \in Conns \ {c} : SameConn(d)
  BY <1>0, <1>3, <1>4 DEF SameConn, ServerTypeOK, Ack
<1>8. ConnInv(c)'
  <2>1. step'[c] = "lock" /\ stage' = stage /\ client' = client /\ request' = request
    BY <1>0 DEF ServerTypeOK, Ack
  <2>2. HandlerInv(c)'
    BY <1>0, <1>1, <2>1 DEF ConnInv, HandlerInv
  <2>3. BufferInv(c)'
    BY <1>0, <1>1, <1>3, <1>4, <2>1 DEF BufferInv, Ack, book, Crow
  <2>4. Ledger(c)'
    BY <1>3, <1>4, <2>1 DEF Ledger
  <2>5. Prefix(wire[c], sent[c])'
    BY <1>3 DEF Prefix
  <2> QED BY <2>2, <2>3, <2>4, <2>5 DEF ConnInv
<1> QED BY <1>5, <1>6, <1>7, <1>8, OneConn DEF Ack, book

\* The lock was free, so the handler is alone in the book.
LEMMA EnterKeeps ==
  ASSUME ServerInv, TypeOK', NEW c \in Conns, Enter(c)
  PROVE  ServerInv'
<1>0. ConnInv(c) /\ ServerTypeOK
  BY DEF ServerInv
<1>1. ServerTypeOK'
  BY <1>0 DEF ServerTypeOK, Enter, crow
<1>2. taker' # None
  <2>1. step[c] = "lock" /\ request[c] \in Request /\ request[c].t # "cancel"
    BY <1>0 DEF ConnInv, HandlerInv, Enter, ServerTypeOK
  <2>2. /\ request[c].id \in Ids /\ request[c].side \in Sides
        /\ request[c].px \in Prices \cup {None} /\ request[c].qty \in 1..MaxQty
    BY <2>1, OrderFields
  <2>3. taker' \in Taker
    BY <2>2, BookAssumption DEF Enter, Arrive, Taker
  <2> QED BY <2>3, NoneAssumption
<1>3. LockInv'
  BY <1>0, <1>2 DEF ServerTypeOK, LockInv, Enter, Unlocked
<1>4. \A d \in Conns \ {c} : SameConn(d)
  BY <1>0 DEF SameConn, ServerTypeOK, Enter, crow
<1>5. engine' = engine
  BY DEF Enter, Arrive, setting
<1>6. ConnInv(c)'
  <2>1. step'[c] = "book" /\ step[c] = "lock" /\ stage' = stage /\ request' = request
    BY <1>0 DEF ServerTypeOK, Enter
  <2>2. HandlerInv(c)'
    BY <1>0, <2>1 DEF ConnInv, HandlerInv
  <2>3. BufferInv(c)' /\ Ledger(c)' /\ Prefix(wire[c], sent[c])'
    BY <1>0, <1>5 DEF ConnInv, BufferInv, Ledger, Prefix, Enter, crow, Crow
  <2> QED BY <2>2, <2>3 DEF ConnInv
<1> QED BY <1>1, <1>3, <1>4, <1>5, <1>6, OneConn

\* The lock is given back exactly when the book is through with the order.
LEMMA WorkKeeps ==
  ASSUME ServerInv, TypeOK', NEW c \in Conns, Work(c)
  PROVE  ServerInv'
<1>0. ConnInv(c) /\ ServerTypeOK /\ LockInv /\ step[c] = "book"
  BY DEF ServerInv, Work
<1>1. engine' = engine
  BY DEF Work, TakeWhole, TakePart, RestMerged, Finish, Rest, setting
<1>2. fills' \in Seq(Fill)
  BY DEF TypeOK
<1>3. \/ taker' = None /\ step' = [step EXCEPT ![c] = "reply"]
         /\ replies' = [replies EXCEPT ![c] = fills']
      \/ taker' # None /\ step' = step /\ replies' = replies
  BY DEF Work
<1>4. ServerTypeOK'
  <2>1. step' \in [Conns -> {"read", "ack", "lock", "book", "reply"}]
    <3>1. step \in [Conns -> {"read", "ack", "lock", "book", "reply"}]
      BY <1>0 DEF ServerTypeOK
    <3>2. CASE step' = [step EXCEPT ![c] = "reply"]
      BY <3>1, <3>2
    <3>3. CASE step' = step
      BY <3>1, <3>3
    <3> QED BY <1>3, <3>2, <3>3
  <2>2. replies' \in [Conns -> Seq(Fill)]
    <3>1. replies \in [Conns -> Seq(Fill)]
      BY <1>0 DEF ServerTypeOK
    <3>2. CASE replies' = [replies EXCEPT ![c] = fills']
      BY <1>2, <3>1, <3>2
    <3>3. CASE replies' = replies
      BY <3>1, <3>3
    <3> QED BY <1>3, <3>2, <3>3
  <2> QED BY <1>0, <2>1, <2>2 DEF ServerTypeOK, Work, crow
<1>5. LockInv'
  <2>1. \A d \in Conns : step[d] = "book" <=> d = c
    BY <1>0 DEF LockInv
  <2>2. CASE taker' = None /\ step' = [step EXCEPT ![c] = "reply"]
    <3>1. \A d \in Conns : step'[d] # "book"
      BY <1>0, <2>1, <2>2 DEF ServerTypeOK
    <3> QED BY <2>2, <3>1 DEF LockInv
  <2>3. CASE taker' # None /\ step' = step
    BY <2>1, <2>3 DEF LockInv
  <2> QED BY <1>3, <2>2, <2>3
<1>6. \A d \in Conns \ {c} : SameConn(d)
  BY <1>0, <1>3 DEF SameConn, ServerTypeOK, Work, crow
<1>7. ConnInv(c)'
  <2>1. step'[c] # "read" /\ stage' = stage /\ request' = request
    BY <1>0, <1>3 DEF ServerTypeOK, Work
  <2>2. HandlerInv(c)'
    BY <1>0, <2>1 DEF ConnInv, HandlerInv
  <2>3. BufferInv(c)' /\ Ledger(c)' /\ Prefix(wire[c], sent[c])'
    BY <1>0, <1>1 DEF ConnInv, BufferInv, Ledger, Prefix, Work, crow, Crow
  <2> QED BY <2>2, <2>3 DEF ConnInv
<1> QED BY <1>1, <1>4, <1>5, <1>6, <1>7, OneConn

LEMMA WorkCancelKeeps ==
  ASSUME ServerInv, TypeOK', NEW c \in Conns, WorkCancel(c)
  PROVE  ServerInv'
<1>0. ConnInv(c) /\ ServerTypeOK /\ LockInv /\ step[c] = "lock"
  BY DEF ServerInv, WorkCancel
<1>1. engine' = engine /\ taker' = taker
  BY DEF WorkCancel, Cancel, setting, book
<1>2. ServerTypeOK'
  BY <1>0 DEF ServerTypeOK, WorkCancel, crow
<1>3. LockInv'
  BY <1>0, <1>1 DEF LockInv, ServerTypeOK, WorkCancel
<1>4. \A d \in Conns \ {c} : SameConn(d)
  BY <1>0 DEF SameConn, ServerTypeOK, WorkCancel, crow
<1>5. ConnInv(c)'
  <2>1. step'[c] = "reply" /\ stage' = stage /\ request' = request
    BY <1>0 DEF ServerTypeOK, WorkCancel
  <2>2. HandlerInv(c)'
    BY <1>0, <2>1 DEF ConnInv, HandlerInv
  <2>3. BufferInv(c)' /\ Ledger(c)' /\ Prefix(wire[c], sent[c])'
    BY <1>0, <1>1 DEF ConnInv, BufferInv, Ledger, Prefix, WorkCancel, crow, Crow
  <2> QED BY <2>2, <2>3 DEF ConnInv
<1> QED BY <1>1, <1>2, <1>3, <1>4, <1>5, OneConn

LEMMA ReplyKeeps ==
  ASSUME ServerInv, TypeOK', NEW c \in Conns, Reply(c)
  PROVE  ServerInv'
<1>0. ConnInv(c) /\ ServerTypeOK /\ BufferInv(c) /\ Ledger(c) /\ Prefix(wire[c], sent[c])
  BY DEF ServerInv, ConnInv
<1>1. stage[c] = "ws" /\ step[c] = "reply" /\ request[c] \in Request
  BY <1>0 DEF ConnInv, HandlerInv, Reply, ServerTypeOK
<1>2. Head(replies[c]) \in Fill /\ Tail(replies[c]) \in Seq(Fill)
  BY <1>0, HeadTailProperties DEF ServerTypeOK, Reply
<1>3. FillOf(request[c].id, Head(replies[c])) \in Message
  <2>1. request[c].id \in Ids
    BY <1>1, CancelFields
  <2> QED BY <1>2, <2>1 DEF Message, FillOf, Fill
<1>4. /\ {posts', sent', wire'} \subseteq [Conns -> Seq(Message)]
      /\ \A d \in Conns \ {c} :
            posts'[d] = posts[d] /\ sent'[d] = sent[d] /\ wire'[d] = wire[d]
      /\ client[c] # "gone" =>
            sent'[c] = wire'[c] \o (sending[c] \o (writeBuffers[c] \o posts'[c]))
      /\ Prefix(wire'[c], sent'[c])
      /\ ~Crow => posts'[c] = <<>>
  BY <1>0, <1>1, <1>3, SendKeeps DEF Reply
<1>5. /\ writeBuffers' = writeBuffers /\ sending' = sending
      /\ writing' = writing /\ closing' = closing
  BY DEF Reply, Send
<1>6. ServerTypeOK'
  BY <1>0, <1>2, <1>4, <1>5 DEF ServerTypeOK, Reply
<1>7. LockInv'
  BY LockKept DEF ServerInv, Reply, book
<1>8. \A d \in Conns \ {c} : SameConn(d)
  BY <1>0, <1>4, <1>5 DEF SameConn, ServerTypeOK, Reply
<1>9. ConnInv(c)'
  <2>1. step' = step /\ stage' = stage /\ client' = client /\ request' = request
    BY DEF Reply
  <2>2. HandlerInv(c)'
    BY <1>0, <2>1 DEF ConnInv, HandlerInv
  <2>3. BufferInv(c)'
    BY <1>0, <1>1, <1>4, <1>5, <2>1 DEF BufferInv, Reply, book, Crow
  <2>4. Ledger(c)'
    BY <1>4, <1>5, <2>1 DEF Ledger
  <2>5. Prefix(wire[c], sent[c])'
    BY <1>4 DEF Prefix
  <2> QED BY <2>2, <2>3, <2>4, <2>5 DEF ConnInv
<1> QED BY <1>6, <1>7, <1>8, <1>9, OneConn DEF Reply, book

LEMMA ReturnKeeps ==
  ASSUME ServerInv, TypeOK', NEW c \in Conns, Return(c)
  PROVE  ServerInv'
<1>0. ConnInv(c) /\ ServerTypeOK /\ LockInv /\ step[c] = "reply"
  BY DEF ServerInv, Return
<1>1. ServerTypeOK'
  BY <1>0 DEF ServerTypeOK, Return, crow
<1>2. LockInv'
  BY <1>0 DEF LockInv, ServerTypeOK, Return, book
<1>3. \A d \in Conns \ {c} : SameConn(d)
  BY <1>0 DEF SameConn, ServerTypeOK, Return, crow
<1>4. ConnInv(c)'
  <2>1. step'[c] = "read" /\ request'[c] = None
    BY <1>0 DEF ServerTypeOK, Return
  <2>2. HandlerInv(c)'
    BY <2>1 DEF HandlerInv
  <2>3. BufferInv(c)' /\ Ledger(c)' /\ Prefix(wire[c], sent[c])'
    BY <1>0 DEF ConnInv, BufferInv, Ledger, Prefix, Return, crow, book, Crow
  <2> QED BY <2>2, <2>3 DEF ConnInv
<1> QED BY <1>1, <1>2, <1>3, <1>4, OneConn DEF Return, book

\* The client has gone: nothing is promised to it any more.
LEMMA SendFailsKeeps ==
  ASSUME ServerInv, TypeOK', NEW c \in Conns, SendFails(c)
  PROVE  ServerInv'
<1>0. /\ ConnInv(c) /\ ServerTypeOK /\ LockInv /\ client[c] = "gone" /\ ~Crow
      /\ step[c] \in {"ack", "reply"} /\ stage[c] = "ws" /\ request[c] # None
  BY DEF ServerInv, SendFails, ConnInv, HandlerInv
<1>1. replies[c] # <<>> => Tail(replies[c]) \in Seq(Fill)
  BY <1>0, HeadTailProperties DEF ServerTypeOK
<1>2. \/ /\ step' = [step EXCEPT ![c] = "read"]
         /\ request' = [request EXCEPT ![c] = None]
         /\ replies' = [replies EXCEPT ![c] = <<>>]
         /\ stage' = [stage EXCEPT ![c] = "ended"]
         /\ websockets' = websockets \ {c}
      \/ /\ step' = [step EXCEPT ![c] = IF @ = "ack" THEN "lock" ELSE @]
         /\ replies' = [replies EXCEPT ![c] = IF @ = <<>> THEN @ ELSE Tail(@)]
         /\ request' = request /\ stage' = stage /\ websockets' = websockets
  BY DEF SendFails
<1>3. /\ <<>> \in Seq(Fill)
      /\ (IF replies[c] = <<>> THEN replies[c] ELSE Tail(replies[c])) \in Seq(Fill)
  BY <1>0, <1>1, EmptySeq DEF ServerTypeOK
<1>4. ServerTypeOK'
  <2>1. /\ step' \in [Conns -> {"read", "ack", "lock", "book", "reply"}]
        /\ request' \in [Conns -> Request \cup {None}]
        /\ stage' \in [Conns -> {"none", "http", "ws", "ended"}]
        /\ websockets' \subseteq Conns
    BY <1>0, <1>2 DEF ServerTypeOK
  <2>2. replies' \in [Conns -> Seq(Fill)]
    <3>1. replies \in [Conns -> Seq(Fill)]
      BY <1>0 DEF ServerTypeOK
    <3>2. CASE replies' = [replies EXCEPT ![c] = <<>>]
      BY <1>3, <3>1, <3>2
    <3>3. CASE replies' = [replies EXCEPT ![c] = IF @ = <<>> THEN @ ELSE Tail(@)]
      <4>1. replies' = [replies EXCEPT ![c] =
                          IF replies[c] = <<>> THEN replies[c] ELSE Tail(replies[c])]
        BY <3>3
      <4> QED BY <1>3, <3>1, <4>1
    <3> QED BY <1>2, <3>2, <3>3
  <2> QED BY <1>0, <2>1, <2>2 DEF ServerTypeOK, SendFails, crow
<1>5. LockInv'
  <2>1. \A d \in Conns : step'[d] = "book" <=> step[d] = "book"
    BY <1>0, <1>2 DEF ServerTypeOK
  <2> QED BY <1>0, <2>1 DEF LockInv, SendFails, book
<1>6. \A d \in Conns \ {c} : SameConn(d)
  BY <1>0, <1>2 DEF SameConn, ServerTypeOK, SendFails, crow
<1>7. ConnInv(c)'
  <2>1. HandlerInv(c)'
    BY <1>0, <1>2 DEF HandlerInv, ServerTypeOK
  <2>2. stage'[c] \in {"ws", "ended"} /\ client' = client
    BY <1>0, <1>2 DEF ServerTypeOK, SendFails
  <2>3. BufferInv(c)' /\ Ledger(c)' /\ Prefix(wire[c], sent[c])'
    BY <1>0, <2>2 DEF ConnInv, BufferInv, Ledger, Prefix, SendFails, crow, book, Crow
  <2> QED BY <2>1, <2>3 DEF ConnInv
<1> QED BY <1>4, <1>5, <1>6, <1>7, OneConn DEF SendFails, book
-----------------------------------------------------------------------------
(* The connection of crow.                                                 *)

\* What was posted first goes to the end of the buffer.
LEMMA RunPostKeeps ==
  ASSUME ServerInv, TypeOK', NEW c \in Conns, RunPost(c)
  PROVE  ServerInv'
<1> DEFINE b == writeBuffers[c]
           p == posts[c]
           n == Append(b, Head(p))
<1>0. ConnInv(c) /\ ServerTypeOK /\ BufferInv(c) /\ Ledger(c) /\ Prefix(wire[c], sent[c])
  BY DEF ServerInv, ConnInv
<1>1. /\ b \in Seq(Message) /\ p \in Seq(Message) /\ p # <<>>
      /\ wire[c] \in Seq(Message) /\ sending[c] \in Seq(Message)
  BY <1>0, ConnTypes DEF RunPost
<1>2. Tail(p) \in Seq(Message) /\ n \in Seq(Message) /\ n \o Tail(p) = b \o p
  <2>1. Head(p) \in Message /\ Tail(p) \in Seq(Message)
    BY <1>1, HeadTailProperties
  <2>2. n \in Seq(Message)
    BY <1>1, <2>1, AppendProperties
  <2>3. Append(b, Head(p)) \o Tail(p) = b \o p
    BY <1>1, MoveHead
  <2> QED BY <2>1, <2>2, <2>3
<1>3. /\ {sending', writeBuffers'} \subseteq [Conns -> Seq(Message)]
      /\ writing' \in [Conns -> BOOLEAN]
      /\ \A d \in Conns \ {c} :
            /\ sending'[d] = sending[d] /\ writeBuffers'[d] = writeBuffers[d]
            /\ writing'[d] = writing[d]
      /\ sending'[c] \o writeBuffers'[c] = sending[c] \o n
      /\ sending'[c] # <<>> => writing'[c]
      /\ writing'[c] \/ writeBuffers'[c] = <<>>
  <2>1. DoWrite(c, n)
    BY DEF RunPost
  <2> HIDE DEF n
  <2> QED BY <1>0, <1>2, <2>1, DoWriteKeeps
<1>4. posts' = [posts EXCEPT ![c] = Tail(p)] /\ posts \in [Conns -> Seq(Message)]
  BY <1>0 DEF RunPost, ServerTypeOK
<1>5. posts' \in [Conns -> Seq(Message)] /\ posts'[c] = Tail(p)
  BY <1>2, <1>4
<1>6. ServerTypeOK'
  <2>1. {sent', wire'} \subseteq [Conns -> Seq(Message)] /\ closing' \in [Conns -> BOOLEAN]
    BY <1>0 DEF ServerTypeOK, RunPost
  <2>2. /\ client' \in [Conns -> {"out", "here", "leaving", "gone"}]
        /\ inbox' \in [Conns -> Seq(Request \cup {CloseFrame})]
        /\ stage' \in [Conns -> {"none", "http", "ws", "ended"}] /\ websockets' \subseteq Conns
    BY <1>0 DEF ServerTypeOK, RunPost
  <2>3. /\ step' \in [Conns -> {"read", "ack", "lock", "book", "reply"}]
        /\ request' \in [Conns -> Request \cup {None}]
        /\ replies' \in [Conns -> Seq(Fill)]
    BY <1>0 DEF ServerTypeOK, RunPost, handler
  <2> QED BY <1>3, <1>5, <2>1, <2>2, <2>3 DEF ServerTypeOK
<1>7. LockInv'
  BY LockKept DEF ServerInv, RunPost, book, handler
<1>8. \A d \in Conns \ {c} : SameConn(d)
  BY <1>3, <1>4 DEF SameConn, RunPost, handler
<1>9. ConnInv(c)'
  <2>1. /\ stage' = stage /\ client' = client /\ closing' = closing
        /\ sent' = sent /\ wire' = wire /\ engine' = engine
        /\ step' = step /\ request' = request
    BY DEF RunPost, handler, book
  <2>2. HandlerInv(c)'
    BY <1>0, <2>1 DEF ConnInv, HandlerInv
  <2>3. Crow /\ stage[c] \notin {"none", "http"}
    BY <1>0, <1>1 DEF BufferInv
  <2>4. BufferInv(c)'
    BY <1>0, <1>3, <2>1, <2>3 DEF BufferInv, Crow
  <2>5. Ledger(c)'
    <3> DEFINE a == sending[c]
               a2 == sending'[c]
               b2 == writeBuffers'[c]
               q == Tail(p)
    <3>1. /\ a \in Seq(Message) /\ a2 \in Seq(Message) /\ b2 \in Seq(Message)
          /\ q \in Seq(Message) /\ n \in Seq(Message)
      BY <1>1, <1>2, <1>3
    <3>2. a2 \o b2 = a \o n /\ n \o q = b \o p
      BY <1>2, <1>3
    <3>3. b \in Seq(Message) /\ p \in Seq(Message)
      BY <1>1
    <3>4. a2 \o (b2 \o q) = a \o (b \o p)
      <4> HIDE DEF a, a2, b2, q, n, b, p
      <4>1. (a2 \o b2) \o q = a2 \o (b2 \o q)
        <5>1. a2 \in Seq(Message) /\ b2 \in Seq(Message) /\ q \in Seq(Message)
          BY <3>1
        <5> QED BY <5>1, Regroup
      <4>2. (a \o n) \o q = a \o (n \o q)
        <5>1. a \in Seq(Message) /\ n \in Seq(Message) /\ q \in Seq(Message)
          BY <3>1
        <5> QED BY <5>1, Regroup
      <4> QED BY <3>2, <4>1, <4>2
    <3>5. stage[c] = "ws" /\ client[c] # "gone" =>
            sent[c] = wire[c] \o (sending'[c] \o (writeBuffers'[c] \o posts'[c]))
      BY <1>0, <1>5, <3>4 DEF Ledger
    <3> QED BY <2>1, <3>5 DEF Ledger
  <2>6. Prefix(wire[c], sent[c])'
    BY <1>0, <2>1 DEF Prefix
  <2> QED BY <2>2, <2>4, <2>5, <2>6 DEF ConnInv
<1> QED BY <1>6, <1>7, <1>8, <1>9, OneConn DEF RunPost, book

\* The next message of the async_write is the next that was sent.
LEMMA SocketTakesKeeps ==
  ASSUME ServerInv, TypeOK', NEW c \in Conns, SocketTakes(c)
  PROVE  ServerInv'
<1> DEFINE w == wire[c]
           a == sending[c]
           w2 == Append(w, Head(a))
           a2 == Tail(a)
           rest == writeBuffers[c] \o posts[c]
<1>0. /\ ConnInv(c) /\ ServerTypeOK /\ BufferInv(c) /\ Ledger(c)
      /\ stage[c] = "ws" /\ client[c] # "gone"
  BY DEF ServerInv, ConnInv, SocketTakes
<1>1. /\ w \in Seq(Message) /\ a \in Seq(Message) /\ a # <<>>
      /\ writeBuffers[c] \in Seq(Message) /\ posts[c] \in Seq(Message)
  BY <1>0, ConnTypes DEF SocketTakes
<1>2. a2 \in Seq(Message) /\ w2 \in Seq(Message) /\ w2 \o a2 = w \o a
  <2>1. Head(a) \in Message /\ Tail(a) \in Seq(Message)
    BY <1>1, HeadTailProperties
  <2>2. Append(w, Head(a)) \in Seq(Message)
    BY <1>1, <2>1, AppendProperties
  <2>3. Append(w, Head(a)) \o Tail(a) = w \o a
    BY <1>1, MoveHead
  <2> QED BY <2>1, <2>2, <2>3
<1>3. rest \in Seq(Message)
  BY <1>1, ConcatProperties
<1>4. sent[c] = w2 \o (a2 \o rest)
  <2>1. sent[c] = w \o (a \o rest)
    BY <1>0 DEF Ledger
  <2> HIDE DEF w, a, w2, a2, rest
  <2>2. (w \o a) \o rest = w \o (a \o rest)
    BY <1>1, <1>3, Regroup
  <2>3. (w2 \o a2) \o rest = w2 \o (a2 \o rest)
    BY <1>2, <1>3, Regroup
  <2> QED BY <1>2, <2>1, <2>2, <2>3
<1>5. /\ wire' = [wire EXCEPT ![c] = w2] /\ wire \in [Conns -> Seq(Message)]
      /\ sending' = [sending EXCEPT ![c] = a2] /\ sending \in [Conns -> Seq(Message)]
  BY <1>0 DEF SocketTakes, ServerTypeOK
<1>6. wire'[c] = w2 /\ sending'[c] = a2 /\ {wire', sending'} \subseteq [Conns -> Seq(Message)]
  BY <1>2, <1>5
<1>7. ServerTypeOK'
  <2>1. /\ {posts', writeBuffers', sent'} \subseteq [Conns -> Seq(Message)]
        /\ {writing', closing'} \subseteq [Conns -> BOOLEAN]
    BY <1>0 DEF ServerTypeOK, SocketTakes
  <2>2. /\ client' \in [Conns -> {"out", "here", "leaving", "gone"}]
        /\ inbox' \in [Conns -> Seq(Request \cup {CloseFrame})]
        /\ stage' \in [Conns -> {"none", "http", "ws", "ended"}] /\ websockets' \subseteq Conns
    BY <1>0 DEF ServerTypeOK, SocketTakes
  <2>3. /\ step' \in [Conns -> {"read", "ack", "lock", "book", "reply"}]
        /\ request' \in [Conns -> Request \cup {None}]
        /\ replies' \in [Conns -> Seq(Fill)]
    BY <1>0 DEF ServerTypeOK, SocketTakes, handler
  <2> QED BY <1>6, <2>1, <2>2, <2>3 DEF ServerTypeOK
<1>8. LockInv'
  BY LockKept DEF ServerInv, SocketTakes, book, handler
<1>9. \A d \in Conns \ {c} : SameConn(d)
  BY <1>5 DEF SameConn, SocketTakes, handler
<1>10. ConnInv(c)'
  <2>1. /\ stage' = stage /\ client' = client /\ closing' = closing /\ sent' = sent
        /\ writing' = writing /\ writeBuffers' = writeBuffers /\ posts' = posts
        /\ engine' = engine /\ step' = step /\ request' = request
    BY DEF SocketTakes, handler, book
  <2>2. HandlerInv(c)'
    BY <1>0, <2>1 DEF ConnInv, HandlerInv
  <2>3. Crow /\ writing[c]
    BY <1>0, <1>1 DEF BufferInv
  <2>4. BufferInv(c)'
    BY <1>0, <2>1, <2>3 DEF BufferInv, Crow
  <2>5. Ledger(c)'
    BY <1>4, <1>6, <2>1 DEF Ledger
  <2>6. Prefix(w2, sent[c])
    <3>1. a2 \o rest \in Seq(Message)
      BY <1>2, <1>3, ConcatProperties
    <3> HIDE DEF w2, a2, rest
    <3> QED BY <1>2, <1>4, <3>1, PrefixConcat
  <2>7. Prefix(wire[c], sent[c])'
    BY <1>6, <2>1, <2>6 DEF Prefix
  <2> QED BY <2>2, <2>4, <2>5, <2>7 DEF ConnInv
<1> QED BY <1>7, <1>8, <1>9, <1>10, OneConn DEF SocketTakes, book

\* What was buffered meanwhile is in the hands of the next async_write.
LEMMA WriteDoneKeeps ==
  ASSUME ServerInv, TypeOK', NEW c \in Conns, WriteDone(c)
  PROVE  ServerInv'
<1> DEFINE b == writeBuffers[c]
           p == posts[c]
<1>0. ConnInv(c) /\ ServerTypeOK /\ BufferInv(c) /\ Ledger(c) /\ sending[c] = <<>>
  BY DEF ServerInv, ConnInv, WriteDone
<1>1. b \in Seq(Message) /\ p \in Seq(Message) /\ <<>> \in Seq(Message)
  BY <1>0, ConnTypes, EmptySeq
<1>2. /\ sending' = [sending EXCEPT ![c] = b]
      /\ writing' = [writing EXCEPT ![c] = b # <<>>]
      /\ writeBuffers' = [writeBuffers EXCEPT ![c] = <<>>]
      /\ {sending, writeBuffers} \subseteq [Conns -> Seq(Message)]
      /\ writing \in [Conns -> BOOLEAN]
  BY <1>0 DEF WriteDone, ServerTypeOK
<1>3. /\ sending'[c] = b /\ writeBuffers'[c] = <<>> /\ writing'[c] = (b # <<>>)
      /\ {sending', writeBuffers'} \subseteq [Conns -> Seq(Message)]
  BY <1>1, <1>2
<1>4. writing' \in [Conns -> BOOLEAN]
  BY <1>2
<1>5. ServerTypeOK'
  <2>1. /\ {posts', sent', wire'} \subseteq [Conns -> Seq(Message)]
        /\ closing' \in [Conns -> BOOLEAN]
    BY <1>0 DEF ServerTypeOK, WriteDone
  <2>2. /\ client' \in [Conns -> {"out", "here", "leaving", "gone"}]
        /\ inbox' \in [Conns -> Seq(Request \cup {CloseFrame})]
        /\ stage' \in [Conns -> {"none", "http", "ws", "ended"}] /\ websockets' \subseteq Conns
    BY <1>0 DEF ServerTypeOK, WriteDone
  <2>3. /\ step' \in [Conns -> {"read", "ack", "lock", "book", "reply"}]
        /\ request' \in [Conns -> Request \cup {None}]
        /\ replies' \in [Conns -> Seq(Fill)]
    BY <1>0 DEF ServerTypeOK, WriteDone, handler
  <2> QED BY <1>3, <1>4, <2>1, <2>2, <2>3 DEF ServerTypeOK
<1>6. LockInv'
  BY LockKept DEF ServerInv, WriteDone, book, handler
<1>7. \A d \in Conns \ {c} : SameConn(d)
  BY <1>2 DEF SameConn, WriteDone, handler
<1>8. ConnInv(c)'
  <2>1. /\ stage' = stage /\ client' = client /\ closing' = closing /\ sent' = sent
        /\ wire' = wire /\ posts' = posts /\ engine' = engine
        /\ step' = step /\ request' = request
    BY DEF WriteDone, handler, book
  <2>2. HandlerInv(c)'
    BY <1>0, <2>1 DEF ConnInv, HandlerInv
  <2>3. BufferInv(c)'
    BY <1>0, <1>3, <2>1 DEF BufferInv, Crow
  <2>4. Ledger(c)'
    <3>1. <<>> \o (b \o p) = b \o p /\ <<>> \o p = p
      <4>1. b \o p \in Seq(Message)
        BY <1>1, ConcatProperties
      <4> QED BY <1>1, <4>1, ConcatEmptySeq
    <3> QED BY <1>0, <1>3, <2>1, <3>1 DEF Ledger
  <2>5. Prefix(wire[c], sent[c])'
    BY <1>0, <2>1 DEF ConnInv, Prefix
  <2> QED BY <2>2, <2>3, <2>4, <2>5 DEF ConnInv
<1> QED BY <1>5, <1>6, <1>7, <1>8, OneConn DEF WriteDone, book
\* A failed write, or that of a connection that closes, ends it.
LEMMA WriteFailsKeeps ==
  ASSUME ServerInv, TypeOK', NEW c \in Conns, WriteFails(c)
  PROVE  ServerInv'
<1>0. /\ ConnInv(c) /\ ServerTypeOK /\ BufferInv(c) /\ Ledger(c)
      /\ closing[c] \/ client[c] = "gone"
  BY DEF ServerInv, ConnInv, WriteFails
<1>1. /\ sending' = [sending EXCEPT ![c] = <<>>] /\ sending \in [Conns -> Seq(Message)]
      /\ writing' = [writing EXCEPT ![c] = FALSE] /\ closing' = [closing EXCEPT ![c] = TRUE]
      /\ {writing, closing} \subseteq [Conns -> BOOLEAN] /\ <<>> \in Seq(Message)
  BY <1>0, EmptySeq DEF WriteFails, ServerTypeOK
<1>2. /\ sending'[c] = <<>> /\ writing'[c] = FALSE /\ closing'[c] = TRUE
      /\ sending' \in [Conns -> Seq(Message)]
      /\ {writing', closing'} \subseteq [Conns -> BOOLEAN]
  BY <1>1
<1>3. ServerTypeOK'
  <2>1. {posts', writeBuffers', sent', wire'} \subseteq [Conns -> Seq(Message)]
    BY <1>0 DEF ServerTypeOK, WriteFails
  <2>2. /\ client' \in [Conns -> {"out", "here", "leaving", "gone"}]
        /\ inbox' \in [Conns -> Seq(Request \cup {CloseFrame})]
        /\ stage' \in [Conns -> {"none", "http", "ws", "ended"}] /\ websockets' \subseteq Conns
    BY <1>0 DEF ServerTypeOK, WriteFails
  <2>3. /\ step' \in [Conns -> {"read", "ack", "lock", "book", "reply"}]
        /\ request' \in [Conns -> Request \cup {None}]
        /\ replies' \in [Conns -> Seq(Fill)]
    BY <1>0 DEF ServerTypeOK, WriteFails, handler
  <2> QED BY <1>2, <2>1, <2>2, <2>3 DEF ServerTypeOK
<1>4. LockInv'
  BY LockKept DEF ServerInv, WriteFails, book, handler
<1>5. \A d \in Conns \ {c} : SameConn(d)
  BY <1>1 DEF SameConn, WriteFails, handler
<1>6. ConnInv(c)'
  <2>1. /\ stage' = stage /\ client' = client /\ sent' = sent /\ wire' = wire
        /\ writeBuffers' = writeBuffers /\ posts' = posts
        /\ engine' = engine /\ step' = step /\ request' = request
    BY DEF WriteFails, handler, book
  <2>2. stage[c] = "ended" \/ client[c] = "gone"
    BY <1>0 DEF BufferInv
  <2>3. HandlerInv(c)'
    BY <1>0, <2>1 DEF ConnInv, HandlerInv
  <2>4. BufferInv(c)'
    BY <1>0, <1>2, <2>1, <2>2 DEF BufferInv, Crow
  <2>5. Ledger(c)'
    BY <2>1, <2>2 DEF Ledger
  <2>6. Prefix(wire[c], sent[c])'
    BY <1>0, <2>1 DEF ConnInv, Prefix
  <2> QED BY <2>3, <2>4, <2>5, <2>6 DEF ConnInv
<1> QED BY <1>3, <1>4, <1>5, <1>6, OneConn DEF WriteFails, book

\* The answer to a close frame, if it is written at all, is the last message.
LEMMA CloseAnswerKeeps ==
  ASSUME ServerTypeOK, NEW c \in Conns, ConnInv(c), stage[c] = "ws", posts[c] = <<>>,
         CloseAnswer(c)
  PROVE  /\ {sending', writeBuffers', wire'} \subseteq [Conns -> Seq(Message)]
         /\ writing' \in [Conns -> BOOLEAN]
         /\ \A d \in Conns \ {c} :
               /\ sending'[d] = sending[d] /\ writeBuffers'[d] = writeBuffers[d]
               /\ writing'[d] = writing[d] /\ wire'[d] = wire[d]
         /\ sending'[c] # <<>> => writing'[c]
         /\ writing'[c] \/ writeBuffers'[c] = <<>>
         /\ Prefix(wire'[c], Append(sent[c], CloseFrame))
<1> DEFINE w == wire[c]
           s == sent[c]
           n == Append(writeBuffers[c], CloseFrame)
<1>0. BufferInv(c) /\ Ledger(c) /\ Prefix(w, s)
  BY DEF ConnInv
<1>1. /\ w \in Seq(Message) /\ s \in Seq(Message) /\ writeBuffers[c] \in Seq(Message)
      /\ sending[c] \in Seq(Message)
  BY ConnTypes
<1>2. CloseFrame \in Message /\ n \in Seq(Message) /\ <<>> \in Seq(Message)
  <2>1. CloseFrame \in Message
    BY DEF Message
  <2> QED BY <1>1, <2>1, AppendProperties, EmptySeq
<1>3. wire \in [Conns -> Seq(Message)]
  BY DEF ServerTypeOK
<1>4. CASE DoWrite(c, n) /\ UNCHANGED wire
  <2>1. Prefix(w, Append(s, CloseFrame))
    BY <1>0, <1>1, <1>2, PrefixAppend
  <2>2. /\ {sending', writeBuffers'} \subseteq [Conns -> Seq(Message)]
        /\ writing' \in [Conns -> BOOLEAN]
        /\ \A d \in Conns \ {c} :
              /\ sending'[d] = sending[d] /\ writeBuffers'[d] = writeBuffers[d]
              /\ writing'[d] = writing[d]
        /\ sending'[c] # <<>> => writing'[c]
        /\ writing'[c] \/ writeBuffers'[c] = <<>>
    <3> HIDE DEF n
    <3> QED BY <1>0, <1>2, <1>4, DoWriteKeeps
  <2> QED BY <1>3, <1>4, <2>1, <2>2
<1>5. CASE /\ ~writing[c] /\ client[c] # "gone"
           /\ writing' = [writing EXCEPT ![c] = TRUE]
           /\ wire' = [wire EXCEPT ![c] = @ \o n]
           /\ writeBuffers' = [writeBuffers EXCEPT ![c] = <<>>]
           /\ sending' = sending
  <2>1. {sending, writeBuffers} \subseteq [Conns -> Seq(Message)] /\ writing \in [Conns -> BOOLEAN]
    BY DEF ServerTypeOK
  <2>2. w \o n \in Seq(Message)
    BY <1>1, <1>2, ConcatProperties
  <2>3. /\ wire'[c] = w \o n /\ wire' \in [Conns -> Seq(Message)]
        /\ \A d \in Conns \ {c} : wire'[d] = wire[d]
    BY <1>3, <1>5, <2>2
  <2>4. w \o n = Append(s, CloseFrame)
    <3>1. sending[c] = <<>>
      BY <1>0, <1>5 DEF BufferInv
    <3>2. s = w \o (<<>> \o (writeBuffers[c] \o <<>>))
      BY <1>0, <1>5, <3>1 DEF Ledger
    <3>3. s = w \o writeBuffers[c]
      BY <1>1, <3>2, ConcatEmptySeq
    <3> DEFINE b == writeBuffers[c]
    <3>4. w \o Append(b, CloseFrame) = Append(w \o b, CloseFrame)
      <4>1. w \in Seq(Message) /\ b \in Seq(Message) /\ CloseFrame \in Message
        BY <1>1, <1>2
      <4> HIDE DEF w, b
      <4> QED BY <4>1, ConcatAppend
    <3> QED BY <3>3, <3>4
  <2>5. Append(s, CloseFrame) \in Seq(Message)
    BY <1>1, <1>2, AppendProperties
  <2>6. Prefix(wire'[c], Append(s, CloseFrame))
    BY <2>3, <2>4, <2>5, PrefixSelf
  <2> QED BY <1>2, <1>5, <2>1, <2>3, <2>6
<1> QED BY <1>4, <1>5 DEF CloseAnswer

LEMMA ReadCloseKeeps ==
  ASSUME ServerInv, TypeOK', NEW c \in Conns, ReadClose(c)
  PROVE  ServerInv'
<1>0. /\ ConnInv(c) /\ ServerTypeOK /\ stage[c] = "ws" /\ step[c] = "read"
      /\ posts[c] = <<>>
  BY DEF ServerInv, ReadClose, ReadReady
<1>1. /\ stage' = [stage EXCEPT ![c] = "ended"] /\ inbox' = [inbox EXCEPT ![c] = <<>>]
      /\ websockets' = websockets \ {c} /\ client' = client /\ posts' = posts
      /\ step' = step /\ request' = request /\ replies' = replies
      /\ engine' = engine /\ taker' = taker
  BY DEF ReadClose, handler, book
<1>2. /\ {sending', writeBuffers', wire', sent'} \subseteq [Conns -> Seq(Message)]
      /\ {writing', closing'} \subseteq [Conns -> BOOLEAN]
      /\ \A d \in Conns \ {c} :
            /\ sending'[d] = sending[d] /\ writeBuffers'[d] = writeBuffers[d]
            /\ writing'[d] = writing[d] /\ wire'[d] = wire[d]
            /\ closing'[d] = closing[d] /\ sent'[d] = sent[d]
      /\ sending'[c] # <<>> => writing'[c]
      /\ writing'[c] \/ writeBuffers'[c] = <<>> \/ closing'[c]
      /\ ~Crow => sending'[c] = <<>> /\ writeBuffers'[c] = <<>>
      /\ Prefix(wire'[c], sent'[c])
  <2>1. CASE Crow
    <3>1. /\ closing' = [closing EXCEPT ![c] = TRUE]
          /\ sent' = [sent EXCEPT ![c] = Append(@, CloseFrame)]
          /\ CloseAnswer(c)
      BY <2>1 DEF ReadClose
    <3>2. closing \in [Conns -> BOOLEAN] /\ sent \in [Conns -> Seq(Message)]
      BY <1>0 DEF ServerTypeOK
    <3>3. Append(sent[c], CloseFrame) \in Seq(Message)
      <4>1. CloseFrame \in Message
        BY DEF Message
      <4> QED BY <3>2, <4>1, AppendProperties
    <3>4. /\ sent'[c] = Append(sent[c], CloseFrame) /\ sent' \in [Conns -> Seq(Message)]
          /\ closing'[c] = TRUE /\ closing' \in [Conns -> BOOLEAN]
          /\ \A d \in Conns \ {c} : sent'[d] = sent[d] /\ closing'[d] = closing[d]
      BY <3>1, <3>2, <3>3
    <3>5. /\ {sending', writeBuffers', wire'} \subseteq [Conns -> Seq(Message)]
          /\ writing' \in [Conns -> BOOLEAN]
          /\ \A d \in Conns \ {c} :
                /\ sending'[d] = sending[d] /\ writeBuffers'[d] = writeBuffers[d]
                /\ writing'[d] = writing[d] /\ wire'[d] = wire[d]
          /\ sending'[c] # <<>> => writing'[c]
          /\ writing'[c] \/ writeBuffers'[c] = <<>>
          /\ Prefix(wire'[c], Append(sent[c], CloseFrame))
      BY <1>0, <3>1, CloseAnswerKeeps
    <3> QED BY <2>1, <3>4, <3>5
  <2>2. CASE ~Crow
    <3>1. /\ closing' = closing /\ writeBuffers' = writeBuffers /\ sending' = sending
          /\ writing' = writing /\ sent' = sent /\ wire' = wire
      BY <2>2 DEF ReadClose
    <3>2. /\ sending[c] # <<>> => writing[c]
          /\ writing[c] \/ writeBuffers[c] = <<>> \/ closing[c]
          /\ sending[c] = <<>> /\ writeBuffers[c] = <<>> /\ Prefix(wire[c], sent[c])
      BY <1>0, <2>2 DEF ConnInv, BufferInv
    <3> QED BY <1>0, <3>1, <3>2 DEF ServerTypeOK
  <2> QED BY <2>1, <2>2
<1>3. ServerTypeOK'
  <2>1. <<>> \in Seq(Request \cup {CloseFrame})
    BY EmptySeq
  <2>2. /\ inbox' \in [Conns -> Seq(Request \cup {CloseFrame})]
        /\ stage' \in [Conns -> {"none", "http", "ws", "ended"}] /\ websockets' \subseteq Conns
        /\ client' \in [Conns -> {"out", "here", "leaving", "gone"}]
        /\ posts' \in [Conns -> Seq(Message)]
    BY <1>0, <1>1, <2>1 DEF ServerTypeOK
  <2>3. /\ step' \in [Conns -> {"read", "ack", "lock", "book", "reply"}]
        /\ request' \in [Conns -> Request \cup {None}]
        /\ replies' \in [Conns -> Seq(Fill)]
    BY <1>0, <1>1 DEF ServerTypeOK
  <2> QED BY <1>2, <2>2, <2>3 DEF ServerTypeOK
<1>4. LockInv'
  BY <1>1, LockKept DEF ServerInv
<1>5. \A d \in Conns \ {c} : SameConn(d)
  BY <1>1, <1>2 DEF SameConn
<1>6. ConnInv(c)'
  <2>1. stage'[c] = "ended"
    BY <1>0, <1>1 DEF ServerTypeOK
  <2>2. HandlerInv(c)'
    BY <1>0, <1>1 DEF ConnInv, HandlerInv
  <2>3. BufferInv(c)'
    BY <1>0, <1>1, <1>2, <2>1 DEF BufferInv, Crow
  <2>4. Ledger(c)'
    BY <2>1 DEF Ledger
  <2>5. Prefix(wire[c], sent[c])'
    BY <1>2 DEF Prefix
  <2> QED BY <2>2, <2>3, <2>4, <2>5 DEF ConnInv
<1> QED BY <1>1, <1>3, <1>4, <1>5, <1>6, OneConn

LEMMA EndKeeps ==
  ASSUME ServerInv, TypeOK', NEW c \in Conns, ReadFails(c)
  PROVE  ServerInv'
<1>0. ConnInv(c) /\ ServerTypeOK /\ stage[c] = "ws" /\ step[c] = "read"
  BY DEF ServerInv, ReadFails, ReadReady
<1>1. /\ stage' = [stage EXCEPT ![c] = "ended"] /\ closing' = [closing EXCEPT ![c] = Crow]
      /\ Crow \in BOOLEAN
  BY DEF ReadFails, Crow
<1>2. ServerTypeOK'
  <2>1. closing' \in [Conns -> BOOLEAN]
    BY <1>0, <1>1 DEF ServerTypeOK
  <2>2. {posts', writeBuffers', sending', sent', wire'} \subseteq [Conns -> Seq(Message)]
    BY <1>0 DEF ServerTypeOK, ReadFails
  <2>3. /\ client' \in [Conns -> {"out", "here", "leaving", "gone"}]
        /\ inbox' \in [Conns -> Seq(Request \cup {CloseFrame})]
        /\ stage' \in [Conns -> {"none", "http", "ws", "ended"}] /\ websockets' \subseteq Conns
        /\ writing' \in [Conns -> BOOLEAN]
    BY <1>0 DEF ServerTypeOK, ReadFails
  <2>4. /\ step' \in [Conns -> {"read", "ack", "lock", "book", "reply"}]
        /\ request' \in [Conns -> Request \cup {None}]
        /\ replies' \in [Conns -> Seq(Fill)]
    BY <1>0 DEF ServerTypeOK, ReadFails, handler
  <2> QED BY <2>1, <2>2, <2>3, <2>4 DEF ServerTypeOK
<1>3. LockInv'
  BY LockKept DEF ServerInv, ReadFails, book, handler
<1>4. \A d \in Conns \ {c} : SameConn(d)
  BY <1>1 DEF SameConn, ReadFails, handler
<1>5. ConnInv(c)'
  <2>1. stage'[c] = "ended"
    BY <1>0, <1>1 DEF ServerTypeOK
  <2>2. /\ client' = client /\ sent' = sent /\ wire' = wire /\ sending' = sending
        /\ writing' = writing /\ writeBuffers' = writeBuffers /\ posts' = posts
        /\ engine' = engine /\ step' = step /\ request' = request
    BY DEF ReadFails, handler, book
  <2>3. HandlerInv(c)'
    BY <1>0, <2>2 DEF ConnInv, HandlerInv
  <2>4. BufferInv(c)'
    <3>1. closing'[c] = Crow
      BY <1>0, <1>1 DEF ServerTypeOK
    <3>2. BufferInv(c)
      BY <1>0 DEF ConnInv
    <3>3. writing[c] \/ writeBuffers[c] = <<>> \/ closing'[c]
      BY <3>1, <3>2 DEF BufferInv
    <3> QED BY <2>1, <2>2, <3>2, <3>3 DEF BufferInv, Crow
  <2>5. Ledger(c)'
    BY <2>1 DEF Ledger
  <2>6. Prefix(wire[c], sent[c])'
    BY <1>0, <2>2 DEF ConnInv, Prefix
  <2> QED BY <2>3, <2>4, <2>5, <2>6 DEF ConnInv
<1> QED BY <1>2, <1>3, <1>4, <1>5, OneConn DEF ReadFails, book
-----------------------------------------------------------------------------
(* The clients of Probe, and the theorems.                                 *)

\* Where the probe is, and how far the load clients are.
ClientInv ==
    /\ at \in {"send", "ack", "fills", "end"}
    /\ at # "end" => iter \in 1..Iterations
    /\ order \in 1..4
    /\ scripted \in [Conns -> Nat]

LEMMA InitClients == ProbeInit => ClientInv
  BY ProbeAssumption DEF ProbeInit, ClientInv

LEMMA OrderMoves ==
  ASSUME ClientInv, at # "end", NextOrder
  PROVE  /\ at' \in {"send", "fills", "end"} /\ order' \in 1..4
         /\ at' # "end" => iter' \in 1..Iterations
<1>1. iter \in 1..Iterations /\ order \in 1..4 /\ Iterations \in Nat
  BY ProbeAssumption DEF ClientInv
<1>2. CASE order < 4
  <2>1. order' = order + 1 /\ iter' = iter /\ at' = IF order = 3 THEN "fills" ELSE "send"
    BY <1>2 DEF NextOrder
  <2> QED BY <1>1, <1>2, <2>1
<1>3. CASE ~(order < 4)
  <2>1. /\ order' = 1 /\ iter' = iter + 1
        /\ at' = IF iter = Iterations THEN "end" ELSE "send"
    BY <1>3 DEF NextOrder
  <2> QED BY <1>1, <2>1
<1> QED BY <1>2, <1>3

LEMMA NextClients == ClientInv /\ [ProbeNext]_systemVars => ClientInv'
<1> SUFFICES ASSUME ClientInv, [ProbeNext]_systemVars PROVE ClientInv'
  OBVIOUS
<1>1. ASSUME UNCHANGED <<at, iter, order, scripted>> PROVE ClientInv'
  BY <1>1 DEF ClientInv
<1>2. CASE ProbeSends
  BY <1>2 DEF ClientInv, ProbeSends
<1>3. CASE ProbeAcked
  BY <1>3, OrderMoves DEF ClientInv, ProbeAcked
<1>4. CASE AckRunsOut
  BY <1>4, OrderMoves DEF ClientInv, AckRunsOut
<1>5. CASE ProbeReceives
  <2>1. at' \in {at, "send"} /\ at = "fills" /\ UNCHANGED <<iter, order, scripted>>
    BY <1>5 DEF ProbeReceives, Verdict
  <2> QED BY <2>1 DEF ClientInv
<1>6. CASE FillsRunOut
  BY <1>6 DEF ClientInv, FillsRunOut, Verdict
<1>7. ASSUME NEW c \in Users, LoadSends(c) PROVE ClientInv'
  <2>1. UNCHANGED <<at, iter, order>> /\ scripted' = [scripted EXCEPT ![c] = @ + 1]
    BY <1>7 DEF LoadSends
  <2>2. scripted \in [Conns -> Nat] /\ c \in Conns
    BY ProbeAssumption DEF ClientInv, Users
  <2>3. scripted[c] + 1 \in Nat
    BY <2>2
  <2>4. scripted' \in [Conns -> Nat]
    BY <2>1, <2>2, <2>3
  <2> QED BY <2>1, <2>4 DEF ClientInv
<1> QED
  BY <1>1, <1>2, <1>3, <1>4, <1>5, <1>6, <1>7
  DEF ProbeNext, Connects, EngineRuns, Probing, ProbeLeaves, LoadLeaves, systemVars,
      probeVars

\* What the probe and the load clients send are requests.
LEMMA Requests ==
  ASSUME ClientInv
  PROVE  /\ at = "send" => ProbeRequest(iter, order) \in Request
         /\ \A c \in Conns : scripted[c] < Len(Script[c]) =>
               Script[c][scripted[c] + 1] \in Request
<1>1. at = "send" => ProbeRequest(iter, order) \in Request
  BY ProbeAssumption DEF ClientInv
<1>2. ASSUME NEW c \in Conns, scripted[c] < Len(Script[c])
      PROVE  Script[c][scripted[c] + 1] \in Request
  <2>1. Script[c] \in Seq(Request) /\ scripted[c] \in Nat
    BY ProbeAssumption DEF ClientInv
  <2>2. Len(Script[c]) \in Nat
    BY <2>1, LenProperties
  <2>3. scripted[c] + 1 \in 1..Len(Script[c])
    BY <1>2, <2>1, <2>2
  <2> QED BY <2>1, <2>3, ElementOfSeq
<1> QED BY <1>1, <1>2

LEMMA EngineKeeps ==
  ASSUME ServerInv, TypeOK', NEW c \in Conns, EngineStep(c)
  PROVE  ServerInv'
  BY AcceptKeeps, UpgradeKeeps, UpgradeFailsKeeps, ServeKeeps, ReadRequestKeeps, AckKeeps,
     EnterKeeps, WorkKeeps, WorkCancelKeeps, ReplyKeeps, ReturnKeeps, SendFailsKeeps,
     RunPostKeeps, SocketTakesKeeps, WriteDoneKeeps, WriteFailsKeeps, ReadCloseKeeps, EndKeeps
  DEF EngineStep

LEMMA NextServer == ServerInv /\ ClientInv /\ [ProbeNext]_systemVars => ServerInv'
<1> SUFFICES ASSUME ServerInv, ClientInv, [ProbeNext]_systemVars PROVE ServerInv'
  OBVIOUS
<1>0. TypeOK'
  BY BookStep, NextType DEF ServerInv, ServerTypeOK
<1>1. ASSUME UNCHANGED serverVars PROVE ServerInv'
  <2>1. ServerTypeOK'
    BY <1>0, <1>1 DEF ServerInv, ServerTypeOK, serverVars, handler, crow
  <2>2. LockInv'
    BY <1>1, LockKept DEF ServerInv, serverVars, handler, book
  <2>3. \A d \in Conns : SameConn(d) /\ engine' = engine
    BY <1>1 DEF SameConn, serverVars, handler, crow, book
  <2>4. \A d \in Conns : ConnInv(d)'
    BY <2>3, ConnKept DEF ServerInv
  <2> QED BY <2>1, <2>2, <2>4 DEF ServerInv
<1>2. ASSUME NEW c \in Conns, EngineStep(c) PROVE ServerInv'
  BY <1>0, <1>2, EngineKeeps
<1>3. Users \subseteq Conns
  BY ProbeAssumption DEF Users
<1>4. ASSUME NEW c \in Users, ClientConnects(c) PROVE ServerInv'
  BY <1>0, <1>3, <1>4, ClientConnectsKeeps
<1>5. ASSUME NEW c \in Users, ClientDies(c) PROVE ServerInv'
  BY <1>0, <1>3, <1>5, ClientDiesKeeps
<1>6. CASE ProbeSends
  <2>1. ProbeRequest(iter, order) \in Request /\ ClientSends(Prober, ProbeRequest(iter, order))
    BY <1>6, Requests DEF ProbeSends
  <2> QED BY <1>0, <2>1, ProbeAssumption, ClientSendsKeeps
<1>7. ASSUME NEW c \in Users, LoadSends(c) PROVE ServerInv'
  <2>1. c \in Conns
    BY <1>3, <1>7
  <2>2. Script[c][scripted[c] + 1] \in Request /\ ClientSends(c, Script[c][scripted[c] + 1])
    BY <1>7, <2>1, Requests DEF LoadSends
  <2> QED BY <1>0, <2>1, <2>2, ClientSendsKeeps
<1>8. CASE ProbeLeaves
  BY <1>0, <1>8, ProbeAssumption, ClientLeavesKeeps DEF ProbeLeaves
<1>9. ASSUME NEW c \in Users, LoadLeaves(c) PROVE ServerInv'
  BY <1>0, <1>3, <1>9, ClientLeavesKeeps DEF LoadLeaves
<1> QED
  BY <1>1, <1>2, <1>4, <1>5, <1>6, <1>7, <1>8, <1>9
  DEF ProbeNext, Connects, EngineRuns, Probing, ProbeAcked, AckRunsOut, ProbeReceives,
      FillsRunOut, systemVars

\* The server keeps its invariant: one handler at a time is in the book, and
\* what handlers sent to clients that are there is accounted for in order.
THEOREM ServerCorrect == ProbeSpec => []ServerInv
<1>1. ProbeInit => ServerInv /\ ClientInv
  BY InitServer, InitClients
<1>2. (ServerInv /\ ClientInv) /\ [ProbeNext]_systemVars => (ServerInv /\ ClientInv)'
  BY NextServer, NextClients
<1> QED BY <1>1, <1>2, PTL DEF ProbeSpec

\* A client of an engine receives what its handler sent, in that order and
\* with nothing left out, whatever other clients do.
THEOREM InOrderKept == ProbeSpec => []InOrder
<1>1. ServerInv => InOrder
  BY DEF ServerInv, ConnInv, InOrder
<1> QED BY <1>1, ServerCorrect, PTL

\* The book that handlers of many connections share behaves as OrderBook,
\* which one caller at a time works on.
THEOREM BookServed == ProbeSpec => Spec
<1>1. ProbeInit => Init
  BY DEF ProbeInit, ServerInit
<1> QED BY <1>1, BookStep, ServerCorrect, PTL DEF ProbeSpec, Spec

\* So it matches by price, then time, for whichever client an order is.
THEOREM ServedByPriority == ProbeSpec => PriceTimePriority
  BY BookServed, PriorityKept, PTL

\* Where no id is sent twice, what is served implements the price-time book.
THEOREM ServerImplements == ProbeSpec => Refines
  BY BookServed, Implements, PTL
=============================================================================
