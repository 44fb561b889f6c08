----------------------------- MODULE EngineServer -----------------------------
(***************************************************************************)
(* A reference engine and the connections of its clients.  The handler of a *)
(* connection reads a request, acks it, carries it out on the one OrderBook *)
(* under its lock, and sends the fills.  The Python, Go and Rust engines    *)
(* write a message before they go on.  In the C++ engine the connection is  *)
(* crow's: send_text only posts to the io_context of the connection, whose  *)
(* one thread is busy with the handler; what was posted is written later,   *)
(* by one async_write at a time.                                           *)
(*                                                                         *)
(* A frame is read in one step (header, mask and payload in the code).  A   *)
(* wire holds what was written to a socket since it was accepted; `sent'    *)
(* remembers what the handler sent.                                        *)
(***************************************************************************)
EXTENDS OrderBook, FiniteSets

CONSTANTS
    Conns,      \* connections of clients
    Threads     \* io_contexts of the C++ engine, each with one thread

VARIABLES
    client,     \* client[c]: "out", "here", "leaving" (sent a close) or "gone"
    inbox,      \* frames under way to the engine
    stage,      \* of the connection: "none", "http", "ws" or "ended"
    context,    \* io_context of the connection, or None
    nextContext,\* io_context for the connection accepted next
    websockets, \* connections the engine keeps
    step,       \* of the handler: "read", "ack", "lock", "book", "reply"
    request,    \* request of the handler, or None
    replies,    \* fills it still has to send
    posts,      \* messages posted to the io_context
    writeBuffers,
    sending,    \* sending_buffers_, what the socket has not taken yet
    writing,    \* whether an async_write is under way
    closing,    \* close_connection_
    sent,       \* what the handler sent, in order
    wire        \* what was written to the socket, in order

book       == <<engine, reuse, orders, prices, index, arrived, used, taker, fills>>
crow       == <<posts, writeBuffers, sending, writing, closing>>
handler    == <<step, request, replies>>
accepting  == <<context, nextContext>>
serverVars == <<book, client, inbox, stage, accepting, websockets, handler,
                crow, sent, wire>>

Crow == engine = "cpp"
Contexts == 0 .. Threads - 1

Hello      == [kind |-> "hello"]
CloseFrame == [kind |-> "close"]
AckOf(id)  == [kind |-> "ack", id |-> id]
FillOf(id, f) == [kind |-> "fill", id |-> id, px |-> f.px, qty |-> f.qty,
                  maker |-> f.maker]

Limit(id, side, px, qty) ==
    [t |-> "limit", id |-> id, side |-> side, px |-> px, qty |-> qty]
Market(id, side, qty) ==
    [t |-> "market", id |-> id, side |-> side, px |-> None, qty |-> qty]
CancelOf(id, target) == [t |-> "cancel", id |-> id, target |-> target]

Request ==
    {Limit(id, side, px, qty) : id \in Ids, side \in Sides, px \in Prices, qty \in 1..MaxQty}
      \cup {Market(id, side, qty) : id \in Ids, side \in Sides, qty \in 1..MaxQty}
      \cup {CancelOf(id, target) : id \in Ids, target \in Ids}

ASSUME ServerAssumption ==
    /\ None \notin Conns
    /\ None \notin Request
    /\ Threads \in Nat \ {0}

ServerInit ==
    /\ Init
    /\ client = [c \in Conns |-> "out"]
    /\ inbox = [c \in Conns |-> <<>>]
    /\ stage = [c \in Conns |-> "none"]
    /\ context = [c \in Conns |-> None]
    /\ nextContext = 0
    /\ websockets = {}
    /\ step = [c \in Conns |-> "read"]
    /\ request = [c \in Conns |-> None]
    /\ replies = [c \in Conns |-> <<>>]
    /\ posts = [c \in Conns |-> <<>>]
    /\ writeBuffers = [c \in Conns |-> <<>>]
    /\ sending = [c \in Conns |-> <<>>]
    /\ writing = [c \in Conns |-> FALSE]
    /\ closing = [c \in Conns |-> FALSE]
    /\ sent = [c \in Conns |-> <<>>]
    /\ wire = [c \in Conns |-> <<>>]

-----------------------------------------------------------------------------
(* Clients.                                                                *)

ClientConnects(c) ==
    /\ client[c] = "out"
    /\ client' = [client EXCEPT ![c] = "here"]
    /\ UNCHANGED <<book, inbox, stage, accepting, websockets, handler, crow, sent, wire>>

\* A client sends once the handshake is answered.
ClientSends(c, frame) ==
    /\ client[c] = "here"
    /\ wire[c] # <<>>
    /\ inbox' = [inbox EXCEPT ![c] = Append(@, frame)]
    /\ UNCHANGED <<book, client, stage, accepting, websockets, handler, crow, sent, wire>>

ClientLeaves(c) ==
    /\ client[c] = "here"
    /\ wire[c] # <<>>
    /\ client' = [client EXCEPT ![c] = "leaving"]
    /\ inbox' = [inbox EXCEPT ![c] = Append(@, CloseFrame)]
    /\ UNCHANGED <<book, stage, accepting, websockets, handler, crow, sent, wire>>

\* Its process is killed: what it sent may still be read, or not.
ClientDies(c) ==
    /\ client[c] \in {"here", "leaving"}
    /\ client' = [client EXCEPT ![c] = "gone"]
    /\ UNCHANGED <<book, inbox, stage, accepting, websockets, handler, crow, sent, wire>>

-----------------------------------------------------------------------------
(* Accepting.                                                              *)

\* task_queue_length_pool_: connections that have not been upgraded yet.
QueueLength(st, cx, i) == Cardinality({c \in Conns : st[c] = "http" /\ cx[c] = i})

\* The io_context for the next connection: the first of the least loaded.
PickContext(st, cx) ==
    CHOOSE i \in Contexts : \A j \in Contexts :
        \/ QueueLength(st, cx, i) < QueueLength(st, cx, j)
        \/ QueueLength(st, cx, i) = QueueLength(st, cx, j) /\ i <= j

\* crow accepts the connection on the io_context picked before.
Accept(c) ==
    /\ Crow
    /\ client[c] # "out"
    /\ stage[c] = "none"
    /\ stage' = [stage EXCEPT ![c] = "http"]
    /\ context' = [context EXCEPT ![c] = nextContext]
    /\ nextContext' = PickContext(stage', context')
    /\ UNCHANGED <<book, client, inbox, websockets, handler, crow, sent, wire>>

\* The thread of the io_context of c is not in the handler of a connection.
ThreadFree(c) ==
    Crow => \A d \in Conns : context[d] = context[c] => step[d] = "read"

\* Mutant of DoWrite: a second async_write is started while one is under way.
DoWriteAlways(c, buffered) ==
    /\ sending' = [sending EXCEPT ![c] = buffered]
    /\ writing' = [writing EXCEPT ![c] = TRUE]
    /\ writeBuffers' = [writeBuffers EXCEPT ![c] = <<>>]

\* do_write: an async_write of all that is buffered, if none is under way.
DoWrite(c, buffered) ==
    IF writing[c] \/ buffered = <<>>
      THEN /\ writeBuffers' = [writeBuffers EXCEPT ![c] = buffered]
           /\ UNCHANGED <<sending, writing>>
      ELSE /\ sending' = [sending EXCEPT ![c] = buffered]
           /\ writing' = [writing EXCEPT ![c] = TRUE]
           /\ writeBuffers' = [writeBuffers EXCEPT ![c] = <<>>]

\* The upgrade request is handled: the connection is kept, answers, and reads.
Upgrade(c) ==
    /\ stage[c] = "http"
    /\ ThreadFree(c)
    /\ stage' = [stage EXCEPT ![c] = "ws"]
    /\ websockets' = websockets \cup {c}
    /\ sent' = [sent EXCEPT ![c] = <<Hello>>]
    /\ DoWrite(c, <<Hello>>)
    /\ UNCHANGED <<book, client, inbox, accepting, handler, posts, closing, wire>>

\* The client has gone before its request was read.
UpgradeFails(c) ==
    /\ stage[c] = "http"
    /\ client[c] = "gone"
    /\ ThreadFree(c)
    /\ stage' = [stage EXCEPT ![c] = "ended"]
    /\ UNCHANGED <<book, client, inbox, accepting, websockets, handler, crow, sent, wire>>

\* The other engines: the library answers the handshake and starts the handler.
Serve(c) ==
    /\ ~Crow
    /\ client[c] # "out"
    /\ stage[c] = "none"
    /\ stage' = [stage EXCEPT ![c] = "ws"]
    /\ websockets' = websockets \cup {c}
    /\ sent' = [sent EXCEPT ![c] = <<Hello>>]
    /\ wire' = [wire EXCEPT ![c] = <<Hello>>]
    /\ UNCHANGED <<book, client, inbox, accepting, handler, crow>>

-----------------------------------------------------------------------------
(* The message handler.                                                    *)

\* The read of a connection may complete: what its handler posted has run
\* before, as an io_context is first in, first out.
ReadReady(c) ==
    /\ stage[c] = "ws"
    /\ step[c] = "read"
    /\ posts[c] = <<>>
    /\ ThreadFree(c)

\* The next request is read.
ReadRequest(c) ==
    /\ ReadReady(c)
    /\ inbox[c] # <<>>
    /\ Head(inbox[c]) # CloseFrame
    /\ request' = [request EXCEPT ![c] = Head(inbox[c])]
    /\ inbox' = [inbox EXCEPT ![c] = Tail(@)]
    /\ step' = [step EXCEPT ![c] = "ack"]
    /\ UNCHANGED <<book, client, stage, accepting, websockets, replies, crow, sent, wire>>

\* send_text posts in the C++ engine; the others write to a client that is there.
Send(c, m) ==
    /\ sent' = [sent EXCEPT ![c] = Append(@, m)]
    /\ \/ Crow /\ posts' = [posts EXCEPT ![c] = Append(@, m)] /\ UNCHANGED wire
       \/ /\ ~Crow
          /\ client[c] # "gone"
          /\ wire' = [wire EXCEPT ![c] = Append(@, m)]
          /\ UNCHANGED posts
    /\ UNCHANGED <<writeBuffers, sending, writing, closing>>

Ack(c) ==
    /\ step[c] = "ack"
    /\ Send(c, AckOf(request[c].id))
    /\ step' = [step EXCEPT ![c] = "lock"]
    /\ UNCHANGED <<book, client, inbox, stage, accepting, websockets, request, replies>>

Unlocked == \A d \in Conns : step[d] # "book"

\* Mutant of Enter: the order is carried out before it is acked.
EnterAtOnce(c) ==
    /\ step[c] \in {"ack", "lock"}
    /\ Unlocked
    /\ request[c].t # "cancel"
    /\ Arrive(request[c].id, request[c].side, request[c].px, request[c].qty)
    /\ step' = [step EXCEPT ![c] = "book"]
    /\ UNCHANGED <<client, inbox, stage, accepting, websockets, request, replies,
                   crow, sent, wire>>

\* limit or market is called under the lock.
Enter(c) ==
    /\ step[c] = "lock"
    /\ Unlocked
    /\ request[c].t # "cancel"
    /\ Arrive(request[c].id, request[c].side, request[c].px, request[c].qty)
    /\ step' = [step EXCEPT ![c] = "book"]
    /\ UNCHANGED <<client, inbox, stage, accepting, websockets, request, replies,
                   crow, sent, wire>>

\* Mutant of Work: the lock is given back while the order is still matched.
WorkUnlocked(c) ==
    /\ step[c] = "book"
    /\ \/ \E o \in orders : TakeWhole(o) \/ TakePart(o) \/ RestMerged(o)
       \/ Finish
       \/ Rest
    /\ step' = [step EXCEPT ![c] = "reply"]
    /\ replies' = [replies EXCEPT ![c] = fills']
    /\ UNCHANGED <<client, inbox, stage, accepting, websockets, request, crow, sent, wire>>

\* One step of the book; when it is through, the lock is given back.
Work(c) ==
    /\ step[c] = "book"
    /\ \/ \E o \in orders : TakeWhole(o) \/ TakePart(o) \/ RestMerged(o)
       \/ Finish
       \/ Rest
    /\ IF taker' = None
         THEN /\ step' = [step EXCEPT ![c] = "reply"]
              /\ replies' = [replies EXCEPT ![c] = fills']
         ELSE UNCHANGED <<step, replies>>
    /\ UNCHANGED <<client, inbox, stage, accepting, websockets, request, crow, sent, wire>>

\* A cancel; that of an id that does not rest changes nothing.
WorkCancel(c) ==
    /\ step[c] = "lock"
    /\ Unlocked
    /\ request[c].t = "cancel"
    /\ IF index[request[c].target] # None
         THEN Cancel(request[c].target) ELSE UNCHANGED book
    /\ step' = [step EXCEPT ![c] = "reply"]
    /\ UNCHANGED <<client, inbox, stage, accepting, websockets, request, replies,
                   crow, sent, wire>>

\* The fills are sent one by one, after the lock was given back.
Reply(c) ==
    /\ step[c] = "reply"
    /\ replies[c] # <<>>
    /\ Send(c, FillOf(request[c].id, Head(replies[c])))
    /\ replies' = [replies EXCEPT ![c] = Tail(@)]
    /\ UNCHANGED <<book, client, inbox, stage, accepting, websockets, step, request>>

\* Mutant of Return: the handler ends after one request.
ReturnEnds(c) ==
    /\ step[c] = "reply"
    /\ replies[c] = <<>>
    /\ step' = [step EXCEPT ![c] = "read"]
    /\ request' = [request EXCEPT ![c] = None]
    /\ stage' = [stage EXCEPT ![c] = "ended"]
    /\ UNCHANGED <<book, client, inbox, accepting, websockets, replies,
                   crow, sent, wire>>

Return(c) ==
    /\ step[c] = "reply"
    /\ replies[c] = <<>>
    /\ step' = [step EXCEPT ![c] = "read"]
    /\ request' = [request EXCEPT ![c] = None]
    /\ UNCHANGED <<book, client, inbox, stage, accepting, websockets, replies,
                   crow, sent, wire>>

\* A write to a client that has gone: Go and Rust ignore the error and go on,
\* in Python it ends the handler.
SendFails(c) ==
    /\ ~Crow
    /\ client[c] = "gone"
    /\ step[c] = "ack" \/ (step[c] = "reply" /\ replies[c] # <<>>)
    /\ IF engine = "python"
         THEN /\ step' = [step EXCEPT ![c] = "read"]
              /\ request' = [request EXCEPT ![c] = None]
              /\ replies' = [replies EXCEPT ![c] = <<>>]
              /\ stage' = [stage EXCEPT ![c] = "ended"]
              /\ websockets' = websockets \ {c}
         ELSE /\ step' = [step EXCEPT ![c] = IF @ = "ack" THEN "lock" ELSE @]
              /\ replies' = [replies EXCEPT ![c] = IF @ = <<>> THEN @ ELSE Tail(@)]
              /\ UNCHANGED <<request, stage, websockets>>
    /\ UNCHANGED <<book, client, inbox, accepting, crow, sent, wire>>

-----------------------------------------------------------------------------
(* The connection of crow.                                                 *)

\* A posted send_data runs on the thread of the connection.  The object is
\* still there: its read completes only after what was posted before.
RunPost(c) ==
    /\ posts[c] # <<>>
    /\ ThreadFree(c)
    /\ posts' = [posts EXCEPT ![c] = Tail(@)]
    /\ DoWrite(c, Append(writeBuffers[c], Head(posts[c])))
    /\ UNCHANGED <<book, client, inbox, stage, accepting, websockets, handler,
                   closing, sent, wire>>

\* The socket takes the next message of the async_write.
SocketTakes(c) ==
    /\ sending[c] # <<>>
    /\ stage[c] = "ws"
    /\ client[c] # "gone"
    /\ wire' = [wire EXCEPT ![c] = Append(@, Head(sending[c]))]
    /\ sending' = [sending EXCEPT ![c] = Tail(@)]
    /\ UNCHANGED <<book, client, inbox, stage, accepting, websockets, handler,
                   posts, writeBuffers, writing, closing, sent>>

\* Mutant of WriteDone: what was buffered meanwhile waits for the next send.
WriteDoneStops(c) ==
    /\ writing[c]
    /\ sending[c] = <<>>
    /\ ~closing[c]
    /\ ThreadFree(c)
    /\ writing' = [writing EXCEPT ![c] = FALSE]
    /\ UNCHANGED <<book, client, inbox, stage, accepting, websockets, handler,
                   posts, writeBuffers, sending, closing, sent, wire>>

\* async_write is through: what was buffered meanwhile is written.
WriteDone(c) ==
    /\ writing[c]
    /\ sending[c] = <<>>
    /\ ~closing[c]
    /\ ThreadFree(c)
    /\ sending' = [sending EXCEPT ![c] = writeBuffers[c]]
    /\ writing' = [writing EXCEPT ![c] = writeBuffers[c] # <<>>]
    /\ writeBuffers' = [writeBuffers EXCEPT ![c] = <<>>]
    /\ UNCHANGED <<book, client, inbox, stage, accepting, websockets, handler,
                   posts, closing, sent, wire>>

\* It failed (the socket is closed, or the client gone), or the connection is
\* closing: check_destroy.
WriteFails(c) ==
    /\ writing[c]
    /\ closing[c] \/ client[c] = "gone"
    /\ ThreadFree(c)
    /\ sending' = [sending EXCEPT ![c] = <<>>]
    /\ writing' = [writing EXCEPT ![c] = FALSE]
    /\ closing' = [closing EXCEPT ![c] = TRUE]
    /\ websockets' = websockets \ {c}
    /\ UNCHANGED <<book, client, inbox, stage, accepting, handler, posts,
                   writeBuffers, sent, wire>>

\* close: the answer to a close frame is buffered.  The socket is closed at
\* once, so it is written only if its async_write starts, and gets to it.
CloseAnswer(c) ==
    \/ DoWrite(c, Append(writeBuffers[c], CloseFrame)) /\ UNCHANGED wire
    \/ /\ ~writing[c]
       /\ client[c] # "gone"
       /\ writing' = [writing EXCEPT ![c] = TRUE]
       /\ wire' = [wire EXCEPT ![c] = @ \o Append(writeBuffers[c], CloseFrame)]
       /\ writeBuffers' = [writeBuffers EXCEPT ![c] = <<>>]
       /\ UNCHANGED sending

\* A close frame is read: the connection ends, with check_destroy in crow.
ReadClose(c) ==
    /\ ReadReady(c)
    /\ inbox[c] # <<>>
    /\ Head(inbox[c]) = CloseFrame
    /\ inbox' = [inbox EXCEPT ![c] = <<>>]
    /\ stage' = [stage EXCEPT ![c] = "ended"]
    /\ websockets' = websockets \ {c}
    /\ IF Crow
         THEN /\ closing' = [closing EXCEPT ![c] = TRUE]
              /\ sent' = [sent EXCEPT ![c] = Append(@, CloseFrame)]
              /\ CloseAnswer(c)
         ELSE UNCHANGED <<closing, writeBuffers, sending, writing, sent, wire>>
    /\ UNCHANGED <<book, client, accepting, handler, posts>>

\* Mutant of ReadFails: check_destroy is left to the next write.
ReadFailsKeeps(c) ==
    /\ ReadReady(c)
    /\ client[c] = "gone"
    /\ stage' = [stage EXCEPT ![c] = "ended"]
    /\ closing' = [closing EXCEPT ![c] = Crow]
    /\ UNCHANGED <<book, client, inbox, accepting, websockets, handler, posts,
                   writeBuffers, sending, writing, sent, wire>>

\* A read fails because the client has gone: the socket is closed, and
\* check_destroy; the loops of the other engines end.
ReadFails(c) ==
    /\ ReadReady(c)
    /\ client[c] = "gone"
    /\ stage' = [stage EXCEPT ![c] = "ended"]
    /\ websockets' = websockets \ {c}
    /\ closing' = [closing EXCEPT ![c] = Crow]
    /\ UNCHANGED <<book, client, inbox, accepting, handler, posts, writeBuffers,
                   sending, writing, sent, wire>>

EngineStep(c) ==
    \/ Accept(c) \/ Upgrade(c) \/ UpgradeFails(c) \/ Serve(c)
    \/ ReadRequest(c) \/ Ack(c) \/ Enter(c) \/ Work(c) \/ WorkCancel(c)
    \/ Reply(c) \/ Return(c) \/ SendFails(c)
    \/ RunPost(c) \/ SocketTakes(c) \/ WriteDone(c) \/ WriteFails(c)
    \/ ReadClose(c) \/ ReadFails(c)
=============================================================================
