----------------------------- MODULE SendQueue -----------------------------
(***************************************************************************)
(* The messages of one connection (WebSocketService): three queues of      *)
(* different priority that are drained one message per event into the      *)
(* buffer of the socket, which stops taking when it is full; and messages  *)
(* received, which wait for the handshake.                                 *)
(*                                                                         *)
(* All of it runs on the network thread (send_message_connections moves    *)
(* senders there); what interleaves are its queued calls, the socket's     *)
(* signals and the end of the connection.  The handshake itself is in      *)
(* SocketLink.                                                             *)
(***************************************************************************)
EXTENDS Naturals, Sequences

CONSTANTS
  Room,        \* messages that fill the socket's buffer (MAX_BUFFER_SIZE)
  MaxMessages, \* bound: messages sent
  MaxArrivals  \* bound: messages received

(* What the constants must satisfy.                                        *)
SendQueueAssumption == Room \in Nat \ {0} /\ MaxMessages \in Nat /\ MaxArrivals \in Nat

Priorities == {"High", "Normal", "Low"}

VARIABLES
  socket,  \* "opening", "active", "broken" (no longer connected), "closed"
  queue,   \* queue[p]: high_queue_, normal_queue_, low_queue_
  dequeue_pending,
  waiting_buffer_space,
  posted,  \* queued calls of this service, oldest first
  buffer,  \* messages that the socket has not written yet
  cache,   \* m_messageCache
  arrived, \* messages that arrived so far
  handled, \* messages given to the NetworkManager                (history)
  taken,   \* taken[p]: messages that send_message accepted       (history)
  written  \* written[p]: messages handed to the socket           (history)

sending   == <<queue, dequeue_pending, waiting_buffer_space, taken>>
receiving == <<cache, arrived, handled>>
vars      == <<socket, sending, posted, buffer, receiving, written>>

Call == [do : {"dequeue", "hello"}] \cup [do : {"write"}, p : Priorities, m : 1..MaxMessages]
        \cup [do : {"binary"}, m : 1..MaxArrivals]

TypeOK ==
  /\ socket \in {"opening", "active", "broken", "closed"}
  /\ DOMAIN queue = Priorities /\ dequeue_pending \in BOOLEAN /\ waiting_buffer_space \in BOOLEAN
  /\ \A i \in DOMAIN posted : posted[i] \in Call
  /\ buffer \in 0..(Room + 1) /\ arrived \in 0..MaxArrivals

NoMessages == [p \in Priorities |-> <<>>]

Init ==
  /\ socket = "opening" /\ queue = NoMessages /\ dequeue_pending = FALSE
  /\ waiting_buffer_space = FALSE /\ posted = <<[do |-> "hello"]>> /\ buffer = 0
  /\ cache = <<>> /\ arrived = 0 /\ handled = <<>>
  /\ taken = NoMessages /\ written = NoMessages

-----------------------------------------------------------------------------
(* Sending.                                                                *)

(* scheduleDequeue, with the queues q, when the pending flag and the       *)
(* posted calls are those given.                                           *)
ScheduleDequeue(q, pending, calls) ==
  IF pending \/ q = NoMessages
  THEN dequeue_pending' = pending /\ posted' = calls
  ELSE dequeue_pending' = TRUE /\ posted' = Append(calls, [do |-> "dequeue"])

Sent == Len(taken["High"]) + Len(taken["Normal"]) + Len(taken["Low"])

(* send_message; a socket that is not active takes nothing.                *)
SendMessage(p) ==
  LET q == [queue EXCEPT ![p] = Append(@, Sent + 1)]
  IN /\ socket = "active" /\ Sent < MaxMessages
     /\ queue' = q /\ taken' = [taken EXCEPT ![p] = Append(@, Sent + 1)]
     /\ IF waiting_buffer_space THEN UNCHANGED <<dequeue_pending, posted>>
        ELSE ScheduleDequeue(q, dequeue_pending, posted)
     /\ UNCHANGED <<socket, waiting_buffer_space, buffer, receiving, written>>

Next1(do) == posted # <<>> /\ Head(posted).do = do

CanSendMore == socket = "active" /\ buffer < Room

Highest == IF queue["High"] # <<>> THEN "High" ELSE IF queue["Normal"] # <<>> THEN "Normal" ELSE "Low"

(* One message leaves its queue; its write is posted before the next wake. *)
Dequeue ==
  LET p == Highest
      q == [queue EXCEPT ![p] = Tail(@)]
  IN /\ CanSendMore /\ waiting_buffer_space' = FALSE
     /\ IF queue = NoMessages
        THEN dequeue_pending' = FALSE /\ posted' = Tail(posted) /\ UNCHANGED queue
        ELSE /\ queue' = q
             /\ ScheduleDequeue(q, FALSE,
                  Append(Tail(posted), [do |-> "write", p |-> p, m |-> Head(queue[p])]))

(* Mutant of TryDequeue: the flag is cleared when a message is taken only. *)
TryDequeueLate ==
  /\ Next1("dequeue")
  /\ \/ Dequeue
     \/ /\ ~CanSendMore /\ posted' = Tail(posted)
        /\ waiting_buffer_space' = (waiting_buffer_space \/ socket # "closed")
        /\ UNCHANGED <<queue, dequeue_pending>>
  /\ UNCHANGED <<socket, taken, buffer, receiving, written>>

(* tryDequeueMessage.                                                      *)
TryDequeue ==
  /\ Next1("dequeue")
  /\ \/ Dequeue
     \/ /\ ~CanSendMore /\ dequeue_pending' = FALSE /\ posted' = Tail(posted)
        /\ waiting_buffer_space' = (waiting_buffer_space \/ socket # "closed")
        /\ UNCHANGED queue
  /\ UNCHANGED <<socket, taken, buffer, receiving, written>>

(* closeSocket: what is queued is dropped, posted calls stay.              *)
Closes ==
  /\ socket' = "closed" /\ queue' = NoMessages /\ dequeue_pending' = FALSE
  /\ waiting_buffer_space' = FALSE /\ buffer' = 0 /\ cache' = <<>>
  /\ UNCHANGED <<taken, arrived, handled, written>>

(* sendMessageInternalSlot: the message is written, or dropped when the    *)
(* socket has gone; a write that fails ends the connection.                *)
WriteMessage ==
  /\ Next1("write") /\ posted' = Tail(posted)
  /\ \/ /\ socket = "active" /\ buffer' = buffer + 1
        /\ written' = [written EXCEPT ![Head(posted).p] = Append(@, Head(posted).m)]
        /\ UNCHANGED <<socket, sending, receiving>>
     \/ socket = "active" /\ Closes
     \/ socket # "active" /\ UNCHANGED <<socket, sending, buffer, receiving, written>>

(* The signal bytesWritten of the socket.                                  *)
BytesWritten ==
  /\ socket = "active" /\ buffer > 0 /\ buffer' = buffer - 1
  /\ IF waiting_buffer_space THEN ScheduleDequeue(queue, dequeue_pending, posted)
     ELSE UNCHANGED <<dequeue_pending, posted>>
  /\ UNCHANGED <<socket, queue, waiting_buffer_space, taken, receiving, written>>

-----------------------------------------------------------------------------
(* Receiving, and the end of a connection.                                 *)

(* A peer that is active sent its handshake before.                        *)
Arrive ==
  /\ socket \in {"opening", "active"} /\ arrived < MaxArrivals
  /\ arrived' = arrived + 1
  /\ posted' = Append(posted, [do |-> "binary", m |-> arrived + 1])
  /\ UNCHANGED <<socket, sending, buffer, cache, handled, written>>

(* onTextMessage with the handshake: accepted, with processCachedMessages, *)
(* or refused.  (SocketLink has it on a closed socket.)                    *)
HandleHello ==
  /\ Next1("hello") /\ posted' = Tail(posted)
  /\ \/ /\ socket = "opening" /\ socket' = "active"
        /\ handled' = handled \o cache /\ cache' = <<>>
        /\ UNCHANGED <<sending, buffer, arrived, written>>
     \/ socket = "opening" /\ Closes
     \/ socket = "closed" /\ UNCHANGED <<socket, sending, buffer, receiving, written>>

(* onBinaryMessage: without activation the message is kept.                *)
HandleBinary ==
  /\ Next1("binary") /\ posted' = Tail(posted)
  /\ IF socket \in {"active", "broken"}
     THEN handled' = Append(handled, Head(posted).m) /\ UNCHANGED cache
     ELSE cache' = Append(cache, Head(posted).m) /\ UNCHANGED handled
  /\ UNCHANGED <<socket, sending, buffer, arrived, written>>

(* The socket leaves the connected state before it says so.                *)
Break ==
  /\ socket = "active" /\ socket' = "broken"
  /\ UNCHANGED <<sending, posted, buffer, receiving, written>>

(* disconnected, an error, going offline, a duplicate link, destruction.   *)
CloseSocket == socket # "closed" /\ Closes /\ UNCHANGED posted

Next ==
  \/ \E p \in Priorities : SendMessage(p)
  \/ TryDequeue \/ WriteMessage \/ BytesWritten
  \/ Arrive \/ HandleHello \/ HandleBinary \/ Break \/ CloseSocket

Spec == Init /\ [][Next]_vars

-----------------------------------------------------------------------------
Posted(do) == {i \in DOMAIN posted : posted[i].do = do}

(* The message of priority p whose write is posted; one at most is.        *)
InFlight(p) ==
  LET writes == {i \in Posted("write") : posted[i].p = p}
  IN IF writes = {} THEN <<>> ELSE <<posted[CHOOSE i \in writes : TRUE].m>>

(* On an active connection nothing that send_message took is lost,         *)
(* repeated or overtaken by a message of its priority, whatever the buffer *)
(* holds: one message at a time is between its queue and the socket.  And  *)
(* a message that waits will be looked at: a dequeue is posted, or the     *)
(* buffer is full or about to be, and the next written byte posts one.     *)
(* The buffer is not overfilled, and what arrived is handled in order.     *)
MessagesFlow ==
  socket = "active" =>
    /\ \A i, j \in Posted("write") : i = j
    /\ \A p \in Priorities : taken[p] = written[p] \o InFlight(p) \o queue[p]
    /\ queue # NoMessages => Posted("dequeue") # {} \/ (waiting_buffer_space /\ buffer > 0)
    /\ buffer <= Room
    /\ \A i \in DOMAIN handled : handled[i] = i
=============================================================================
