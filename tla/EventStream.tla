----------------------------- MODULE EventStream -----------------------------
(***************************************************************************)
(* The event stream of one chat session: the per session queue of          *)
(* internal/events (Prepare, Emit, Close, Stream) and the request handler  *)
(* of internal/api (stream) that runs a turn and forwards its events.      *)
(*                                                                         *)
(* Each request has a handler, a turn in a goroutine of its own and a      *)
(* stream goroutine.  All requests of the session share one queue and one  *)
(* wake-up token.  A client may go away at any time, and send the next     *)
(* request before the handler of the last one has returned.                *)
(***************************************************************************)
EXTENDS Naturals, Sequences, FiniteSets, SequencesExt

CONSTANTS
  MaxRequests,  (* bound: requests of a behaviour                            *)
  MaxOpen,      (* bound: requests at the same time                          *)
  MaxEvents     (* bound: events of all the turns                            *)

ASSUME StreamAssumption == {MaxRequests, MaxOpen, MaxEvents} \subseteq Nat

VARIABLES
  queue,    (* session.pending                                               *)
  notify,   (* session.notify holds its one token                            *)
  handler,  (* what each request's handler does                              *)
  turn,     (* its turn                                                      *)
  ctx,      (* its context is cancelled                                      *)
  gone,     (* its client went away                                          *)
  stream,   (* its stream goroutine                                          *)
  hand,     (* the event that goroutine took from the queue                  *)
  emitted,  (* history: events its turn emitted                              *)
  seen,     (* history: events forwarded to its client                       *)
  overlaps  (* history: a request came while another was open                *)

requestVars == <<handler, turn, ctx, gone>>
vars == <<queue, notify, requestVars, stream, hand, emitted, seen, overlaps>>

Requests == 1 .. MaxRequests

(* An event of a turn; number 0 is the sentinel that ends a stream.        *)
Event(h, n) == [turn |-> h, n |-> n]
Done(h)     == Event(h, 0)
Nothing     == Event(0, 0)

Init ==
  /\ queue = <<>> /\ notify = FALSE
  /\ handler = [h \in Requests |-> "off"]
  /\ turn = [h \in Requests |-> "off"]
  /\ ctx = [h \in Requests |-> FALSE]
  /\ gone = [h \in Requests |-> FALSE]
  /\ stream = [h \in Requests |-> "off"]
  /\ hand = [h \in Requests |-> Nothing]
  /\ emitted = [h \in Requests |-> 0]
  /\ seen = [h \in Requests |-> <<>>]
  /\ overlaps = FALSE

Open == {h \in Requests : handler[h] \in {"stream", "await"}}

(* Variant of Push that leaves the reader asleep.                          *)
PushQuietly(e) == queue' = Append(queue, e) /\ UNCHANGED notify

(* push: the queue is unbounded, the token is not.                         *)
Push(e) == queue' = Append(queue, e) /\ notify' = TRUE

(* Variant of Prepared that keeps what nobody read.                        *)
Leftovers == queue

(* Prepare resets the queue of the session.                                *)
Prepared == <<>>

Request(h) ==
  /\ handler[h] = "off" /\ \A g \in Requests : g < h => handler[g] # "off"
  /\ Cardinality(Open) < MaxOpen
  /\ queue' = Prepared
  /\ handler' = [handler EXCEPT ![h] = "stream"]
  /\ turn' = [turn EXCEPT ![h] = "running"]
  /\ stream' = [stream EXCEPT ![h] = "read"]
  /\ overlaps' = (overlaps \/ Open # {})
  /\ UNCHANGED <<notify, ctx, gone, hand, emitted, seen>>

(***************************************************************************)
(* The turn: events, and the sentinel when it returns.                     *)
(***************************************************************************)
Emit(h) ==
  /\ turn[h] = "running"
  /\ FoldFunction(+, 0, emitted) < MaxEvents
  /\ emitted' = [emitted EXCEPT ![h] = @ + 1]
  /\ Push(Event(h, emitted[h] + 1))
  /\ UNCHANGED <<requestVars, stream, hand, seen, overlaps>>

(* Variant of Finish that ends the turn without the sentinel.              *)
FinishSilently(h) == UNCHANGED <<queue, notify>>

Finish(h) == Push(Done(h))

Close(h) ==
  /\ turn[h] = "running"
  /\ turn' = [turn EXCEPT ![h] = "closed"]
  /\ Finish(h)
  /\ UNCHANGED <<handler, ctx, gone, stream, hand, emitted, seen, overlaps>>

(***************************************************************************)
(* Stream's goroutine.                                                     *)
(***************************************************************************)
(* Variant of Rest that leaves the event in the queue.                     *)
Peeked == queue

Rest == Tail(queue)

(* Variant of Ends that takes the sentinel for an event.                   *)
NothingEnds(e) == FALSE

(* The sentinel ends the stream that reads it.                             *)
Ends(e) == e.n = 0

Take(h) ==
  /\ stream[h] = "read"
  /\ queue # <<>>
  /\ queue' = Rest
  /\ IF Ends(Head(queue))
     THEN stream' = [stream EXCEPT ![h] = "closed"] /\ UNCHANGED hand
     ELSE /\ stream' = [stream EXCEPT ![h] = "send"]
          /\ hand' = [hand EXCEPT ![h] = Head(queue)]
  /\ UNCHANGED <<notify, requestVars, emitted, seen, overlaps>>

FindEmpty(h) ==
  /\ stream[h] = "read"
  /\ queue = <<>>
  /\ stream' = [stream EXCEPT ![h] = "wait"]
  /\ UNCHANGED <<queue, notify, requestVars, hand, emitted, seen, overlaps>>

(* The handler receives the event and writes it to its client.             *)
Forward(h) ==
  /\ stream[h] = "send"
  /\ seen' = [seen EXCEPT ![h] = Append(@, hand[h])]
  /\ hand' = [hand EXCEPT ![h] = Nothing]
  /\ stream' = [stream EXCEPT ![h] = "read"]
  /\ UNCHANGED <<queue, notify, requestVars, emitted, overlaps>>

Wake(h) ==
  /\ stream[h] = "wait" /\ notify
  /\ notify' = FALSE
  /\ stream' = [stream EXCEPT ![h] = "read"]
  /\ UNCHANGED <<queue, requestVars, hand, emitted, seen, overlaps>>

(* A quiet interval: a keepalive, and another look at the queue.           *)
Heartbeat(h) ==
  /\ stream[h] = "wait"
  /\ stream' = [stream EXCEPT ![h] = "read"]
  /\ UNCHANGED <<queue, notify, requestVars, hand, emitted, seen, overlaps>>

(* Variant of Stoppable that waits for an event even so.                   *)
OnlySending(h) == stream[h] = "send"

(* Where a cancelled context ends the stream.                              *)
Stoppable(h) == stream[h] \in {"send", "wait"}

StreamStops(h) ==
  /\ Stoppable(h) /\ ctx[h]
  /\ stream' = [stream EXCEPT ![h] = "closed"]
  /\ hand' = [hand EXCEPT ![h] = Nothing]
  /\ UNCHANGED <<queue, notify, requestVars, emitted, seen, overlaps>>

(***************************************************************************)
(* The handler: the stream ended, the turn is cancelled and awaited.       *)
(***************************************************************************)
ClientGone(h) ==
  /\ handler[h] = "stream" /\ ~gone[h]
  /\ gone' = [gone EXCEPT ![h] = TRUE]
  /\ ctx' = [ctx EXCEPT ![h] = TRUE]
  /\ UNCHANGED <<queue, notify, handler, turn, stream, hand, emitted, seen, overlaps>>

CancelTurn(h) ==
  /\ handler[h] = "stream" /\ stream[h] = "closed"
  /\ ctx' = [ctx EXCEPT ![h] = TRUE]
  /\ handler' = [handler EXCEPT ![h] = "await"]
  /\ UNCHANGED <<queue, notify, turn, gone, stream, hand, emitted, seen, overlaps>>

Return(h) ==
  /\ handler[h] = "await" /\ turn[h] = "closed"
  /\ handler' = [handler EXCEPT ![h] = "done"]
  /\ UNCHANGED <<queue, notify, turn, ctx, gone, stream, hand, emitted, seen, overlaps>>

StreamStep(h) ==
  \/ Take(h) \/ FindEmpty(h) \/ Forward(h) \/ Wake(h) \/ Heartbeat(h) \/ StreamStops(h)

Next == \E h \in Requests :
  \/ Request(h) \/ Emit(h) \/ Close(h) \/ StreamStep(h)
  \/ ClientGone(h) \/ CancelTurn(h) \/ Return(h)

Spec == Init /\ [][Next]_vars

(* The goroutines go on; a turn ends; the heartbeat is only a keepalive    *)
(* and nothing has to rest on it.  A select chooses at random among what   *)
(* is ready, so a cancelled context is not passed over for ever.           *)
FairSpec ==
  /\ Spec
  /\ \A h \in Requests :
       /\ WF_vars(Close(h)) /\ WF_vars(CancelTurn(h)) /\ WF_vars(Return(h))
       /\ WF_vars(Take(h) \/ FindEmpty(h) \/ Forward(h))
       /\ WF_vars(Wake(h)) /\ SF_vars(StreamStops(h))

(***************************************************************************)
(* Properties.                                                             *)
(***************************************************************************)
(* A client sees the events of its own turn, in order and without a hole,  *)
(* and all of them unless it went away; nothing of an earlier turn that    *)
(* was abandoned.  (Requests of the session that follow one another.)      *)
OwnEventsInOrder ==
  ~overlaps => \A h \in Requests :
     /\ \A i \in DOMAIN seen[h] : seen[h][i] = Event(h, i)
     /\ handler[h] = "done" /\ ~gone[h] => Len(seen[h]) = emitted[h]

(* No wake-up is lost: a stream that waits while there is something to     *)
(* read has a token to wake it, so no event waits for the heartbeat.       *)
NoLostWakeup ==
  ~overlaps => \A h \in Requests : stream[h] = "wait" /\ queue # <<>> => notify

(* A turn that ended ends its stream and its request, without help of the  *)
(* heartbeat.                                                              *)
ClosedTurnReturns ==
  \A h \in Requests : turn[h] = "closed" ~> (handler[h] = "done" \/ overlaps)

(* However requests of the session overlap, no event reaches two clients   *)
(* or one client twice, and no client sees what was not emitted.           *)
DeliveredOnce ==
  \A g, h \in Requests : \A i \in DOMAIN seen[g], j \in DOMAIN seen[h] :
     /\ seen[g][i] = seen[h][j] => g = h /\ i = j
     /\ seen[g][i].n <= emitted[seen[g][i].turn]

(* What reaches a client is what was emitted, once, and in a session whose *)
(* requests do not overlap its own turn's events in order.                 *)
DeliveredInOrder == OwnEventsInOrder /\ DeliveredOnce

(* The request of a client that went away ends, whatever overlaps it and   *)
(* whoever read the sentinel of its turn.                                  *)
GoneClientReleased == \A h \in Requests : gone[h] ~> handler[h] = "done"

(* Every request ends: with its turn, or with its client.                  *)
RequestsEnd == ClosedTurnReturns /\ GoneClientReleased

(* Expected to fail, see README.                                           *)
(* "Stream yields events for a session until Close is called or ctx ends"  *)
(* (emitter.go 128): the stream of a turn that closed ends.                *)
CloseEndsStream == \A h \in Requests : turn[h] = "closed" ~> handler[h] = "done"
=============================================================================
