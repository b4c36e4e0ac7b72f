------------------------------ MODULE RabbitQueue ------------------------------
(***************************************************************************)
(* The in-memory RabbitMQ of RideManager: RideRabbitManager's handler owns *)
(* the producer of driver notifications, RideServer's handler the consumer *)
(* of the queue of that name.                                              *)
(*                                                                         *)
(* Handler, producer and consumer all keep weak pointers to the state of   *)
(* their queue; the only strong ones are the locals of the calls at work   *)
(* on it.                                                                  *)
(***************************************************************************)
EXTENDS Naturals

CONSTANT MaxNotices  \* bound: messages published

VARIABLES
    creating,  \* endpoints whose createProducer or createConsumer is running
    created,   \* endpoints that exist
    queued,    \* messages in the queue of each endpoint's handler
    dropped,   \* messages publish found no queue for
    running,   \* running_ of the consumer
    polling    \* the consumer's listening loop

rabbitVars == <<creating, created, queued, dropped, running, polling>>

Endpoints == {"producer", "consumer"}

RabbitInit ==
    /\ creating = {}
    /\ created = {}
    /\ queued = [e \in Endpoints |-> 0]
    /\ dropped = 0
    /\ running = TRUE
    /\ polling = "absent"

\* getOrCreateQueue makes the queue; the endpoint gets a weak pointer to it.
BeginCreate(e) ==
    /\ e \notin created \cup creating
    /\ creating' = creating \cup {e}
    /\ UNCHANGED <<created, queued, dropped, running, polling>>

\* The local of the call was the last strong pointer: the queue dies.
EndCreate(e) ==
    /\ e \in creating
    /\ creating' = creating \ {e}
    /\ created' = created \cup {e}
    /\ queued' = [queued EXCEPT ![e] = 0]
    /\ UNCHANGED <<dropped, running, polling>>

\* queue_.lock() succeeds.
QueueExists(e) == e \in creating

Publish ==
    /\ "producer" \in created
    /\ dropped + queued["producer"] < MaxNotices
    /\ IF QueueExists("producer")
       THEN queued' = [queued EXCEPT !["producer"] = @ + 1] /\ UNCHANGED dropped
       ELSE dropped' = dropped + 1 /\ UNCHANGED queued
    /\ UNCHANGED <<creating, created, running, polling>>

\* runConsumers: the loop is queued on the thread pool.
RunRabbit ==
    /\ "consumer" \in created
    /\ polling = "absent"
    /\ polling' = "listening"
    /\ UNCHANGED <<creating, created, queued, dropped, running>>

\* The loop ends when it finds running_ cleared.  Until then it would wait on
\* its queue for messages to take; without one it only spins.
EndPolling ==
    /\ polling = "listening"
    /\ ~running
    /\ polling' = "done"
    /\ UNCHANGED <<creating, created, queued, dropped, running>>

\* Variant: the consumer is not told to stop.
StopNobody ==
    /\ running
    /\ UNCHANGED rabbitVars

\* stop of the consumer; there is no queue left to close.
StopRabbit ==
    /\ running
    /\ running' = FALSE
    /\ UNCHANGED <<creating, created, queued, dropped, polling>>

=============================================================================
