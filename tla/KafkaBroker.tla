------------------------------ MODULE KafkaBroker ------------------------------
(***************************************************************************)
(* The in-memory Kafka of a service process: the broker every producer and *)
(* consumer of the process shares, the consumers' listening loops on the   *)
(* thread pool, and the handler's stop.                                    *)
(*                                                                         *)
(* The broker only keeps weak pointers to its topics: a topic exists while *)
(* some call is inside publish, consume or close of it, and its messages   *)
(* go with the last of them.                                               *)
(***************************************************************************)
EXTENDS Naturals, Sequences, FiniteSets, Functions

CONSTANTS
    Topics,      \* topics
    Producers,   \* threads that send messages
    Consumers,   \* the handler's consumers
    TopicOf,     \* the topic of each consumer
    MaxSent,     \* bound: messages each producer sends
    Main,        \* the thread that starts and stops the consumers
    None         \* no message, no topic, no consumer

ASSUME BrokerAssumption ==
    /\ TopicOf \in [Consumers -> Topics]
    /\ MaxSent \in Nat
    /\ None \notin Topics \cup Consumers \cup (Producers \X Nat)
    /\ Producers \cap Consumers = {} /\ Main \notin Producers \cup Consumers
    /\ Consumers \cap {"uncalled", "next", "joining", "returned"} = {}

\* A producer numbers what it sends.
Message == Producers \X (1 .. MaxSent)

VARIABLES
    inside,     \* the threads inside a call on each topic: its strong references
    messages,   \* the messages waiting in each topic
    sent,       \* how many messages each producer has sent
    sending,    \* the producer's call: <<step, topic>>
    loop,       \* where each consumer is in its listening loop
    shouldRun,  \* shouldRun_ of each consumer
    got,        \* what consume returned to each consumer
    handled,    \* what each consumer's callback was given
    stopping    \* the handler's stop: "uncalled", "next", the consumer whose
                \* topic is being closed, "joining" or "returned"

broker == <<inside, messages>>
producers == <<sent, sending>>
consumers == <<loop, shouldRun, got, handled>>
vars == <<broker, producers, consumers, stopping>>

Init ==
    /\ inside = [t \in Topics |-> {}]
    /\ messages = [t \in Topics |-> <<>>]
    /\ sent = [p \in Producers |-> 0]
    /\ sending = [p \in Producers |-> <<"idle", None>>]
    /\ loop = [c \in Consumers |-> "absent"]
    /\ shouldRun = [c \in Consumers |-> TRUE]
    /\ got = [c \in Consumers |-> None]
    /\ handled = [c \in Consumers |-> <<>>]
    /\ stopping = "uncalled"

\* Variant: the call does not own the topic.
EnterWeakly(t, x) == inside' = [inside EXCEPT ![t] = @ \ {x}]

\* getOrCreate, and the end of a call on the topic.
Enter(t, x) == inside' = [inside EXCEPT ![t] = @ \cup {x}]

Leave(t, x) ==
    /\ inside' = [inside EXCEPT ![t] = @ \ {x}]
    /\ messages' = IF inside[t] = {x} THEN [messages EXCEPT ![t] = <<>>]
                   ELSE messages

-----------------------------------------------------------------------------
(* publish *)

BeginSend(p, t) ==
    /\ sending[p][1] = "idle"
    /\ sent[p] < MaxSent
    /\ sending' = [sending EXCEPT ![p] = <<"push", t>>]
    /\ Enter(t, p)
    /\ UNCHANGED <<messages, sent, consumers, stopping>>

Push(p) ==
    LET t == sending[p][2]
    IN  /\ sending[p][1] = "push"
        /\ sending' = [sending EXCEPT ![p] = <<"leave", t>>]
        /\ sent' = [sent EXCEPT ![p] = @ + 1]
        /\ messages' = [messages EXCEPT ![t] = Append(@, <<p, sent[p] + 1>>)]
        /\ UNCHANGED <<inside, consumers, stopping>>

EndSend(p) ==
    /\ sending[p][1] = "leave"
    /\ sending' = [sending EXCEPT ![p] = <<"idle", None>>]
    /\ Leave(sending[p][2], p)
    /\ UNCHANGED <<sent, consumers, stopping>>

ProducerStep(p) == Push(p) \/ EndSend(p)

-----------------------------------------------------------------------------
(* SharedKafkaConsumer::listening, one round of its loop *)

\* createConsumer and runConsumers: the loops are queued on the thread pool.
RunConsumers ==
    /\ \A c \in Consumers : loop[c] = "absent"
    /\ loop' = [c \in Consumers |-> "check"]
    /\ UNCHANGED <<broker, producers, shouldRun, got, handled, stopping>>

Check(c) ==
    /\ loop[c] = "check"
    /\ loop' = [loop EXCEPT ![c] = IF shouldRun[c] THEN "consume" ELSE "done"]
    /\ UNCHANGED <<broker, producers, shouldRun, got, handled, stopping>>

BeginConsume(c) ==
    /\ loop[c] = "consume"
    /\ loop' = [loop EXCEPT ![c] = "wait"]
    /\ Enter(TopicOf[c], c)
    /\ UNCHANGED <<messages, producers, shouldRun, got, handled, stopping>>

\* Variants: the newest message first; a stopped consumer takes nothing.
TakeLast(c) ==
    LET queue == messages[TopicOf[c]]
    IN  /\ loop[c] = "wait"
        /\ loop' = [loop EXCEPT ![c] = "leave"]
        /\ got' = [got EXCEPT ![c] = IF queue = <<>> THEN None ELSE queue[Len(queue)]]
        /\ messages' = [messages EXCEPT ![TopicOf[c]] =
                          IF @ = <<>> THEN @ ELSE SubSeq(@, 1, Len(@) - 1)]
        /\ UNCHANGED <<inside, producers, shouldRun, handled, stopping>>
TakeUnlessStopped(c) ==
    LET queue == messages[TopicOf[c]]
        takes == queue # <<>> /\ shouldRun[c]
    IN  /\ loop[c] = "wait"
        /\ loop' = [loop EXCEPT ![c] = "leave"]
        /\ got' = [got EXCEPT ![c] = IF takes THEN Head(queue) ELSE None]
        /\ messages' = [messages EXCEPT ![TopicOf[c]] = IF takes THEN Tail(@) ELSE @]
        /\ UNCHANGED <<inside, producers, shouldRun, handled, stopping>>

\* The wait ends by a notification or after 50 ms, at any moment: closed and
\* stopRequested only shorten it.
Take(c) ==
    LET queue == messages[TopicOf[c]]
    IN  /\ loop[c] = "wait"
        /\ loop' = [loop EXCEPT ![c] = "leave"]
        /\ got' = [got EXCEPT ![c] = IF queue = <<>> THEN None ELSE Head(queue)]
        /\ messages' = [messages EXCEPT ![TopicOf[c]] = IF @ = <<>> THEN @ ELSE Tail(@)]
        /\ UNCHANGED <<inside, producers, shouldRun, handled, stopping>>

EndConsume(c) ==
    /\ loop[c] = "leave"
    /\ loop' = [loop EXCEPT ![c] = IF got[c] = None THEN "rest" ELSE "callback"]
    /\ Leave(TopicOf[c], c)
    /\ UNCHANGED <<producers, shouldRun, got, handled, stopping>>

Callback(c) ==
    /\ loop[c] = "callback"
    /\ loop' = [loop EXCEPT ![c] = "rest"]
    /\ handled' = [handled EXCEPT ![c] = Append(@, got[c])]
    /\ got' = [got EXCEPT ![c] = None]
    /\ UNCHANGED <<broker, producers, shouldRun, stopping>>

\* 100 ms, or less when the consumer is stopped.
Rest(c) ==
    /\ loop[c] = "rest"
    /\ loop' = [loop EXCEPT ![c] = "check"]
    /\ UNCHANGED <<broker, producers, shouldRun, got, handled, stopping>>

ConsumerStep(c) ==
    \/ Check(c) \/ BeginConsume(c) \/ Take(c) \/ EndConsume(c)
    \/ Callback(c) \/ Rest(c)

-----------------------------------------------------------------------------
(* SharedKafkaHandler::stopConsumers *)

\* The thread that called runConsumers calls stopConsumers.
CallStop ==
    /\ stopping = "uncalled"
    /\ \A c \in Consumers : loop[c] # "absent"
    /\ stopping' = "next"
    /\ UNCHANGED <<broker, producers, consumers>>

\* stop of one consumer: the flag, then close of its topic, which enters it.
StopConsumer(c) ==
    /\ stopping = "next"
    /\ shouldRun[c]
    /\ shouldRun' = [shouldRun EXCEPT ![c] = FALSE]
    /\ Enter(TopicOf[c], Main)
    /\ stopping' = c
    /\ UNCHANGED <<messages, producers, loop, got, handled>>

CloseTopic(c) ==
    /\ stopping = c
    /\ Leave(TopicOf[c], Main)
    /\ stopping' = "next"
    /\ UNCHANGED <<producers, consumers>>

AllSignalled ==
    /\ stopping = "next"
    /\ \A c \in Consumers : ~shouldRun[c]
    /\ stopping' = "joining"
    /\ UNCHANGED <<broker, producers, consumers>>

\* future.get() of every loop.
JoinConsumers ==
    /\ stopping = "joining"
    /\ \A c \in Consumers : loop[c] = "done"
    /\ stopping' = "returned"
    /\ UNCHANGED <<broker, producers, consumers>>

StopStep ==
    \/ AllSignalled \/ JoinConsumers
    \/ \E c \in Consumers : StopConsumer(c) \/ CloseTopic(c)

Next ==
    \/ RunConsumers
    \/ \E p \in Producers : ProducerStep(p) \/ \E t \in Topics : BeginSend(p, t)
    \/ \E c \in Consumers : ConsumerStep(c)
    \/ CallStop \/ StopStep

\* Pool threads, producers and the stopping thread run; the two waits have
\* timeouts.  Nobody has to send, start or stop.
Fairness ==
    /\ \A p \in Producers : WF_vars(ProducerStep(p))
    /\ \A c \in Consumers : WF_vars(ConsumerStep(c))
    /\ WF_vars(StopStep)

Spec == Init /\ [][Next]_vars /\ Fairness

-----------------------------------------------------------------------------
(* Properties *)

\* Types; who is inside a topic is the threads whose call is on it, and a topic
\* nobody is inside holds nothing (the weak pointers of topics_).
TypeOK ==
    /\ sent \in [Producers -> 0 .. MaxSent]
    /\ loop \in [Consumers -> {"absent", "check", "consume", "wait", "leave",
                               "callback", "rest", "done"}]
    /\ stopping \in Consumers \cup {"uncalled", "next", "joining", "returned"}
    /\ \A t \in Topics :
          /\ inside[t] = {p \in Producers : sending[p][2] = t}
                            \cup {c \in Consumers : TopicOf[c] = t /\ loop[c] \in {"wait", "leave"}}
                            \cup {x \in {Main} : stopping \in Consumers /\ TopicOf[stopping] = t}
          /\ messages[t] \in Seq(Message)
          /\ inside[t] = {} => messages[t] = <<>>
    /\ \A c \in Consumers : /\ got[c] \in Message \cup {None}
                            /\ handled[c] \in Seq(Message)

\* What a callback is given of one producer is in the order it was sent,
\* nothing twice, however topics die and are created again (publish, consume).
HandledInOrder ==
    \A c \in Consumers : \A i, j \in DOMAIN handled[c] :
        i < j /\ handled[c][i][1] = handled[c][j][1] =>
            handled[c][i][2] < handled[c][j][2]

\* A message that is alone in a topic while the consumer waits there reaches
\* its callback, even when the consumer is stopped meanwhile (consume keeps the
\* topic alive until it returns).
WaitingConsumerIsServed ==
    \A c \in Consumers, p \in Producers : \A n \in 1 .. MaxSent :
        loop[c] = "wait" /\ messages[TopicOf[c]] = <<<<p, n>>>>
            ~> <<p, n>> \in Range(handled[c])
=============================================================================
