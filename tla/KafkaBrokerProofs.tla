--------------------------- MODULE KafkaBrokerProofs ---------------------------
(***************************************************************************)
(* Proofs about the in-memory Kafka, for any number of topics, producers   *)
(* and consumers.                                                          *)
(***************************************************************************)
EXTENDS KafkaBroker, SequenceTheorems, TLAPS

\* The threads whose call is on a topic.
Senders(t) == {p \in Producers : sending[p][2] = t}
Takers(t) == {c \in Consumers : TopicOf[c] = t /\ loop[c] \in {"wait", "leave"}}
Stopper(t) == {x \in {Main} : stopping \in Consumers /\ TopicOf[stopping] = t}

\* The domains of the functions, and what a step of a call may rely on.
Shape ==
    /\ sent \in [Producers -> 0 .. MaxSent]
    /\ sending \in [Producers -> {<<"idle", None>>} \cup {"push", "leave"} \X Topics]
    /\ \A p \in Producers : sending[p][1] = "push" => sent[p] < MaxSent
    /\ inside \in [Topics -> SUBSET (Producers \cup Consumers \cup {Main})]
    /\ messages \in [Topics -> Seq(Message)]
    /\ loop \in [Consumers -> {"absent", "check", "consume", "wait", "leave",
                               "callback", "rest", "done"}]
    /\ shouldRun \in [Consumers -> BOOLEAN]
    /\ got \in [Consumers -> Message \cup {None}]
    /\ handled \in [Consumers -> Seq(Message)]
    /\ \A c \in Consumers : loop[c] = "callback" => got[c] # None
    /\ stopping \in Consumers \cup {"uncalled", "next", "joining", "returned"}

Membership == \A t \in Topics : inside[t] = Senders(t) \cup Takers(t) \cup Stopper(t)

Kept == \A t \in Topics : inside[t] = {} => messages[t] = <<>>

BrokerInv == Shape /\ Membership /\ Kept

-----------------------------------------------------------------------------
(* Types *)

LEMMA BrokerInit == Init => BrokerInv
  BY BrokerAssumption
  DEF Init, BrokerInv, Shape, Membership, Kept, Senders, Takers, Stopper, Message

LEMMA BrokerInvTypes == BrokerInv => TypeOK
  BY DEF BrokerInv, Shape, Membership, Kept, Senders, Takers, Stopper, TypeOK

\* A thread that leaves a topic takes the messages with it when it was the last.
LEMMA LeavingKeeps ==
  ASSUME BrokerInv, NEW t \in Topics, NEW x \in inside[t], Leave(t, x)
  PROVE  Kept'
<1>1. inside' = [inside EXCEPT ![t] = @ \ {x}]
  BY DEF Leave
<1>2. ASSUME NEW u \in Topics, inside'[u] = {} PROVE messages'[u] = <<>>
  <2>1. CASE u = t
    <3>1. inside[t] = {x}
      BY <1>1, <1>2, <2>1 DEF BrokerInv, Shape
    <3> QED
      BY <2>1, <3>1 DEF Leave, BrokerInv, Shape
  <2>2. CASE u # t
    <3>1. inside'[u] = inside[u] /\ messages'[u] = messages[u]
      BY <1>1, <2>2 DEF Leave, BrokerInv, Shape
    <3> QED
      BY <1>2, <3>1 DEF BrokerInv, Kept
  <2> QED
    BY <2>1, <2>2
<1> QED
  BY <1>2 DEF Kept

\* Leaving leaves messages of the same type.
LEMMA LeavingShape ==
  ASSUME BrokerInv, NEW t \in Topics, NEW x, Leave(t, x)
  PROVE  /\ inside' = [inside EXCEPT ![t] = @ \ {x}]
         /\ inside' \in [Topics -> SUBSET (Producers \cup Consumers \cup {Main})]
         /\ messages' \in [Topics -> Seq(Message)]
  BY DEF Leave, BrokerInv, Shape

\* Who enters keeps what is there.
LEMMA EnteringKeeps ==
  ASSUME BrokerInv, NEW t \in Topics, NEW x \in Producers \cup Consumers \cup {Main},
         Enter(t, x), messages' = messages
  PROVE  /\ Kept'
         /\ inside' \in [Topics -> SUBSET (Producers \cup Consumers \cup {Main})]
  BY DEF Enter, BrokerInv, Shape, Kept

LEMMA SendersKeep ==
  ASSUME BrokerInv, NEW p \in Producers,
         ProducerStep(p) \/ \E t \in Topics : BeginSend(p, t)
  PROVE  BrokerInv'
<1> USE BrokerAssumption
<1>1. ASSUME NEW t \in Topics, BeginSend(p, t) PROVE BrokerInv'
  <2>1. Kept' /\ inside' \in [Topics -> SUBSET (Producers \cup Consumers \cup {Main})]
    BY <1>1, EnteringKeeps DEF BeginSend
  <2>2. Shape'
    BY <1>1, <2>1 DEF BeginSend, BrokerInv, Shape, consumers
  <2>3. ASSUME NEW u \in Topics
        PROVE  /\ Senders(u)' = Senders(u) \cup {x \in {p} : u = t}
               /\ Takers(u)' = Takers(u) /\ Stopper(u)' = Stopper(u)
    <3>1. sending' = [sending EXCEPT ![p] = <<"push", t>>] /\ sending[p] = <<"idle", None>>
      BY <1>1 DEF BeginSend, BrokerInv, Shape
    <3>2. Senders(u)' = Senders(u) \cup {x \in {p} : u = t}
      BY <3>1 DEF BrokerInv, Shape, Senders
    <3> QED
      BY <1>1, <3>2 DEF BeginSend, Takers, Stopper, consumers
  <2>4. Membership'
    BY <1>1, <2>3 DEF BeginSend, Enter, BrokerInv, Shape, Membership
  <2> QED
    BY <2>1, <2>2, <2>4 DEF BrokerInv
<1>2. CASE Push(p)
  <2> DEFINE t == sending[p][2]
  <2>1. t \in Topics
    BY <1>2 DEF Push, BrokerInv, Shape
  <2>2. <<p, sent[p] + 1>> \in Message
    BY <1>2 DEF Push, BrokerInv, Shape, Message
  <2>3. Shape'
    BY <1>2, <2>1, <2>2 DEF Push, BrokerInv, Shape, consumers
  <2>4. Membership'
    BY <1>2, <2>1
    DEF Push, BrokerInv, Shape, Membership, Senders, Takers, Stopper, consumers
  <2>5. p \in inside[t]
    BY <2>1 DEF BrokerInv, Membership, Senders
  <2>6. Kept'
    BY <1>2, <2>1, <2>5 DEF Push, BrokerInv, Shape, Kept
  <2> QED
    BY <2>3, <2>4, <2>6 DEF BrokerInv
<1>3. CASE EndSend(p)
  <2> DEFINE t == sending[p][2]
  <2>1. t \in Topics
    BY <1>3 DEF EndSend, BrokerInv, Shape
  <2>2. p \in inside[t]
    BY <2>1 DEF BrokerInv, Membership, Senders
  <2>3. Kept'
    BY <1>3, <2>1, <2>2, LeavingKeeps DEF EndSend
  <2>4. /\ inside' = [inside EXCEPT ![t] = @ \ {p}]
        /\ inside' \in [Topics -> SUBSET (Producers \cup Consumers \cup {Main})]
        /\ messages' \in [Topics -> Seq(Message)]
    BY <1>3, <2>1, LeavingShape DEF EndSend
  <2>5. Shape'
    BY <1>3, <2>4 DEF EndSend, BrokerInv, Shape, consumers
  <2>6. Membership'
    BY <1>3, <2>1, <2>4
    DEF EndSend, BrokerInv, Shape, Membership, Senders, Takers, Stopper, consumers
  <2> QED
    BY <2>3, <2>5, <2>6 DEF BrokerInv
<1> QED
  BY <1>1, <1>2, <1>3 DEF ProducerStep

LEMMA ConsumersKeep ==
  ASSUME BrokerInv, NEW c \in Consumers, ConsumerStep(c)
  PROVE  BrokerInv'
<1> USE BrokerAssumption
<1> DEFINE t == TopicOf[c]
<1>0. t \in Topics
  OBVIOUS
<1>1. CASE Check(c) \/ Rest(c)
  <2>1. Shape'
    BY <1>1, ZenonT(40) DEF Check, Rest, BrokerInv, Shape, broker, producers
  <2>2. Membership'
    <3>1. \A u \in Topics : Takers(u)' = Takers(u)
      BY <1>1 DEF Check, Rest, BrokerInv, Shape, Takers
    <3> QED
      BY <1>1, <3>1 DEF Check, Rest, BrokerInv, Membership, Senders, Stopper, broker, producers
  <2>3. Kept'
    BY <1>1 DEF Check, Rest, BrokerInv, Kept, broker
  <2> QED
    BY <2>1, <2>2, <2>3 DEF BrokerInv
<1>2. CASE BeginConsume(c)
  <2>1. Kept' /\ inside' \in [Topics -> SUBSET (Producers \cup Consumers \cup {Main})]
    BY <1>0, <1>2, EnteringKeeps DEF BeginConsume
  <2>2. Shape'
    BY <1>2, <2>1 DEF BeginConsume, BrokerInv, Shape, producers
  <2>3. Membership'
    BY <1>0, <1>2 DEF BeginConsume, Enter, BrokerInv, Shape, Membership, Senders, Takers,
                      Stopper, producers
  <2> QED
    BY <2>1, <2>2, <2>3 DEF BrokerInv
<1>3. CASE Take(c)
  <2>1. messages[t] \in Seq(Message)
    BY <1>0 DEF BrokerInv, Shape
  <2>2. /\ messages[t] # <<>> => Head(messages[t]) \in Message /\ Tail(messages[t]) \in Seq(Message)
        /\ None \notin Message
    BY <2>1, HeadTailProperties DEF Message
  <2>3. messages' \in [Topics -> Seq(Message)] /\ got' \in [Consumers -> Message \cup {None}]
    BY <1>3, <2>1, <2>2 DEF Take, BrokerInv, Shape
  <2>4. Shape'
    BY <1>3, <2>3 DEF Take, BrokerInv, Shape, producers
  <2>5. Membership'
    BY <1>3 DEF Take, BrokerInv, Shape, Membership, Senders, Takers, Stopper, producers
  <2>6. Kept'
    BY <1>0, <1>3 DEF Take, BrokerInv, Shape, Kept
  <2> QED
    BY <2>4, <2>5, <2>6 DEF BrokerInv
<1>4. CASE EndConsume(c)
  <2>1. c \in inside[t]
    BY <1>0, <1>4 DEF EndConsume, BrokerInv, Membership, Takers
  <2>2. Kept'
    BY <1>0, <1>4, <2>1, LeavingKeeps DEF EndConsume
  <2>3. /\ inside' = [inside EXCEPT ![t] = @ \ {c}]
        /\ inside' \in [Topics -> SUBSET (Producers \cup Consumers \cup {Main})]
        /\ messages' \in [Topics -> Seq(Message)]
    BY <1>0, <1>4, LeavingShape DEF EndConsume
  <2>4. Shape'
    BY <1>4, <2>3 DEF EndConsume, BrokerInv, Shape, producers
  <2>5. Membership'
    BY <1>0, <1>4, <2>3
    DEF EndConsume, BrokerInv, Shape, Membership, Senders, Takers, Stopper, producers
  <2> QED
    BY <2>2, <2>4, <2>5 DEF BrokerInv
<1>5. CASE Callback(c)
  <2>1. got[c] \in Message
    BY <1>5 DEF Callback, BrokerInv, Shape
  <2>2. Shape'
    BY <1>5, <2>1 DEF Callback, BrokerInv, Shape, broker, producers
  <2>3. Membership'
    BY <1>5 DEF Callback, BrokerInv, Shape, Membership, Senders, Takers, Stopper,
                broker, producers
  <2>4. Kept'
    BY <1>5 DEF Callback, BrokerInv, Kept, broker
  <2> QED
    BY <2>2, <2>3, <2>4 DEF BrokerInv
<1> QED
  BY <1>1, <1>2, <1>3, <1>4, <1>5 DEF ConsumerStep

LEMMA StoppingKeeps ==
  ASSUME BrokerInv, RunConsumers \/ CallStop \/ StopStep
  PROVE  BrokerInv'
<1> USE BrokerAssumption
<1>1. CASE RunConsumers
  BY <1>1 DEF RunConsumers, BrokerInv, Shape, Membership, Kept, Senders, Takers, Stopper,
              broker, producers
<1>2. CASE CallStop \/ AllSignalled \/ JoinConsumers
  BY <1>2 DEF CallStop, AllSignalled, JoinConsumers, BrokerInv, Shape, Membership, Kept,
              Senders, Takers, Stopper, broker, producers, consumers
<1>3. ASSUME NEW c \in Consumers, StopConsumer(c) PROVE BrokerInv'
  <2>0. TopicOf[c] \in Topics
    OBVIOUS
  <2>1. Kept' /\ inside' \in [Topics -> SUBSET (Producers \cup Consumers \cup {Main})]
    BY <1>3, <2>0, EnteringKeeps DEF StopConsumer
  <2>2. Shape'
    BY <1>3, <2>1 DEF StopConsumer, BrokerInv, Shape, producers
  <2>3. Membership'
    BY <1>3, <2>0 DEF StopConsumer, Enter, BrokerInv, Shape, Membership, Senders, Takers,
                      Stopper, producers
  <2> QED
    BY <2>1, <2>2, <2>3 DEF BrokerInv
<1>4. ASSUME NEW c \in Consumers, CloseTopic(c) PROVE BrokerInv'
  <2>0. TopicOf[c] \in Topics
    OBVIOUS
  <2>1. Main \in inside[TopicOf[c]]
    BY <1>4, <2>0 DEF CloseTopic, BrokerInv, Membership, Stopper
  <2>2. Kept'
    BY <1>4, <2>0, <2>1, LeavingKeeps DEF CloseTopic
  <2>3. /\ inside' = [inside EXCEPT ![TopicOf[c]] = @ \ {Main}]
        /\ inside' \in [Topics -> SUBSET (Producers \cup Consumers \cup {Main})]
        /\ messages' \in [Topics -> Seq(Message)]
    BY <1>4, <2>0, LeavingShape DEF CloseTopic
  <2>4. Shape'
    BY <1>4, <2>3 DEF CloseTopic, BrokerInv, Shape, producers, consumers
  <2>5. Membership'
    BY <1>4, <2>0, <2>3
    DEF CloseTopic, BrokerInv, Shape, Membership, Senders, Takers, Stopper, producers,
        consumers
  <2> QED
    BY <2>2, <2>4, <2>5 DEF BrokerInv
<1> QED
  BY <1>1, <1>2, <1>3, <1>4 DEF StopStep

LEMMA BrokerStep == BrokerInv /\ [Next]_vars => BrokerInv'
<1> SUFFICES ASSUME BrokerInv, [Next]_vars PROVE BrokerInv'
  OBVIOUS
<1>1. CASE UNCHANGED vars
  BY <1>1 DEF vars, broker, producers, consumers, BrokerInv, Shape, Membership, Kept,
              Senders, Takers, Stopper
<1> QED
  BY <1>1, SendersKeep, ConsumersKeep, StoppingKeeps DEF Next

LEMMA BrokerTyping == Spec => []BrokerInv
  BY BrokerInit, BrokerStep, PTL DEF Spec

\* Who is inside a topic is who works on it, and a topic nobody is inside is empty.
THEOREM BrokerTypeCorrect == Spec => []TypeOK
  BY BrokerTyping, BrokerInvTypes, PTL

-----------------------------------------------------------------------------
(* Order *)

\* Two messages of one producer are in the order they were sent.
Before(m, n) == m[1] = n[1] => m[2] < n[2]

Ordered(s) == \A i, j \in DOMAIN s : i < j => Before(s[i], s[j])

\* Each with each in two sequences.
AllBefore(s, r) == \A i \in DOMAIN s, j \in DOMAIN r : Before(s[i], r[j])

WasSent(m, counts) == m[2] <= counts[m[1]]

AllSent(s, counts) == \A i \in DOMAIN s : WasSent(s[i], counts)

Holds(c) == IF got[c] = None THEN <<>> ELSE <<got[c]>>

\* What a consumer has handled was sent before what it holds, and that before what
\* waits in its topic, which is all before what will be sent.
OrderInv ==
    /\ \A t \in Topics : Ordered(messages[t]) /\ AllSent(messages[t], sent)
    /\ \A c \in Consumers :
          /\ Ordered(handled[c]) /\ AllSent(handled[c], sent) /\ AllSent(Holds(c), sent)
          /\ AllBefore(handled[c], Holds(c))
          /\ AllBefore(handled[c], messages[TopicOf[c]])
          /\ AllBefore(Holds(c), messages[TopicOf[c]])

LEMMA OrderInit == Init => OrderInv
  BY BrokerAssumption
  DEF Init, OrderInv, Ordered, AllSent, Holds, AllBefore

LEMMA OrderInvShows == OrderInv => HandledInOrder
  BY DEF OrderInv, HandledInOrder, Ordered, Before

\* A sequence that another message joins.
LEMMA AppendInOrder ==
  ASSUME NEW s \in Seq(Message), NEW m \in Message, NEW counts
  PROVE  /\ Ordered(s) /\ AllBefore(s, <<m>>) => Ordered(Append(s, m))
         /\ AllSent(s, counts) /\ WasSent(m, counts) => AllSent(Append(s, m), counts)
         /\ \A r \in Seq(Message) : AllBefore(s, r) /\ AllBefore(<<m>>, r) => AllBefore(Append(s, m), r)
         /\ \A r \in Seq(Message) : AllBefore(r, s) /\ AllBefore(r, <<m>>) => AllBefore(r, Append(s, m))
<1>1. /\ Len(Append(s, m)) = Len(s) + 1
      /\ \A i \in 1 .. Len(s) : Append(s, m)[i] = s[i]
      /\ Append(s, m)[Len(s) + 1] = m
      /\ DOMAIN Append(s, m) = 1 .. Len(s) + 1
      /\ DOMAIN s = 1 .. Len(s) /\ Len(s) \in Nat
      /\ DOMAIN <<m>> = {1} /\ <<m>>[1] = m
  OBVIOUS
<1> DEFINE a == Append(s, m)
<1> HIDE DEF a
<1>2. \A i \in DOMAIN a : (i \in DOMAIN s /\ a[i] = s[i]) \/ (i = Len(s) + 1 /\ a[i] = m)
  BY <1>1 DEF a
<1>3. Ordered(s) /\ AllBefore(s, <<m>>) => Ordered(a)
  <2> SUFFICES ASSUME Ordered(s), AllBefore(s, <<m>>),
                      NEW i \in DOMAIN a, NEW j \in DOMAIN a, i < j
               PROVE  Before(a[i], a[j])
    BY DEF Ordered
  <2>1. i \in DOMAIN s /\ a[i] = s[i]
    BY <1>1, <1>2 DEF a
  <2> QED
    BY <1>1, <1>2, <2>1 DEF Ordered, AllBefore
<1>4. AllSent(s, counts) /\ WasSent(m, counts) => AllSent(a, counts)
  BY <1>2 DEF AllSent
<1>5. ASSUME NEW r \in Seq(Message), AllBefore(s, r), AllBefore(<<m>>, r) PROVE AllBefore(a, r)
  BY <1>1, <1>2, <1>5 DEF AllBefore
<1>6. ASSUME NEW r \in Seq(Message), AllBefore(r, s), AllBefore(r, <<m>>) PROVE AllBefore(r, a)
  BY <1>1, <1>2, <1>6 DEF AllBefore
<1> QED
  BY <1>3, <1>4, <1>5, <1>6 DEF a

\* A sequence without its first message.
LEMMA TailInOrder ==
  ASSUME NEW s \in Seq(Message), s # <<>>, NEW counts
  PROVE  /\ Ordered(s) => Ordered(Tail(s)) /\ AllBefore(<<Head(s)>>, Tail(s))
         /\ AllSent(s, counts) => AllSent(Tail(s), counts) /\ AllSent(<<Head(s)>>, counts)
         /\ \A r \in Seq(Message) :
               AllBefore(r, s) => AllBefore(r, Tail(s)) /\ AllBefore(r, <<Head(s)>>)
<1>1. /\ \A i \in DOMAIN Tail(s) : i \in Nat /\ i + 1 \in DOMAIN s /\ Tail(s)[i] = s[i + 1] /\ 1 < i + 1
      /\ 1 \in DOMAIN s /\ Head(s) = s[1]
      /\ DOMAIN <<Head(s)>> = {1} /\ <<Head(s)>>[1] = s[1]
  BY HeadTailProperties
<1>2. Ordered(s) => Ordered(Tail(s)) /\ AllBefore(<<Head(s)>>, Tail(s))
  <2> SUFFICES ASSUME Ordered(s) PROVE Ordered(Tail(s)) /\ AllBefore(<<Head(s)>>, Tail(s))
    OBVIOUS
  <2>1. ASSUME NEW i \in DOMAIN Tail(s), NEW j \in DOMAIN Tail(s), i < j
        PROVE  Before(Tail(s)[i], Tail(s)[j])
    <3>1. i + 1 < j + 1
      BY <1>1, <2>1
    <3> QED
      BY <1>1, <3>1 DEF Ordered
  <2>2. AllBefore(<<Head(s)>>, Tail(s))
    BY <1>1 DEF Ordered, AllBefore
  <2> QED
    BY <2>1, <2>2 DEF Ordered
<1>3. AllSent(s, counts) => AllSent(Tail(s), counts) /\ AllSent(<<Head(s)>>, counts)
  BY <1>1 DEF AllSent
<1>4. ASSUME NEW r \in Seq(Message), AllBefore(r, s)
      PROVE  AllBefore(r, Tail(s)) /\ AllBefore(r, <<Head(s)>>)
  BY <1>1, <1>4 DEF AllBefore
<1> QED
  BY <1>2, <1>3, <1>4

\* Messages that are lost with their topic, or stay.
LEMMA LosingInOrder ==
  ASSUME OrderInv, UNCHANGED <<sent, got, handled>>, BrokerInv,
         \A t \in Topics : messages'[t] = messages[t] \/ messages'[t] = <<>>
  PROVE  OrderInv'
<1>1. \A t \in Topics : /\ Ordered(messages[t])' /\ AllSent(messages[t], sent)'
                        /\ \A c \in Consumers : TopicOf[c] = t =>
                              /\ AllBefore(handled[c], messages[t])'
                              /\ AllBefore(Holds(c), messages[t])'
  <2> TAKE t \in Topics
  <2>1. CASE messages'[t] = messages[t]
    BY <2>1 DEF OrderInv, Ordered, AllSent, WasSent, AllBefore, Holds
  <2>2. CASE messages'[t] = <<>>
    BY <2>2 DEF Ordered, AllSent, AllBefore
  <2> QED
    BY <2>1, <2>2
<1>2. \A c \in Consumers : /\ Ordered(handled[c])' /\ AllSent(handled[c], sent)' /\ AllSent(Holds(c), sent)'
                           /\ AllBefore(handled[c], Holds(c))'
  BY DEF OrderInv, Ordered, AllSent, WasSent, AllBefore, Holds
<1>3. \A c \in Consumers : TopicOf[c] \in Topics
  BY BrokerAssumption
<1> QED
  BY <1>1, <1>2, <1>3 DEF OrderInv

\* What is sent comes after all there is.
LEMMA PushingInOrder ==
  ASSUME BrokerInv, OrderInv, NEW p \in Producers, Push(p)
  PROVE  OrderInv'
<1> DEFINE t == sending[p][2]
           m == <<p, sent[p] + 1>>
<1>1. t \in Topics /\ m \in Message /\ sent[p] \in Nat
  BY BrokerAssumption DEF Push, BrokerInv, Shape, Message
<1>2. /\ messages' = [messages EXCEPT ![t] = Append(@, m)]
      /\ sent' = [sent EXCEPT ![p] = @ + 1]
      /\ UNCHANGED <<got, handled>>
  BY DEF Push, consumers
<1>3. /\ \A u \in Topics : messages[u] \in Seq(Message)
      /\ \A c \in Consumers : /\ handled[c] \in Seq(Message) /\ Holds(c) \in Seq(Message)
                              /\ TopicOf[c] \in Topics
  BY BrokerAssumption DEF BrokerInv, Shape, Holds
<1>4. ASSUME NEW n \in Message, WasSent(n, sent) PROVE Before(n, m) /\ WasSent(n, sent)'
  BY <1>1, <1>2, <1>4 DEF WasSent, Before, Message, BrokerInv, Shape
<1>5. ASSUME NEW s \in Seq(Message), AllSent(s, sent) PROVE AllBefore(s, <<m>>) /\ AllSent(s, sent')
  <2>1. \A i \in DOMAIN s : s[i] \in Message
    OBVIOUS
  <2> QED
    BY <1>4, <1>5, <2>1 DEF AllSent, AllBefore
<1>6. WasSent(m, sent')
  BY <1>1, <1>2 DEF WasSent, BrokerInv, Shape
<1>7. ASSUME NEW u \in Topics
      PROVE  /\ Ordered(messages'[u]) /\ AllSent(messages'[u], sent')
             /\ \A c \in Consumers : TopicOf[c] = u =>
                   AllBefore(handled[c], messages'[u]) /\ AllBefore(Holds(c), messages'[u])
  <2>1. CASE u # t
    <3>1. messages'[u] = messages[u]
      BY <1>2, <2>1 DEF BrokerInv, Shape
    <3> QED
      BY <1>2, <1>3, <1>5, <3>1 DEF OrderInv
  <2>2. CASE u = t
    <3> DEFINE s == messages[t]
    <3>1. messages'[t] = Append(s, m) /\ s \in Seq(Message)
      BY <1>1, <1>2, <1>3 DEF BrokerInv, Shape
    <3>2. Ordered(s) /\ AllSent(s, sent) /\ AllBefore(s, <<m>>)
      BY <1>1, <1>3, <1>5 DEF OrderInv
    <3>3. Ordered(Append(s, m))
      BY <1>1, <3>1, <3>2, AppendInOrder
    <3>4. AllSent(s, sent')
      BY <1>5, <3>1, <3>2
    <3>5. AllSent(Append(s, m), sent')
      BY <1>1, <1>6, <3>1, <3>4, AppendInOrder
    <3>6. ASSUME NEW c \in Consumers, TopicOf[c] = t
          PROVE  AllBefore(handled[c], Append(s, m)) /\ AllBefore(Holds(c), Append(s, m))
      <4>1. AllBefore(handled[c], s) /\ AllBefore(Holds(c), s)
        BY <3>6 DEF OrderInv
      <4>2. AllBefore(handled[c], <<m>>) /\ AllBefore(Holds(c), <<m>>)
        BY <1>3, <1>5 DEF OrderInv
      <4> QED
        BY <1>1, <1>3, <3>1, <4>1, <4>2, AppendInOrder
    <3> QED
      BY <2>2, <3>1, <3>3, <3>5, <3>6
  <2> QED
    BY <2>1, <2>2
<1>8. ASSUME NEW c \in Consumers
      PROVE  /\ Ordered(handled[c])' /\ AllSent(handled[c], sent)' /\ AllSent(Holds(c), sent)'
             /\ AllBefore(handled[c], Holds(c))'
  <2>1. AllSent(handled[c], sent') /\ AllSent(Holds(c), sent')
    BY <1>3, <1>5 DEF OrderInv
  <2>2. Holds(c)' = Holds(c) /\ handled' = handled
    BY <1>2 DEF Holds
  <2>3. Ordered(handled[c]) /\ AllBefore(handled[c], Holds(c))
    BY DEF OrderInv
  <2> QED
    BY <2>1, <2>2, <2>3
<1>9. \A c \in Consumers : Holds(c)' = Holds(c) /\ handled' = handled
  BY <1>2 DEF Holds
<1> QED
  BY <1>3, <1>7, <1>8, <1>9 DEF OrderInv

\* Who takes the first message of a topic holds what is before the others.
LEMMA TakingInOrder ==
  ASSUME BrokerInv, OrderInv, NEW c \in Consumers, Take(c)
  PROVE  OrderInv'
<1> DEFINE t == TopicOf[c]
           s == messages[t]
<1>1. /\ t \in Topics /\ s \in Seq(Message)
      /\ \A d \in Consumers : TopicOf[d] \in Topics /\ handled[d] \in Seq(Message)
                              /\ Holds(d) \in Seq(Message)
  BY BrokerAssumption DEF BrokerInv, Shape, Holds
<1>2. CASE s = <<>>
  <2>1. got' = [got EXCEPT ![c] = None] /\ messages' = messages /\ UNCHANGED <<sent, handled>>
    BY <1>1, <1>2 DEF Take, producers, BrokerInv, Shape
  <2>2. \A d \in Consumers : Holds(d)' = <<>> \/ Holds(d)' = Holds(d)
    BY <2>1 DEF Holds, BrokerInv, Shape
  <2>3. ASSUME NEW d \in Consumers
        PROVE  /\ AllSent(Holds(d)', sent) /\ AllBefore(handled[d], Holds(d)')
               /\ AllBefore(Holds(d)', messages[TopicOf[d]])
    BY <2>2 DEF OrderInv, AllSent, AllBefore
  <2> QED
    BY <2>1, <2>3 DEF OrderInv, Ordered, AllSent, WasSent, AllBefore
<1>3. CASE s # <<>>
  <2> DEFINE m == Head(s)
  <2>1. /\ got' = [got EXCEPT ![c] = m] /\ messages' = [messages EXCEPT ![t] = Tail(s)]
        /\ UNCHANGED <<sent, handled>>
    BY <1>1, <1>3 DEF Take, producers, BrokerInv, Shape
  <2>2. m \in Message /\ m # None
    BY <1>1, <1>3, HeadTailProperties, BrokerAssumption DEF Message
  <2>3. ASSUME NEW d \in Consumers
        PROVE  \/ d = c /\ Holds(d)' = <<m>>
               \/ d # c /\ Holds(d)' = Holds(d)
    BY <2>1, <2>2 DEF Holds, BrokerInv, Shape
  <2>4. ASSUME NEW u \in Topics
        PROVE  \/ u = t /\ messages'[u] = Tail(s)
               \/ u # t /\ messages'[u] = messages[u]
    BY <1>1, <2>1 DEF BrokerInv, Shape
  <2>5. /\ Ordered(Tail(s)) /\ AllBefore(<<m>>, Tail(s)) /\ AllSent(Tail(s), sent) /\ AllSent(<<m>>, sent)
        /\ \A r \in Seq(Message) : AllBefore(r, s) => AllBefore(r, Tail(s)) /\ AllBefore(r, <<m>>)
    BY <1>1, <1>3, TailInOrder DEF OrderInv
  <2>6. \A u \in Topics : Ordered(messages'[u]) /\ AllSent(messages'[u], sent)
    BY <2>4, <2>5 DEF OrderInv
  <2>7. ASSUME NEW d \in Consumers
        PROVE  /\ AllSent(Holds(d)', sent)
               /\ AllBefore(handled[d], Holds(d)')
               /\ AllBefore(handled[d], messages'[TopicOf[d]])
               /\ AllBefore(Holds(d)', messages'[TopicOf[d]])
    <3>1. AllBefore(handled[d], messages'[TopicOf[d]])
      BY <1>1, <2>4, <2>5 DEF OrderInv
    <3>2. CASE d = c
      BY <1>1, <2>3, <2>4, <2>5, <3>1, <3>2 DEF OrderInv
    <3>3. CASE d # c
      BY <1>1, <2>3, <2>4, <2>5, <3>1, <3>3 DEF OrderInv
    <3> QED
      BY <3>2, <3>3
  <2> QED
    BY <2>1, <2>6, <2>7 DEF OrderInv, Ordered, AllSent, WasSent, AllBefore
<1> QED
  BY <1>2, <1>3

\* The callback is given what the consumer holds.
LEMMA CallingInOrder ==
  ASSUME BrokerInv, OrderInv, NEW c \in Consumers, Callback(c)
  PROVE  OrderInv'
<1> DEFINE m == got[c]
<1>1. /\ m \in Message /\ m # None /\ Holds(c) = <<m>>
      /\ \A d \in Consumers : handled[d] \in Seq(Message) /\ TopicOf[d] \in Topics
      /\ \A t \in Topics : messages[t] \in Seq(Message)
  BY BrokerAssumption DEF Callback, BrokerInv, Shape, Holds
<1>2. /\ handled' = [handled EXCEPT ![c] = Append(@, m)] /\ got' = [got EXCEPT ![c] = None]
      /\ UNCHANGED <<sent, messages>>
  BY DEF Callback, broker, producers
<1>3. ASSUME NEW d \in Consumers
      PROVE  \/ d = c /\ Holds(d)' = <<>> /\ handled'[d] = Append(handled[d], m)
             \/ d # c /\ Holds(d)' = Holds(d) /\ handled'[d] = handled[d]
  BY <1>2 DEF Holds, BrokerInv, Shape
<1>4. WasSent(m, sent) /\ AllBefore(handled[c], <<m>>) /\ AllBefore(<<m>>, messages[TopicOf[c]])
  BY <1>1 DEF OrderInv, AllSent
<1>5. ASSUME NEW d \in Consumers
      PROVE  /\ Ordered(handled'[d]) /\ AllSent(handled'[d], sent)
             /\ AllSent(Holds(d)', sent) /\ AllBefore(handled'[d], Holds(d)')
             /\ AllBefore(handled'[d], messages[TopicOf[d]])
             /\ AllBefore(Holds(d)', messages[TopicOf[d]])
  <2>1. CASE d = c
    <3> DEFINE s == handled[c]
               r == messages[TopicOf[c]]
    <3>1. s \in Seq(Message) /\ r \in Seq(Message)
      BY <1>1
    <3>2. Ordered(s) /\ AllSent(s, sent) /\ AllBefore(s, r)
      BY DEF OrderInv
    <3>3. Ordered(Append(s, m)) /\ AllSent(Append(s, m), sent)
      BY <1>1, <1>4, <3>1, <3>2, AppendInOrder
    <3>4. AllBefore(Append(s, m), r)
      BY <1>1, <1>4, <3>1, <3>2, AppendInOrder
    <3>5. handled'[c] = Append(s, m) /\ Holds(c)' = <<>>
      BY <1>3
    <3>6. AllSent(Holds(c)', sent) /\ AllBefore(handled'[c], Holds(c)') /\ AllBefore(Holds(c)', r)
      BY <3>5 DEF AllSent, AllBefore
    <3> QED
      BY <2>1, <3>3, <3>4, <3>5, <3>6
  <2>2. CASE d # c
    BY <1>3, <2>2 DEF OrderInv
  <2> QED
    BY <2>1, <2>2
<1> QED
  BY <1>2, <1>5 DEF OrderInv, Ordered, AllSent, WasSent, AllBefore

LEMMA OrderStep == BrokerInv /\ OrderInv /\ [Next]_vars => OrderInv'
<1> SUFFICES ASSUME BrokerInv, OrderInv, [Next]_vars PROVE OrderInv'
  OBVIOUS
<1> USE DEF broker, producers, consumers
<1>0. ASSUME NEW t \in Topics, NEW x, Leave(t, x)
      PROVE  \A u \in Topics : messages'[u] = messages[u] \/ messages'[u] = <<>>
  BY <1>0 DEF Leave, BrokerInv, Shape
<1>1. ASSUME NEW p \in Producers, ProducerStep(p) \/ \E t \in Topics : BeginSend(p, t)
      PROVE  OrderInv'
  <2>1. CASE Push(p)
    BY <2>1, PushingInOrder
  <2>2. CASE EndSend(p)
    <3>1. sending[p][2] \in Topics
      BY <2>2 DEF EndSend, BrokerInv, Shape
    <3> QED
      BY <1>0, <2>2, <3>1, LosingInOrder DEF EndSend
  <2>3. CASE \E t \in Topics : BeginSend(p, t)
    BY <2>3, LosingInOrder DEF BeginSend
  <2> QED
    BY <1>1, <2>1, <2>2, <2>3 DEF ProducerStep
<1>2. ASSUME NEW c \in Consumers, ConsumerStep(c) PROVE OrderInv'
  <2>1. CASE Take(c)
    BY <2>1, TakingInOrder
  <2>2. CASE Callback(c)
    BY <2>2, CallingInOrder
  <2>3. CASE EndConsume(c)
    <3>1. TopicOf[c] \in Topics
      BY BrokerAssumption
    <3> QED
      BY <1>0, <2>3, <3>1, LosingInOrder DEF EndConsume
  <2>4. CASE Check(c) \/ BeginConsume(c) \/ Rest(c)
    BY <2>4, LosingInOrder DEF Check, BeginConsume, Rest
  <2> QED
    BY <1>2, <2>1, <2>2, <2>3, <2>4 DEF ConsumerStep
<1>3. ASSUME NEW c \in Consumers, StopConsumer(c) \/ CloseTopic(c) PROVE OrderInv'
  <2>1. TopicOf[c] \in Topics
    BY BrokerAssumption
  <2> QED
    BY <1>0, <1>3, <2>1, LosingInOrder DEF StopConsumer, CloseTopic
<1>4. CASE RunConsumers \/ CallStop \/ AllSignalled \/ JoinConsumers \/ UNCHANGED vars
  BY <1>4, LosingInOrder DEF RunConsumers, CallStop, AllSignalled, JoinConsumers, vars
<1> QED
  BY <1>1, <1>2, <1>3, <1>4 DEF Next, StopStep

LEMMA BrokerOrder == Spec => []OrderInv
  BY OrderInit, OrderStep, BrokerTyping, PTL DEF Spec

\* Of one producer, callbacks are given messages in the order they were sent and
\* none twice, whatever dies and is created again in between.
THEOREM CallbacksInOrder == Spec => []HandledInOrder
  BY BrokerOrder, OrderInvShows, PTL
=============================================================================
