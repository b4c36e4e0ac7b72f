--------------------------- MODULE HttpServerProofs ---------------------------
(***************************************************************************)
(* Proofs about the HTTP library's server and client, for any number of    *)
(* connections and threads and any scripts of the clients.                 *)
(***************************************************************************)
EXTENDS HttpClient, SetInduction, SequenceTheorems, TLAPS

-----------------------------------------------------------------------------
(* Types *)

Item == [number : Nat, part : {"head", "body"}]

\* Where a thread works on a request, and where it holds a connection.
Active == {"line", "content", "handling", "answering"}
Busy == Active \cup {"looking", "polling", "reading", "leaving"}

WorkerState == [
    pc : Busy \cup {"idle", "exited"},
    conn : Connections \cup {None},
    left : 0 .. KeepAliveMax,
    req : Nat,
    held : Seq(Item),
    ends : BOOLEAN,
    status : Nat]

Serves(w, c) == worker[w].pc \in Busy /\ worker[w].conn = c

Numbered(c, n) == n \in 1 .. Len(client[c].sends)

\* What clients send and are answered.
Wires ==
    /\ client \in Clients
    /\ next \in [Connections -> Item]
    /\ \A c \in Connections :
          /\ next[c].number # 0
          /\ next[c].part = "body" => Numbered(c, next[c].number)
    /\ arrived \in [Connections -> Seq(Item)]
    /\ \A c \in Connections : \A i \in DOMAIN arrived[c] : Numbered(c, arrived[c][i].number)
    /\ answers \in [Connections -> Seq([to : Nat, status : Nat, close : BOOLEAN])]
    /\ eof \subseteq Connections

Threads ==
    /\ sock \in [Connections -> {"none", "backlog", "queued", "served", "closed"}]
    /\ jobs \in Seq(Connections)
    /\ worker \in [Workers -> WorkerState]
    /\ \A w \in Workers :
          /\ worker[w].pc \in Busy => worker[w].conn \in Connections /\ worker[w].left # 0
          /\ worker[w].pc \in {"content", "handling"} => worker[w].req # 0
          /\ worker[w].pc \in Active /\ worker[w].req # 0
                => Numbered(worker[w].conn, worker[w].req)

Flags ==
    /\ listener \in {"called", "bound", "accepting", "draining", "returned"}
    /\ stopping \in {"no", "ignored", "closing", "stopped"}
    /\ svrSock \in BOOLEAN
    /\ fdOpen \in BOOLEAN
    /\ isRunning \in BOOLEAN

Shape == Wires /\ Threads /\ Flags

LEMMA RequestsTyped ==
  ASSUME Shape, NEW c \in Connections, NEW n, Numbered(c, n)
  PROVE  RequestOf(c, n) \in Request
  BY HttpAssumption DEF Shape, Wires, RequestOf, Numbered

LEMMA StatusTyped == \A r : HandlerStatus(r) \in Nat /\ Refusal(r) \in {0, 400, 414, 416}
<1>1. \A r : Refusal(r) \in {0, 400, 414, 416}
  BY DEF Refusal
<1>2. \A ranges : ApplyRanges(ranges, BodyLength, 200).status \in {200, 206, 416}
  BY DEF ApplyRanges
<1>3. \A r : HandlerStatus(r) \in Nat
  BY <1>2 DEF HandlerStatus
<1> QED
  BY <1>1, <1>3

LEMMA IdleTyped == Idle \in WorkerState /\ Idle.pc = "idle"
  BY HttpAssumption DEF Idle, WorkerState

LEMMA ShapeInit == Init => Shape
<1> SUFFICES ASSUME Init PROVE Shape
  OBVIOUS
<1>2. worker \in [Workers -> WorkerState] /\ \A w \in Workers : worker[w].pc = "idle"
  BY IdleTyped DEF Init
<1>3. /\ next \in [Connections -> Item]
      /\ \A c \in Connections : next[c].number = 1 /\ next[c].part = "head"
  BY DEF Init, Item
<1>4. arrived \in [Connections -> Seq(Item)] /\ \A c \in Connections : arrived[c] = <<>>
  BY DEF Init
<1>5. answers \in [Connections -> Seq([to : Nat, status : Nat, close : BOOLEAN])]
  BY DEF Init
<1>6. Wires
  BY <1>3, <1>4, <1>5 DEF Init, Wires
<1>7. Threads
  BY <1>2 DEF Init, Threads, Busy, Active
<1>8. Flags
  BY DEF Init, Flags
<1> QED
  BY <1>6, <1>7, <1>8 DEF Shape

\* What a client does.
LEMMA ClientShape ==
  ASSUME Shape, NEW c \in Connections, Connect(c) \/ Send(c) \/ Hangup(c)
  PROVE  Shape'
<1>1. CASE Connect(c)
  BY <1>1 DEF Connect, Shape, Wires, Threads, Flags, clientVars, serverVars, Numbered
<1>2. CASE Send(c)
  <2> DEFINE n == next[c].number
  <2>1. Numbered(c, n) /\ next[c] \in Item /\ n # 0
    BY <1>2 DEF Send, MaySend, Remaining, Numbered, Shape, Wires, Item
  <2>2. arrived' = [arrived EXCEPT ![c] = Append(@, next[c])]
    BY <1>2 DEF Send
  <2>3. /\ arrived' \in [Connections -> Seq(Item)]
        /\ \A d \in Connections : \A i \in DOMAIN arrived'[d] : Numbered(d, arrived'[d][i].number)
    BY <2>1, <2>2 DEF Shape, Wires
  <2>4. /\ next' \in [Connections -> Item]
        /\ \A d \in Connections : /\ next'[d].number # 0
                                  /\ next'[d].part = "body" => Numbered(d, next'[d].number)
    <3> DEFINE then == IF next[c].part = "head" /\ RequestOf(c, n).body = "whole"
                       THEN [next[c] EXCEPT !.part = "body"]
                       ELSE [number |-> n + 1, part |-> "head"]
    <3>1. then \in Item /\ then.number # 0 /\ (then.part = "body" => then.number = n)
      BY <2>1 DEF Item
    <3>2. next' = [next EXCEPT ![c] = then]
      BY <1>2 DEF Send
    <3> HIDE DEF then
    <3> QED
      BY <2>1, <3>1, <3>2 DEF Shape, Wires
  <2> QED
    BY <1>2, <2>3, <2>4 DEF Send, Shape, Wires, Threads, Flags, serverVars, Numbered
<1>3. CASE Hangup(c)
  BY <1>3 DEF Hangup, Shape, Wires, Threads, Flags, serverVars, Numbered
<1> QED
  BY <1>1, <1>2, <1>3

\* What the thread in listen and the one that stops it do.
LEMMA ListenerShape ==
  ASSUME Shape, Bind \/ FailToBind \/ ListenerStep \/ AcceptFails \/ Stop \/ StopCloses
  PROVE  Shape'
<1>1. Reset \in [Connections -> {"none", "backlog", "queued", "served", "closed"}]
  BY DEF Shape, Threads, Reset
<1>2. CASE Bind \/ FailToBind \/ ListenInternal \/ AcceptFails \/ ListenReturns \/ Stop
           \/ StopCloses
  <2>1. UNCHANGED <<client, next, arrived, answers, eof, jobs, worker>>
    BY <1>2 DEF Bind, FailToBind, ListenInternal, AcceptFails, ListenReturns, Stop, StopCloses,
                clientVars, serverVars
  <2>2. sock' \in {sock, Reset}
    BY <1>2 DEF Bind, FailToBind, ListenInternal, AcceptFails, ListenReturns, Stop, StopCloses,
                clientVars, serverVars
  <2>3. Wires'
    BY <2>1 DEF Shape, Wires, Numbered
  <2>4. Threads'
    BY <1>1, <2>1, <2>2 DEF Shape, Threads, Numbered
  <2>5. Flags'
    BY <1>2 DEF Bind, FailToBind, ListenInternal, AcceptFails, ListenReturns, Stop, StopCloses,
                serverVars, Shape, Flags
  <2> QED
    BY <2>3, <2>4, <2>5 DEF Shape
<1>3. ASSUME NEW c \in Connections, Accept(c) PROVE Shape'
  <2>1. jobs' \in Seq(Connections)
    BY <1>3 DEF Accept, Shape, Threads
  <2>2. Threads'
    BY <1>3, <2>1 DEF Accept, Shape, Threads, clientVars, Numbered
  <2>3. Wires' /\ Flags'
    BY <1>3 DEF Accept, Shape, Wires, Flags, clientVars, serverVars, Numbered
  <2> QED
    BY <2>2, <2>3 DEF Shape
<1> QED
  BY <1>2, <1>3 DEF ListenerStep

\* A thread's new state has the right type.
Proper(state) ==
    /\ state \in WorkerState
    /\ state.pc \in Busy => state.conn \in Connections /\ state.left # 0
    /\ state.pc \in {"content", "handling"} => state.req # 0
    /\ state.pc \in Active /\ state.req # 0 => Numbered(state.conn, state.req)

LEMMA BecomingProper ==
  ASSUME Shape, NEW w \in Workers, NEW state, Proper(state), Becomes(w, state),
         client' = client,
         sock' \in [Connections -> {"none", "backlog", "queued", "served", "closed"}],
         jobs' \in Seq(Connections)
  PROVE  Threads'
  BY DEF Becomes, Proper, Shape, Threads, Numbered

\* A thread that goes on with the same work.
LEMMA GoingProper ==
  ASSUME Shape, NEW w \in Workers, NEW pc \in Busy, worker[w].pc \in Busy,
         pc \in Active => worker[w].pc \in Active,
         pc \in {"content", "handling"} => worker[w].req # 0
  PROVE  Proper([worker[w] EXCEPT !.pc = pc])
  BY DEF Shape, Threads, Proper, WorkerState

\* What is read is gone.
Emptied == arrived' \in [Connections -> Seq(Item)]
           /\ \A d \in Connections : arrived'[d] \in {arrived[d], <<>>}

LEMMA ReadingEmpties ==
  ASSUME Shape, NEW d \in Connections, NEW kept \in BOOLEAN,
         arrived' = [arrived EXCEPT ![d] = IF kept THEN @ ELSE <<>>]
  PROVE  Emptied
<1>1. <<>> \in Seq(Item) /\ arrived \in [Connections -> Seq(Item)]
  BY DEF Shape, Wires
<1> QED
  BY <1>1 DEF Emptied

LEMMA EmptyingShape ==
  ASSUME Shape, Emptied \/ arrived' = arrived, UNCHANGED <<client, next, eof, answers>>
  PROVE  Wires'
  BY SMTT(30) DEF Emptied, Shape, Wires, Numbered

LEMMA UnreadTyped ==
  ASSUME Shape, NEW w \in Workers, worker[w].pc \in Busy
  PROVE  /\ Unread(w) \in Seq(Item)
         /\ Unread(w) # <<>> => Head(Unread(w)) \in Item /\ Tail(Unread(w)) \in Seq(Item)
<1>1. Unread(w) \in Seq(Item)
  BY DEF Shape, Wires, Threads, WorkerState, Unread
<1> QED
  BY <1>1, HeadTailProperties

LEMMA WorkerShape ==
  ASSUME Shape, NEW w \in Workers, WorkerStep(w) \/ TimeoutStep(w)
  PROVE  Shape'
<1> DEFINE c == worker[w].conn
<1>0. /\ worker[w] \in WorkerState
      /\ worker[w].pc \in Busy => c \in Connections /\ worker[w].left # 0
  BY DEF Shape, Threads
<1>1. CASE TakeJob(w)
  <2>1. jobs # <<>> /\ Head(jobs) \in Connections /\ Tail(jobs) \in Seq(Connections)
    BY <1>1, HeadTailProperties DEF TakeJob, Shape, Threads
  <2> DEFINE state == [Idle EXCEPT !.pc = "looking", !.conn = Head(jobs), !.left = KeepAliveMax]
  <2>2. Proper(state)
    <3>1. KeepAliveMax \in 0 .. KeepAliveMax /\ KeepAliveMax # 0
      BY HttpAssumption
    <3>2. state \in WorkerState
      BY <2>1, <3>1, IdleTyped DEF WorkerState, Busy
    <3>3. state.pc = "looking" /\ state.conn = Head(jobs) /\ state.left = KeepAliveMax
      BY IdleTyped DEF WorkerState
    <3> QED
      BY <2>1, <3>1, <3>2, <3>3 DEF Proper, Active
  <2>3. Becomes(w, state)
    BY <1>1 DEF TakeJob
  <2>4. Threads'
    BY <1>1, <2>1, <2>2, <2>3, BecomingProper DEF TakeJob, Shape, Threads, clientVars
  <2>5. Wires' /\ Flags'
    BY <1>1 DEF TakeJob, Shape, Wires, Flags, clientVars, serverVars, Numbered
  <2> QED
    BY <2>4, <2>5 DEF Shape
<1>2. CASE Exit(w)
  <2>1. Proper([worker[w] EXCEPT !.pc = "exited"])
    BY <1>0 DEF Proper, WorkerState, Busy, Active
  <2>2. Threads'
    BY <1>2, <2>1, BecomingProper DEF Exit, GoesTo, Shape, Threads, clientVars
  <2> QED
    BY <1>2, <2>2 DEF Exit, Shape, Wires, Flags, clientVars, serverVars, Numbered
<1>3. CASE FirstLook(w) \/ Ready(w) \/ SeeStop(w) \/ KeepAliveTimeout(w) \/ ReadLineTimeout(w)
  <2>1. PICK pc \in {"reading", "polling", "leaving", "answering"} :
            /\ GoesTo(w, pc)
            /\ worker[w].pc \in Busy
            /\ pc = "answering" => worker[w].pc \in Active
    BY <1>3 DEF FirstLook, Ready, SeeStop, KeepAliveTimeout, ReadLineTimeout, At, Busy, Active
  <2>2. Proper([worker[w] EXCEPT !.pc = pc])
    BY <2>1, GoingProper DEF Busy, Active
  <2>3. UNCHANGED <<clientVars, arrived, answers, sock, jobs, listener, serverVars>>
    BY <1>3 DEF FirstLook, Ready, SeeStop, KeepAliveTimeout, ReadLineTimeout
  <2>4. Threads'
    BY <2>1, <2>2, <2>3, BecomingProper DEF GoesTo, Shape, Threads, clientVars
  <2> QED
    BY <2>3, <2>4 DEF Shape, Wires, Flags, clientVars, serverVars, Numbered
<1>4. CASE ReadHead(w)
  <2> DEFINE first == Head(arrived[c])
             r == RequestOf(c, first.number)
             rest == Tail(arrived[c])
             begun == [worker[w] EXCEPT !.req = first.number, !.held = rest,
                                        !.ends = EndsConnection(r), !.status = Refusal(r)]
             stray == [worker[w] EXCEPT !.pc = "line", !.held = rest, !.req = 0, !.status = 400]
  <2>1. worker[w].pc = "reading" /\ c \in Connections /\ arrived[c] \in Seq(Item)
    BY <1>0, <1>4 DEF ReadHead, At, Busy, Shape, Wires
  <2>2. ASSUME arrived[c] # <<>>
        PROVE  /\ first \in Item /\ rest \in Seq(Item) /\ first = arrived[c][1]
               /\ Numbered(c, first.number)
    <3>1. first \in Item /\ rest \in Seq(Item) /\ first = arrived[c][1] /\ 1 \in DOMAIN arrived[c]
      BY <2>1, <2>2, HeadTailProperties
    <3> QED
      BY <2>1, <3>1 DEF Shape, Wires
  <2>3. \E state : Proper(state) /\ Becomes(w, state)
    <3>1. CASE arrived[c] = <<>>
      <4>1. GoesTo(w, "leaving")
        BY <1>4, <3>1 DEF ReadHead
      <4>2. Proper([worker[w] EXCEPT !.pc = "leaving"])
        BY <2>1, GoingProper DEF Busy, Active
      <4> QED
        BY <4>1, <4>2 DEF GoesTo
    <3>2. CASE arrived[c] # <<>> /\ first.part = "body"
      <4>1. Becomes(w, stray)
        BY <1>4, <3>2 DEF ReadHead
      <4>2. Proper(stray)
        <5> DEFINE pc == "line"
                   none == 0
                   badRequest == 400
        <5>0. pc \in Busy /\ rest \in Seq(Item) /\ none \in Nat /\ badRequest \in Nat
          BY <2>2, <3>2 DEF Busy, Active
        <5>1. [worker[w] EXCEPT !.pc = pc, !.held = rest, !.req = none, !.status = badRequest]
                 \in WorkerState
          <6> HIDE DEF pc, none, badRequest, rest
          <6> QED
            BY <1>0, <5>0 DEF WorkerState
        <5>2. /\ stray.pc = "line" /\ stray.conn = c /\ stray.left = worker[w].left
              /\ stray.req = 0
          BY <1>0 DEF WorkerState
        <5> QED
          BY <1>0, <2>1, <5>1, <5>2 DEF Proper, Busy
      <4> QED
        BY <4>1, <4>2
    <3>3. CASE arrived[c] # <<>> /\ first.part # "body"
      <4> DEFINE pc == IF Refusal(r) = 414 THEN "line"
                       ELSE IF Refusal(r) # 0 THEN "answering"
                       ELSE IF ExpectsContent(r) THEN "content" ELSE "handling"
                 state == [begun EXCEPT !.pc = pc]
      <4>1. Becomes(w, state)
        BY <1>4, <3>3 DEF ReadHead
      <4>2. pc \in Active
        BY DEF Active
      <4>3. Refusal(r) \in Nat /\ EndsConnection(r) \in BOOLEAN
        BY StatusTyped DEF EndsConnection
      <4>4. first.number \in Nat /\ first.number # 0
        BY <2>2, <3>3 DEF Item, Numbered
      <4>5. begun \in WorkerState /\ begun.conn = c /\ begun.left = worker[w].left
            /\ begun.req = first.number
        BY <1>0, <2>2, <3>3, <4>3, <4>4 DEF WorkerState
      <4>6. Proper(state)
        <5> HIDE DEF begun, pc
        <5>1. state \in WorkerState /\ state.conn = c /\ state.left = worker[w].left
              /\ state.req = first.number
          BY <4>2, <4>5, SMTT(30) DEF WorkerState, Busy
        <5> QED
          BY <1>0, <2>1, <2>2, <3>3, <4>4, <5>1 DEF Proper, Busy
      <4> QED
        BY <4>1, <4>6
    <3> QED
      BY <3>1, <3>2, <3>3
  <2>4. Threads'
    BY <1>4, <2>3, BecomingProper DEF ReadHead, Shape, Threads
  <2>5. Emptied
    BY <1>4, <2>1, ReadingEmpties DEF ReadHead
  <2>6. Wires'
    BY <1>4, <2>5, EmptyingShape DEF ReadHead
  <2>7. Flags'
    BY <1>4 DEF ReadHead, Shape, Flags, serverVars
  <2> QED
    BY <2>4, <2>6, <2>7, SMTT(30) DEF Shape
<1>5. CASE ReadLine(w)
  <2>1. worker[w].pc = "line" /\ c \in Connections
    BY <1>0, <1>5 DEF ReadLine, At, Busy, Active
  <2>2. Emptied \/ arrived' = arrived
    BY <1>5, <2>1, ReadingEmpties DEF ReadLine, AfterReading
  <2>3. Wires'
    BY <1>5, <2>2, EmptyingShape DEF ReadLine, clientVars
  <2>4. PICK pc \in {"line", "answering"}, held \in Seq(Item) :
            Becomes(w, [worker[w] EXCEPT !.pc = pc, !.held = held])
    <3>1. CASE Unread(w) # <<>>
      <4>1. Tail(Unread(w)) \in Seq(Item)
        BY <2>1, <3>1, UnreadTyped DEF Busy, Active
      <4> QED
        BY <1>5, <3>1, <4>1 DEF ReadLine
    <3>2. CASE Unread(w) = <<>>
      <4>1. worker[w].held \in Seq(Item)
        BY <1>0 DEF WorkerState
      <4>2. [worker[w] EXCEPT !.pc = "answering", !.held = worker[w].held]
               = [worker[w] EXCEPT !.pc = "answering"]
        BY <1>0 DEF WorkerState
      <4> QED
        BY <1>5, <3>2, <4>1, <4>2 DEF ReadLine, GoesTo
    <3> QED
      BY <3>1, <3>2
  <2> DEFINE state == [worker[w] EXCEPT !.pc = pc, !.held = held]
  <2>5. Proper(state)
    <3>1. /\ state \in WorkerState /\ state.pc = pc /\ state.conn = c
          /\ state.left = worker[w].left /\ state.req = worker[w].req
      BY <1>0, <2>4 DEF WorkerState, Busy, Active
    <3> HIDE DEF state
    <3> QED
      BY <1>0, <2>1, <3>1 DEF Proper, Busy, Active, Shape, Threads
  <2>6. Threads'
    BY <1>5, <2>4, <2>5, BecomingProper DEF ReadLine, Shape, Threads, clientVars
  <2> QED
    BY <1>5, <2>3, <2>6 DEF ReadLine, Shape, Flags, serverVars
<1>6. CASE ReadContent(w)
  <2>1. worker[w].pc = "content" /\ c \in Connections /\ worker[w].req # 0
    BY <1>0, <1>6 DEF ReadContent, At, Busy, Active, Shape, Threads
  <2>2. Emptied
    BY <1>6, <2>1, ReadingEmpties DEF ReadContent, AfterReading
  <2>3. Wires'
    BY <1>6, <2>2, EmptyingShape DEF ReadContent, clientVars
  <2>4. PICK held \in Seq(Item) : Becomes(w, [worker[w] EXCEPT !.pc = "handling", !.held = held])
    <3>1. <<>> \in Seq(Item)
      OBVIOUS
    <3>2. Unread(w) # <<>> => Tail(Unread(w)) \in Seq(Item)
      BY <2>1, UnreadTyped DEF Busy, Active
    <3> QED
      BY <1>6, <3>1, <3>2 DEF ReadContent
  <2> DEFINE state == [worker[w] EXCEPT !.pc = "handling", !.held = held]
  <2>5. Proper(state)
    <3>1. /\ state \in WorkerState /\ state.pc = "handling" /\ state.conn = c
          /\ state.left = worker[w].left /\ state.req = worker[w].req
      BY <1>0, <2>4 DEF WorkerState, Busy, Active
    <3> HIDE DEF state
    <3> QED
      BY <1>0, <2>1, <3>1 DEF Proper, Busy, Active, Shape, Threads
  <2>6. Threads'
    BY <1>6, <2>4, <2>5, BecomingProper DEF ReadContent, Shape, Threads, clientVars
  <2> QED
    BY <1>6, <2>3, <2>6 DEF ReadContent, Shape, Flags, serverVars
<1>7. CASE ReadContentFails(w) \/ Handle(w)
  <2>1. worker[w].pc \in {"content", "handling"} /\ c \in Connections
    BY <1>0, <1>7 DEF ReadContentFails, Handle, At, Busy, Active
  <2>2. Emptied \/ arrived' = arrived
    BY <1>7, <2>1, ReadingEmpties DEF ReadContentFails, Handle
  <2>3. Wires'
    BY <1>7, <2>2, EmptyingShape DEF ReadContentFails, Handle, clientVars
  <2>4. PICK status \in Nat : Answering(w, status)
    BY <1>7, StatusTyped DEF ReadContentFails, Handle
  <2> DEFINE state == [worker[w] EXCEPT !.pc = "answering", !.status = status]
  <2>5. Proper(state)
    <3>1. /\ state \in WorkerState /\ state.pc = "answering" /\ state.conn = c
          /\ state.left = worker[w].left /\ state.req = worker[w].req
      BY <1>0, <2>4 DEF WorkerState, Busy, Active
    <3> HIDE DEF state
    <3> QED
      BY <1>0, <2>1, <3>1 DEF Proper, Busy, Active, Shape, Threads
  <2>6. Becomes(w, state)
    BY <2>4 DEF Answering
  <2>7. Threads'
    BY <1>7, <2>5, <2>6, BecomingProper DEF ReadContentFails, Handle, Shape, Threads, clientVars
  <2> QED
    BY <1>7, <2>3, <2>7 DEF ReadContentFails, Handle, Shape, Flags, serverVars
<1>8. CASE AnswerRequest(w)
  <2>1. worker[w].pc = "answering" /\ c \in Connections /\ worker[w].left # 0
    BY <1>0, <1>8 DEF AnswerRequest, At, Busy, Active
  <2> DEFINE n == worker[w].req
             close == worker[w].left = 1 \/ (n # 0 /\ RequestOf(c, n).close)
             answer == [to |-> n, status |-> worker[w].status, close |-> close]
  <2>2. answer \in [to : Nat, status : Nat, close : BOOLEAN]
    <3>1. n # 0 => RequestOf(c, n).close \in BOOLEAN
      BY <2>1, RequestsTyped DEF Shape, Threads, Active, Request
    <3>2. close \in BOOLEAN
      BY <3>1
    <3> HIDE DEF close
    <3> QED
      BY <1>0, <3>2 DEF WorkerState
  <2>3. answers' \in [Connections -> Seq([to : Nat, status : Nat, close : BOOLEAN])]
    <3>1. answers' = [answers EXCEPT ![c] = IF Alive(c) THEN Append(@, answer) ELSE @]
      BY <1>8 DEF AnswerRequest
    <3> HIDE DEF answer
    <3> DEFINE Answers == Seq([to : Nat, status : Nat, close : BOOLEAN])
    <3>2. answers \in [Connections -> Answers]
      BY DEF Shape, Wires
    <3>3. Append(answers[c], answer) \in Answers
      BY <2>1, <2>2, <3>2
    <3> HIDE DEF Answers
    <3>4. answers' \in [Connections -> Answers]
      BY <2>1, <3>1, <3>2, <3>3
    <3> QED
      BY <3>4 DEF Answers
  <2>4. Wires'
    BY <1>8, <2>3 DEF AnswerRequest, Shape, Wires, clientVars, Numbered
  <2>5. CASE GoesTo(w, "leaving")
    <3>1. Proper([worker[w] EXCEPT !.pc = "leaving"])
      BY <2>1, GoingProper DEF Busy, Active
    <3>2. Threads'
      BY <1>8, <2>5, <3>1, BecomingProper DEF AnswerRequest, GoesTo, Shape, Threads, clientVars
    <3> QED
      BY <1>8, <2>4, <3>2 DEF AnswerRequest, Shape, Flags, serverVars
  <2> DEFINE state == [Idle EXCEPT !.pc = "looking", !.conn = c, !.left = worker[w].left - 1]
  <2>6. CASE worker[w].left # 1 /\ Becomes(w, state)
    <3>1. worker[w].left - 1 \in 0 .. KeepAliveMax /\ worker[w].left - 1 # 0
      BY <1>0, <2>1, <2>6, HttpAssumption DEF WorkerState
    <3>2. state \in WorkerState
      BY <2>1, <3>1, IdleTyped DEF WorkerState, Busy
    <3>3. /\ state.pc = "looking" /\ state.conn = c /\ state.left = worker[w].left - 1
      BY IdleTyped DEF WorkerState
    <3>4. Proper(state)
      BY <2>1, <3>1, <3>2, <3>3 DEF Proper, Active
    <3>5. Threads'
      BY <1>8, <2>6, <3>4, BecomingProper DEF AnswerRequest, Shape, Threads, clientVars
    <3> QED
      BY <1>8, <2>4, <3>5 DEF AnswerRequest, Shape, Flags, serverVars
  <2> QED
    BY <1>8, <2>5, <2>6 DEF AnswerRequest
<1>9. CASE CloseSocket(w)
  <2>1. Proper(Idle)
    BY IdleTyped DEF Proper, Busy, Active
  <2>2. sock' \in [Connections -> {"none", "backlog", "queued", "served", "closed"}]
    BY <1>9 DEF CloseSocket, Shape, Threads
  <2>3. Threads'
    BY <1>9, <2>1, <2>2, BecomingProper DEF CloseSocket, Shape, Threads, clientVars
  <2> QED
    BY <1>9, <2>3 DEF CloseSocket, Shape, Wires, Flags, clientVars, serverVars, Numbered
<1> QED
  BY <1>1, <1>2, <1>3, <1>4, <1>5, <1>6, <1>7, <1>8, <1>9 DEF WorkerStep, TimeoutStep

LEMMA ShapeStep == Shape /\ [Next]_vars => Shape'
<1>1. CASE UNCHANGED vars
  BY <1>1 DEF vars, clientVars, serverVars, Shape, Wires, Threads, Flags, Numbered
<1> QED
  BY <1>1, ClientShape, ListenerShape, WorkerShape DEF Next, ServerNext, ClientNext

LEMMA ShapeTypes == Shape => TypeOK
  BY DEF Shape, Wires, Threads, Flags, TypeOK, WorkerState, Busy, Active, Item

-----------------------------------------------------------------------------
(* What a thread's step does to its connection *)

\* Thread w alone moves, and the connection it serves alone is touched.
Alone(w) ==
    /\ worker[w].conn \in Connections
    /\ worker'[w].conn = worker[w].conn
    /\ \A v \in Workers : v # w => worker'[v] = worker[v]
    /\ \A d \in Connections :
          d # worker[w].conn => arrived'[d] = arrived[d] /\ answers'[d] = answers[d]
    /\ UNCHANGED <<client, next, eof, sock>>

LEMMA HeadReadLeaves ==
  ASSUME Shape, NEW w \in Workers, ReadHead(w), arrived[worker[w].conn] = <<>>
  PROVE  /\ Alone(w) /\ worker'[w].pc = "leaving"
         /\ UNCHANGED <<arrived, answers>>
<1>1. worker \in [Workers -> WorkerState] /\ worker[w].pc = "reading"
      /\ worker[w].conn \in Connections /\ arrived \in [Connections -> Seq(Item)]
  BY DEF Shape, Wires, Threads, ReadHead, At, Busy
<1>2. arrived' = arrived
  BY <1>1 DEF ReadHead
<1> QED
  BY <1>1, <1>2 DEF ReadHead, Alone, GoesTo, Becomes, WorkerState

\* A thread that finds a body where a request should begin.
LEMMA StrayRead ==
  ASSUME Shape, NEW w \in Workers, ReadHead(w), arrived[worker[w].conn] # <<>>,
         Head(arrived[worker[w].conn]).part = "body"
  PROVE  /\ Alone(w) /\ worker[w].pc = "reading" /\ worker'[w].pc = "line"
         /\ worker'[w].req = 0
         /\ arrived'[worker[w].conn] = <<>> /\ answers' = answers
<1> DEFINE c == worker[w].conn
           pc == "line"
           none == 0
           badRequest == 400
           rest == Tail(arrived[c])
           state == [worker[w] EXCEPT !.pc = pc, !.held = rest, !.req = none,
                                      !.status = badRequest]
<1>1. worker \in [Workers -> WorkerState] /\ worker[w].pc = "reading"
      /\ c \in Connections /\ arrived \in [Connections -> Seq(Item)]
  BY DEF Shape, Wires, Threads, ReadHead, At, Busy
<1>2. Becomes(w, state)
  BY DEF ReadHead
<1>3. arrived' = [arrived EXCEPT ![c] = <<>>]
      /\ UNCHANGED <<client, next, eof, sock, answers>>
  BY DEF ReadHead
<1> HIDE DEF pc, none, badRequest, rest
<1>4. state.pc = pc /\ state.conn = c /\ state.req = none
  BY <1>1 DEF WorkerState
<1> HIDE DEF state
<1> QED
  BY <1>1, <1>2, <1>3, <1>4 DEF Becomes, Alone, pc, none

\* Where a thread goes with the request it has read the head of.
Begins(r) ==
    IF Refusal(r) = 414 THEN "line"
    ELSE IF Refusal(r) # 0 THEN "answering"
    ELSE IF ExpectsContent(r) THEN "content" ELSE "handling"

LEMMA RequestRead ==
  ASSUME Shape, NEW w \in Workers, ReadHead(w), arrived[worker[w].conn] # <<>>,
         Head(arrived[worker[w].conn]).part # "body"
  PROVE  LET c == worker[w].conn
             first == arrived[c][1]
             r == RequestOf(c, first.number)
         IN  /\ Alone(w) /\ worker[w].pc = "reading"
             /\ first.part = "head" /\ Numbered(c, first.number)
             /\ worker'[w].pc = Begins(r) /\ worker'[w].req = first.number
             /\ worker'[w].ends = EndsConnection(r) /\ worker'[w].status = Refusal(r)
             /\ worker'[w].held = Tail(arrived[c])
             /\ arrived'[c] = <<>> /\ answers' = answers
<1> DEFINE c == worker[w].conn
           first == Head(arrived[c])
           number == first.number
           r == RequestOf(c, number)
           rest == Tail(arrived[c])
           ends == EndsConnection(r)
           status == Refusal(r)
           pc == Begins(r)
           state == [[worker[w] EXCEPT !.req = number, !.held = rest,
                                       !.ends = ends, !.status = status] EXCEPT !.pc = pc]
<1>1. worker \in [Workers -> WorkerState] /\ worker[w].pc = "reading"
      /\ c \in Connections /\ arrived \in [Connections -> Seq(Item)]
  BY SMTT(30) DEF Shape, Wires, Threads, ReadHead, At, Busy
<1>2. Becomes(w, state)
  BY DEF ReadHead, Begins
<1>3. arrived' = [arrived EXCEPT ![c] = <<>>]
      /\ UNCHANGED <<client, next, eof, sock, answers>>
  BY DEF ReadHead
<1>4. first = arrived[c][1] /\ first \in Item /\ Numbered(c, first.number)
  <2>1. first \in Item /\ first = arrived[c][1] /\ 1 \in DOMAIN arrived[c]
    BY <1>1, HeadTailProperties
  <2> QED
    BY <1>1, <2>1 DEF Shape, Wires
<1>5. first.part = "head"
  BY <1>4 DEF Item
<1> HIDE DEF number, rest, ends, status, pc
<1>6. state.pc = pc /\ state.conn = c /\ state.req = number /\ state.held = rest
      /\ state.ends = ends /\ state.status = status
  <2> HIDE DEF r, first
  <2> QED
    BY <1>1 DEF WorkerState
<1> HIDE DEF state
<1>7. worker'[w] = state /\ Alone(w)
  BY <1>1, <1>2, <1>3, <1>6 DEF Becomes, Alone
<1>8. arrived'[c] = <<>> /\ answers' = answers
  BY <1>1, <1>3
<1> QED
  BY <1>1, <1>4, <1>5, <1>6, <1>7, <1>8, SMTT(30) DEF number, rest, ends, status, pc

\* Reading the rest of a line that is no request's.
LEMMA LineRead ==
  ASSUME Shape, NEW w \in Workers, ReadLine(w) \/ ReadLineTimeout(w)
  PROVE  /\ Alone(w) /\ worker[w].pc = "line" /\ answers' = answers
         /\ worker'[w].pc \in {"line", "answering", "leaving"}
         /\ worker'[w].pc = "leaving" => worker[w].req = 0
         /\ worker'[w].req = worker[w].req /\ worker'[w].ends = worker[w].ends
         /\ worker'[w].status = worker[w].status
         /\ arrived'[worker[w].conn] \in {arrived[worker[w].conn], <<>>}
         /\ Unread(w) = <<>> => arrived' = arrived /\ worker'[w].held = worker[w].held
<1>1. worker \in [Workers -> WorkerState] /\ worker[w].pc = "line"
      /\ worker[w].conn \in Connections /\ arrived \in [Connections -> Seq(Item)]
  BY DEF Shape, Wires, Threads, ReadLine, ReadLineTimeout, At, Busy, Active
<1>2. CASE ReadLine(w) /\ Unread(w) # <<>>
  <2> DEFINE pc == IF Head(Unread(w)).part = "head" THEN "answering" ELSE "line"
             held == Tail(Unread(w))
  <2>1. pc \in {"line", "answering"} /\ Becomes(w, [worker[w] EXCEPT !.pc = pc, !.held = held])
    BY <1>2 DEF ReadLine
  <2> HIDE DEF pc, held
  <2>2. arrived' = AfterReading(w) /\ UNCHANGED <<client, next, eof, sock, answers>>
    BY <1>2 DEF ReadLine, clientVars
  <2> DEFINE state == [worker[w] EXCEPT !.pc = pc, !.held = held]
  <2>3. state.pc = pc /\ state.conn = worker[w].conn /\ state.req = worker[w].req
        /\ state.ends = worker[w].ends /\ state.status = worker[w].status
    BY <1>1 DEF WorkerState
  <2> HIDE DEF state
  <2> QED
    BY <1>1, <1>2, <2>1, <2>2, <2>3 DEF Becomes, Alone, AfterReading
<1>3. CASE Unread(w) = <<>>
  <2>1. PICK pc \in {"answering", "leaving"} :
            GoesTo(w, pc) /\ (pc = "leaving" => worker[w].req = 0)
    BY <1>3 DEF ReadLine, ReadLineTimeout
  <2>2. UNCHANGED <<client, next, eof, sock, answers, arrived>>
    BY <1>3 DEF ReadLine, ReadLineTimeout, clientVars
  <2> QED
    BY <1>1, <2>1, <2>2 DEF GoesTo, Becomes, Alone, WorkerState
<1> QED
  BY <1>2, <1>3 DEF ReadLineTimeout

LEMMA ContentRead ==
  ASSUME Shape, NEW w \in Workers, ReadContent(w)
  PROVE  LET c == worker[w].conn
             r == RequestOf(c, worker[w].req)
         IN  /\ Alone(w) /\ worker[w].pc = "content" /\ worker'[w].pc = "handling"
             /\ answers' = answers
             /\ worker'[w].req = worker[w].req /\ worker'[w].ends = worker[w].ends
             /\ worker'[w].status = worker[w].status
             /\ arrived'[c] \in {arrived[c], <<>>}
             /\ \/ /\ r.body = "whole"
                   /\ Unread(w) # <<>> /\ worker'[w].held = Tail(Unread(w))
                   /\ arrived'[c] = IF worker[w].held # <<>> THEN arrived[c] ELSE <<>>
                \/ r.body = "unsized" /\ c \in eof /\ arrived'[c] = <<>>
<1> DEFINE c == worker[w].conn
           r == RequestOf(c, worker[w].req)
<1>1. worker \in [Workers -> WorkerState] /\ worker[w].pc = "content"
      /\ c \in Connections /\ arrived \in [Connections -> Seq(Item)]
  BY DEF Shape, Wires, Threads, ReadContent, At, Busy, Active
<1>2. UNCHANGED <<client, next, eof, sock, answers>>
  BY SMTT(30) DEF ReadContent, clientVars
<1>3. PICK held :
        /\ Becomes(w, [worker[w] EXCEPT !.pc = "handling", !.held = held])
        /\ \/ /\ r.body = "whole" /\ Unread(w) # <<>> /\ held = Tail(Unread(w))
              /\ arrived' = AfterReading(w)
           \/ r.body = "unsized" /\ c \in eof /\ arrived' = [arrived EXCEPT ![c] = <<>>]
  BY DEF ReadContent
<1> DEFINE state == [worker[w] EXCEPT !.pc = "handling", !.held = held]
<1>4. state.pc = "handling" /\ state.conn = c /\ state.req = worker[w].req
      /\ state.ends = worker[w].ends /\ state.status = worker[w].status /\ state.held = held
  BY <1>1 DEF WorkerState
<1>5. Becomes(w, state)
  BY <1>3
<1> HIDE DEF state, r
<1>6. /\ \A d \in Connections : d # c => arrived'[d] = arrived[d]
      /\ arrived' = AfterReading(w) =>
            arrived'[c] = IF worker[w].held # <<>> THEN arrived[c] ELSE <<>>
      /\ arrived' = AfterReading(w) \/ arrived'[c] = <<>>
  BY <1>1, <1>3 DEF AfterReading
<1>7. worker'[w] = state /\ Alone(w)
  BY <1>1, <1>2, <1>4, <1>6, <1>5 DEF Becomes, Alone
<1> QED
  BY <1>1, <1>2, <1>3, <1>4, <1>6, <1>7 DEF r

LEMMA HandlingEnds ==
  ASSUME Shape, NEW w \in Workers, ReadContentFails(w) \/ Handle(w)
  PROVE  LET c == worker[w].conn
         IN  /\ Alone(w) /\ worker[w].pc \in {"content", "handling"}
             /\ worker'[w].pc = "answering" /\ answers' = answers
             /\ worker'[w].req = worker[w].req /\ worker'[w].ends = worker[w].ends
             /\ worker'[w].held = worker[w].held
             /\ arrived'[c] \in {arrived[c], <<>>}
             /\ worker[w].pc = "handling" => arrived' = arrived
             /\ worker[w].pc = "content" =>
                   /\ worker'[w].status = 400
                   /\ RequestOf(c, worker[w].req).body = "whole" => Unread(w) = <<>>
<1> DEFINE c == worker[w].conn
<1>1. worker \in [Workers -> WorkerState] /\ worker[w].pc \in {"content", "handling"}
      /\ c \in Connections /\ arrived \in [Connections -> Seq(Item)]
  BY DEF Shape, Wires, Threads, ReadContentFails, Handle, At, Busy, Active
<1>2. UNCHANGED <<client, next, eof, sock, answers>>
  BY DEF ReadContentFails, Handle, clientVars
<1>3. PICK status :
        /\ Answering(w, status)
        /\ worker[w].pc = "content" =>
              /\ status = 400
              /\ RequestOf(c, worker[w].req).body = "whole" => Unread(w) = <<>>
  BY DEF ReadContentFails, Handle, At
<1>4. /\ arrived' \in {arrived, [arrived EXCEPT ![c] = <<>>]}
      /\ worker[w].pc = "handling" => arrived' = arrived
  BY DEF ReadContentFails, Handle, At
<1> DEFINE state == [worker[w] EXCEPT !.pc = "answering", !.status = status]
<1>5. state.pc = "answering" /\ state.conn = c /\ state.req = worker[w].req
      /\ state.ends = worker[w].ends /\ state.status = status /\ state.held = worker[w].held
  BY <1>1 DEF WorkerState
<1>6. Becomes(w, state)
  BY <1>3 DEF Answering
<1> HIDE DEF state
<1> QED
  BY <1>1, <1>2, <1>3, <1>4, <1>5, <1>6 DEF Becomes, Alone

\* The answer is written unless the client is gone, and the thread goes on with the
\* connection or leaves it.
LEMMA AnswerWritten ==
  ASSUME Shape, NEW w \in Workers, AnswerRequest(w)
  PROVE  LET c == worker[w].conn
             n == worker[w].req
             close == worker[w].left = 1 \/ (n # 0 /\ RequestOf(c, n).close)
         IN  /\ Alone(w) /\ worker[w].pc = "answering" /\ arrived' = arrived
             /\ worker'[w].pc \in {"looking", "leaving"}
             /\ worker'[w].pc = "looking" => worker[w].left # 1 /\ ~worker[w].ends
             /\ answers'[c] = IF Alive(c)
                              THEN Append(answers[c], [to |-> n, status |-> worker[w].status,
                                                       close |-> close])
                              ELSE answers[c]
<1> DEFINE c == worker[w].conn
           n == worker[w].req
           close == worker[w].left = 1 \/ (n # 0 /\ RequestOf(c, n).close)
           answer == [to |-> n, status |-> worker[w].status, close |-> close]
           state == [Idle EXCEPT !.pc = "looking", !.conn = c, !.left = worker[w].left - 1]
<1>1. worker \in [Workers -> WorkerState] /\ worker[w].pc = "answering" /\ c \in Connections
  BY DEF Shape, Threads, AnswerRequest, At, Busy, Active
<1>2. UNCHANGED <<client, next, eof, sock, arrived>>
  BY DEF AnswerRequest, clientVars
<1>3. answers' = [answers EXCEPT ![c] = IF Alive(c) THEN Append(@, answer) ELSE @]
  BY DEF AnswerRequest
<1>4. \/ GoesTo(w, "leaving")
      \/ Becomes(w, state) /\ worker[w].left # 1 /\ ~worker[w].ends
  BY DEF AnswerRequest
<1>5. state.pc = "looking" /\ state.conn = c
  BY IdleTyped DEF WorkerState
<1> HIDE DEF answer, state
<1>6. answers \in [Connections -> Seq([to : Nat, status : Nat, close : BOOLEAN])]
  BY DEF Shape, Wires
<1>7. /\ answers'[c] = IF Alive(c) THEN Append(answers[c], answer) ELSE answers[c]
      /\ \A d \in Connections : d # c => answers'[d] = answers[d]
  BY <1>1, <1>3, <1>6
<1>8. /\ worker'[w].pc \in {"looking", "leaving"} /\ worker'[w].conn = c
      /\ worker'[w].pc = "looking" => worker[w].left # 1 /\ ~worker[w].ends
      /\ \A v \in Workers : v # w => worker'[v] = worker[v]
  BY <1>1, <1>4, <1>5 DEF GoesTo, Becomes, WorkerState
<1> QED
  BY <1>1, <1>2, <1>7, <1>8 DEF Alone, answer

\* The steps of a thread that works on what its connection brought.
WorkStep(w) ==
    \/ ReadHead(w) \/ ReadLine(w) \/ ReadLineTimeout(w) \/ ReadContent(w)
    \/ ReadContentFails(w) \/ Handle(w) \/ AnswerRequest(w)

OtherStep(w) ==
    \/ TakeJob(w) \/ Exit(w) \/ FirstLook(w) \/ Ready(w) \/ SeeStop(w)
    \/ KeepAliveTimeout(w) \/ CloseSocket(w)

LEMMA StepsOfThreads ==
  \A w \in Workers : WorkerStep(w) \/ TimeoutStep(w) => WorkStep(w) \/ OtherStep(w)
  BY DEF WorkerStep, TimeoutStep, WorkStep, OtherStep

LEMMA WorkAlone ==
  ASSUME Shape, NEW w \in Workers, WorkStep(w)
  PROVE  /\ Alone(w) /\ worker[w].pc \in Active \cup {"reading"}
         /\ worker'[w].pc \in Active \cup {"looking", "leaving"}
         /\ answers' = answers \/ AnswerRequest(w)
<1>1. CASE ReadHead(w)
  <2> DEFINE c == worker[w].conn
  <2>1. worker[w].pc = "reading"
    BY <1>1 DEF ReadHead, At
  <2>2. CASE arrived[c] = <<>>
    BY <1>1, <2>1, <2>2, HeadReadLeaves DEF Active
  <2>3. CASE arrived[c] # <<>> /\ Head(arrived[c]).part = "body"
    BY <1>1, <2>1, <2>3, StrayRead DEF Active
  <2>4. CASE arrived[c] # <<>> /\ Head(arrived[c]).part # "body"
    <3>1. PICK r : Alone(w) /\ worker'[w].pc = Begins(r) /\ answers' = answers
      BY <1>1, <2>4, RequestRead
    <3> QED
      BY <2>1, <3>1 DEF Begins, Active
  <2> QED
    BY <2>2, <2>3, <2>4
<1>2. CASE ReadLine(w) \/ ReadLineTimeout(w)
  BY <1>2, LineRead DEF Active
<1>3. CASE ReadContent(w)
  BY <1>3, ContentRead DEF Active
<1>4. CASE ReadContentFails(w) \/ Handle(w)
  BY <1>4, HandlingEnds DEF Active
<1>5. CASE AnswerRequest(w)
  <2>1. /\ Alone(w) /\ worker[w].pc = "answering"
        /\ worker'[w].pc \in {"looking", "leaving"}
    BY <1>5, AnswerWritten
  <2> QED
    BY <1>5, <2>1 DEF Active
<1> QED
  BY <1>1, <1>2, <1>3, <1>4, <1>5 DEF WorkStep

-----------------------------------------------------------------------------
(* The pool *)

\* Queued connections are in the queue once, served ones have one thread, and
\* threads leave for good only once listen has stopped accepting and the queue is
\* empty.
PoolInv ==
    /\ \A c \in Connections : sock[c] = "queued" => \E i \in 1 .. Len(jobs) : jobs[i] = c
    /\ \A c \in Connections : sock[c] = "served" => \E w \in Workers : Serves(w, c)
    /\ \A i \in 1 .. Len(jobs) : sock[jobs[i]] = "queued"
    /\ \A i, j \in 1 .. Len(jobs) : i # j => jobs[i] # jobs[j]
    /\ \A w \in Workers : worker[w].pc \in Busy => sock[worker[w].conn] = "served"
    /\ \A v, w \in Workers :
          v # w /\ worker[v].pc \in Busy /\ worker[w].pc \in Busy
              => worker[v].conn # worker[w].conn
    /\ \A w \in Workers :
          worker[w].pc = "exited" => jobs = <<>> /\ listener \in {"draining", "returned"}
    /\ listener \in {"called", "bound"} =>
          ~isRunning /\ jobs = <<>> /\ \A w \in Workers : worker[w].pc = "idle"
    /\ listener = "returned" =>
          ~isRunning /\ jobs = <<>> /\ \A w \in Workers : worker[w].pc \in {"idle", "exited"}

LEMMA PoolInit == Init => PoolInv
  BY IdleTyped DEF Init, PoolInv, Busy, Active

LEMMA PoolInvShows == PoolInv => DrainedAtReturn
  BY DEF PoolInv, DrainedAtReturn, Serves, Busy, Active

\* The first of a sequence goes, another joins.
LEMMA TailElements ==
  ASSUME NEW S, NEW s \in Seq(S), s # <<>>
  PROVE  /\ Len(Tail(s)) = Len(s) - 1 /\ Len(s) \in Nat /\ Len(s) # 0
         /\ Head(s) = s[1]
         /\ \A i \in 1 .. Len(s) - 1 : Tail(s)[i] = s[i + 1]
  OBVIOUS

LEMMA AppendElements ==
  ASSUME NEW S, NEW s \in Seq(S), NEW e
  PROVE  /\ Len(Append(s, e)) = Len(s) + 1 /\ Len(s) \in Nat
         /\ Append(s, e)[Len(s) + 1] = e
         /\ \A i \in 1 .. Len(s) : Append(s, e)[i] = s[i]
  OBVIOUS

\* A thread goes on with its connection.
Continues(w) ==
    /\ worker[w].pc \in Busy /\ worker'[w].pc \in Busy
    /\ worker'[w].conn = worker[w].conn
    /\ \A v \in Workers : v # w => worker'[v] = worker[v]
    /\ UNCHANGED <<sock, jobs, listener, isRunning>>

LEMMA ThreadsContinue ==
  ASSUME Shape, NEW w \in Workers, WorkerStep(w) \/ TimeoutStep(w)
  PROVE  TakeJob(w) \/ Exit(w) \/ CloseSocket(w) \/ Continues(w)
<1>0. worker \in [Workers -> WorkerState]
  BY DEF Shape, Threads
<1>1. CASE FirstLook(w) \/ Ready(w) \/ SeeStop(w) \/ KeepAliveTimeout(w)
  BY <1>0, <1>1, SMTT(30)
  DEF FirstLook, Ready, SeeStop, KeepAliveTimeout, At, GoesTo, Becomes, Continues,
      WorkerState, Busy, Active, serverVars
<1>2. CASE WorkStep(w)
  <2>1. UNCHANGED <<sock, jobs, listener, isRunning>>
    BY <1>2 DEF WorkStep, ReadHead, ReadLine, ReadLineTimeout, ReadContent, ReadContentFails,
                Handle, AnswerRequest, serverVars
  <2>2. Alone(w) /\ worker[w].pc \in Busy /\ worker'[w].pc \in Busy
    BY <1>2, WorkAlone DEF Busy, Active
  <2> QED
    BY <2>1, <2>2 DEF Alone, Continues
<1> QED
  BY <1>1, <1>2, StepsOfThreads DEF OtherStep

LEMMA PoolStep == Shape /\ PoolInv /\ [Next]_vars => PoolInv'
<1> SUFFICES ASSUME Shape, PoolInv, [Next]_vars PROVE PoolInv'
  OBVIOUS
<1>0. /\ worker \in [Workers -> WorkerState]
      /\ jobs \in Seq(Connections)
      /\ sock \in [Connections -> {"none", "backlog", "queued", "served", "closed"}]
      /\ \A w \in Workers : worker[w].pc \in Busy => worker[w].conn \in Connections
  BY DEF Shape, Threads
<1>1. CASE UNCHANGED vars
  BY <1>1 DEF vars, serverVars, PoolInv, Serves
<1>2. ASSUME NEW c \in Connections, ClientNext(c) PROVE PoolInv'
  <2>1. UNCHANGED <<jobs, worker, listener, isRunning>>
    BY <1>2 DEF ClientNext, Connect, Send, Hangup, serverVars
  <2>2. sock' = sock \/ (sock[c] = "none" /\ sock' = [sock EXCEPT ![c] = "backlog"])
    BY <1>2 DEF ClientNext, Connect, Send, Hangup
  <2>3. \A d \in Connections : \A s \in {"queued", "served"} : sock'[d] = s <=> sock[d] = s
    BY <1>0, <2>2
  <2>4. \A i \in 1 .. Len(jobs) : jobs[i] \in Connections
    BY <1>0
  <2> QED
    BY <1>0, <2>1, <2>3, <2>4 DEF PoolInv, Serves
<1>3. CASE Bind \/ FailToBind \/ ListenInternal \/ AcceptFails \/ ListenReturns \/ Stop
           \/ StopCloses
  <2>1. sock' \in {sock, Reset} /\ UNCHANGED <<jobs, worker>>
    BY <1>3 DEF Bind, FailToBind, ListenInternal, AcceptFails, ListenReturns, Stop, StopCloses,
                clientVars, serverVars
  <2>2. \A d \in Connections : \A s \in {"queued", "served"} : sock'[d] = s <=> sock[d] = s
    BY <1>0, <2>1 DEF Reset
  <2>3. \A i \in 1 .. Len(jobs) : jobs[i] \in Connections
    BY <1>0
  <2>4. /\ listener' \in {"called", "bound"} => listener \in {"called", "bound"} /\ ~isRunning'
        /\ listener \in {"draining", "returned"} => listener' \in {"draining", "returned"}
        /\ listener' = "returned" =>
              /\ ~isRunning'
              /\ jobs = <<>>
              /\ \A w \in Workers : worker[w].pc \in {"idle", "exited"}
    <3>1. CASE Bind \/ FailToBind
      BY <3>1 DEF Bind, FailToBind, serverVars, PoolInv
    <3>2. CASE ListenInternal \/ AcceptFails
      BY <3>2 DEF ListenInternal, AcceptFails, PoolInv
    <3>3. CASE ListenReturns
      BY <3>3, HttpAssumption DEF ListenReturns, PoolInv
    <3>4. CASE Stop \/ StopCloses
      BY <3>4 DEF Stop, StopCloses, PoolInv
    <3> QED
      BY <1>3, <3>1, <3>2, <3>3, <3>4
  <2> QED
    BY <1>0, <2>1, <2>2, <2>3, <2>4 DEF PoolInv, Serves
<1>4. ASSUME NEW c \in Connections, Accept(c) PROVE PoolInv'
  <2>1. /\ jobs' = Append(jobs, c) /\ sock' = [sock EXCEPT ![c] = "queued"] /\ sock[c] = "backlog"
        /\ listener = "accepting" /\ listener' \in {"accepting", "draining"} /\ worker' = worker
    BY <1>4 DEF Accept
  <2>2. /\ Len(jobs') = Len(jobs) + 1 /\ Len(jobs) \in Nat /\ jobs'[Len(jobs) + 1] = c
        /\ \A i \in 1 .. Len(jobs) : jobs'[i] = jobs[i] /\ jobs[i] \in Connections
    BY <1>0, <2>1, AppendElements
  <2>3. \A i \in 1 .. Len(jobs) : jobs[i] # c
    BY <2>1, <2>2 DEF PoolInv
  <2>4. /\ \A i \in 1 .. Len(jobs') : sock'[jobs'[i]] = "queued"
        /\ \A i, j \in 1 .. Len(jobs') : i # j => jobs'[i] # jobs'[j]
    BY <1>0, <2>1, <2>2, <2>3 DEF PoolInv
  <2>5. \A d \in Connections : sock'[d] = "queued" => \E i \in 1 .. Len(jobs') : jobs'[i] = d
    BY <1>0, <2>1, <2>2 DEF PoolInv
  <2>6. \A w \in Workers : worker[w].pc \in Busy => worker[w].conn # c
    BY <2>1 DEF PoolInv
  <2>7. \A w \in Workers : worker[w].pc # "exited"
    BY <2>1 DEF PoolInv
  <2> QED
    BY <1>0, <2>1, <2>4, <2>5, <2>6, <2>7 DEF PoolInv, Serves
<1>5. ASSUME NEW w \in Workers, WorkerStep(w) \/ TimeoutStep(w) PROVE PoolInv'
  <2>1. CASE Continues(w)
    <3>1. \A v \in Workers :
             /\ worker'[v].pc \in Busy <=> worker[v].pc \in Busy
             /\ worker'[v].pc \in Busy => worker'[v].conn = worker[v].conn
             /\ worker'[v].pc \in {"idle", "exited"} => worker'[v] = worker[v]
             /\ worker[v].pc \in {"idle", "exited"} => worker'[v] = worker[v]
      BY <2>1 DEF Continues, Busy, Active
    <3> QED
      BY <2>1, <3>1 DEF Continues, PoolInv, Serves
  <2>2. CASE Exit(w)
    <3>1. /\ worker[w].pc = "idle" /\ worker'[w].pc = "exited" /\ jobs = <<>>
          /\ listener = "draining"
          /\ \A v \in Workers : v # w => worker'[v] = worker[v]
          /\ UNCHANGED <<sock, jobs, listener, isRunning>>
      BY <1>0, <2>2 DEF Exit, At, GoesTo, Becomes, WorkerState, serverVars
    <3> QED
      BY <3>1 DEF PoolInv, Serves, Busy, Active
  <2>3. CASE TakeJob(w)
    <3> DEFINE c == Head(jobs)
    <3>1. /\ worker[w].pc = "idle" /\ jobs # <<>> /\ jobs' = Tail(jobs)
          /\ sock' = [sock EXCEPT ![c] = "served"]
          /\ \A v \in Workers : v # w => worker'[v] = worker[v]
          /\ UNCHANGED <<listener, isRunning>>
      BY <1>0, <2>3 DEF TakeJob, At, Becomes, serverVars
    <3>2. worker'[w].pc = "looking" /\ worker'[w].conn = c
      BY <1>0, <2>3, IdleTyped DEF TakeJob, Becomes, WorkerState
    <3>3. /\ Len(jobs') = Len(jobs) - 1 /\ Len(jobs) \in Nat /\ Len(jobs) # 0 /\ c = jobs[1]
          /\ \A i \in 1 .. Len(jobs) - 1 : jobs'[i] = jobs[i + 1]
          /\ \A i \in 1 .. Len(jobs) : jobs[i] \in Connections
      BY <1>0, <3>1, TailElements
    <3>4. c \in Connections /\ sock[c] = "queued"
      BY <3>3 DEF PoolInv
    <3>5. /\ \A i \in 1 .. Len(jobs') : jobs'[i] # c /\ sock'[jobs'[i]] = "queued"
          /\ \A i, j \in 1 .. Len(jobs') : i # j => jobs'[i] # jobs'[j]
      BY <1>0, <3>1, <3>3, <3>4 DEF PoolInv
    <3>6. ASSUME NEW d \in Connections, sock'[d] = "queued"
          PROVE  \E i \in 1 .. Len(jobs') : jobs'[i] = d
      <4>1. d # c /\ sock[d] = "queued"
        BY <1>0, <3>1, <3>6
      <4>2. PICK i \in 1 .. Len(jobs) : jobs[i] = d
        BY <4>1 DEF PoolInv
      <4>3. i # 1
        BY <3>3, <4>1, <4>2
      <4>4. i - 1 \in 1 .. Len(jobs) - 1 /\ jobs'[i - 1] = jobs[i]
        BY <3>3, <4>2, <4>3
      <4> QED
        BY <3>3, <4>2, <4>4
    <3>7. listener \notin {"called", "bound", "returned"} /\ \A v \in Workers : worker[v].pc # "exited"
      BY <3>1 DEF PoolInv
    <3>8. \A v \in Workers : worker[v].pc \in Busy => worker[v].conn # c
      BY <3>4 DEF PoolInv
    <3>9. \A d \in Connections : sock'[d] = "served" => \E v \in Workers : Serves(v, d)'
      BY <1>0, <3>1, <3>2, <3>4 DEF PoolInv, Serves, Busy, Active
    <3> HIDE DEF c
    <3>10. /\ \A v \in Workers : worker'[v].pc \in Busy => sock'[worker'[v].conn] = "served"
           /\ \A u, v \in Workers :
                 u # v /\ worker'[u].pc \in Busy /\ worker'[v].pc \in Busy
                     => worker'[u].conn # worker'[v].conn
      BY <1>0, <3>1, <3>2, <3>4, <3>8 DEF PoolInv
    <3>11. \A v \in Workers : worker'[v].pc # "exited"
      BY <3>1, <3>2, <3>7
    <3> QED
      BY <3>1, <3>5, <3>6, <3>7, <3>9, <3>10, <3>11 DEF PoolInv
  <2>4. CASE CloseSocket(w)
    <3> DEFINE c == worker[w].conn
    <3>1. /\ worker[w].pc = "leaving" /\ worker'[w].pc = "idle"
          /\ sock' = [sock EXCEPT ![c] = "closed"]
          /\ \A v \in Workers : v # w => worker'[v] = worker[v]
          /\ UNCHANGED <<jobs, listener, isRunning>>
      BY <1>0, <2>4, IdleTyped DEF CloseSocket, At, Becomes, serverVars
    <3>2. c \in Connections /\ sock[c] = "served"
      BY <1>0, <3>1 DEF PoolInv, Busy
    <3>3. \A v \in Workers : v # w /\ worker[v].pc \in Busy => worker[v].conn # c
      BY <3>1 DEF PoolInv, Busy
    <3>4. \A i \in 1 .. Len(jobs) : jobs[i] \in Connections /\ jobs[i] # c
      BY <1>0, <3>2 DEF PoolInv
    <3>5. \A d \in Connections : sock'[d] = "served" => \E v \in Workers : Serves(v, d)'
      <4> SUFFICES ASSUME NEW d \in Connections, sock'[d] = "served"
                   PROVE  \E v \in Workers : Serves(v, d)'
        OBVIOUS
      <4>1. d # c /\ sock[d] = "served"
        BY <1>0, <3>1
      <4>2. PICK v \in Workers : Serves(v, d)
        BY <4>1 DEF PoolInv
      <4> QED
        BY <3>1, <4>1, <4>2 DEF Serves
    <3> HIDE DEF c
    <3>6. /\ \A d \in Connections : sock'[d] = "queued" => sock[d] = "queued"
          /\ \A i \in 1 .. Len(jobs) : sock'[jobs[i]] = sock[jobs[i]]
      BY <1>0, <3>1, <3>4
    <3>7. /\ \A v \in Workers : worker'[v].pc \in Busy => sock'[worker'[v].conn] = "served"
          /\ \A u, v \in Workers :
                u # v /\ worker'[u].pc \in Busy /\ worker'[v].pc \in Busy
                    => worker'[u].conn # worker'[v].conn
      BY <1>0, <3>1, <3>3 DEF PoolInv, Busy, Active
    <3>8. /\ listener \notin {"called", "bound", "returned"}
          /\ \A v \in Workers : worker'[v].pc = "exited" => worker[v].pc = "exited"
      BY <3>1 DEF PoolInv
    <3> QED
      BY <3>1, <3>5, <3>6, <3>7, <3>8 DEF PoolInv
  <2> QED
    BY <1>5, <2>1, <2>2, <2>3, <2>4, ThreadsContinue
<1> QED
  BY <1>1, <1>2, <1>3, <1>4, <1>5 DEF Next, ServerNext, ListenerStep

\* The other steps of a thread leave what it reads and writes alone.
LEMMA OtherSteps ==
  ASSUME Shape, PoolInv, NEW w \in Workers, OtherStep(w)
  PROVE  /\ worker[w].pc \notin Active /\ worker'[w].pc \notin Active
         /\ \A v \in Workers : v # w => worker'[v] = worker[v]
         /\ worker[w].pc = "leaving" => worker'[w].pc = "idle"
         /\ worker'[w].pc \in Busy =>
               \/ worker[w].pc \in Busy /\ worker'[w].conn = worker[w].conn
               \/ sock[worker'[w].conn] = "queued"
         /\ \A d \in Connections :
               sock'[d] # sock[d] => sock[d] = "queued" \/ sock'[d] = "closed"
         /\ UNCHANGED <<client, next, eof, arrived, answers>>
<1>0. /\ worker \in [Workers -> WorkerState]
      /\ jobs \in Seq(Connections)
      /\ sock \in [Connections -> {"none", "backlog", "queued", "served", "closed"}]
  BY DEF Shape, Threads
<1>1. CASE TakeJob(w)
  <2> DEFINE c == Head(jobs)
             state == [Idle EXCEPT !.pc = "looking", !.conn = c, !.left = KeepAliveMax]
  <2>1. state.pc = "looking" /\ state.conn = c
    BY IdleTyped DEF WorkerState
  <2>2. /\ worker[w].pc = "idle" /\ jobs # <<>>
        /\ sock' = [sock EXCEPT ![c] = "served"] /\ Becomes(w, state)
        /\ UNCHANGED <<client, next, eof, arrived, answers>>
    BY <1>1 DEF TakeJob, At, clientVars
  <2>3. c \in Connections /\ sock[c] = "queued"
    <3>1. Len(jobs) \in Nat /\ Len(jobs) # 0 /\ c = jobs[1] /\ jobs[1] \in Connections
      BY <1>0, <2>2, TailElements
    <3> QED
      BY <3>1 DEF PoolInv
  <2> HIDE DEF state, c
  <2> QED
    BY <1>0, <2>1, <2>2, <2>3 DEF Becomes, Busy, Active
<1>2. CASE CloseSocket(w)
  <2>1. /\ worker[w].pc = "leaving" /\ Becomes(w, Idle)
        /\ sock' = [sock EXCEPT ![worker[w].conn] = "closed"]
        /\ UNCHANGED <<client, next, eof, arrived, answers>>
    BY <1>2 DEF CloseSocket, At, clientVars
  <2> QED
    BY <1>0, <2>1, IdleTyped DEF Becomes, Busy, Active
<1>3. CASE Exit(w) \/ FirstLook(w) \/ Ready(w) \/ SeeStop(w) \/ KeepAliveTimeout(w)
  <2>1. PICK pc \in {"exited", "reading", "polling", "leaving"} :
            /\ GoesTo(w, pc)
            /\ worker[w].pc \in {"idle", "looking", "polling"}
            /\ pc # "exited" => worker[w].pc # "idle"
    BY <1>3 DEF Exit, FirstLook, Ready, SeeStop, KeepAliveTimeout, At
  <2>2. UNCHANGED <<client, next, eof, arrived, answers, sock>>
    BY <1>3 DEF Exit, FirstLook, Ready, SeeStop, KeepAliveTimeout, clientVars
  <2>3. worker'[w].pc = pc /\ worker'[w].conn = worker[w].conn
        /\ \A v \in Workers : v # w => worker'[v] = worker[v]
    BY <1>0, <2>1 DEF GoesTo, Becomes, WorkerState
  <2> QED
    BY <2>1, <2>2, <2>3 DEF Busy, Active
<1> QED
  BY <1>1, <1>2, <1>3 DEF OtherStep

-----------------------------------------------------------------------------
(* The order of answers *)

Works(w, c) == worker[w].pc \in Active /\ worker[w].conn = c

\* The last head the client has sent.
LastHead(c) == IF next[c].part = "head" THEN next[c].number - 1 ELSE next[c].number


\* A head goes from the client to the socket, from there to a thread, and becomes
\* an answer; numbers fall on this way.
Above(c, n) == \A j \in 1 .. Len(answers[c]) : answers[c][j].to < n

AnswersOrdered(c) ==
    \A i \in 1 .. Len(answers[c]) :
        /\ answers[c][i].to <= LastHead(c)
        /\ \A j \in 1 .. i - 1 :
              0 \notin {answers[c][i].to, answers[c][j].to}
                  => answers[c][j].to < answers[c][i].to

ArrivedOrdered(c) ==
    \A i \in 1 .. Len(arrived[c]) :
        /\ arrived[c][i].number <= LastHead(c)
        /\ arrived[c][i].part = "head" => Above(c, arrived[c][i].number)

WorkOrdered(w, c) ==
    /\ worker[w].req <= LastHead(c)
    /\ worker[w].req # 0 => Above(c, worker[w].req)
    /\ \A i \in 1 .. Len(arrived[c]) :
          arrived[c][i].part = "head" => worker[w].req < arrived[c][i].number

Ordered(c) ==
    /\ AnswersOrdered(c)
    /\ ArrivedOrdered(c)
    /\ \A w \in Workers : Works(w, c) => WorkOrdered(w, c)

OrderInv == \A c \in Connections : Ordered(c)

LEMMA OrderInit == Init => OrderInv
  BY IdleTyped
  DEF Init, OrderInv, Ordered, AnswersOrdered, ArrivedOrdered, Works, LastHead, Active

LEMMA Counts ==
  ASSUME Shape, NEW c \in Connections
  PROVE  /\ LastHead(c) \in Nat /\ next[c].number \in Nat \ {0} /\ next[c] \in Item
         /\ answers[c] \in Seq([to : Nat, status : Nat, close : BOOLEAN])
         /\ arrived[c] \in Seq(Item)
         /\ Len(answers[c]) \in Nat /\ Len(arrived[c]) \in Nat
         /\ \A i \in 1 .. Len(answers[c]) :
               answers[c][i].to \in Nat /\ answers[c][i].status \in Nat
         /\ \A i \in 1 .. Len(arrived[c]) : arrived[c][i].number \in Nat \ {0}
         /\ \A w \in Workers : worker[w].req \in Nat
<1>1. next[c] \in Item /\ next[c].number # 0 /\ arrived[c] \in Seq(Item)
      /\ answers[c] \in Seq([to : Nat, status : Nat, close : BOOLEAN])
  BY DEF Shape, Wires
<1>2. \A w \in Workers : worker[w].req \in Nat
  BY DEF Shape, Threads, WorkerState
<1>3. \A i \in 1 .. Len(arrived[c]) : arrived[c][i].number \in Nat \ {0}
  <2>1. DOMAIN arrived[c] = 1 .. Len(arrived[c])
    BY <1>1
  <2> QED
    BY <2>1 DEF Shape, Wires, Numbered
<1>4. LastHead(c) \in Nat /\ next[c].number \in Nat \ {0}
  BY <1>1 DEF Item, LastHead
<1>5. \A i \in 1 .. Len(answers[c]) : answers[c][i].to \in Nat /\ answers[c][i].status \in Nat
  <2> DEFINE Answer == [to : Nat, status : Nat, close : BOOLEAN]
  <2>1. \A i \in 1 .. Len(answers[c]) : answers[c][i] \in Answer
    <3> HIDE DEF Answer
    <3>1. answers[c] \in Seq(Answer)
      BY <1>1 DEF Answer
    <3> QED
      BY <3>1
  <2> QED
    BY <2>1
<1>6. Len(answers[c]) \in Nat /\ Len(arrived[c]) \in Nat
  BY <1>1
<1> QED
  BY <1>1, <1>2, <1>3, <1>4, <1>5, <1>6

LEMMA OrderStays ==
  ASSUME Shape, Shape', NEW c \in Connections, Ordered(c),
         next'[c] = next[c], answers'[c] = answers[c], arrived'[c] \in {arrived[c], <<>>},
         \A w \in Workers : Works(w, c)' =>
             worker'[w].req = 0 \/ (Works(w, c) /\ worker'[w].req = worker[w].req)
  PROVE  Ordered(c)'
<1>1. LastHead(c)' = LastHead(c) /\ LastHead(c) \in Nat
  BY Counts DEF LastHead
<1>2. \A n : Above(c, n)' <=> Above(c, n)
  BY DEF Above
<1>3. /\ \A i \in 1 .. Len(arrived'[c]) :
            /\ arrived'[c][i] = arrived[c][i] /\ i \in 1 .. Len(arrived[c])
            /\ arrived'[c][i].number \in Nat \ {0}
  <2>1. \A i \in 1 .. Len(arrived[c]) : arrived[c][i].number \in Nat \ {0}
    BY Counts
  <2> QED
    BY <2>1
<1>4. AnswersOrdered(c)' /\ ArrivedOrdered(c)'
  BY <1>1, <1>2, <1>3 DEF Ordered, AnswersOrdered, ArrivedOrdered
<1>5. ASSUME NEW w \in Workers, Works(w, c)' PROVE WorkOrdered(w, c)'
  <2>1. CASE worker'[w].req = 0
    BY <1>1, <1>3, <2>1 DEF WorkOrdered
  <2>2. CASE Works(w, c) /\ worker'[w].req = worker[w].req
    BY <1>1, <1>2, <1>3, <2>2 DEF WorkOrdered, Ordered
  <2> QED
    BY <1>5, <2>1, <2>2
<1> QED
  BY <1>4, <1>5 DEF Ordered

\* A connection keeps its order when another thread works, or the listener.
LEMMA OrderStep == Shape /\ PoolInv /\ OrderInv /\ [Next]_vars => OrderInv'
<1> SUFFICES ASSUME Shape, PoolInv, OrderInv, [Next]_vars PROVE OrderInv'
  OBVIOUS
<1>0. Shape'
  BY ShapeStep
<1>1. ASSUME UNCHANGED <<next, answers, arrived, worker>> PROVE OrderInv'
  BY <1>0, <1>1, OrderStays DEF OrderInv, Works
<1>2. ASSUME NEW c \in Connections, ClientNext(c) PROVE OrderInv'
  <2>1. CASE Connect(c) \/ Hangup(c)
    BY <1>1, <2>1 DEF Connect, Hangup, clientVars
  <2>2. CASE Send(c)
    <3> DEFINE n == next[c].number
    <3>1. /\ arrived' = [arrived EXCEPT ![c] = Append(@, next[c])]
          /\ UNCHANGED <<answers, worker>>
          /\ \A d \in Connections : d # c => next'[d] = next[d]
      BY <2>2 DEF Send, Shape, Wires
    <3>2. LastHead(c)' = n /\ LastHead(c) <= n /\ (next[c].part = "head" => LastHead(c) = n - 1)
      <4>1. next[c] \in Item /\ n \in Nat
        BY Counts
      <4>2. next'[c] \in {[number |-> n + 1, part |-> "head"], [next[c] EXCEPT !.part = "body"]}
        BY <2>2 DEF Send, Shape, Wires
      <4>3. next'[c] \in {[number |-> n + 1, part |-> "head"], [number |-> n, part |-> "body"]}
        BY <4>1, <4>2 DEF Item
      <4> QED
        BY <4>1, <4>3 DEF LastHead, Item
    <3>3. /\ Len(arrived'[c]) = Len(arrived[c]) + 1
          /\ arrived'[c][Len(arrived[c]) + 1] = next[c]
          /\ \A i \in 1 .. Len(arrived[c]) : arrived'[c][i] = arrived[c][i]
      BY <3>1, Counts, AppendElements DEF Shape, Wires
    <3>4. \A m : Above(c, m)' <=> Above(c, m)
      BY <3>1 DEF Above
    <3>5. Ordered(c)
      BY DEF OrderInv
    <3>6. next[c].part = "head" => Above(c, n)
      <4>1. LastHead(c) \in Nat /\ n \in Nat
            /\ \A j \in 1 .. Len(answers[c]) : answers[c][j].to \in Nat
        BY Counts
      <4>2. \A j \in 1 .. Len(answers[c]) : answers[c][j].to <= LastHead(c)
        BY <3>5 DEF Ordered, AnswersOrdered
      <4> QED
        BY <3>2, <4>1, <4>2 DEF Above
    <3>7. LastHead(c) \in Nat /\ n \in Nat /\ Len(arrived[c]) \in Nat
      BY Counts
    <3>8. AnswersOrdered(c)'
      <4>1. \A j \in 1 .. Len(answers[c]) : answers[c][j].to \in Nat
        BY Counts
      <4>2. answers'[c] = answers[c] /\ LastHead(c)' = n
        BY <3>1, <3>2
      <4>3. \A i \in 1 .. Len(answers[c]) :
               /\ answers[c][i].to <= LastHead(c)
               /\ \A j \in 1 .. i - 1 : 0 \notin {answers[c][i].to, answers[c][j].to} =>
                                          answers[c][j].to < answers[c][i].to
        BY <3>5 DEF Ordered, AnswersOrdered
      <4>4. ASSUME NEW i \in 1 .. Len(answers[c]) PROVE answers[c][i].to <= n
        <5> PICK t : t = answers[c][i].to
          OBVIOUS
        <5>1. t \in Nat /\ t <= LastHead(c)
          BY <4>1, <4>3
        <5>2. t <= n
          BY <3>2, <3>7, <5>1
        <5> QED
          BY <5>2
      <4> QED
        BY <4>2, <4>3, <4>4 DEF AnswersOrdered
    <3>9. ArrivedOrdered(c)'
      <4>1. \A i \in 1 .. Len(arrived[c]) : arrived[c][i].number \in Nat
        BY Counts
      <4> SUFFICES ASSUME NEW i \in 1 .. Len(arrived'[c])
                   PROVE  /\ arrived'[c][i].number <= LastHead(c)'
                          /\ arrived'[c][i].part = "head" =>
                                \A j \in 1 .. Len(answers[c]) :
                                    answers[c][j].to < arrived'[c][i].number
        BY <3>1 DEF ArrivedOrdered, Above
      <4>2. CASE i \in 1 .. Len(arrived[c])
        <5>1. /\ arrived[c][i].number <= LastHead(c)
              /\ arrived[c][i].part = "head" => Above(c, arrived[c][i].number)
          BY <3>5, <4>2 DEF Ordered, ArrivedOrdered
        <5>2. arrived'[c][i] = arrived[c][i] /\ arrived[c][i].number \in Nat
          BY <3>3, <4>1, <4>2
        <5> QED
          BY <3>2, <3>7, <5>1, <5>2 DEF Above
      <4>3. CASE i = Len(arrived[c]) + 1
        BY <3>2, <3>3, <3>6, <3>7, <4>3, SMTT(30) DEF Above
      <4> QED
        BY <3>3, <3>7, <4>2, <4>3
    <3>10. ASSUME NEW w \in Workers, Works(w, c)' PROVE WorkOrdered(w, c)'
      <4>1. Works(w, c) /\ worker'[w].req = worker[w].req /\ worker[w].req \in Nat
        BY <3>1, <3>10, Counts DEF Works
      <4>2. WorkOrdered(w, c)
        BY <3>5, <4>1 DEF Ordered
      <4>3. worker'[w].req <= LastHead(c)' /\ (worker'[w].req # 0 => Above(c, worker[w].req)')
        BY <3>2, <3>4, <3>7, <4>1, <4>2 DEF WorkOrdered
      <4>4. ASSUME NEW i \in 1 .. Len(arrived'[c]), arrived'[c][i].part = "head"
            PROVE  worker'[w].req < arrived'[c][i].number
        <5>1. CASE i \in 1 .. Len(arrived[c])
          BY <3>3, <4>1, <4>2, <4>4, <5>1 DEF WorkOrdered
        <5>2. CASE i = Len(arrived[c]) + 1
          <6>1. arrived'[c][i] = next[c] /\ next[c].part = "head"
            BY <3>3, <4>4, <5>2
          <6>2. worker[w].req <= LastHead(c) /\ LastHead(c) = n - 1
            BY <3>2, <4>2, <6>1 DEF WorkOrdered
          <6>3. worker[w].req < n
            BY <3>7, <4>1, <6>2
          <6> QED
            BY <4>1, <6>1, <6>3
        <5> QED
          BY <3>3, <3>7, <5>1, <5>2
      <4> QED
        BY <4>3, <4>4 DEF WorkOrdered
    <3>11. ASSUME NEW d \in Connections, d # c PROVE Ordered(d)'
      <4>1. arrived'[d] = arrived[d] /\ next'[d] = next[d]
        BY <3>1, <3>11 DEF Shape, Wires
      <4> QED
        BY <1>0, <3>1, <4>1, OrderStays DEF OrderInv, Works
    <3> QED
      BY <3>8, <3>9, <3>10, <3>11 DEF OrderInv, Ordered
  <2> QED
    BY <1>2, <2>1, <2>2 DEF ClientNext
<1>3. CASE Bind \/ FailToBind \/ ListenerStep \/ AcceptFails \/ Stop \/ StopCloses
  BY <1>1, <1>3 DEF Bind, FailToBind, ListenerStep, ListenInternal, Accept, AcceptFails,
                    ListenReturns, Stop, StopCloses, clientVars
<1>4. ASSUME NEW w \in Workers, OtherStep(w) PROVE OrderInv'
  <2>1. /\ worker[w].pc \notin Active /\ worker'[w].pc \notin Active
        /\ \A v \in Workers : v # w => worker'[v] = worker[v]
        /\ UNCHANGED <<next, arrived, answers>>
    BY <1>4, OtherSteps
  <2> QED
    BY <1>0, <2>1, OrderStays DEF OrderInv, Works
<1>5. ASSUME NEW w \in Workers, Alone(w), NEW c, c = worker[w].conn,
             answers'[c] = answers[c], arrived'[c] \in {arrived[c], <<>>},
             \/ worker'[w].pc \notin Active
             \/ worker'[w].req = 0
             \/ worker[w].pc \in Active /\ worker'[w].req = worker[w].req
      PROVE  OrderInv'
  <2> SUFFICES ASSUME NEW d \in Connections PROVE Ordered(d)'
    BY DEF OrderInv
  <2>1. answers'[d] = answers[d] /\ arrived'[d] \in {arrived[d], <<>>} /\ next'[d] = next[d]
    BY <1>5 DEF Alone
  <2>2. \A v \in Workers : Works(v, d)' =>
            worker'[v].req = 0 \/ (Works(v, d) /\ worker'[v].req = worker[v].req)
    BY <1>5 DEF Alone, Works
  <2> QED
    BY <1>0, <2>1, <2>2, OrderStays DEF OrderInv
<1>6. ASSUME NEW w \in Workers, ReadHead(w) PROVE OrderInv'
  <2>0. PICK c \in Connections : c = worker[w].conn
    BY <1>6 DEF ReadHead, At, Shape, Threads, Busy
  <2>1. CASE arrived[c] = <<>>
    BY <1>5, <1>6, <2>0, <2>1, HeadReadLeaves DEF Active
  <2>2. CASE arrived[c] # <<>> /\ Head(arrived[c]).part = "body"
    BY <1>5, <1>6, <2>0, <2>2, StrayRead
  <2>3. CASE arrived[c] # <<>> /\ Head(arrived[c]).part # "body"
    <3>1. PICK n : n = arrived[c][1].number
      OBVIOUS
    <3>2. /\ Alone(w) /\ arrived[c][1].part = "head" /\ worker'[w].req = n
          /\ arrived'[c] = <<>> /\ answers' = answers /\ worker[w].pc = "reading"
      BY <1>6, <2>0, <2>3, <3>1, RequestRead
    <3>3. Ordered(c) /\ LastHead(c)' = LastHead(c)
      BY <3>2 DEF Alone, OrderInv, LastHead
    <3>4. 1 \in 1 .. Len(arrived[c])
      BY <2>3, Counts
    <3>5. n <= LastHead(c) /\ Above(c, n)
      BY <3>1, <3>2, <3>3, <3>4 DEF Ordered, ArrivedOrdered
    <3>6. Above(c, n)'
      BY <3>2, <3>5 DEF Above
    <3>7. AnswersOrdered(c)' /\ ArrivedOrdered(c)'
      BY <3>2, <3>3 DEF Ordered, AnswersOrdered, ArrivedOrdered
    <3>8. WorkOrdered(w, c)'
      BY <3>2, <3>3, <3>5, <3>6 DEF WorkOrdered
    <3>9. ASSUME NEW v \in Workers, v # w PROVE ~Works(v, c)'
      BY <2>0, <3>2, <3>9 DEF PoolInv, Alone, Works, Busy
    <3>10. Ordered(c)'
      BY <3>7, <3>8, <3>9 DEF Ordered
    <3>11. ASSUME NEW d \in Connections, d # c PROVE Ordered(d)'
      <4>1. \A v \in Workers : Works(v, d)' => Works(v, d) /\ worker'[v].req = worker[v].req
        BY <2>0, <3>2, <3>11 DEF Alone, Works
      <4>2. arrived'[d] = arrived[d] /\ next'[d] = next[d] /\ answers'[d] = answers[d]
        BY <2>0, <3>2, <3>11 DEF Alone
      <4> QED
        BY <1>0, <4>1, <4>2, OrderStays DEF OrderInv
    <3> QED
      BY <3>10, <3>11 DEF OrderInv
  <2> QED
    BY <2>1, <2>2, <2>3
<1>7. ASSUME NEW w \in Workers, ReadLine(w) \/ ReadLineTimeout(w) PROVE OrderInv'
  BY <1>5, <1>7, LineRead DEF Active
<1>8. ASSUME NEW w \in Workers, ReadContent(w) PROVE OrderInv'
  BY <1>5, <1>8, ContentRead DEF Active
<1>9. ASSUME NEW w \in Workers, ReadContentFails(w) \/ Handle(w) PROVE OrderInv'
  BY <1>5, <1>9, HandlingEnds DEF Active
<1>10. ASSUME NEW w \in Workers, AnswerRequest(w) PROVE OrderInv'
  <2>0. PICK c \in Connections : c = worker[w].conn
    BY <1>10 DEF AnswerRequest, At, Shape, Threads, Busy, Active
  <2>1. /\ Alone(w) /\ worker[w].pc = "answering" /\ arrived' = arrived
        /\ worker'[w].pc \notin Active
    BY <1>10, AnswerWritten DEF Active
  <2>2. CASE ~Alive(c)
    BY <1>5, <1>10, <2>0, <2>1, <2>2, AnswerWritten
  <2>3. CASE Alive(c)
    <3>1. PICK n, answer : /\ n = worker[w].req /\ answer.to = n
                           /\ answers'[c] = Append(answers[c], answer)
      BY <1>10, <2>0, <2>3, AnswerWritten
    <3>2. Ordered(c) /\ LastHead(c)' = LastHead(c) /\ LastHead(c) \in Nat
      BY <2>1, Counts DEF Alone, OrderInv, LastHead
    <3>3. WorkOrdered(w, c) /\ n \in Nat
      BY <2>0, <2>1, <3>1, <3>2, Counts DEF Ordered, Works, Active
    <3>4. /\ Len(answers'[c]) = Len(answers[c]) + 1 /\ Len(answers[c]) \in Nat
          /\ answers'[c][Len(answers[c]) + 1] = answer
          /\ \A i \in 1 .. Len(answers[c]) : /\ answers'[c][i] = answers[c][i]
                                             /\ answers[c][i].to \in Nat
      BY <3>1, Counts, AppendElements, SMTT(30)
    <3>5. AnswersOrdered(c)'
      <4> SUFFICES ASSUME NEW i \in 1 .. Len(answers'[c])
                   PROVE  /\ answers'[c][i].to <= LastHead(c)'
                          /\ \A j \in 1 .. i - 1 :
                                0 \notin {answers'[c][i].to, answers'[c][j].to}
                                    => answers'[c][j].to < answers'[c][i].to
        BY DEF AnswersOrdered
      <4>1. CASE i \in 1 .. Len(answers[c])
        <5>1. AnswersOrdered(c)
          BY <3>2 DEF Ordered
        <5>2. \A j \in 1 .. i - 1 : answers'[c][j] = answers[c][j]
          BY <3>4, <4>1, SMTT(30)
        <5> QED
          BY <3>2, <3>4, <4>1, <5>1, <5>2 DEF AnswersOrdered
      <4>2. CASE i = Len(answers[c]) + 1
        BY <3>1, <3>2, <3>3, <3>4, <4>2 DEF WorkOrdered, Above
      <4>3. i \in 1 .. Len(answers[c]) \/ i = Len(answers[c]) + 1
        BY <3>4
      <4> QED
        BY <4>1, <4>2, <4>3
    <3>6. ArrivedOrdered(c)'
      <4> SUFFICES ASSUME NEW i \in 1 .. Len(arrived[c])
                   PROVE  /\ arrived[c][i].number <= LastHead(c)
                          /\ arrived[c][i].part = "head" =>
                                \A j \in 1 .. Len(answers'[c]) :
                                    answers'[c][j].to < arrived[c][i].number
        BY <2>1, <3>2 DEF ArrivedOrdered, Above
      <4>1. /\ arrived[c][i].number <= LastHead(c)
            /\ arrived[c][i].part = "head" => n < arrived[c][i].number
            /\ arrived[c][i].part = "head" => Above(c, arrived[c][i].number)
        BY <3>1, <3>2, <3>3 DEF Ordered, ArrivedOrdered, WorkOrdered
      <4> QED
        BY <3>1, <3>4, <4>1 DEF Above
    <3>7. ASSUME NEW v \in Workers PROVE ~Works(v, c)'
      BY <2>0, <2>1, <3>7 DEF PoolInv, Alone, Works, Busy, Active
    <3>8. ASSUME NEW d \in Connections, d # c PROVE Ordered(d)'
      <4>1. \A v \in Workers : Works(v, d)' => Works(v, d) /\ worker'[v].req = worker[v].req
        BY <2>0, <2>1, <3>8 DEF Alone, Works
      <4>2. arrived'[d] = arrived[d] /\ next'[d] = next[d] /\ answers'[d] = answers[d]
        BY <2>0, <2>1, <3>8 DEF Alone
      <4> QED
        BY <1>0, <4>1, <4>2, OrderStays DEF OrderInv
    <3> QED
      BY <3>5, <3>6, <3>7, <3>8 DEF OrderInv, Ordered
  <2> QED
    BY <2>2, <2>3
<1>11. CASE UNCHANGED vars
  BY <1>1, <1>11 DEF vars, clientVars
<1> QED
  BY <1>2, <1>3, <1>4, <1>6, <1>7, <1>8, <1>9, <1>10, <1>11, StepsOfThreads
  DEF Next, ServerNext, WorkStep

-----------------------------------------------------------------------------
(* Answers that close the connection *)

\* What a thread knows of its request.
Knows(w) ==
    worker[w].pc \in Active /\ worker[w].req # 0 =>
        LET r == RequestOf(worker[w].conn, worker[w].req)
        IN  /\ worker[w].ends <=> EndsConnection(r)
            /\ r.long => worker[w].pc \in {"line", "answering"} /\ worker[w].status = 414

SaysClose(answer) == answer.close /\ answer.status # 414

\* Its thread, if it has one still, only has to close the socket.
Over(c) ==
    /\ sock[c] \in {"served", "closed"}
    /\ \A w \in Workers : Serves(w, c) => worker[w].pc = "leaving"

CloseInv ==
    /\ \A w \in Workers : Knows(w)
    /\ \A c \in Connections : \A i \in 1 .. Len(answers[c]) :
          /\ SaysClose(answers[c][i]) => Over(c)
          /\ \A j \in 1 .. i - 1 : ~SaysClose(answers[c][j])

LEMMA CloseInit == Init => CloseInv
  BY IdleTyped DEF Init, CloseInv, Knows, Active

LEMMA KnowsStep == Shape /\ PoolInv /\ (\A w \in Workers : Knows(w)) /\ [Next]_vars
                   => \A w \in Workers : Knows(w)'
<1> SUFFICES ASSUME Shape, PoolInv, \A w \in Workers : Knows(w), [Next]_vars,
                    NEW v \in Workers
             PROVE  Knows(v)'
  OBVIOUS
<1>1. ASSUME client' = client, worker'[v] = worker[v] PROVE Knows(v)'
  BY <1>1 DEF Knows, RequestOf
<1>2. CASE UNCHANGED vars
  BY <1>1, <1>2 DEF vars, clientVars
<1>3. ASSUME NEW c \in Connections, ClientNext(c) PROVE Knows(v)'
  BY <1>1, <1>3 DEF ClientNext, Connect, Send, Hangup, clientVars
<1>4. CASE Bind \/ FailToBind \/ ListenerStep \/ AcceptFails \/ Stop \/ StopCloses
  BY <1>1, <1>4 DEF Bind, FailToBind, ListenerStep, ListenInternal, Accept, AcceptFails,
                    ListenReturns, Stop, StopCloses, clientVars
<1>5. ASSUME NEW w \in Workers, OtherStep(w) PROVE Knows(v)'
  <2>1. /\ \A u \in Workers : u # w => worker'[u] = worker[u]
        /\ worker'[w].pc \notin Active /\ client' = client
    BY <1>5, OtherSteps
  <2> QED
    BY <1>1, <2>1 DEF Knows
<1>6. ASSUME NEW w \in Workers, WorkStep(w) PROVE Knows(v)'
  <2>1. /\ Alone(w) /\ client' = client
        /\ v # w => worker'[v] = worker[v]
    BY <1>6, WorkAlone DEF Alone
  <2> SUFFICES ASSUME v = w PROVE Knows(w)'
    BY <1>1, <2>1
  <2>2. CASE ReadHead(w)
    <3> DEFINE c == worker[w].conn
               r == RequestOf(c, arrived[c][1].number)
    <3>1. CASE arrived[c] = <<>>
      BY <2>2, <3>1, HeadReadLeaves DEF Knows, Active
    <3>2. CASE arrived[c] # <<>> /\ Head(arrived[c]).part = "body"
      BY <2>2, <3>2, StrayRead, SMTT(30) DEF Knows
    <3>3. CASE arrived[c] # <<>> /\ Head(arrived[c]).part # "body"
      <4>1. PICK q : q = r
        OBVIOUS
      <4>2. /\ worker'[w].pc = Begins(q) /\ worker'[w].req = arrived[c][1].number
            /\ worker'[w].ends = EndsConnection(q) /\ worker'[w].status = Refusal(q)
        BY <2>2, <3>3, <4>1, RequestRead, SMTT(30)
      <4>3. client'[worker'[w].conn].sends[worker'[w].req] = q
        BY <2>1, <4>1, <4>2 DEF Alone, RequestOf
      <4>4. q.long => Begins(q) = "line" /\ Refusal(q) = 414
        BY DEF Begins, Refusal
      <4> QED
        BY <4>2, <4>3, <4>4 DEF Knows, RequestOf
    <3> QED
      BY <3>1, <3>2, <3>3
  <2>3. CASE ReadLine(w) \/ ReadLineTimeout(w)
    BY <2>1, <2>3, LineRead, SMTT(30) DEF Knows, Alone, RequestOf, Active
  <2>4. CASE ReadContent(w)
    BY <2>1, <2>4, ContentRead DEF Knows, Alone, RequestOf, Active
  <2>5. CASE ReadContentFails(w) \/ Handle(w)
    <3>1. /\ worker[w].pc \in {"content", "handling"} /\ worker'[w].pc = "answering"
          /\ worker'[w].req = worker[w].req /\ worker'[w].ends = worker[w].ends
          /\ worker'[w].conn = worker[w].conn
      BY <2>1, <2>5, HandlingEnds DEF Alone
    <3>2. Knows(w)
      OBVIOUS
    <3> QED
      BY <2>1, <3>1, <3>2 DEF Knows, RequestOf, Active
  <2>6. CASE AnswerRequest(w)
    <3>1. worker'[w].pc \in {"looking", "leaving"}
      BY <2>6, AnswerWritten
    <3> QED
      BY <3>1 DEF Knows, Active
  <2> QED
    BY <1>6, <2>2, <2>3, <2>4, <2>5, <2>6 DEF WorkStep
<1> QED
  BY <1>2, <1>3, <1>4, <1>5, <1>6, StepsOfThreads DEF Next, ServerNext

\* Nothing reopens a connection.
LEMMA OverStays ==
  ASSUME Shape, PoolInv, [Next]_vars, NEW c \in Connections, Over(c)
  PROVE  Over(c)'
<1>0. sock \in [Connections -> {"none", "backlog", "queued", "served", "closed"}]
  BY DEF Shape, Threads
<1>1. ASSUME sock'[c] = sock[c], worker' = worker PROVE Over(c)'
  BY <1>1 DEF Over, Serves
<1>2. CASE UNCHANGED vars
  BY <1>1, <1>2 DEF vars
<1>3. ASSUME NEW d \in Connections, ClientNext(d) PROVE Over(c)'
  BY <1>0, <1>1, <1>3 DEF ClientNext, Connect, Send, Hangup, Over
<1>4. CASE Bind \/ FailToBind \/ ListenerStep \/ AcceptFails \/ Stop \/ StopCloses
  BY <1>0, <1>1, <1>4
  DEF Bind, FailToBind, ListenerStep, ListenInternal, Accept, AcceptFails, ListenReturns,
      Stop, StopCloses, Reset, Over
<1>5. ASSUME NEW w \in Workers, OtherStep(w) PROVE Over(c)'
  <2>1. /\ \A v \in Workers : v # w => worker'[v] = worker[v]
        /\ worker[w].pc = "leaving" => worker'[w].pc = "idle"
        /\ worker'[w].pc \in Busy =>
              \/ worker[w].pc \in Busy /\ worker'[w].conn = worker[w].conn
              \/ sock[worker'[w].conn] = "queued"
        /\ sock'[c] # sock[c] => sock[c] = "queued" \/ sock'[c] = "closed"
    BY <1>5, OtherSteps
  <2>2. ~Serves(w, c)'
    BY <2>1 DEF Serves, Over, Busy, Active
  <2> QED
    BY <2>1, <2>2 DEF Serves, Over
<1>6. ASSUME NEW w \in Workers, WorkStep(w) PROVE Over(c)'
  <2>1. Alone(w) /\ worker[w].pc \in Active \cup {"reading"}
    BY <1>6, WorkAlone
  <2>2. worker[w].conn # c
    BY <2>1 DEF Over, Serves, Busy, Active
  <2> QED
    BY <2>1, <2>2 DEF Alone, Over, Serves
<1> QED
  BY <1>2, <1>3, <1>4, <1>5, <1>6, StepsOfThreads DEF Next, ServerNext

\* Only a thread that answers adds an answer, to its connection and at the end.
LEMMA AnswersGrow ==
  ASSUME Shape, PoolInv, [Next]_vars, NEW c \in Connections
  PROVE  \/ answers'[c] = answers[c]
         \/ \E w \in Workers : AnswerRequest(w) /\ worker[w].conn = c /\ Alive(c)
<1>1. CASE UNCHANGED vars
  BY <1>1 DEF vars
<1>2. ASSUME NEW d \in Connections, ClientNext(d) PROVE answers' = answers
  BY <1>2 DEF ClientNext, Connect, Send, Hangup
<1>3. CASE Bind \/ FailToBind \/ ListenerStep \/ AcceptFails \/ Stop \/ StopCloses
  BY <1>3 DEF Bind, FailToBind, ListenerStep, ListenInternal, Accept, AcceptFails,
              ListenReturns, Stop, StopCloses
<1>4. ASSUME NEW w \in Workers, OtherStep(w) PROVE answers' = answers
  BY <1>4, OtherSteps
<1>5. ASSUME NEW w \in Workers, WorkStep(w), answers' # answers
      PROVE  AnswerRequest(w) /\ (answers'[c] = answers[c] \/ (worker[w].conn = c /\ Alive(c)))
  <2>1. AnswerRequest(w) /\ Alone(w)
    BY <1>5, WorkAlone
  <2> QED
    BY <2>1, AnswerWritten DEF Alone
<1> QED
  BY <1>1, <1>2, <1>3, <1>4, <1>5, StepsOfThreads DEF Next, ServerNext

LEMMA CloseStep == Shape /\ PoolInv /\ CloseInv /\ [Next]_vars => CloseInv'
<1> SUFFICES ASSUME Shape, PoolInv, CloseInv, [Next]_vars PROVE CloseInv'
  OBVIOUS
<1>1. \A w \in Workers : Knows(w)'
  BY KnowsStep DEF CloseInv
<1>2. ASSUME NEW c \in Connections, NEW i \in 1 .. Len(answers'[c])
      PROVE  /\ SaysClose(answers'[c][i]) => Over(c)'
             /\ \A j \in 1 .. i - 1 : ~SaysClose(answers'[c][j])
  <2>1. CASE answers'[c] = answers[c]
    BY <1>2, <2>1, OverStays DEF CloseInv
  <2>2. ASSUME NEW w \in Workers, AnswerRequest(w), worker[w].conn = c, Alive(c)
        PROVE  /\ SaysClose(answers'[c][i]) => Over(c)'
               /\ \A j \in 1 .. i - 1 : ~SaysClose(answers'[c][j])
    <3> DEFINE n == worker[w].req
               k == Len(answers[c])
    <3>1. /\ Alone(w) /\ worker[w].pc = "answering"
          /\ worker'[w].pc = "looking" => worker[w].left # 1 /\ ~worker[w].ends
          /\ worker'[w].pc \in {"looking", "leaving"}
      BY <2>2, AnswerWritten
    <3>2. PICK answer :
              /\ answers'[c] = Append(answers[c], answer)
              /\ answer.status = worker[w].status
              /\ answer.close => worker[w].left = 1 \/ (n # 0 /\ RequestOf(c, n).close)
      <4> DEFINE close == worker[w].left = 1 \/ (n # 0 /\ RequestOf(c, n).close)
                 answer == [to |-> n, status |-> worker[w].status, close |-> close]
      <4>1. answers'[c] = Append(answers[c], answer)
        BY <2>2, AnswerWritten
      <4>2. answer.status = worker[w].status /\ (answer.close => close)
        OBVIOUS
      <4> HIDE DEF answer
      <4> QED
        BY <4>1, <4>2
    <3>3. ~Over(c)
      BY <2>2, <3>1 DEF Over, Serves, Busy, Active
    <3>4. /\ Len(answers'[c]) = k + 1 /\ k \in Nat /\ answers'[c][k + 1] = answer
          /\ \A j \in 1 .. k : answers'[c][j] = answers[c][j]
      BY <3>2, Counts, AppendElements
    <3>5. \A j \in 1 .. k : ~SaysClose(answers'[c][j])
      BY <3>3, <3>4 DEF CloseInv
    <3>6. SaysClose(answer) => worker'[w].pc = "leaving"
      <4>1. CASE n # 0 /\ RequestOf(c, n).close /\ worker[w].status # 414
        BY <2>2, <3>1, <4>1 DEF CloseInv, Knows, Active, EndsConnection
      <4> QED
        BY <3>1, <3>2, <4>1 DEF SaysClose
    <3>7. SaysClose(answer) => Over(c)'
      <4>1. sock'[c] = "served"
        BY <2>2, <3>1 DEF PoolInv, Alone, Busy, Active
      <4>2. \A v \in Workers : v # w => ~Serves(v, c)'
        BY <2>2, <3>1 DEF PoolInv, Alone, Serves, Busy, Active
      <4> QED
        BY <3>6, <4>1, <4>2 DEF Over
    <3>8. i \in 1 .. k \/ i = k + 1
      BY <3>4
    <3> QED
      BY <3>4, <3>5, <3>7, <3>8
  <2> QED
    BY <2>1, <2>2, AnswersGrow
<1> QED
  BY <1>1, <1>2 DEF CloseInv

-----------------------------------------------------------------------------
(* Clients that wait for each answer *)

TheHead(n) == [number |-> n, part |-> "head"]
TheBody(n) == [number |-> n, part |-> "body"]
BodyKind(c, n) == RequestOf(c, n).body

LEMMA ShortSequences ==
  \A x, y : /\ <<x>>[1] = x /\ Head(<<x>>) = x /\ Tail(<<x>>) = <<>> /\ <<x>> # <<>>
            /\ <<x, y>>[1] = x /\ Head(<<x, y>>) = x /\ Tail(<<x, y>>) = <<y>>
            /\ <<x, y>> # <<>> /\ <<x, y>> # <<x>>
            /\ Append(<<>>, x) = <<x>> /\ Append(<<x>>, y) = <<x, y>>
<1> SUFFICES ASSUME NEW x, NEW y
             PROVE  /\ <<x>>[1] = x /\ Head(<<x>>) = x /\ Tail(<<x>>) = <<>> /\ <<x>> # <<>>
                    /\ <<x, y>>[1] = x /\ Head(<<x, y>>) = x /\ Tail(<<x, y>>) = <<y>>
                    /\ <<x, y>> # <<>> /\ <<x, y>> # <<x>>
                    /\ Append(<<>>, x) = <<x>> /\ Append(<<x>>, y) = <<x, y>>
  OBVIOUS
<1>1. <<x>>[1] = x /\ Head(<<x>>) = x
  OBVIOUS
<1>2. Tail(<<x>>) = <<>>
  OBVIOUS
<1>3. <<x>> # <<>> /\ <<x, y>> # <<>>
  OBVIOUS
<1>4. <<x, y>>[1] = x /\ Head(<<x, y>>) = x
  OBVIOUS
<1>5. Tail(<<x, y>>) = <<y>>
  OBVIOUS
<1>6. Append(<<>>, x) = <<x>>
  OBVIOUS
<1>7. Append(<<x>>, y) = <<x, y>>
  <2>1. <<x>> \in Seq({x, y}) /\ <<x, y>> \in Seq({x, y}) /\ y \in {x, y}
    OBVIOUS
  <2>2. /\ Append(<<x>>, y) \in Seq({x, y}) /\ Len(Append(<<x>>, y)) = 2
        /\ Append(<<x>>, y)[1] = x /\ Append(<<x>>, y)[2] = y
    BY <2>1
  <2> DEFINE s == Append(<<x>>, y)
             t == <<x, y>>
  <2>3. Len(s) = Len(t) /\ \A i \in 1 .. Len(s) : s[i] = t[i]
    BY <2>2
  <2>4. s \in Seq({x, y}) /\ t \in Seq({x, y})
    BY <2>1, <2>2
  <2> HIDE DEF s, t
  <2>5. s = t
    BY <2>3, <2>4, SeqEqual
  <2> QED
    BY <2>5 DEF s, t
<1>8. <<x, y>> # <<x>>
  <2>1. Len(<<x, y>>) = 2 /\ Len(<<x>>) = 1
    OBVIOUS
  <2> QED
    BY <2>1
<1> QED
  BY <1>1, <1>2, <1>3, <1>4, <1>5, <1>6, <1>7, <1>8

LEMMA ItemsDiffer ==
  \A m, n : /\ TheHead(n) # TheBody(m) /\ TheHead(n).part = "head" /\ TheBody(n).part = "body"
            /\ TheHead(n).number = n /\ TheBody(n).number = n
  BY DEF TheHead, TheBody

\* Between answers a client has sent nothing, or the next request or its head.
NothingSent(c, n) == arrived[c] = <<>> /\ next[c] = TheHead(n)

Sending(c, n) ==
    \/ /\ arrived[c] = <<TheHead(n)>>
       /\ next[c] = IF BodyKind(c, n) = "whole" THEN TheBody(n) ELSE TheHead(n + 1)
    \/ /\ arrived[c] = <<TheHead(n), TheBody(n)>>
       /\ BodyKind(c, n) = "whole"
       /\ next[c] = TheHead(n + 1)

\* Thread w works on request n of connection c.  Either the answer will leave a body
\* behind, or the thread waits for the body, or nothing is left of the request.
WorksOn(w, c, n) ==
    LET state == worker[w]
    IN  /\ state.req = n
        /\ \/ /\ state.pc \in {"line", "answering"}
              /\ state.status >= 400 /\ BodyKind(c, n) # "none"
           \/ state.pc = "content" /\ BodyKind(c, n) \in {"cut", "unsized"}
           \/ /\ state.pc = "content" /\ BodyKind(c, n) = "whole"
              /\ \/ state.held = <<>> /\ arrived[c] = <<>> /\ next[c] = TheBody(n)
                 \/ /\ state.held = <<>> /\ arrived[c] = <<TheBody(n)>>
                    /\ next[c] = TheHead(n + 1)
                 \/ /\ state.held = <<TheBody(n)>> /\ arrived[c] = <<>>
                    /\ next[c] = TheHead(n + 1)
           \/ /\ state.pc \in {"line", "handling", "answering"}
              /\ state.held = <<>> /\ arrived[c] = <<>> /\ next[c] = TheHead(n + 1)

AtTurn(c, n) ==
    /\ (\A w \in Workers : ~Works(w, c)) => NothingSent(c, n) \/ Sending(c, n)
    /\ \A w \in Workers : Works(w, c) => WorksOn(w, c, n)

\* No answer has left a body behind.
Clean(c) == \A i \in 1 .. Len(answers[c]) : ~Strays(c, answers[c][i])

AnswersTurn(c) ==
    \A i \in 1 .. Len(answers[c]) :
        \/ answers[c][i].to = i
        \/ \E j \in 1 .. i - 1 : Strays(c, answers[c][j])

\* A client that is gone gets no answer any more, whatever its thread does.
InTurn(c) ==
    client[c].kind = "waiting" =>
        /\ AnswersTurn(c)
        /\ Clean(c) /\ Alive(c) => AtTurn(c, Len(answers[c]) + 1)

TurnInv == \A c \in Connections : InTurn(c)

LEMMA TurnInit == Init => TurnInv
<1> SUFFICES ASSUME Init, NEW c \in Connections PROVE InTurn(c)
  BY DEF TurnInv
<1>1. answers[c] = <<>> /\ arrived[c] = <<>> /\ next[c] = TheHead(1)
  BY DEF Init, TheHead
<1>2. \A w \in Workers : ~Works(w, c)
  BY IdleTyped DEF Init, Works, Active
<1> QED
  BY <1>1, <1>2 DEF InTurn, AnswersTurn, AtTurn, NothingSent

LEMMA TurnStays ==
  ASSUME NEW c \in Connections, InTurn(c),
         client' = client, eof \subseteq eof',
         next'[c] = next[c], answers'[c] = answers[c], arrived'[c] = arrived[c],
         \A w \in Workers : /\ Works(w, c)' <=> Works(w, c)
                            /\ Works(w, c) => worker'[w] = worker[w]
  PROVE  InTurn(c)'
<1>1. AnswersTurn(c)' = AnswersTurn(c) /\ Clean(c)' = Clean(c)
  BY DEF AnswersTurn, Clean, Strays, RequestOf
<1>2. Alive(c)' => Alive(c)
  BY DEF Alive
<1>3. \A n : AtTurn(c, n) => AtTurn(c, n)'
  BY DEF AtTurn, NothingSent, Sending, WorksOn, BodyKind, RequestOf, TheHead, TheBody
<1> QED
  BY <1>1, <1>2, <1>3 DEF InTurn

LEMMA TurnSends ==
  ASSUME Shape, NEW c \in Connections, InTurn(c), Send(c)
  PROVE  InTurn(c)'
<1> SUFFICES ASSUME client[c].kind = "waiting" PROVE InTurn(c)'
  BY DEF Send, InTurn
<1>1. AnswersTurn(c)' = AnswersTurn(c) /\ Clean(c)' = Clean(c)
  BY DEF Send, AnswersTurn, Clean, Strays, RequestOf
<1>2. Alive(c)
  BY DEF Send, MaySend, Alive
<1> SUFFICES ASSUME Clean(c) PROVE AtTurn(c, Len(answers[c]) + 1)'
  BY <1>1 DEF InTurn, Send
<1>3. PICK n \in Nat : n = Len(answers[c]) + 1
  BY Counts
<1>4. AtTurn(c, n)
  BY <1>2, <1>3 DEF InTurn
<1>5. /\ arrived'[c] = Append(arrived[c], next[c])
      /\ next[c].part = "head" => n >= next[c].number
      /\ UNCHANGED <<worker, client, answers>>
  <2>1. arrived' = [arrived EXCEPT ![c] = Append(@, next[c])]
        /\ (next[c].part = "head" => Len(answers[c]) >= next[c].number - 1)
        /\ UNCHANGED <<worker, client, answers>>
    BY DEF Send, MaySend
  <2> QED
    BY <1>3, <2>1, Counts DEF Shape, Wires
<1>6. /\ next[c] = TheHead(n) =>
             next'[c] = IF BodyKind(c, n) = "whole" THEN TheBody(n) ELSE TheHead(n + 1)
      /\ next[c] = TheBody(n) => next'[c] = TheHead(n + 1)
  BY DEF Send, Shape, Wires, TheHead, TheBody, BodyKind
<1>7. next[c] # TheHead(n + 1)
  BY <1>5, ItemsDiffer
<1>8. BodyKind(c, n)' = BodyKind(c, n) /\ \A w \in Workers : Works(w, c)' <=> Works(w, c)
  BY <1>5 DEF BodyKind, RequestOf, Works
<1>9. ASSUME \A w \in Workers : ~Works(w, c) PROVE Sending(c, n)'
  <2>1. CASE NothingSent(c, n)
    BY <1>5, <1>6, <1>8, <2>1, ShortSequences DEF NothingSent, Sending
  <2>2. CASE Sending(c, n)
    <3>1. /\ BodyKind(c, n) = "whole" /\ arrived[c] = <<TheHead(n)>> /\ next[c] = TheBody(n)
      BY <1>7, <2>2 DEF Sending
    <3>2. arrived'[c] = <<TheHead(n), TheBody(n)>> /\ next'[c] = TheHead(n + 1)
      BY <1>5, <1>6, <3>1, ShortSequences
    <3> QED
      BY <1>8, <3>1, <3>2 DEF Sending
  <2> QED
    BY <1>4, <1>9, <2>1, <2>2 DEF AtTurn
<1>10. ASSUME NEW w \in Workers, Works(w, c) PROVE WorksOn(w, c, n)'
  <2>1. WorksOn(w, c, n)
    BY <1>4, <1>10 DEF AtTurn
  <2> QED
    BY <1>5, <1>6, <1>7, <1>8, <2>1, ShortSequences DEF WorksOn
<1>11. AtTurn(c, n)'
  BY <1>8, <1>9, <1>10 DEF AtTurn
<1> QED
  BY <1>3, <1>5, <1>11

\* While one thread serves a connection no other does.
LEMMA NoOtherWorks ==
  ASSUME PoolInv, NEW w \in Workers, Alone(w), worker[w].pc \in Busy
  PROVE  \A v \in Workers : v # w =>
             ~Works(v, worker[w].conn) /\ (worker'[v].pc \in Active =>
                 worker'[v].conn # worker[w].conn)
  BY DEF PoolInv, Alone, Works, Busy

\* A thread that works on the connection without answering keeps the turn.
LEMMA TurnWorks ==
  ASSUME Shape, PoolInv, NEW w \in Workers, WorkStep(w), NEW c, c = worker[w].conn,
         InTurn(c), answers'[c] = answers[c], arrived'[c] \in {arrived[c], <<>>},
         \A n \in Nat \ {0} : AtTurn(c, n) /\ Alive(c)' => AtTurn(c, n)'
  PROVE  InTurn(c)'
<1>1. Alone(w) /\ c \in Connections
  BY WorkAlone DEF Alone
<1>2. AnswersTurn(c)' = AnswersTurn(c) /\ Clean(c)' = Clean(c)
  BY <1>1 DEF Alone, AnswersTurn, Clean, Strays, RequestOf
<1>3. Alive(c)' => Alive(c)
  BY <1>1 DEF Alone, Alive
<1>4. PICK n \in Nat \ {0} : n = Len(answers[c]) + 1
  BY <1>1, Counts
<1>5. n = Len(answers'[c]) + 1
  BY <1>4
<1> QED
  BY <1>1, <1>2, <1>3, <1>4, <1>5 DEF Alone, InTurn

\* What one thread makes of its connection.
LEMMA OneThread ==
  ASSUME Shape, PoolInv, NEW w \in Workers, WorkStep(w), NEW c, c = worker[w].conn, NEW n,
         \/ WorksOn(w, c, n)' /\ worker'[w].pc \in Active
         \/ NothingSent(c, n)' /\ worker'[w].pc \notin Active
  PROVE  AtTurn(c, n)'
<1>1. Alone(w) /\ worker[w].pc \in Busy
  BY WorkAlone DEF Busy
<1>2. \A v \in Workers : v # w => ~Works(v, c)'
  BY <1>1, NoOtherWorks DEF Works
<1> QED
  BY <1>1, <1>2 DEF AtTurn, Alone, Works

LEMMA HeadsTurn ==
  ASSUME Shape, PoolInv, NEW w \in Workers, ReadHead(w), NEW c, c = worker[w].conn, InTurn(c)
  PROVE  InTurn(c)'
<1>0. WorkStep(w)
  BY DEF WorkStep
<1>1. Alone(w) /\ worker[w].pc = "reading" /\ c \in Connections
  BY <1>0, WorkAlone DEF Alone, ReadHead, At
<1>2. \A v \in Workers : ~Works(v, c)
  BY <1>1, NoOtherWorks DEF Works, Busy, Active
<1>3. /\ BodyKind(c, 0)' = BodyKind(c, 0) /\ next'[c] = next[c]
      /\ \A n : BodyKind(c, n)' = BodyKind(c, n)
  BY <1>1 DEF Alone, BodyKind, RequestOf
<1>4. CASE arrived[c] = <<>>
  <2>1. worker'[w].pc = "leaving" /\ UNCHANGED <<arrived, answers>>
    BY <1>4, HeadReadLeaves
  <2>2. ASSUME NEW n \in Nat, AtTurn(c, n) PROVE AtTurn(c, n)'
    <3>1. NothingSent(c, n)'
      BY <1>2, <1>3, <1>4, <2>1, <2>2, ShortSequences DEF AtTurn, NothingSent, Sending
    <3> QED
      BY <1>0, <2>1, <3>1, OneThread DEF Active
  <2> QED
    BY <1>0, <2>1, <2>2, TurnWorks
<1>5. CASE arrived[c] # <<>> /\ Head(arrived[c]).part = "body"
  <2>1. arrived'[c] = <<>> /\ answers' = answers
    BY <1>5, StrayRead
  <2>2. ASSUME NEW n \in Nat, AtTurn(c, n) PROVE FALSE
    BY <1>2, <1>5, <2>2, ShortSequences, ItemsDiffer DEF AtTurn, NothingSent, Sending
  <2> QED
    BY <1>0, <2>1, <2>2, TurnWorks
<1>6. CASE arrived[c] # <<>> /\ Head(arrived[c]).part # "body"
  <2> DEFINE r == RequestOf(c, arrived[c][1].number)
  <2>1. /\ worker'[w].pc = Begins(r) /\ worker'[w].req = arrived[c][1].number
        /\ worker'[w].status = Refusal(r) /\ worker'[w].held = Tail(arrived[c])
        /\ arrived'[c] = <<>> /\ answers' = answers
        /\ worker'[w].conn = c
    BY <1>1, <1>6, RequestRead DEF Alone
  <2>2. ASSUME NEW n \in Nat, AtTurn(c, n) PROVE AtTurn(c, n)'
    <3>1. Sending(c, n)
      BY <1>2, <1>6, <2>2 DEF AtTurn, NothingSent
    <3>2. PICK request : request = RequestOf(c, n)
      OBVIOUS
    <3>3. /\ arrived[c][1].number = n
          /\ \/ /\ Tail(arrived[c]) = <<>>
                /\ next[c] = IF request.body = "whole" THEN TheBody(n) ELSE TheHead(n + 1)
             \/ /\ Tail(arrived[c]) = <<TheBody(n)>> /\ request.body = "whole"
                /\ next[c] = TheHead(n + 1)
      <4>1. CASE arrived[c] = <<TheHead(n)>>
        <5>1. Tail(arrived[c]) = <<>> /\ arrived[c][1].number = n
          BY <4>1, ShortSequences, ItemsDiffer
        <5>2. arrived[c] # <<TheHead(n), TheBody(n)>>
          BY <4>1, ShortSequences
        <5> QED
          BY <3>1, <3>2, <5>1, <5>2 DEF Sending, BodyKind
      <4>2. CASE arrived[c] = <<TheHead(n), TheBody(n)>>
        <5>1. Tail(arrived[c]) = <<TheBody(n)>> /\ arrived[c][1].number = n
          BY <4>2, ShortSequences, ItemsDiffer
        <5>2. arrived[c] # <<TheHead(n)>>
          BY <4>2, ShortSequences
        <5> QED
          BY <3>1, <3>2, <5>1, <5>2 DEF Sending, BodyKind
      <4> QED
        BY <3>1, <4>1, <4>2 DEF Sending
    <3>4. /\ worker'[w].pc = Begins(request) /\ worker'[w].req = n
          /\ worker'[w].status = Refusal(request) /\ worker'[w].held = Tail(arrived[c])
          /\ arrived'[c] = <<>> /\ next'[c] = next[c] /\ BodyKind(c, n)' = request.body
      BY <1>3, <2>1, <3>2, <3>3 DEF BodyKind
    <3>5. /\ Refusal(request) \in {0, 400, 414, 416}
          /\ request.body = "whole" => ExpectsContent(request)
          /\ ExpectsContent(request) => request.body \in {"whole", "cut", "unsized"}
      BY StatusTyped DEF ExpectsContent
    <3>6. CASE Refusal(request) # 0 /\ request.body # "none"
      <4>1. worker'[w].pc \in {"line", "answering"} /\ worker'[w].status >= 400
        BY <3>4, <3>5, <3>6 DEF Begins
      <4> QED
        BY <1>0, <3>4, <3>6, <4>1, OneThread DEF WorksOn, Active
    <3>7. CASE Refusal(request) = 0 /\ ExpectsContent(request)
      <4>1. worker'[w].pc = "content"
        BY <3>4, <3>7 DEF Begins
      <4>2. WorksOn(w, c, n)'
        BY <3>3, <3>4, <3>5, <3>7, <4>1 DEF WorksOn
      <4> QED
        BY <1>0, <4>1, <4>2, OneThread DEF Active
    <3>8. CASE ~ExpectsContent(request) /\ (Refusal(request) = 0 \/ request.body = "none")
      <4>1. worker'[w].pc \in {"line", "answering", "handling"}
        BY <3>4, <3>8 DEF Begins
      <4>2. worker'[w].held = <<>> /\ next'[c] = TheHead(n + 1)
        BY <3>3, <3>4, <3>5, <3>8
      <4> QED
        BY <1>0, <3>4, <4>1, <4>2, OneThread DEF WorksOn, Active
    <3> QED
      BY <3>5, <3>6, <3>7, <3>8
  <2> QED
    BY <1>0, <2>1, <2>2, TurnWorks
<1> QED
  BY <1>4, <1>5, <1>6

LEMMA LinesTurn ==
  ASSUME Shape, PoolInv, NEW w \in Workers, ReadLine(w) \/ ReadLineTimeout(w),
         NEW c, c = worker[w].conn, InTurn(c)
  PROVE  InTurn(c)'
<1>0. WorkStep(w)
  BY DEF WorkStep
<1>1. /\ worker[w].pc = "line" /\ worker'[w].pc \in {"line", "answering", "leaving"}
      /\ worker'[w].pc = "leaving" => worker[w].req = 0
      /\ worker'[w].req = worker[w].req /\ worker'[w].status = worker[w].status
      /\ Unread(w) = <<>> => arrived' = arrived /\ worker'[w].held = worker[w].held
      /\ answers' = answers /\ arrived'[c] \in {arrived[c], <<>>}
  BY LineRead
<1>2. \A n : BodyKind(c, n)' = BodyKind(c, n) /\ next'[c] = next[c]
  BY <1>0, WorkAlone DEF Alone, BodyKind, RequestOf
<1>3. ASSUME NEW n \in Nat \ {0}, AtTurn(c, n) PROVE AtTurn(c, n)'
  <2>1. WorksOn(w, c, n)
    BY <1>1, <1>3 DEF AtTurn, Works, Active
  <2>2. worker'[w].pc \in {"line", "answering"} /\ worker'[w].req = n
    BY <1>1, <2>1 DEF WorksOn
  <2>3. CASE worker[w].status >= 400 /\ BodyKind(c, n) # "none"
    BY <1>0, <1>1, <1>2, <2>2, <2>3, OneThread DEF WorksOn, Active
  <2>4. CASE worker[w].held = <<>> /\ arrived[c] = <<>> /\ next[c] = TheHead(n + 1)
    <3>1. worker'[w].held = <<>> /\ arrived'[c] = <<>>
      BY <1>1, <2>4 DEF Unread
    <3> QED
      BY <1>0, <1>2, <2>2, <2>4, <3>1, OneThread DEF WorksOn, Active
  <2> QED
    BY <1>1, <2>1, <2>3, <2>4 DEF WorksOn
<1> QED
  BY <1>0, <1>1, <1>3, TurnWorks

LEMMA ContentsTurn ==
  ASSUME Shape, PoolInv, NEW w \in Workers, ReadContent(w), NEW c, c = worker[w].conn, InTurn(c)
  PROVE  InTurn(c)'
<1>0. WorkStep(w)
  BY DEF WorkStep
<1>1. /\ worker[w].pc = "content" /\ worker'[w].pc = "handling"
      /\ worker'[w].req = worker[w].req
      /\ answers' = answers /\ arrived'[c] \in {arrived[c], <<>>}
  BY ContentRead
<1>2. \/ /\ BodyKind(c, worker[w].req) = "whole"
         /\ Unread(w) # <<>> /\ worker'[w].held = Tail(Unread(w))
         /\ arrived'[c] = IF worker[w].held # <<>> THEN arrived[c] ELSE <<>>
      \/ BodyKind(c, worker[w].req) = "unsized" /\ c \in eof /\ arrived'[c] = <<>>
  BY ContentRead DEF BodyKind
<1>3. next'[c] = next[c] /\ eof' = eof
  BY <1>0, WorkAlone DEF Alone
<1>4. ASSUME NEW n \in Nat \ {0}, AtTurn(c, n), Alive(c)' PROVE AtTurn(c, n)'
  <2>1. WorksOn(w, c, n)
    BY <1>1, <1>4 DEF AtTurn, Works, Active
  <2>2. worker[w].req = n
    BY <2>1 DEF WorksOn
  <2>3. BodyKind(c, n) = "whole"
    BY <1>2, <1>3, <1>4, <2>2 DEF Alive
  <2>4. /\ Unread(w) # <<>> /\ worker'[w].held = Tail(Unread(w))
        /\ arrived'[c] = IF worker[w].held # <<>> THEN arrived[c] ELSE <<>>
    BY <1>2, <2>2, <2>3
  <2>5. \/ worker[w].held = <<>> /\ arrived[c] = <<>>
        \/ worker[w].held = <<>> /\ arrived[c] = <<TheBody(n)>> /\ next[c] = TheHead(n + 1)
        \/ worker[w].held = <<TheBody(n)>> /\ arrived[c] = <<>> /\ next[c] = TheHead(n + 1)
    BY <1>1, <2>1, <2>3 DEF WorksOn
  <2>6. worker'[w].held = <<>> /\ arrived'[c] = <<>> /\ next'[c] = TheHead(n + 1)
    <3>1. CASE worker[w].held = <<>> /\ arrived[c] = <<>>
      BY <2>4, <3>1 DEF Unread
    <3>2. CASE worker[w].held = <<>> /\ arrived[c] = <<TheBody(n)>> /\ next[c] = TheHead(n + 1)
      BY <1>3, <2>4, <3>2, ShortSequences DEF Unread
    <3>3. CASE worker[w].held = <<TheBody(n)>> /\ arrived[c] = <<>> /\ next[c] = TheHead(n + 1)
      BY <1>3, <2>4, <3>3, ShortSequences DEF Unread
    <3> QED
      BY <2>5, <3>1, <3>2, <3>3
  <2> QED
    BY <1>0, <1>1, <2>2, <2>6, OneThread DEF WorksOn, Active
<1> QED
  BY <1>0, <1>1, <1>4, TurnWorks

LEMMA HandlersTurn ==
  ASSUME Shape, PoolInv, NEW w \in Workers, ReadContentFails(w) \/ Handle(w),
         NEW c, c = worker[w].conn, InTurn(c)
  PROVE  InTurn(c)'
<1>0. WorkStep(w)
  BY DEF WorkStep
<1>1. /\ worker[w].pc \in {"content", "handling"} /\ worker'[w].pc = "answering"
      /\ worker'[w].req = worker[w].req /\ worker'[w].held = worker[w].held
      /\ answers' = answers /\ arrived'[c] \in {arrived[c], <<>>}
      /\ worker[w].pc = "handling" => arrived' = arrived
      /\ worker[w].pc = "content" => worker'[w].status = 400
  BY HandlingEnds
<1>2. \A n : BodyKind(c, n)' = BodyKind(c, n) /\ next'[c] = next[c]
  BY <1>0, WorkAlone DEF Alone, BodyKind, RequestOf
<1>3. ASSUME NEW n \in Nat \ {0}, AtTurn(c, n) PROVE AtTurn(c, n)'
  <2>1. WorksOn(w, c, n)
    BY <1>1, <1>3 DEF AtTurn, Works, Active
  <2>2. worker'[w].req = n
    BY <1>1, <2>1 DEF WorksOn
  <2>3. CASE worker[w].pc = "content"
    <3>1. BodyKind(c, n) # "none" /\ worker'[w].status = 400
      BY <1>1, <2>1, <2>3 DEF WorksOn
    <3> QED
      BY <1>0, <1>1, <1>2, <2>2, <3>1, OneThread DEF WorksOn, Active
  <2>4. CASE worker[w].pc = "handling"
    <3>1. worker[w].held = <<>> /\ arrived[c] = <<>> /\ next[c] = TheHead(n + 1)
      BY <2>1, <2>4 DEF WorksOn
    <3> QED
      BY <1>0, <1>1, <1>2, <2>2, <2>4, <3>1, OneThread DEF WorksOn, Active
  <2> QED
    BY <1>1, <2>3, <2>4
<1> QED
  BY <1>0, <1>1, <1>3, TurnWorks

LEMMA AnswersTurnStep ==
  ASSUME Shape, PoolInv, NEW w \in Workers, AnswerRequest(w), NEW c, c = worker[w].conn,
         InTurn(c)
  PROVE  InTurn(c)'
<1>0. Alone(w) /\ WorkStep(w) /\ c \in Connections
  BY WorkAlone DEF WorkStep, Alone
<1>1. /\ worker[w].pc = "answering" /\ arrived' = arrived
      /\ worker'[w].pc \in {"looking", "leaving"}
  BY AnswerWritten
<1>2. CASE ~Alive(c)
  <2>1. answers'[c] = answers[c]
    BY <1>2, AnswerWritten
  <2>2. ~Alive(c)'
    BY <1>0, <1>1, <1>2 DEF Alone, Alive
  <2> QED
    BY <1>0, <1>1, <2>1, <2>2, TurnWorks
<1>3. CASE Alive(c)
  <2> SUFFICES ASSUME client[c].kind = "waiting"
               PROVE  AnswersTurn(c)' /\ (Clean(c)' => AtTurn(c, Len(answers[c]) + 1)')
    BY <1>0 DEF InTurn, Alone
  <2>1. PICK n \in Nat \ {0} : n = Len(answers[c]) + 1
    BY <1>0, Counts
  <2>2. PICK answer : /\ answer.to = worker[w].req /\ answer.status = worker[w].status
                      /\ answers'[c] = Append(answers[c], answer)
    BY <1>3, AnswerWritten
  <2>3. /\ Len(answers'[c]) = n /\ Len(answers[c]) = n - 1 /\ answers'[c][n] = answer
        /\ \A i \in 1 .. n - 1 : answers'[c][i] = answers[c][i]
    BY <1>0, <2>1, <2>2, Counts, AppendElements
  <2>4. client' = client
    BY <1>0 DEF Alone
  <2>5. ASSUME Clean(c)
        PROVE  /\ worker[w].req = n
               /\ \/ worker[w].status >= 400 /\ BodyKind(c, n) # "none"
                  \/ worker[w].held = <<>> /\ arrived[c] = <<>> /\ next[c] = TheHead(n + 1)
    <3>1. AtTurn(c, n)
      BY <1>3, <2>1, <2>5 DEF InTurn
    <3>2. WorksOn(w, c, n)
      BY <1>1, <3>1 DEF AtTurn, Works, Active
    <3> QED
      BY <1>1, <3>2 DEF WorksOn
  <2>6. AnswersTurn(c)'
    <3> SUFFICES ASSUME NEW i \in 1 .. n
                 PROVE  \/ answers'[c][i].to = i
                        \/ \E j \in 1 .. i - 1 : Strays(c, answers'[c][j])
      BY <2>3, <2>4, ZenonT(40) DEF AnswersTurn, Strays, RequestOf
    <3>1. CASE i \in 1 .. n - 1
      <4>1. AnswersTurn(c)
        BY DEF InTurn
      <4>2. \/ answers[c][i].to = i
            \/ \E j \in 1 .. i - 1 : Strays(c, answers[c][j])
        BY <2>3, <3>1, <4>1 DEF AnswersTurn
      <4>3. /\ answers'[c][i] = answers[c][i]
            /\ \A j \in 1 .. i - 1 : answers'[c][j] = answers[c][j]
        BY <2>3, <3>1
      <4> QED
        BY <4>2, <4>3
    <3>2. CASE i = n /\ Clean(c)
      BY <2>2, <2>3, <2>5, <3>2
    <3>3. CASE i = n /\ ~Clean(c)
      BY <2>3, <3>3 DEF Clean
    <3> QED
      BY <3>1, <3>2, <3>3, SMTT(30)
  <2>7. ASSUME Clean(c)' PROVE AtTurn(c, n + 1)'
    <3>1. \A i \in 1 .. n : ~Strays(c, answers'[c][i])
      BY <1>0, <2>3, <2>7 DEF Clean, Strays, RequestOf, Alone
    <3>2. Clean(c)
      BY <2>3, <3>1 DEF Clean
    <3>3. ~(worker[w].status >= 400 /\ BodyKind(c, n) # "none")
      BY <2>2, <2>3, <2>5, <3>1, <3>2 DEF Strays, BodyKind
    <3>4. NothingSent(c, n + 1)'
      BY <1>0, <1>1, <2>5, <3>2, <3>3 DEF NothingSent, Alone, TheHead
    <3> QED
      BY <1>0, <1>1, <3>4, OneThread DEF Active
  <2> QED
    BY <2>3, <2>6, <2>7
<1> QED
  BY <1>2, <1>3

LEMMA TurnStep == Shape /\ PoolInv /\ TurnInv /\ [Next]_vars => TurnInv'
<1> SUFFICES ASSUME Shape, PoolInv, TurnInv, [Next]_vars, NEW c \in Connections
             PROVE  InTurn(c)'
  BY DEF TurnInv
<1>0. InTurn(c)
  BY DEF TurnInv
<1>1. ASSUME client' = client, eof \subseteq eof', worker' = worker,
             next'[c] = next[c], answers'[c] = answers[c], arrived'[c] = arrived[c]
      PROVE  InTurn(c)'
  BY <1>0, <1>1, TurnStays DEF Works
<1>2. CASE UNCHANGED vars
  BY <1>1, <1>2 DEF vars, clientVars
<1>3. ASSUME NEW d \in Connections, ClientNext(d) PROVE InTurn(c)'
  <2>1. CASE Connect(d) \/ Hangup(d)
    BY <1>1, <2>1 DEF Connect, Hangup, clientVars
  <2>2. CASE Send(d) /\ d = c
    BY <1>0, <2>2, TurnSends
  <2>3. CASE Send(d) /\ d # c
    BY <1>1, <2>3 DEF Send, Shape, Wires
  <2> QED
    BY <1>3, <2>1, <2>2, <2>3 DEF ClientNext
<1>4. CASE Bind \/ FailToBind \/ ListenerStep \/ AcceptFails \/ Stop \/ StopCloses
  BY <1>1, <1>4 DEF Bind, FailToBind, ListenerStep, ListenInternal, Accept, AcceptFails,
                    ListenReturns, Stop, StopCloses, clientVars
<1>5. ASSUME NEW w \in Workers, OtherStep(w) PROVE InTurn(c)'
  <2>1. /\ worker[w].pc \notin Active /\ worker'[w].pc \notin Active
        /\ \A v \in Workers : v # w => worker'[v] = worker[v]
        /\ UNCHANGED <<client, next, eof, arrived, answers>>
    BY <1>5, OtherSteps
  <2> QED
    BY <1>0, <2>1, TurnStays DEF Works
<1>6. ASSUME NEW w \in Workers, WorkStep(w), worker[w].conn # c PROVE InTurn(c)'
  <2>1. Alone(w)
    BY <1>6, WorkAlone
  <2> QED
    BY <1>0, <1>6, <2>1, TurnStays DEF Alone, Works
<1>7. ASSUME NEW w \in Workers, WorkStep(w), worker[w].conn = c PROVE InTurn(c)'
  BY <1>0, <1>7, HeadsTurn, LinesTurn, ContentsTurn, HandlersTurn, AnswersTurnStep DEF WorkStep
<1> QED
  BY <1>2, <1>3, <1>4, <1>5, <1>6, <1>7, StepsOfThreads DEF Next, ServerNext

-----------------------------------------------------------------------------
(* The server and its clients, the library's included *)

\* What the library's client does to the server, another client could do.
LEMMA ClientsAreClients == [WebNext]_webVars => [Next]_vars
<1> SUFFICES ASSUME [WebNext]_webVars PROVE [Next]_vars
  OBVIOUS
<1>1. CASE UNCHANGED webVars
  BY <1>1 DEF webVars
<1>2. CASE ServerNext \/ \E c \in Connections : ClientNext(c)
  BY <1>2 DEF Next
<1>3. ASSUME NEW c \in Connections, Get(c) \/ CallStep(c) PROVE [Next]_vars
  <2>1. UNCHANGED vars \/ ClientNext(c)
    BY <1>3 DEF Get, CallStep, ReachServer, FailToConnect, WriteRequest, FailToWrite,
                ReadResponse, FailToRead, ClientNext
  <2> QED
    BY <2>1 DEF Next
<1> QED
  BY <1>1, <1>2, <1>3 DEF WebNext

\* The answers keep their places, closed connections stay closed and waiting clients
\* get their turn.
ServerInv == Shape /\ PoolInv /\ OrderInv /\ CloseInv /\ TurnInv

LEMMA ServerInvInit == Init => ServerInv
  BY ShapeInit, PoolInit, OrderInit, CloseInit, TurnInit DEF ServerInv

LEMMA ServerInvStep == ServerInv /\ [Next]_vars => ServerInv'
  BY ShapeStep, PoolStep, OrderStep, CloseStep, TurnStep DEF ServerInv

LEMMA ServerInvShows == ServerInv => AnswersInOrder
<1> SUFFICES ASSUME ServerInv, NEW c \in Connections, NEW i \in 1 .. Len(answers[c])
             PROVE  /\ client[c].kind = "waiting" =>
                           \/ answers[c][i].to = i
                           \/ \E j \in 1 .. i - 1 : Strays(c, answers[c][j])
                    /\ \A j \in 1 .. i - 1 :
                           /\ 0 \notin {answers[c][i].to, answers[c][j].to} =>
                                  answers[c][j].to < answers[c][i].to
                           /\ answers[c][j].close => answers[c][j].status = 414
  <2>1. ServerInv => \A c \in Connections : DOMAIN answers[c] = 1 .. Len(answers[c])
    BY Counts DEF ServerInv
  <2> QED
    BY <2>1 DEF AnswersInOrder
<1>1. /\ InTurn(c) /\ Ordered(c)
      /\ \A j \in 1 .. i - 1 : ~SaysClose(answers[c][j])
  BY DEF ServerInv, TurnInv, OrderInv, CloseInv
<1> QED
  BY <1>1 DEF InTurn, AnswersTurn, Ordered, AnswersOrdered, SaysClose

LEMMA ServerInvariant == Spec => []ServerInv
  BY ServerInvInit, ServerInvStep, PTL DEF Spec

LEMMA WebInvariant == WebSpec => []ServerInv
<1>1. WebInit => ServerInv
  BY ServerInvInit DEF WebInit
<1>2. ServerInv /\ [WebNext]_webVars => ServerInv'
  BY ServerInvStep, ClientsAreClients
<1> QED
  BY <1>1, <1>2, PTL DEF WebSpec

\* Every connection, thread and queue of the server holds what it should, whatever
\* the clients send.
THEOREM ServerTypeCorrect == WebSpec => []TypeOK
<1>1. ServerInv => TypeOK
  BY ShapeTypes DEF ServerInv
<1> QED
  BY <1>1, WebInvariant, PTL

\* listen returns with nothing queued, served or running, for any number of
\* threads: they all leave the pool, each of them only when the queue is empty,
\* and nothing joins the queue after that.
THEOREM ListenDrains == WebSpec => []DrainedAtReturn
<1>1. ServerInv => DrainedAtReturn
  BY PoolInvShows DEF ServerInv
<1> QED
  BY <1>1, WebInvariant, PTL

\* However clients send, hang up and come back, and however many threads serve them:
\* a client that waits is answered request by request until an answer leaves a body
\* behind, answers to others only skip requests, and nothing follows an answer that
\* closes the connection.
THEOREM AnswersStayInOrder == WebSpec => []AnswersInOrder
  BY WebInvariant, ServerInvShows, PTL

\* The same of a server whose clients are any clients.
THEOREM AnyServerAnswersInOrder == Spec => [](AnswersInOrder /\ DrainedAtReturn)
<1>1. ServerInv => AnswersInOrder /\ DrainedAtReturn
  BY ServerInvShows, PoolInvShows DEF ServerInv
<1> QED
  BY <1>1, ServerInvariant, PTL

\* A call of the library runs the server it asks: with such clients the server is
\* still the server of HttpServer, its fairness included.
THEOREM WebRunsServer == WebSpec => Spec
<1>1. WebInit => Init
  BY DEF WebInit
<1> QED
  BY <1>1, ClientsAreClients, PTL DEF WebSpec, Spec

-----------------------------------------------------------------------------
(* Ranges *)

\* A range as a request has it, and the stretches of a body of length n.
AskedRange == (Nat \cup {Absent}) \X (Nat \cup {Absent})
Stretches(n) == {p \in Nat \X Nat : p[1] <= p[2] /\ p[2] < n}

\* A range that can be satisfied stands for the stretch of the bytes it asks for.
LEMMA RangeResolved ==
  ASSUME NEW range \in AskedRange, IsRange(range), NEW n \in Nat
  PROVE  /\ Within(Resolve(range, n), n) <=> Satisfiable(range, n)
         /\ Within(Resolve(range, n), n) =>
               /\ Resolve(range, n) \in Stretches(n)
               /\ \A b \in Int : b \in Asked(range, n) <=>
                     Resolve(range, n)[1] <= b /\ b <= Resolve(range, n)[2]
<1> PICK first, last : first = range[1] /\ last = range[2]
  OBVIOUS
<1>1. /\ first \in Nat \/ first = -1
      /\ last \in Nat \/ last = -1
      /\ ~(first = -1 /\ last = -1)
      /\ first = -1 \/ last = -1 \/ first <= last
  BY DEF AskedRange, IsRange, Absent
<1>2. CASE first = -1
  <2>1. Resolve(range, n) = <<n - last, n - 1>> /\ last \in Nat
    BY <1>1, <1>2 DEF Resolve, Absent
  <2>2. Satisfiable(range, n) <=> last \in 1 .. n
    BY <1>2 DEF Satisfiable, Absent
  <2>3. \A b \in Int : b \in Asked(range, n) <=> b \in 0 .. n - 1 /\ b >= n - last
    BY <1>2 DEF Asked, Absent
  <2> QED
    BY <2>1, <2>2, <2>3 DEF Within, Stretches
<1>3. CASE first # -1 /\ (last = -1 \/ last >= n)
  <2>1. Resolve(range, n) = <<first, n - 1>> /\ first \in Nat
    BY <1>1, <1>3 DEF Resolve, Absent
  <2>2. Satisfiable(range, n) <=> first < n
    BY <1>3 DEF Satisfiable, Absent
  <2>3. \A b \in Int : b \in Asked(range, n) <=> b \in 0 .. n - 1 /\ b >= first
    BY <1>1, <1>3 DEF Asked, Absent
  <2> QED
    BY <2>1, <2>2, <2>3 DEF Within, Stretches
<1>4. CASE first # -1 /\ last # -1 /\ ~(last >= n)
  <2>1. Resolve(range, n) = <<first, last>> /\ first \in Nat /\ last \in Nat /\ last < n
    BY <1>1, <1>4 DEF Resolve, Absent
  <2>2. Satisfiable(range, n) <=> first < n
    BY <1>4 DEF Satisfiable, Absent
  <2>3. \A b \in Int : b \in Asked(range, n) <=> b \in 0 .. n - 1 /\ b >= first /\ b <= last
    BY <1>1, <1>4 DEF Asked, Absent
  <2> QED
    BY <1>1, <2>1, <2>2, <2>3 DEF Within, Stretches
<1> QED
  BY <1>2, <1>3, <1>4

\* Stretches overlap when they share a byte.
LEMMA OverlapShares ==
  ASSUME NEW n \in Nat, NEW p \in Stretches(n), NEW q \in Stretches(n)
  PROVE  Overlap(p, q) <=> \E b \in Int : p[1] <= b /\ b <= p[2] /\ q[1] <= b /\ b <= q[2]
<1> PICK a, b, c, d : a = p[1] /\ b = p[2] /\ c = q[1] /\ d = q[2]
  OBVIOUS
<1>1. a \in Int /\ b \in Int /\ c \in Int /\ d \in Int /\ a <= b /\ c <= d
  BY DEF Stretches
<1>2. ASSUME Overlap(p, q) PROVE \E x \in Int : a <= x /\ x <= b /\ c <= x /\ x <= d
  <2>1. c <= b /\ a <= d
    BY <1>1, <1>2 DEF Overlap
  <2>2. CASE a <= c
    BY <1>1, <2>1, <2>2
  <2>3. CASE c <= a
    BY <1>1, <2>1, <2>3
  <2> QED
    BY <1>1, <2>2, <2>3
<1>3. ASSUME NEW x \in Int, a <= x, x <= b, c <= x, x <= d PROVE Overlap(p, q)
  BY <1>1, <1>3 DEF Overlap
<1> QED
  BY <1>2, <1>3

-----------------------------------------------------------------------------
(* Sorting *)

SortedList(list) == \A i, j \in DOMAIN list : i < j => list[i][1] <= list[j][1]

\* The sorted list has the same members.
LEMMA SortedByFirstSorts ==
  ASSUME NEW S, \A p \in S : p[1] \in Int, NEW list \in Seq(S)
  PROVE  /\ SortedByFirst(list) \in [1 .. Len(list) -> S]
         /\ SortedList(SortedByFirst(list))
         /\ \A i \in DOMAIN list : \E j \in DOMAIN list : SortedByFirst(list)[j] = list[i]
         /\ \A j \in DOMAIN list : \E i \in DOMAIN list : SortedByFirst(list)[j] = list[i]
<1> PICK n : n = Len(list)
  OBVIOUS
<1>1. n \in Nat /\ DOMAIN list = 1 .. n /\ \A i \in 1 .. n : list[i] \in S
  BY LenProperties, ElementOfSeq
<1> DEFINE IsOrder(o) == \A i, j \in DOMAIN list : i < j => list[o[i]][1] <= list[o[j]][1]
           first == [i \in 1 .. n |-> list[i][1]]
<1>2. PICK places : Lists(places, 1 .. n, first)
  <2>1. \A i \in 1 .. n : first[i] \in Int
    BY <1>1
  <2>2. IsFiniteSet(1 .. n)
    BY <1>1, FirstNumbers
  <2> HIDE DEF first
  <2> QED
    BY <2>1, <2>2, InOrder
<1>3. Cardinality(1 .. n) = n
  BY <1>1, FirstNumbers
<1>4. /\ places \in [1 .. n -> 1 .. n]
      /\ \A i \in 1 .. n : \E j \in 1 .. n : places[j] = i
      /\ \A i, j \in 1 .. n : i < j => first[places[i]] <= first[places[j]]
  BY <1>2, <1>3 DEF Lists, Range
<1>5. places \in Surjection(DOMAIN list, DOMAIN list)
  BY <1>1, <1>4 DEF Surjection
<1>6. IsOrder(places)
  BY <1>1, <1>4
<1> DEFINE sorted == CHOOSE o \in Surjection(DOMAIN list, DOMAIN list) : IsOrder(o)
<1>7. sorted \in Surjection(DOMAIN list, DOMAIN list) /\ IsOrder(sorted)
  <2> HIDE DEF IsOrder
  <2> QED
    BY <1>5, <1>6
<1>8. SortedByFirst(list) = [i \in DOMAIN list |-> list[sorted[i]]]
  BY DEF SortedByFirst
<1> HIDE DEF sorted
<1>9. sorted \in [1 .. n -> 1 .. n] /\ \A i \in 1 .. n : \E j \in 1 .. n : sorted[j] = i
  BY <1>1, <1>7 DEF Surjection
<1>10. SortedByFirst(list) \in [1 .. Len(list) -> S]
  BY <1>1, <1>8, <1>9
<1>11. SortedList(SortedByFirst(list))
  BY <1>7, <1>8 DEF SortedList
<1>12. \A j \in DOMAIN list : SortedByFirst(list)[j] = list[sorted[j]] /\ sorted[j] \in DOMAIN list
  BY <1>1, <1>8, <1>9
<1>13. \A i \in DOMAIN list : \E j \in DOMAIN list : SortedByFirst(list)[j] = list[i]
  <2> TAKE i \in DOMAIN list
  <2>1. PICK j \in 1 .. n : sorted[j] = i
    BY <1>1, <1>9
  <2> QED
    BY <1>1, <1>12, <2>1
<1> QED
  BY <1>10, <1>11, <1>12, <1>13

-----------------------------------------------------------------------------
(* Merging *)

LEMMA LastReplaced ==
  ASSUME NEW S, NEW s \in Seq(S), s # <<>>, NEW x \in S
  PROVE  /\ Append(Front(s), x) \in Seq(S)
         /\ Len(Append(Front(s), x)) = Len(s)
         /\ \A i \in 1 .. Len(s) : Append(Front(s), x)[i] = IF i = Len(s) THEN x ELSE s[i]
<1>1. Len(s) \in Nat \ {0}
  BY EmptySeq, LenProperties
<1>2. /\ Front(s) \in Seq(S) /\ Len(Front(s)) = Len(s) - 1
      /\ \A i \in 1 .. Len(s) - 1 : Front(s)[i] = s[i]
  <2> PICK l : l = Len(s)
    OBVIOUS
  <2>1. l \in Nat /\ 1 \in 1 .. l + 1 /\ l - 1 \in 1 - 1 .. l
    BY <1>1
  <2>2. /\ SubSeq(s, 1, l - 1) \in Seq(S)
        /\ Len(SubSeq(s, 1, l - 1)) = IF 1 <= l - 1 THEN l - 1 - 1 + 1 ELSE 0
        /\ \A i \in 1 .. l - 1 - 1 + 1 : SubSeq(s, 1, l - 1)[i] = s[1 + i - 1]
    BY <2>1, SubSeqProperties
  <2>3. Front(s) = SubSeq(s, 1, l - 1)
    BY DEF Front
  <2> QED
    BY <1>1, <2>1, <2>2, <2>3
<1> QED
  BY <1>1, <1>2, AppendProperties

\* The parts after the first k of the sorted stretches.
Merged(parts, s, k, n) ==
    /\ parts \in Seq(Stretches(n))
    /\ k = 0 => parts = <<>>
    /\ k > 0 => parts # <<>> /\ Last(parts)[1] <= s[k][1]
    /\ \A b \in Int :
          (\E i \in 1 .. Len(parts) : parts[i][1] <= b /\ b <= parts[i][2]) <=>
          (\E i \in 1 .. k : s[i][1] <= b /\ b <= s[i][2])
    /\ \A i \in 1 .. Len(parts) - 1 :
          parts[i][1] <= parts[i + 1][1] /\ parts[i][2] <= parts[i + 1][2]

LEMMA NotTouched ==
  ASSUME NEW a \in Int, NEW b \in Int, NEW c \in Int, ~(b <= a + 1), b <= c
  PROVE  a <= c
  OBVIOUS

LEMMA JoinKeepsMerged ==
  ASSUME NEW n \in Nat, NEW m \in Nat, NEW s \in [1 .. m -> Stretches(n)],
         \A i, j \in 1 .. m : i < j => s[i][1] <= s[j][1],
         NEW k \in 0 .. m - 1, NEW parts, Merged(parts, s, k, n)
  PROVE  Merged(Join(parts, s[k + 1]), s, k + 1, n)
<1> PICK r : r = s[k + 1]
  OBVIOUS
<1> PICK new : new = Join(parts, r)
  OBVIOUS
<1>1. /\ k + 1 \in 1 .. m /\ r \in Stretches(n)
      /\ parts \in Seq(Stretches(n)) /\ Len(parts) \in Nat
      /\ \A i \in 1 .. Len(parts) : parts[i] \in Stretches(n)
      /\ k > 0 => s[k][1] <= r[1] /\ s[k] \in Stretches(n)
  BY LenProperties, ElementOfSeq DEF Merged
<1>2. \A p \in Stretches(n) : p[1] \in Nat /\ p[2] \in Nat /\ p[1] <= p[2] /\ p[2] < n
                                  /\ p = <<p[1], p[2]>>
  BY DEF Stretches
<1>3. \A b \in Int :
         (\E i \in 1 .. k + 1 : s[i][1] <= b /\ b <= s[i][2]) <=>
            \/ \E i \in 1 .. k : s[i][1] <= b /\ b <= s[i][2]
            \/ r[1] <= b /\ b <= r[2]
  <2>1. \A i : i \in 1 .. k + 1 <=> i \in 1 .. k \/ i = k + 1
    OBVIOUS
  <2> QED
    BY <2>1
<1>4. CASE parts # <<>> /\ r[1] <= Last(parts)[2] + 1 /\ r # Last(parts)
  <2> PICK prev : prev = Last(parts)
    OBVIOUS
  <2> PICK l : l = Len(parts)
    OBVIOUS
  <2>1. l \in Nat \ {0} /\ prev = parts[l] /\ prev \in Stretches(n)
    BY <1>1, <1>4, EmptySeq DEF Last
  <2>2. k > 0 /\ prev[1] <= r[1]
    <3>1. k # 0 /\ k \in Nat
      BY <1>4 DEF Merged
    <3>2. prev[1] <= s[k][1] /\ s[k][1] <= r[1] /\ s[k] \in Stretches(n)
      BY <1>1, <3>1 DEF Merged
    <3> PICK a, b, c : a = prev[1] /\ b = s[k][1] /\ c = r[1]
      OBVIOUS
    <3>3. a \in Int /\ b \in Int /\ c \in Int
      BY <1>1, <1>2, <2>1, <3>2, SMTT(30)
    <3> QED
      BY <3>1, <3>2, <3>3, SMTT(30)
  <2> PICK end : end = Max({prev[2], r[2]})
    OBVIOUS
  <2>3. /\ end = prev[2] \/ end = r[2]
        /\ end >= prev[2] /\ end >= r[2]
    <3>1. \E x \in {prev[2], r[2]} : \A y \in {prev[2], r[2]} : x >= y
      BY <1>1, <1>2, <2>1, SMTT(30)
    <3> QED
      BY <3>1 DEF Max
  <2>4. <<prev[1], end>> \in Stretches(n)
    BY <1>1, <1>2, <2>1, <2>3 DEF Stretches
  <2>5. new = Append(Front(parts), <<prev[1], end>>)
    BY <1>4 DEF Join
  <2>6. /\ new \in Seq(Stretches(n)) /\ Len(new) = l
        /\ \A i \in 1 .. l : new[i] = IF i = l THEN <<prev[1], end>> ELSE parts[i]
    BY <1>1, <1>4, <2>4, <2>5, LastReplaced
  <2>7. new # <<>> /\ Last(new)[1] <= s[k + 1][1]
    BY <2>1, <2>2, <2>6, EmptySeq DEF Last
  <2>8. \A b \in Int :
           (\E i \in 1 .. l : new[i][1] <= b /\ b <= new[i][2]) <=>
              \/ \E i \in 1 .. l : parts[i][1] <= b /\ b <= parts[i][2]
              \/ r[1] <= b /\ b <= r[2]
    <3> SUFFICES ASSUME NEW b \in Int
                 PROVE  (\E i \in 1 .. l : new[i][1] <= b /\ b <= new[i][2]) <=>
                           \/ \E i \in 1 .. l : parts[i][1] <= b /\ b <= parts[i][2]
                           \/ r[1] <= b /\ b <= r[2]
      OBVIOUS
    <3>1. (prev[1] <= b /\ b <= end) <=>
             ((prev[1] <= b /\ b <= prev[2]) \/ (r[1] <= b /\ b <= r[2]))
      <4> PICK p1, p2, r1, r2 : p1 = prev[1] /\ p2 = prev[2] /\ r1 = r[1] /\ r2 = r[2]
        OBVIOUS
      <4>1. p1 \in Int /\ p2 \in Int /\ r1 \in Int /\ r2 \in Int /\ p1 <= p2 /\ r1 <= r2
        BY <1>1, <1>2, <2>1, SMTT(30)
      <4>2. p1 <= r1 /\ r1 <= p2 + 1
        BY <1>4, <2>2
      <4>3. (end = p2 \/ end = r2) /\ end >= p2 /\ end >= r2 /\ end \in Int
        BY <2>3, <4>1
      <4>4. (p1 <= b /\ b <= end) <=> ((p1 <= b /\ b <= p2) \/ (r1 <= b /\ b <= r2))
        <5>1. CASE end = p2
          <6>1. p2 >= r2 /\ b \in Int
            BY <4>3, <5>1
          <6>2. ASSUME r1 <= b PROVE p1 <= b
            BY <4>1, <4>2, <6>1, <6>2, SMTT(30)
          <6>3. ASSUME b <= r2 PROVE b <= p2
            BY <4>1, <6>1, <6>3
          <6> QED
            BY <5>1, <6>2, <6>3
        <5>2. CASE end = r2
          <6>1. r2 >= p2 /\ r1 <= p2 + 1 /\ p1 <= r1 /\ b \in Int
            BY <4>2, <4>3, <5>2
          <6>2. (p1 <= b /\ b <= r2) <=> ((p1 <= b /\ b <= p2) \/ (r1 <= b /\ b <= r2))
            <7>1. ASSUME b <= p2 PROVE b <= r2
              BY <4>1, <6>1, <7>1, SMTT(30)
            <7>2. ASSUME r1 <= b PROVE p1 <= b
              BY <4>1, <6>1, <7>2, SMTT(30)
            <7>3. ASSUME ~(b <= p2) PROVE r1 <= b
              BY <4>1, <6>1, <7>3, SMTT(30)
            <7> QED
              BY <7>1, <7>2, <7>3
          <6> QED
            BY <5>2, <6>2
        <5> QED
          BY <4>3, <5>1, <5>2
      <4> QED
        BY <4>4
    <3>2. l \in 1 .. l
      BY <2>1
    <3>3. new[l] = <<prev[1], end>>
      BY <2>6, <3>2
    <3> PICK p1, p2 : p1 = prev[1] /\ p2 = prev[2]
      OBVIOUS
    <3>4. \A i \in 1 .. l : i # l => new[i] = parts[i]
      BY <2>6
    <3>5. (\E i \in 1 .. l : new[i][1] <= b /\ b <= new[i][2]) <=>
             \/ \E i \in 1 .. l : i # l /\ parts[i][1] <= b /\ b <= parts[i][2]
             \/ p1 <= b /\ b <= end
      <4>1. \A i \in 1 .. l : i = l => (new[i][1] = p1 /\ new[i][2] = end)
        BY <3>3
      <4> QED
        BY <3>2, <3>4, <4>1
    <3>6. (\E i \in 1 .. l : parts[i][1] <= b /\ b <= parts[i][2]) <=>
             \/ \E i \in 1 .. l : i # l /\ parts[i][1] <= b /\ b <= parts[i][2]
             \/ p1 <= b /\ b <= p2
      BY <2>1, <3>2
    <3> QED
      BY <3>1, <3>5, <3>6
  <2>9. ASSUME NEW i \in 1 .. l - 1
        PROVE  new[i][1] <= new[i + 1][1] /\ new[i][2] <= new[i + 1][2]
    <3>1. parts[i][1] <= parts[i + 1][1] /\ parts[i][2] <= parts[i + 1][2]
      BY DEF Merged
    <3>2. i \in 1 .. l /\ i # l /\ i + 1 \in 1 .. l /\ new[i] = parts[i]
      BY <2>1, <2>6
    <3>3. CASE i + 1 = l
      <4>1. new[i + 1] = <<prev[1], end>> /\ parts[i + 1] = prev
        BY <2>1, <2>6, <3>2, <3>3
      <4>2. parts[i] \in Stretches(n)
        BY <1>1, <3>2
      <4>3. new[i][1] <= prev[1] /\ new[i][2] <= prev[2]
        BY <3>1, <3>2, <4>1
      <4>4. new[i + 1][1] = prev[1] /\ new[i + 1][2] = end
        BY <4>1
      <4> PICK x, y : x = new[i][2] /\ y = prev[2]
        OBVIOUS
      <4>5. x \in Int /\ y \in Int /\ end \in Int
        <5>1. \A p \in Stretches(n) : p[2] \in Int
          BY <1>2
        <5> QED
          BY <1>1, <2>1, <2>3, <3>2, <4>2, <5>1
      <4> QED
        BY <2>3, <4>3, <4>4, <4>5, SMTT(30)
    <3>4. CASE i + 1 # l
      BY <2>6, <3>1, <3>2, <3>4
    <3> QED
      BY <3>3, <3>4
  <2>10. \A b \in Int :
           (\E i \in 1 .. Len(new) : new[i][1] <= b /\ b <= new[i][2]) <=>
           (\E i \in 1 .. k + 1 : s[i][1] <= b /\ b <= s[i][2])
    BY <1>3, <2>6, <2>8, ZenonT(40) DEF Merged
  <2>11. k + 1 # 0
    BY <2>2
  <2> QED
    BY <2>6, <2>7, <2>9, <2>10, <2>11 DEF Merged
<1>5. CASE ~(parts # <<>> /\ r[1] <= Last(parts)[2] + 1 /\ r # Last(parts))
  <2> PICK l : l = Len(parts)
    OBVIOUS
  <2>1. new = Append(parts, r)
    BY <1>5 DEF Join
  <2>2. /\ new \in Seq(Stretches(n)) /\ Len(new) = l + 1 /\ l \in Nat
        /\ new[l + 1] = r /\ \A i \in 1 .. l : new[i] = parts[i]
    BY <1>1, <2>1, AppendProperties
  <2>3. new # <<>> /\ Last(new) = r
    BY <2>2, EmptySeq DEF Last
  <2>4. \A i : i \in 1 .. l + 1 <=> i \in 1 .. l \/ i = l + 1
    BY <2>2
  <2>5. \A b \in Int :
           (\E i \in 1 .. Len(new) : new[i][1] <= b /\ b <= new[i][2]) <=>
              \/ \E i \in 1 .. l : parts[i][1] <= b /\ b <= parts[i][2]
              \/ r[1] <= b /\ b <= r[2]
    BY <2>2, <2>4
  <2>6. ASSUME NEW i \in 1 .. Len(new) - 1
        PROVE  new[i][1] <= new[i + 1][1] /\ new[i][2] <= new[i + 1][2]
    <3>1. i \in 1 .. l /\ new[i] = parts[i]
      BY <2>2
    <3>2. CASE i # l
      <4>1. i \in 1 .. l - 1 /\ i + 1 \in 1 .. l
        BY <2>2, <3>1, <3>2
      <4> QED
        BY <2>2, <3>1, <4>1 DEF Merged
    <3>3. CASE i = l
      <4>1. Last(parts) = parts[l] /\ parts # <<>> /\ parts[l] \in Stretches(n)
        BY <1>1, <2>2, <3>1, <3>3, EmptySeq DEF Last
      <4>2. parts[l][1] <= r[1]
        <5>1. k # 0 /\ k \in Nat
          BY <4>1 DEF Merged
        <5>2. parts[l][1] <= s[k][1] /\ s[k][1] <= r[1] /\ s[k] \in Stretches(n)
          BY <1>1, <4>1, <5>1 DEF Merged
        <5> PICK a, b, c : a = parts[l][1] /\ b = s[k][1] /\ c = r[1]
          OBVIOUS
        <5>3. a \in Int /\ b \in Int /\ c \in Int
          BY <1>1, <1>2, <4>1, <5>2, SMTT(30)
        <5>4. a <= b /\ b <= c
          BY <5>2
        <5>5. a <= c
          BY <5>3, <5>4, SMTT(30)
        <5> QED
          BY <5>5
      <4>3. parts[l][2] <= r[2]
        <5> PICK a, b, c : a = parts[l][2] /\ b = r[1] /\ c = r[2]
          OBVIOUS
        <5>1. a \in Int /\ b \in Int /\ c \in Int /\ b <= c
          BY <1>1, <1>2, <4>1
        <5>2. ~(b <= a + 1) \/ a = c
          BY <1>5, <4>1
        <5>3. ASSUME a = c PROVE a <= c
          BY <5>1, <5>3
        <5>4. ASSUME ~(b <= a + 1) PROVE a <= c
          BY <5>1, <5>4, NotTouched
        <5>5. a <= c
          BY <5>2, <5>3, <5>4
        <5> QED
          BY <5>5
      <4> QED
        BY <2>2, <3>1, <3>3, <4>2, <4>3
    <3> QED
      BY <3>2, <3>3
  <2>7. \A b \in Int :
           (\E i \in 1 .. Len(new) : new[i][1] <= b /\ b <= new[i][2]) <=>
           (\E i \in 1 .. k + 1 : s[i][1] <= b /\ b <= s[i][2])
    BY <1>3, <2>5 DEF Merged
  <2>8. k + 1 # 0 /\ Last(new)[1] <= s[k + 1][1]
    BY <1>1, <1>2, <2>3
  <2> QED
    BY <2>2, <2>3, <2>6, <2>7, <2>8 DEF Merged
<1> QED
  BY <1>4, <1>5

LEMMA JoinStays ==
  ASSUME NEW n \in Nat, NEW parts \in Seq(Stretches(n)), NEW r \in Stretches(n)
  PROVE  Join(parts, r) \in Seq(Stretches(n))
<1>1. CASE parts # <<>> /\ r[1] <= Last(parts)[2] + 1 /\ r # Last(parts)
  <2> PICK prev : prev = Last(parts)
    OBVIOUS
  <2>1. prev \in Stretches(n)
    <3>1. Len(parts) \in Nat \ {0}
      BY <1>1, EmptySeq, LenProperties
    <3>2. Len(parts) \in 1 .. Len(parts)
      BY <3>1
    <3> QED
      BY <3>2, ElementOfSeq DEF Last
  <2>2. PICK end : end = Max({prev[2], r[2]})
    OBVIOUS
  <2> PICK p1, p2, r1, r2 : p1 = prev[1] /\ p2 = prev[2] /\ r1 = r[1] /\ r2 = r[2]
    OBVIOUS
  <2>3. /\ p1 \in Nat /\ p2 \in Nat /\ r2 \in Nat
        /\ p1 <= p2 /\ p2 < n /\ r2 < n
    BY <2>1 DEF Stretches
  <2>4. (end = p2 \/ end = r2) /\ end >= p2
    <3>1. \E x \in {p2, r2} : \A y \in {p2, r2} : x >= y
      BY <2>3
    <3> QED
      BY <2>2, <3>1 DEF Max
  <2>5. <<p1, end>> \in Stretches(n)
    <3>1. end \in Nat /\ p1 <= end /\ end < n
      BY <2>3, <2>4
    <3> QED
      BY <2>3, <3>1 DEF Stretches
  <2>6. Join(parts, r) = Append(Front(parts), <<p1, end>>)
    BY <1>1, <2>2 DEF Join
  <2> QED
    BY <1>1, <2>5, <2>6, LastReplaced
<1>2. CASE ~(parts # <<>> /\ r[1] <= Last(parts)[2] + 1 /\ r # Last(parts))
  <2>1. Join(parts, r) = Append(parts, r)
    BY <1>2 DEF Join
  <2> QED
    BY <2>1, AppendProperties
<1> QED
  BY <1>1, <1>2

\* What coalesce_ranges makes of sorted stretches.
LEMMA AllMerged ==
  ASSUME NEW n \in Nat, NEW m \in Nat, NEW s \in [1 .. m -> Stretches(n)],
         \A i, j \in 1 .. m : i < j => s[i][1] <= s[j][1]
  PROVE  Merged(FoldLeft(Join, <<>>, s), s, m, n)
<1> DEFINE State == Seq(Stretches(n))
           step == [p \in State \X (1 .. m) |-> Join(p[1], s[p[2]])]
           Iterates(g) == g = [T \in SUBSET (1 .. m) |->
                                  IF T = {} THEN <<>> ELSE Join(g[T \ {Top(T)}], s[Top(T)])]
           g == CHOOSE g : Iterates(g)
<1>1. DOMAIN s = 1 .. m
  OBVIOUS
<1>2. FoldLeft(Join, <<>>, s) = g[1 .. m]
  BY <1>1 DEF FoldLeft, MapThenFoldSet, Max, Top
<1>3. \A x \in State, i \in 1 .. m : step[<<x, i>>] = Join(x, s[i]) /\ Join(x, s[i]) \in State
  BY JoinStays
<1>4. <<>> \in State
  BY EmptySeq
<1> HIDE DEF step, State
<1>5. Iterates(g)
  <2>1. PICK h : IsFold(h, step, <<>>, m)
    BY FoldsExist
  <2>2. \A T \in SUBSET (1 .. m) : h[T] \in State
    <3>1. \A x \in State, i \in 1 .. m : step[<<x, i>>] \in State
      BY <1>3
    <3> QED
      BY <1>4, <2>1, <3>1, FoldsStayIn
  <2>3. ASSUME NEW T \in SUBSET (1 .. m)
        PROVE  FoldedSoFar(h, step, <<>>, T) =
                  IF T = {} THEN <<>> ELSE Join(h[T \ {Top(T)}], s[Top(T)])
    <3>1. CASE T = {}
      BY <3>1 DEF FoldedSoFar
    <3>2. CASE T # {}
      <4>1. Top(T) \in 1 .. m /\ T \ {Top(T)} \in SUBSET (1 .. m)
        BY <3>2, TopIsLargest
      <4>2. step[<<h[T \ {Top(T)}], Top(T)>>] = Join(h[T \ {Top(T)}], s[Top(T)])
        BY <1>3, <2>2, <4>1
      <4> QED
        BY <3>2, <4>2 DEF FoldedSoFar
    <3> QED
      BY <3>1, <3>2
  <2>4. Iterates(h)
    BY <2>1, <2>3 DEF IsFold
  <2> HIDE DEF Iterates
  <2> QED
    BY <2>4
<1> HIDE DEF g
<1>6. \A T \in SUBSET (1 .. m) :
         g[T] = IF T = {} THEN <<>> ELSE Join(g[T \ {Top(T)}], s[Top(T)])
  BY <1>5
<1> DEFINE Good == {k \in 0 .. m : Merged(g[1 .. k], s, k, n)}
<1>7. 0 \in Good
  <2>1. 1 .. 0 = {} /\ 0 \in 0 .. m
    OBVIOUS
  <2>2. g[1 .. 0] = <<>>
    BY <1>6, <2>1
  <2>3. Merged(<<>>, s, 0, n)
    <3>1. <<>> \in Seq(Stretches(n)) /\ Len(<<>>) = 0
      BY EmptySeq
    <3> QED
      BY <3>1 DEF Merged
  <2> QED
    BY <2>1, <2>2, <2>3
<1>8. ASSUME NEW k \in 0 .. m - 1, k \in Good PROVE k + 1 \in Good
  <2>1. k + 1 \in 1 .. m /\ k + 1 \in 0 .. m /\ (k + 1) - 1 = k
    OBVIOUS
  <2>2. /\ 1 .. k + 1 \in SUBSET (1 .. m) /\ 1 .. k + 1 # {}
        /\ Top(1 .. k + 1) = k + 1 /\ (1 .. k + 1) \ {k + 1} = 1 .. k
    BY <2>1, TopOfInterval
  <2>3. g[1 .. k + 1] = Join(g[1 .. k], s[k + 1])
    BY <1>6, <2>2
  <2>4. Merged(g[1 .. k], s, k, n)
    BY <1>8
  <2>5. Merged(Join(g[1 .. k], s[k + 1]), s, k + 1, n)
    BY <2>4, JoinKeepsMerged
  <2> QED
    BY <2>1, <2>3, <2>5
<1>9. m \in Good
  <2> HIDE DEF Good
  <2> QED
    BY <1>7, <1>8, Upward, m \in 0 .. m
<1> QED
  BY <1>2, <1>9

-----------------------------------------------------------------------------
(* Answers *)

Bytes(p) == {b \in Int : p[1] <= b /\ b <= p[2]}

\* Satisfiable ranges stand for stretches of a body, with the bytes they ask for.
LEMMA AllResolved ==
  ASSUME NEW n \in Nat, NEW ranges \in Seq(AskedRange), ParsesAsRanges(ranges),
         \A i \in DOMAIN ranges : Within(Resolve(ranges[i], n), n)
  PROVE  /\ ResolveAll(ranges, n) \in Seq(Stretches(n))
         /\ DOMAIN ResolveAll(ranges, n) = DOMAIN ranges
         /\ Len(ResolveAll(ranges, n)) = Len(ranges)
         /\ \A i \in DOMAIN ranges :
               \A b \in Int : b \in Asked(ranges[i], n) <=>
                  /\ ResolveAll(ranges, n)[i][1] <= b
                  /\ b <= ResolveAll(ranges, n)[i][2]
<1> PICK m : m = Len(ranges)
  OBVIOUS
<1>1. m \in Nat /\ DOMAIN ranges = 1 .. m
  BY LenProperties
<1>2. ASSUME NEW i \in 1 .. m
      PROVE  /\ Resolve(ranges[i], n) \in Stretches(n)
             /\ \A b \in Int : b \in Asked(ranges[i], n) <=>
                   Resolve(ranges[i], n)[1] <= b /\ b <= Resolve(ranges[i], n)[2]
  <2>1. ranges[i] \in AskedRange
    BY <1>1, ElementOfSeq
  <2>2. IsRange(ranges[i]) /\ Within(Resolve(ranges[i], n), n)
    BY <1>1 DEF ParsesAsRanges
  <2> QED
    BY <2>1, <2>2, RangeResolved
<1>3. ResolveAll(ranges, n) = [i \in 1 .. m |-> Resolve(ranges[i], n)]
  BY <1>1 DEF ResolveAll
<1>4. ResolveAll(ranges, n) \in [1 .. m -> Stretches(n)]
  BY <1>2, <1>3
<1>5. ResolveAll(ranges, n) \in Seq(Stretches(n)) /\ Len(ResolveAll(ranges, n)) = m
  BY <1>1, <1>4
<1> QED
  BY <1>1, <1>2, <1>3, <1>5

LEMMA OverlapsAreRepeats ==
  ASSUME NEW n \in Nat, NEW ranges \in Seq(AskedRange), ParsesAsRanges(ranges),
         \A i \in DOMAIN ranges : Within(Resolve(ranges[i], n), n)
  PROVE  Overlapping(ResolveAll(ranges, n)) = Repeating(ranges, n)
<1> DEFINE resolved == ResolveAll(ranges, n)
<1>1. /\ resolved \in Seq(Stretches(n)) /\ DOMAIN resolved = DOMAIN ranges
      /\ \A i \in DOMAIN ranges :
            \A b \in Int : b \in Asked(ranges[i], n) <=> resolved[i][1] <= b /\ b <= resolved[i][2]
  BY AllResolved
<1> HIDE DEF resolved
<1>2. \A i : Asked(ranges[i], n) \subseteq Int
  BY DEF Asked
<1>3. DOMAIN ranges = 1 .. Len(ranges) /\ Len(ranges) \in Nat
  BY LenProperties
<1>4. ASSUME NEW i \in DOMAIN ranges, NEW j \in DOMAIN ranges
      PROVE  Overlap(resolved[i], resolved[j]) <=>
                Asked(ranges[i], n) \cap Asked(ranges[j], n) # {}
  <2>1. resolved[i] \in Stretches(n) /\ resolved[j] \in Stretches(n)
    BY <1>1, LenProperties, ElementOfSeq
  <2>2. Overlap(resolved[i], resolved[j]) <=>
           \E b \in Int : /\ resolved[i][1] <= b /\ b <= resolved[i][2]
                          /\ resolved[j][1] <= b /\ b <= resolved[j][2]
    BY <2>1, OverlapShares
  <2>3. (\E b \in Int : /\ resolved[i][1] <= b /\ b <= resolved[i][2]
                        /\ resolved[j][1] <= b /\ b <= resolved[j][2]) <=>
           \E b \in Int : b \in Asked(ranges[i], n) /\ b \in Asked(ranges[j], n)
    BY <1>1
  <2>4. (\E b \in Int : b \in Asked(ranges[i], n) /\ b \in Asked(ranges[j], n)) <=>
           Asked(ranges[i], n) \cap Asked(ranges[j], n) # {}
    BY <1>2
  <2> QED
    BY <2>2, <2>3, <2>4
<1>5. {i \in DOMAIN resolved : \E j \in 1 .. i - 1 : Overlap(resolved[i], resolved[j])} =
      {i \in DOMAIN ranges :
          \E j \in 1 .. i - 1 : Asked(ranges[i], n) \cap Asked(ranges[j], n) # {}}
  <2>1. \A i \in DOMAIN ranges : \A j \in 1 .. i - 1 : j \in DOMAIN ranges
    BY <1>3
  <2> QED
    BY <1>1, <1>4, <2>1
<1> QED
  BY <1>5 DEF Overlapping, Repeating, resolved

\* What is merged covers what was asked for, in order.
LEMMA CoalescesWhatIsAsked ==
  ASSUME NEW n \in Nat, NEW ranges \in Seq(AskedRange), ParsesAsRanges(ranges),
         \A i \in DOMAIN ranges : Within(Resolve(ranges[i], n), n),
         NEW parts, parts = CoalesceRanges(ranges, n)
  PROVE  /\ parts \in Seq(Stretches(n))
         /\ \A b \in Int :
               (\E i \in 1 .. Len(parts) : parts[i][1] <= b /\ b <= parts[i][2]) <=>
               (\E i \in DOMAIN ranges : b \in Asked(ranges[i], n))
         /\ \A i \in 1 .. Len(parts) - 1 :
               parts[i][1] <= parts[i + 1][1] /\ parts[i][2] <= parts[i + 1][2]
<1> PICK resolved : resolved = ResolveAll(ranges, n)
  OBVIOUS
<1> PICK m : m = Len(ranges)
  OBVIOUS
<1>1. /\ resolved \in Seq(Stretches(n)) /\ DOMAIN resolved = DOMAIN ranges
      /\ Len(resolved) = m
      /\ \A i \in DOMAIN ranges :
            \A b \in Int : b \in Asked(ranges[i], n) <=> resolved[i][1] <= b /\ b <= resolved[i][2]
  BY AllResolved
<1>2. m \in Nat /\ DOMAIN ranges = 1 .. m
  BY LenProperties
<1>3. CASE m <= 1
  <2>1. parts = resolved
    BY <1>1, <1>3 DEF CoalesceRanges
  <2>2. \A i \in 1 .. m - 1 : FALSE
    BY <1>2, <1>3
  <2>3. \A b \in Int :
           (\E i \in 1 .. m : resolved[i][1] <= b /\ b <= resolved[i][2]) <=>
           (\E i \in DOMAIN ranges : b \in Asked(ranges[i], n))
    BY <1>1, <1>2
  <2> QED
    BY <1>1, <2>1, <2>2, <2>3
<1>4. CASE ~(m <= 1)
  <2> PICK s : s = SortedByFirst(resolved)
    OBVIOUS
  <2>1. parts = FoldLeft(Join, <<>>, s)
    BY <1>1, <1>4 DEF CoalesceRanges
  <2>2. \A p \in Stretches(n) : p[1] \in Int
    BY DEF Stretches
  <2>3. /\ s \in [1 .. m -> Stretches(n)] /\ SortedList(s)
        /\ \A i \in 1 .. m : \E j \in 1 .. m : s[j] = resolved[i]
        /\ \A j \in 1 .. m : \E i \in 1 .. m : s[j] = resolved[i]
    <3>1. /\ s \in [1 .. Len(resolved) -> Stretches(n)] /\ SortedList(s)
          /\ \A i \in DOMAIN resolved : \E j \in DOMAIN resolved : s[j] = resolved[i]
          /\ \A j \in DOMAIN resolved : \E i \in DOMAIN resolved : s[j] = resolved[i]
      BY <1>1, <2>2, SortedByFirstSorts
    <3>2. Len(resolved) = m /\ DOMAIN resolved = 1 .. m
      BY <1>1, <1>2
    <3>3. ASSUME NEW i \in 1 .. m PROVE \E j \in 1 .. m : s[j] = resolved[i]
      <4>1. i \in DOMAIN resolved
        BY <3>2
      <4>2. PICK j \in DOMAIN resolved : s[j] = resolved[i]
        BY <3>1, <4>1
      <4> QED
        BY <3>2, <4>2
    <3>4. ASSUME NEW j \in 1 .. m PROVE \E i \in 1 .. m : s[j] = resolved[i]
      <4>1. j \in DOMAIN resolved
        BY <3>2
      <4>2. PICK i \in DOMAIN resolved : s[j] = resolved[i]
        BY <3>1, <4>1
      <4> QED
        BY <3>2, <4>2
    <3>5. s \in [1 .. m -> Stretches(n)] /\ SortedList(s)
      BY <3>1, <3>2
    <3> QED
      BY <3>3, <3>4, <3>5
  <2>4. \A i, j \in 1 .. m : i < j => s[i][1] <= s[j][1]
    BY <2>3, ZenonT(40) DEF SortedList
  <2>5. Merged(parts, s, m, n)
    BY <1>2, <2>1, <2>3, <2>4, AllMerged
  <2>6. \A b \in Int :
           (\E j \in 1 .. m : s[j][1] <= b /\ b <= s[j][2]) <=>
           (\E i \in 1 .. m : resolved[i][1] <= b /\ b <= resolved[i][2])
    BY <2>3, ZenonT(40)
  <2>7. \A b \in Int :
           (\E i \in 1 .. m : resolved[i][1] <= b /\ b <= resolved[i][2]) <=>
           (\E i \in DOMAIN ranges : b \in Asked(ranges[i], n))
    BY <1>1, <1>2
  <2>8. \A b \in Int :
           (\E i \in 1 .. Len(parts) : parts[i][1] <= b /\ b <= parts[i][2]) <=>
           (\E j \in 1 .. m : s[j][1] <= b /\ b <= s[j][2])
    BY <2>5 DEF Merged
  <2>9. \A b \in Int :
           (\E i \in 1 .. Len(parts) : parts[i][1] <= b /\ b <= parts[i][2]) <=>
           (\E i \in DOMAIN ranges : b \in Asked(ranges[i], n))
    BY <2>6, <2>7, <2>8
  <2> QED
    BY <2>5, <2>9 DEF Merged
<1> QED
  BY <1>2, <1>3, <1>4

\* A part carries the bytes of its stretch and says so.
LEMMA PartCarriesStretch ==
  ASSUME NEW n \in Nat, NEW p \in Stretches(n), NEW part, part = PartOf(p, n)
  PROVE  /\ part.bytes # <<>>
         /\ {part.bytes[k] : k \in DOMAIN part.bytes} = Bytes(p)
         /\ part.contentRange.first = p[1] /\ part.contentRange.last = p[2]
         /\ part.contentRange.first .. part.contentRange.last = Bytes(p)
<1> PICK a, b : a = p[1] /\ b = p[2]
  OBVIOUS
<1>1. a \in Nat /\ b \in Nat /\ a <= b /\ b < n
  BY DEF Stretches
<1> PICK count : count = b - a + 1
  OBVIOUS
<1>2. count \in Nat \ {0} /\ a + 1 \in 1 .. n + 1 /\ a + count = b + 1 /\ b + 1 \in 1 .. n
      /\ a + count - 1 = b
  BY <1>1
<1> PICK body : body = BodyOf(n)
  OBVIOUS
<1>3. body = [i \in 1 .. n |-> i - 1]
  BY DEF BodyOf
<1>4. body \in Seq(Int) /\ Len(body) = n
  BY <1>3
<1>5. /\ part.bytes = SubSeq(body, a + 1, a + count)
      /\ part.contentRange.first = a /\ part.contentRange.last = a + count - 1
  BY DEF PartOf, ContentRange, OffsetAndLength
<1>6. part.bytes = [k \in 1 .. count |-> body[a + k]]
  <2>1. SubSeq(body, a + 1, b + 1) = [k \in 1 .. (b + 1) - (a + 1) + 1 |-> body[(a + 1) + k - 1]]
    <3> PICK from, to : from = a + 1 /\ to = b + 1
      OBVIOUS
    <3>1. from \in Int /\ to \in Int /\ from <= to /\ \A i \in from .. to : i \in 1 .. n
      BY <1>1
    <3>2. \A i \in from .. to : body[i] \in Int
      BY <1>3, <3>1
    <3>3. /\ SubSeq(body, from, to) \in Seq(Int)
          /\ Len(SubSeq(body, from, to)) = IF from <= to THEN to - from + 1 ELSE 0
          /\ \A i \in 1 .. to - from + 1 : SubSeq(body, from, to)[i] = body[from + i - 1]
      BY <3>1, <3>2, SubSeqProperties
    <3>4. SubSeq(body, from, to) = [k \in 1 .. to - from + 1 |-> body[from + k - 1]]
      <4> PICK q : q = SubSeq(body, from, to)
        OBVIOUS
      <4>1. q \in Seq(Int) /\ Len(q) = to - from + 1
        BY <3>1, <3>3
      <4>2. q = [k \in 1 .. Len(q) |-> q[k]]
        BY <4>1, SMTT(30)
      <4>3. \A k \in 1 .. to - from + 1 : q[k] = body[from + k - 1]
        BY <3>3
      <4> QED
        BY <4>1, <4>2, <4>3
    <3> QED
      BY <3>4
  <2>2. (b + 1) - (a + 1) + 1 = count /\ \A k \in 1 .. count : (a + 1) + k - 1 = a + k
    BY <1>1
  <2> QED
    BY <1>2, <1>5, <2>1, <2>2
<1>7. part.bytes = [k \in 1 .. count |-> a + k - 1]
  <2>1. \A k \in 1 .. count : a + k \in 1 .. n
    BY <1>1
  <2>2. \A i \in 1 .. n : body[i] = i - 1
    BY <1>3
  <2>3. ASSUME NEW k \in 1 .. count PROVE body[a + k] = a + k - 1
    <3> PICK place : place = a + k
      OBVIOUS
    <3>1. place \in 1 .. n
      BY <2>1
    <3>2. body[place] = place - 1
      BY <2>2, <3>1
    <3>3. a \in Int /\ k \in Int /\ place \in Int
      BY <1>1, <3>1
    <3> QED
      BY <3>2, <3>3
  <2> QED
    BY <1>6, <2>3
<1>8. DOMAIN part.bytes = 1 .. count /\ 1 \in 1 .. count
  BY <1>2, <1>7
<1>9. part.bytes # <<>>
  BY <1>8
<1>10. {part.bytes[k] : k \in DOMAIN part.bytes} = {x \in Int : a <= x /\ x <= b}
  <2>1. \A k \in 1 .. count : part.bytes[k] = a + k - 1 /\ a + k - 1 \in Int
            /\ a <= a + k - 1 /\ a + k - 1 <= b
    BY <1>1, <1>7, SMTT(30)
  <2>2. ASSUME NEW x \in Int, a <= x, x <= b
        PROVE  \E k \in 1 .. count : part.bytes[k] = x
    <3>1. x - a + 1 \in 1 .. count /\ a + (x - a + 1) - 1 = x
      BY <1>1, <2>2
    <3> QED
      BY <2>1, <3>1
  <2>3. \A x : x \in {part.bytes[k] : k \in DOMAIN part.bytes} <=>
                  \E k \in 1 .. count : x = part.bytes[k]
    BY <1>8
  <2>4. \A x : (\E k \in 1 .. count : x = part.bytes[k]) <=>
                  x \in Int /\ a <= x /\ x <= b
    BY <2>1, <2>2
  <2> QED
    BY <2>3, <2>4
<1>11. a .. b = {x \in Int : a <= x /\ x <= b}
  BY <1>1
<1> QED
  BY <1>2, <1>5, <1>9, <1>10, <1>11 DEF Bytes

LEMMA ServedAsAsked ==
  ASSUME NEW n \in Nat, NEW ranges \in Seq(AskedRange), ParsesAsRanges(ranges)
  PROVE  ServesWhatIsAsked(ranges, n)
<1> PICK answer : answer = ApplyRanges(ranges, n, -1)
  OBVIOUS
<1> PICK merged : merged = CoalesceRanges(ranges, n)
  OBVIOUS
<1>1. ranges # <<>> /\ DOMAIN ranges = 1 .. Len(ranges) /\ Len(ranges) \in Nat
  BY LenProperties DEF ParsesAsRanges
<1>2. ApplyRanges(ranges, n, 200).parts = <<>>
  BY DEF ApplyRanges
<1>3. RangeError(ranges, n) => answer = [status |-> 416, whole |-> FALSE, parts |-> <<>>]
  BY <1>1 DEF ApplyRanges
<1>4. ~RangeError(ranges, n) =>
         answer = [status |-> 206, whole |-> FALSE,
                   parts |-> [i \in DOMAIN merged |-> PartOf(merged[i], n)]]
  BY <1>1 DEF ApplyRanges
<1>5. \A i \in DOMAIN ranges :
         Within(Resolve(ranges[i], n), n) <=> Satisfiable(ranges[i], n)
  <2> TAKE i \in DOMAIN ranges
  <2>1. ranges[i] \in AskedRange /\ IsRange(ranges[i])
    BY <1>1, ElementOfSeq DEF ParsesAsRanges
  <2> QED
    BY <2>1, RangeResolved
<1>6. RangeError(ranges, n) <=>
         \/ Len(ranges) > RangeMaxCount
         \/ \E i \in DOMAIN ranges : ~Satisfiable(ranges[i], n)
         \/ Repeating(ranges, n) > 2
  <2>1. DOMAIN ResolveAll(ranges, n) = DOMAIN ranges
        /\ \A i \in DOMAIN ranges : ResolveAll(ranges, n)[i] = Resolve(ranges[i], n)
    BY DEF ResolveAll
  <2>2. CASE \E i \in DOMAIN ranges : ~Satisfiable(ranges[i], n)
    BY <1>5, <2>1, <2>2 DEF RangeError
  <2>3. CASE \A i \in DOMAIN ranges : Satisfiable(ranges[i], n)
    <3>1. Overlapping(ResolveAll(ranges, n)) = Repeating(ranges, n)
      BY <1>5, <2>3, OverlapsAreRepeats
    <3> QED
      BY <1>5, <2>1, <2>3, <3>1 DEF RangeError
  <2> QED
    BY <2>2, <2>3
<1>7. answer.status = 416 <=> RangeError(ranges, n)
  BY <1>3, <1>4
<1>8. ASSUME ~RangeError(ranges, n), NEW parts, parts = answer.parts
      PROVE  /\ UNION {{parts[i].bytes[k] : k \in DOMAIN parts[i].bytes} : i \in DOMAIN parts} =
                   UNION {Asked(ranges[i], n) : i \in DOMAIN ranges}
             /\ \A i \in DOMAIN parts :
                   /\ parts[i].bytes # <<>>
                   /\ {parts[i].bytes[k] : k \in DOMAIN parts[i].bytes} =
                         parts[i].contentRange.first .. parts[i].contentRange.last
             /\ \A i \in 1 .. Len(parts) - 1 :
                   /\ parts[i].contentRange.first <= parts[i + 1].contentRange.first
                   /\ parts[i].contentRange.last <= parts[i + 1].contentRange.last
  <2>1. \A i \in DOMAIN ranges : Within(Resolve(ranges[i], n), n)
    BY <1>5, <1>6, <1>8
  <2>2. /\ merged \in Seq(Stretches(n))
        /\ \A b \in Int :
              (\E i \in 1 .. Len(merged) : merged[i][1] <= b /\ b <= merged[i][2]) <=>
              (\E i \in DOMAIN ranges : b \in Asked(ranges[i], n))
        /\ \A i \in 1 .. Len(merged) - 1 :
              merged[i][1] <= merged[i + 1][1] /\ merged[i][2] <= merged[i + 1][2]
    BY <2>1, CoalescesWhatIsAsked
  <2> PICK l : l = Len(merged)
    OBVIOUS
  <2>3. l \in Nat /\ DOMAIN merged = 1 .. l /\ \A i \in 1 .. l : merged[i] \in Stretches(n)
    BY <2>2, LenProperties, ElementOfSeq
  <2>4. parts = [i \in 1 .. l |-> PartOf(merged[i], n)]
    BY <1>4, <1>8, <2>3
  <2>5. DOMAIN parts = 1 .. l /\ Len(parts) = l
    BY <2>3, <2>4
  <2>6. ASSUME NEW i \in 1 .. l
        PROVE  /\ parts[i].bytes # <<>>
               /\ {parts[i].bytes[k] : k \in DOMAIN parts[i].bytes} = Bytes(merged[i])
               /\ parts[i].contentRange.first = merged[i][1]
               /\ parts[i].contentRange.last = merged[i][2]
               /\ parts[i].contentRange.first .. parts[i].contentRange.last = Bytes(merged[i])
    <3>1. parts[i] = PartOf(merged[i], n)
      BY <2>4
    <3> QED
      BY <2>3, <3>1, PartCarriesStretch
  <2>7. UNION {Bytes(merged[i]) : i \in 1 .. l} = UNION {Asked(ranges[i], n) : i \in DOMAIN ranges}
    <3>1. \A i : Asked(ranges[i], n) \subseteq Int
      BY DEF Asked
    <3>2. \A x : x \in UNION {Bytes(merged[i]) : i \in 1 .. l} <=>
                   x \in Int /\ \E i \in 1 .. l : merged[i][1] <= x /\ x <= merged[i][2]
      BY DEF Bytes
    <3>3. \A x : x \in UNION {Asked(ranges[i], n) : i \in DOMAIN ranges} <=>
                   x \in Int /\ \E i \in DOMAIN ranges : x \in Asked(ranges[i], n)
      BY <3>1
    <3> QED
      BY <2>2, <3>2, <3>3
  <2>8. {{parts[i].bytes[k] : k \in DOMAIN parts[i].bytes} : i \in DOMAIN parts} =
        {Bytes(merged[i]) : i \in 1 .. l}
    <3> DEFINE Sent(i) == {parts[i].bytes[k] : k \in DOMAIN parts[i].bytes}
    <3>1. \A i \in 1 .. l : Sent(i) = Bytes(merged[i])
      BY <2>6
    <3> HIDE DEF Sent
    <3>2. {Sent(i) : i \in DOMAIN parts} = {Bytes(merged[i]) : i \in 1 .. l}
      BY <2>5, <3>1
    <3> QED
      BY <3>2 DEF Sent
  <2>9. ASSUME NEW i \in 1 .. Len(parts) - 1
        PROVE  /\ parts[i].contentRange.first <= parts[i + 1].contentRange.first
               /\ parts[i].contentRange.last <= parts[i + 1].contentRange.last
    <3>1. i \in 1 .. l /\ i + 1 \in 1 .. l /\ i \in 1 .. Len(merged) - 1
      BY <2>3, <2>5
    <3> QED
      BY <2>2, <2>6, <3>1
  <2> QED
    BY <2>5, <2>6, <2>7, <2>8, <2>9
<1> QED
  BY <1>2, <1>6, <1>7, <1>8, ZenonT(40) DEF ServesWhatIsAsked

\* Whatever ranges a client asks for, of a body of whatever length: they are refused
\* when there are too many, when one cannot be satisfied, or when more than two
\* repeat bytes, and only then; otherwise the parts are in order, and carry and
\* name exactly the bytes asked for.
THEOREM RangesServedAsAsked == WebSpec => []RangesServeAskedBytes
<1>1. ASSUME NEW ranges \in RangeLists, NEW length \in Lengths, ParsesAsRanges(ranges)
      PROVE  ServesWhatIsAsked(ranges, length)
  <2>1. ranges \in Seq(AskedRange) /\ length \in Nat
    BY RangesAssumption DEF AskedRange
  <2> QED
    BY <1>1, <2>1, ServedAsAsked
<1>2. RangesServed
  BY <1>1 DEF RangesServed
<1>3. RangesServeAskedBytes
  BY <1>2 DEF RangesServeAskedBytes
<1> QED
  BY <1>3, PTL
=============================================================================
