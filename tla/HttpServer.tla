----------------------------- MODULE HttpServer -----------------------------
(***************************************************************************)
(* The HTTP library's server as a service uses it: one thread in listen    *)
(* that accepts connections and queues them, a pool of workers that each   *)
(* serve one connection until it ends, and stop, called from another       *)
(* thread.  A request is a record; on the wire it is a head, and a body    *)
(* when it has one.                                                        *)
(***************************************************************************)
EXTENDS HttpRouting, ByteRanges

CONSTANTS
    Connections,   \* connections clients make
    Workers,       \* threads of the pool
    KeepAliveMax,  \* keep_alive_max_count_
    BodyLength,    \* the length of a handler's answer
    Routes,        \* the service's table
    Clients,       \* what the clients of the connections may be
    None

VARIABLES
    client,    \* of each connection: what its client is and will send
    next,      \* of each connection: the number and part sent next
    arrived,   \* what has reached the server's socket and is not read
    eof,       \* connections whose client closed its end
    answers,   \* what the server wrote in the end to each request
    invited,   \* requests the server wrote 100 Continue to before
    sock,      \* the server's end: none, backlog, queued, served or closed
    jobs,      \* the queue of the pool
    worker,    \* what each thread of the pool does
    listener,  \* where listen is
    svrSock,   \* svr_sock_ is valid
    fdOpen,    \* the descriptor that listens is open
    isRunning, \* is_running_
    stopping   \* where stop is

clientVars == <<client, next, eof, invited>>
serverVars == <<svrSock, fdOpen, isRunning, stopping>>
vars == <<clientVars, arrived, answers, sock, jobs, worker, listener, serverVars>>

-----------------------------------------------------------------------------
(* Requests *)

Methods == {"GET", "HEAD", "POST", "PUT", "PATCH", "DELETE", "OPTIONS", "TRACE"}

\* Elements between the commas of the Accept header.
AcceptElement == {"empty", "blank", "media", "malformed"}

Request == [
    method : Methods,
    path : Seq(STRING),
    long : BOOLEAN,      \* the target exceeds the limit
    accept : Seq(AcceptElement),  \* the Accept header
    ranges : {None} \cup Seq(Seq(Int)),
    close : BOOLEAN,     \* asks for Connection: close
    old : BOOLEAN,       \* HTTP/1.0 without Keep-Alive
    expect : BOOLEAN,    \* Expect: 100-continue
    body : {"none", "whole", "cut", "unsized"},
    fails : BOOLEAN]     \* its handler throws

\* What follows a body that does not end as it should could not be told from it.
ASSUME HttpAssumption ==
    /\ KeepAliveMax \in Nat \ {0}
    /\ BodyLength \in Nat
    /\ Workers # {}
    /\ None \notin Connections
    /\ \A clients \in Clients :
          /\ DOMAIN clients = Connections
          /\ \A c \in Connections :
                LET sends == clients[c].sends
                IN  /\ sends \in Seq(Request)
                    /\ \A i \in 1 .. Len(sends) - 1 : sends[i].body \in {"none", "whole"}

\* An element of blanks is dropped; an empty one is an error, unless it is all there is.
ParsesAsAccept(elements) ==
    \/ elements = <<"empty">>
    \/ \A i \in DOMAIN elements : elements[i] \in {"blank", "media"}

\* What is answered before the body is read, 0 for nothing.
Refusal(r) ==
    IF r.long THEN 414
    ELSE IF ~ParsesAsAccept(r.accept) THEN 400
    ELSE IF r.ranges # None /\ ~ParsesAsRanges(r.ranges) THEN 416
    ELSE 0

\* Variant: only the methods that send documents.
ExpectsFew(r) == r.method \in {"PUT", "PATCH"}

\* expect_content, and the deletion without a length that reads nothing.
ExpectsContent(r) ==
    \/ r.body \in {"whole", "cut"}
    \/ r.method \in {"POST", "PUT", "PATCH"} /\ r.body = "unsized"

\* Connection: close or an old client: nothing is read after the answer.
EndsConnection(r) == ~r.long /\ (r.close \/ r.old)

Routable == {"GET", "HEAD", "POST", "PUT", "DELETE", "OPTIONS", "PATCH"}

\* The answer of routing and of the handler it finds.  Handlers set the status
\* themselves, so ranges they could serve leave the answer whole.
HandlerStatus(r) ==
    IF r.method \notin Routable THEN 400
    ELSE IF Dispatch(Routes, r.method, r.path) = 0 THEN 404
    ELSE IF r.fails THEN 500
    ELSE ApplyRanges(IF r.ranges = None THEN <<>> ELSE r.ranges, BodyLength, 200).status

\* Answers with a body fail when they cannot be written.
HasBody(r, status) == status = 200 /\ r.method # "HEAD"

-----------------------------------------------------------------------------
(* Clients *)

Idle == [pc |-> "idle", conn |-> None, left |-> 0, req |-> 0, held |-> <<>>,
         ends |-> FALSE, status |-> 0]

\* kind: library (the library's own client), waiting for each answer or
\* pipelining.
RequestOf(c, n) == client[c].sends[n]
Remaining(c) == next[c].number <= Len(client[c].sends)

Init ==
    /\ next = [c \in Connections |-> [number |-> 1, part |-> "head"]]
    /\ arrived = [c \in Connections |-> <<>>]
    /\ eof = {}
    /\ answers = [c \in Connections |-> <<>>]
    /\ invited = {}
    /\ sock = [c \in Connections |-> "none"]
    /\ jobs = <<>>
    /\ worker = [w \in Workers |-> Idle]
    /\ listener = "called"
    /\ svrSock = FALSE
    /\ fdOpen = FALSE
    /\ isRunning = FALSE
    /\ stopping = "no"
    /\ client \in Clients

\* The system completes a connection to a socket that listens.
Connect(c) ==
    /\ sock[c] = "none"
    /\ fdOpen
    /\ sock' = [sock EXCEPT ![c] = "backlog"]
    /\ UNCHANGED <<clientVars, arrived, answers, jobs, worker, listener, serverVars>>

MaySend(c) ==
    /\ sock[c] \in {"backlog", "queued", "served"}
    /\ c \notin eof
    /\ Remaining(c)
    /\ \/ client[c].kind = "pipelining"
       \/ next[c].part = "body"
       \/ Len(answers[c]) >= next[c].number - 1

\* The next head, or the body that follows it.
Send(c) ==
    /\ MaySend(c)
    /\ arrived' = [arrived EXCEPT ![c] = Append(@, next[c])]
    /\ next' = [next EXCEPT ![c] =
          IF @.part = "head" /\ RequestOf(c, @.number).body = "whole"
          THEN [@ EXCEPT !.part = "body"]
          ELSE [number |-> @.number + 1, part |-> "head"]]
    /\ UNCHANGED <<client, eof, invited, answers, sock, jobs, worker, listener, serverVars>>

\* A client goes away whenever it likes.
Hangup(c) ==
    /\ sock[c] # "none"
    /\ c \notin eof
    /\ eof' = eof \cup {c}
    /\ UNCHANGED <<client, next, invited, arrived, answers, sock, jobs, worker, listener,
                   serverVars>>

-----------------------------------------------------------------------------
(* The thread in listen *)

Bind ==
    /\ listener = "called"
    /\ svrSock' = TRUE
    /\ fdOpen' = TRUE
    /\ listener' = "bound"
    /\ UNCHANGED <<clientVars, arrived, answers, sock, jobs, worker, isRunning,
                   stopping>>

FailToBind ==
    /\ listener = "called"
    /\ listener' = "returned"
    /\ UNCHANGED <<clientVars, arrived, answers, sock, jobs, worker, serverVars>>

\* Between Bind and this step stop does nothing.
ListenInternal ==
    /\ listener = "bound"
    /\ isRunning' = TRUE
    /\ listener' = "accepting"
    /\ UNCHANGED <<clientVars, arrived, answers, sock, jobs, worker, svrSock,
                   fdOpen, stopping>>

Accept(c) ==
    /\ listener = "accepting"
    /\ fdOpen
    /\ sock[c] = "backlog"
    /\ sock' = [sock EXCEPT ![c] = "queued"]
    /\ jobs' = Append(jobs, c)
    /\ listener' = IF svrSock THEN "accepting" ELSE "draining"
    /\ UNCHANGED <<clientVars, arrived, answers, worker, serverVars>>

\* The connections nobody accepted are reset with the socket.
Reset == [c \in Connections |-> IF sock[c] = "backlog" THEN "closed" ELSE sock[c]]

\* accept fails: the socket is closed already, or for a reason that does not
\* pass; then the loop closes it, and leaves svr_sock_ as it is.
AcceptFails ==
    /\ listener = "accepting"
    /\ listener' = "draining"
    /\ IF fdOpen /\ svrSock THEN fdOpen' = FALSE /\ sock' = Reset
       ELSE UNCHANGED <<fdOpen, sock>>
    /\ UNCHANGED <<clientVars, arrived, answers, jobs, worker, svrSock, isRunning,
                   stopping>>

\* The pool has been told to shut down and its threads are joined.
ListenReturns ==
    /\ listener = "draining"
    /\ \A w \in Workers : worker[w].pc = "exited"
    /\ listener' = "returned"
    /\ isRunning' = FALSE
    /\ UNCHANGED <<clientVars, arrived, answers, sock, jobs, worker, svrSock,
                   fdOpen, stopping>>

-----------------------------------------------------------------------------
(* stop, in another thread *)

Stop ==
    /\ stopping = "no"
    /\ IF isRunning THEN svrSock' = FALSE /\ stopping' = "closing"
       ELSE stopping' = "ignored" /\ UNCHANGED svrSock
    /\ UNCHANGED <<clientVars, arrived, answers, sock, jobs, worker, listener,
                   fdOpen, isRunning>>

StopCloses ==
    /\ stopping = "closing"
    /\ stopping' = "stopped"
    /\ fdOpen' = FALSE
    /\ sock' = Reset
    /\ UNCHANGED <<clientVars, arrived, answers, jobs, worker, listener, svrSock,
                   isRunning>>

-----------------------------------------------------------------------------
(* A thread of the pool *)

\* Thread w is at pc, serves a connection, and takes the step.
At(w, pc) == worker[w].pc = pc
Becomes(w, state) == worker' = [worker EXCEPT ![w] = state]
GoesTo(w, pc) == Becomes(w, [worker[w] EXCEPT !.pc = pc])

TakeJob(w) ==
    /\ At(w, "idle")
    /\ jobs # <<>>
    /\ jobs' = Tail(jobs)
    /\ sock' = [sock EXCEPT ![Head(jobs)] = "served"]
    /\ Becomes(w, [Idle EXCEPT !.pc = "looking", !.conn = Head(jobs),
                               !.left = KeepAliveMax])
    /\ UNCHANGED <<clientVars, arrived, answers, listener, serverVars>>

\* Variant: a thread leaves whatever is queued.
ExitAtOnce(w) ==
    /\ At(w, "idle")
    /\ listener = "draining"
    /\ GoesTo(w, "exited")
    /\ UNCHANGED <<clientVars, arrived, answers, sock, jobs, listener, serverVars>>

\* The queue is emptied first.
Exit(w) ==
    /\ At(w, "idle")
    /\ listener = "draining"
    /\ jobs = <<>>
    /\ GoesTo(w, "exited")
    /\ UNCHANGED <<clientVars, arrived, answers, sock, jobs, listener, serverVars>>

Readable(c) == arrived[c] # <<>> \/ c \in eof

\* keep_alive looks at the connection before it looks at svr_sock_.
FirstLook(w) ==
    /\ At(w, "looking")
    /\ GoesTo(w, IF Readable(worker[w].conn) THEN "reading"
                 ELSE IF svrSock THEN "polling" ELSE "leaving")
    /\ UNCHANGED <<clientVars, arrived, answers, sock, jobs, listener, serverVars>>

Ready(w) ==
    /\ At(w, "polling")
    /\ Readable(worker[w].conn)
    /\ GoesTo(w, "reading")
    /\ UNCHANGED <<clientVars, arrived, answers, sock, jobs, listener, serverVars>>

SeeStop(w) ==
    /\ At(w, "polling")
    /\ ~svrSock
    /\ GoesTo(w, "leaving")
    /\ UNCHANGED <<clientVars, arrived, answers, sock, jobs, listener, serverVars>>

\* Variant: only an old connection is given up.
KeepAliveLonger(w) ==
    /\ At(w, "polling")
    /\ ~Readable(worker[w].conn)
    /\ worker[w].left < KeepAliveMax
    /\ GoesTo(w, "leaving")
    /\ UNCHANGED <<clientVars, arrived, answers, sock, jobs, listener, serverVars>>

KeepAliveTimeout(w) ==
    /\ At(w, "polling")
    /\ ~Readable(worker[w].conn)
    /\ GoesTo(w, "leaving")
    /\ UNCHANGED <<clientVars, arrived, answers, sock, jobs, listener, serverVars>>

Answering(w, status) == Becomes(w, [worker[w] EXCEPT !.pc = "answering",
                                                     !.status = status])

\* What a thread has to read: the rest of its buffer, or else what has arrived,
\* which goes to the buffer whole.
Unread(w) == IF worker[w].held # <<>> THEN worker[w].held
             ELSE arrived[worker[w].conn]

AfterReading(w) == [arrived EXCEPT ![worker[w].conn] =
                       IF worker[w].held # <<>> THEN @ ELSE <<>>]

\* process_request up to the routing.  A stream reads what has arrived into a
\* buffer of its own.  A body that nobody has read begins a line that is no request
\* line; a target that is too long is answered after one more block of headers.
ReadHead(w) ==
    LET c == worker[w].conn
        first == Head(arrived[c])
        r == RequestOf(c, first.number)
        begun == [worker[w] EXCEPT !.req = first.number, !.held = Tail(arrived[c]),
                                   !.ends = EndsConnection(r), !.status = Refusal(r)]
    IN  /\ At(w, "reading")
        /\ arrived' = [arrived EXCEPT ![c] = <<>>]
        /\ CASE arrived[c] = <<>> -> GoesTo(w, "leaving")
             [] arrived[c] # <<>> /\ first.part = "body" ->
                   Becomes(w, [worker[w] EXCEPT !.pc = "line", !.held = Tail(arrived[c]),
                                                !.req = 0, !.status = 400])
             [] OTHER ->
                   Becomes(w, [begun EXCEPT !.pc =
                       IF Refusal(r) = 414 THEN "line"
                       ELSE IF Refusal(r) # 0 THEN "answering"
                       ELSE IF ExpectsContent(r) THEN "content" ELSE "handling"])
        /\ invited' = IF /\ arrived[c] # <<>> /\ first.part = "head"
                         /\ Refusal(r) = 0 /\ r.expect
                      THEN invited \cup {<<c, first.number>>} ELSE invited
        /\ UNCHANGED <<client, next, eof, answers, sock, jobs, listener, serverVars>>

\* Bodies do not end with a line: the line goes on to the end of the first line of
\* the next head, or to the end of the stream.
ReadLine(w) ==
    /\ At(w, "line")
    /\ \/ /\ Unread(w) # <<>>
          /\ Becomes(w, [worker[w] EXCEPT
                !.pc = IF Head(Unread(w)).part = "head" THEN "answering" ELSE "line",
                !.held = Tail(Unread(w))])
          /\ arrived' = AfterReading(w)
       \/ /\ Unread(w) = <<>> /\ worker[w].conn \in eof
          /\ GoesTo(w, "answering")
          /\ UNCHANGED arrived
    /\ UNCHANGED <<clientVars, answers, sock, jobs, listener, serverVars>>

\* Without a request line there is nothing to answer.
ReadLineTimeout(w) ==
    /\ At(w, "line")
    /\ Unread(w) = <<>>
    /\ GoesTo(w, IF worker[w].req = 0 THEN "leaving" ELSE "answering")
    /\ UNCHANGED <<clientVars, arrived, answers, sock, jobs, listener, serverVars>>

\* A body with a length is read to its end; without one, until the client closes.
ReadContent(w) ==
    LET c == worker[w].conn
        r == RequestOf(c, worker[w].req)
    IN  /\ At(w, "content")
        /\ \/ /\ r.body = "whole"
              /\ Unread(w) # <<>>
              /\ Becomes(w, [worker[w] EXCEPT !.pc = "handling", !.held = Tail(Unread(w))])
              /\ arrived' = AfterReading(w)
           \/ /\ r.body = "unsized"
              /\ c \in eof
              /\ Becomes(w, [worker[w] EXCEPT !.pc = "handling", !.held = <<>>])
              /\ arrived' = [arrived EXCEPT ![c] = <<>>]
        /\ UNCHANGED <<clientVars, answers, sock, jobs, listener, serverVars>>

\* The client went away before the end, or the read timed out.
ReadContentFails(w) ==
    LET c == worker[w].conn
        r == RequestOf(c, worker[w].req)
    IN  /\ At(w, "content")
        /\ r.body = "unsized" => c \notin eof
        /\ r.body = "whole" => Unread(w) = <<>>
        /\ Answering(w, 400)
        /\ arrived' = [arrived EXCEPT ![c] = <<>>]
        /\ UNCHANGED <<clientVars, answers, sock, jobs, listener, serverVars>>

Handle(w) ==
    /\ At(w, "handling")
    /\ Answering(w, HandlerStatus(RequestOf(worker[w].conn, worker[w].req)))
    /\ UNCHANGED <<clientVars, arrived, answers, sock, jobs, listener, serverVars>>

\* is_socket_alive: a client that has closed its end counts as gone once
\* everything it sent has been read.
Alive(c) == c \notin eof \/ arrived[c] # <<>>

\* The stream's buffer dies with the stream, whatever it holds.
AnswerRequest(w) ==
    LET c == worker[w].conn
        n == worker[w].req
        status == worker[w].status
        sends == n # 0 /\ HasBody(RequestOf(c, n), status)
        close == worker[w].left = 1 \/ (n # 0 /\ RequestOf(c, n).close)
    IN  /\ At(w, "answering")
        /\ answers' = [answers EXCEPT ![c] =
              IF Alive(c) THEN Append(@, [to |-> n, status |-> status, close |-> close])
              ELSE @]
        /\ IF worker[w].ends \/ worker[w].left = 1 \/ (sends /\ ~Alive(c))
           THEN GoesTo(w, "leaving")
           ELSE Becomes(w, [Idle EXCEPT !.pc = "looking", !.conn = c,
                                        !.left = worker[w].left - 1])
        /\ UNCHANGED <<clientVars, arrived, sock, jobs, listener, serverVars>>

CloseSocket(w) ==
    /\ At(w, "leaving")
    /\ sock' = [sock EXCEPT ![worker[w].conn] = "closed"]
    /\ Becomes(w, Idle)
    /\ UNCHANGED <<clientVars, arrived, answers, jobs, listener, serverVars>>

WorkerStep(w) ==
    \/ TakeJob(w) \/ Exit(w)
    \/ FirstLook(w) \/ Ready(w) \/ SeeStop(w)
    \/ ReadHead(w) \/ ReadLine(w) \/ ReadContent(w) \/ Handle(w)
    \/ AnswerRequest(w) \/ CloseSocket(w)

\* Waiting ends when the clock says so.
TimeoutStep(w) == KeepAliveTimeout(w) \/ ReadLineTimeout(w) \/ ReadContentFails(w)

ListenerStep ==
    \/ ListenInternal
    \/ \E c \in Connections : Accept(c)
    \/ ~fdOpen /\ AcceptFails
    \/ ListenReturns

ServerNext ==
    \/ Bind \/ FailToBind \/ ListenerStep \/ AcceptFails
    \/ Stop \/ StopCloses
    \/ \E w \in Workers : WorkerStep(w) \/ TimeoutStep(w)

ClientNext(c) == Connect(c) \/ Send(c) \/ Hangup(c)

Next == ServerNext \/ \E c \in Connections : ClientNext(c)

\* The server's threads run, handlers end, and a thread that waits for a client
\* sees the time pass.  No client has to do anything, and nobody has to stop the
\* server.
ServerFairness ==
    /\ WF_vars(ListenerStep)
    /\ WF_vars(StopCloses)
    /\ \A w \in Workers : WF_vars(WorkerStep(w)) /\ WF_vars(TimeoutStep(w))

Spec == Init /\ [][Next]_vars /\ ServerFairness

-----------------------------------------------------------------------------
(* Properties *)

TypeOK ==
    /\ \A c \in Connections :
          /\ arrived[c] \in Seq([number : Nat, part : {"head", "body"}])
          /\ answers[c] \in Seq([to : Nat, status : Nat, close : BOOLEAN])
    /\ eof \subseteq Connections
    /\ sock \in [Connections -> {"none", "backlog", "queued", "served", "closed"}]
    /\ jobs \in Seq(Connections)
    /\ \A w \in Workers :
          /\ worker[w].pc \in {"idle", "looking", "polling", "reading", "line", "content",
                               "handling", "answering", "leaving", "exited"}
          /\ worker[w].left \in 0 .. KeepAliveMax

\* A refusal may leave the body of its request to be read as the next request.
Strays(c, final) ==
    /\ final.to # 0
    /\ final.status >= 400
    /\ RequestOf(c, final.to).body # "none"

\* A client that waits for each answer gets the answer of its last request and of
\* no other, until one with a body is refused; one that does not wait may lose
\* requests, and gets no answer twice or late; and nothing follows an answer that
\* says Connection: close, unless it refused a target for its length, before that
\* header was looked at (the streams of process_server_socket, read_content before
\* the handlers, connection_closed).
AnswersInOrder ==
    \A c \in Connections :
        LET finals == answers[c]
        IN  \A i \in DOMAIN finals :
                /\ client[c].kind = "waiting" =>
                       \/ finals[i].to = i
                       \/ \E j \in 1 .. i - 1 : Strays(c, finals[j])
                /\ \A j \in 1 .. i - 1 :
                       /\ 0 \notin {finals[i].to, finals[j].to} =>
                              finals[j].to < finals[i].to
                       /\ finals[j].close => finals[j].status = 414

\* When listen returns, no connection waits for a worker and none is being served:
\* a service then destroys what the handlers use (ThreadPool::shutdown in
\* listen_internal).
DrainedAtReturn ==
    listener = "returned" =>
        /\ jobs = <<>>
        /\ ~isRunning
        /\ \A c \in Connections : sock[c] \notin {"queued", "served"}

\* Every accepted connection is served and closed, whatever its client and the
\* others do, and a stop that found the server running ends listen (keep_alive's
\* timeout, keep_alive_max_count_, the read timeout).
ServingEnds ==
    /\ \A c \in Connections : sock[c] = "queued" ~> sock[c] = "closed"
    /\ stopping = "closing" ~> listener = "returned"
=============================================================================
