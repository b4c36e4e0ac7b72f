----------------------------- MODULE HttpClient -----------------------------
(***************************************************************************)
(* The HTTP library's client as one service uses it to ask another: a      *)
(* client made for one GET, which says Connection: close, and destroyed    *)
(* with its socket after the answer or the first error.  It is composed    *)
(* with the server it asks; other clients of that server are HttpServer's. *)
(***************************************************************************)
EXTENDS HttpServer

VARIABLE calls  \* of each connection: where the library's call is, and its result

webVars == <<vars, calls>>

Library == {c \in Connections : client[c].kind = "library"}

\* No result: the caller gets a null response and an error.
NoResponse == 0

WebInit ==
    /\ Init
    /\ calls = [c \in Connections |-> [pc |-> "none", result |-> NoResponse]]

CallAt(c, pc) == c \in Library /\ calls[c].pc = pc
CallGoes(c, pc) == calls' = [calls EXCEPT ![c].pc = pc]
CallEnds(c, result) == calls' = [calls EXCEPT ![c] = [pc |-> "done", result |-> result]]

Get(c) ==
    /\ CallAt(c, "none")
    /\ CallGoes(c, "connecting")
    /\ UNCHANGED vars

ReachServer(c) ==
    /\ CallAt(c, "connecting")
    /\ Connect(c)
    /\ CallGoes(c, "writing")

\* Variant: a refused connection is waited for.
FailWhenReached(c) ==
    /\ CallAt(c, "connecting")
    /\ fdOpen
    /\ CallEnds(c, NoResponse)
    /\ UNCHANGED vars

\* Nothing listens, or the connection timed out.
FailToConnect(c) ==
    /\ CallAt(c, "connecting")
    /\ CallEnds(c, NoResponse)
    /\ UNCHANGED vars

WriteRequest(c) ==
    /\ CallAt(c, "writing")
    /\ Send(c)
    /\ CallGoes(c, "reading")

\* An error or a timeout; the socket is closed with the client.
FailToWrite(c) ==
    /\ CallAt(c, "writing")
    /\ Hangup(c)
    /\ CallEnds(c, NoResponse)

\* Lines of 100 Continue are skipped.
ReadResponse(c) ==
    /\ CallAt(c, "reading")
    /\ answers[c] # <<>>
    /\ Hangup(c)
    /\ CallEnds(c, answers[c][1].status)

\* The server closed the connection, or did not answer in time.
FailToRead(c) ==
    /\ CallAt(c, "reading")
    /\ answers[c] = <<>>
    /\ Hangup(c)
    /\ CallEnds(c, NoResponse)

CallStep(c) ==
    \/ ReachServer(c) \/ FailToConnect(c)
    \/ WriteRequest(c) \/ FailToWrite(c)
    \/ ReadResponse(c) \/ FailToRead(c)

WebNext ==
    \/ ServerNext /\ UNCHANGED calls
    \/ \E c \in Connections \ Library : ClientNext(c) /\ UNCHANGED calls
    \/ \E c \in Connections : Get(c) \/ CallStep(c)

WebSpec ==
    /\ WebInit
    /\ [][WebNext]_webVars
    /\ ServerFairness
    /\ \A c \in Connections : WF_webVars(CallStep(c))

-----------------------------------------------------------------------------
(* Properties *)

\* A call of another service ends, whether that service answers, refuses, stops, or
\* is kept from answering by its other clients: an error ends a call as well as an
\* answer (the timeouts of create_client_socket and of the stream).  An answer comes
\* whole or not at all here; one that trickles in is not modelled.
CallsEnd == \A c \in Connections : calls[c].pc = "connecting" ~> calls[c].pc = "done"

\* Ranges of every form are served as asked: a fact about inputs, which the first
\* states show (parse_range_header, range_error, coalesce_ranges,
\* get_range_offset_and_length).
RangesServeAskedBytes == WebInit => RangesServed
=============================================================================
