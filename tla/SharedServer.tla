----------------------------- MODULE SharedServer -----------------------------
(***************************************************************************)
(* The life of a service process.  RideManager, LocationManager and        *)
(* UserManager share one base: main runs the database script, starts the   *)
(* HTTP server and the consumers on the thread pool, waits for a signal    *)
(* and stops what it started; worker threads of the HTTP server serve the  *)
(* requests.  LocationManager also has a stand-in for a gRPC server, and   *)
(* UserManager no consumers, but tables it drops at the end.  is_running_  *)
(* of the HTTP server is a plain bool main and the server's thread share.  *)
(***************************************************************************)
EXTENDS KafkaBroker, RabbitQueue

CONSTANT Lifecycle  \* the topic HTTP workers send to

ASSUME LifecycleAssumption == Lifecycle \in Topics

VARIABLES
    service,    \* the service of this process
    main,       \* what main does next
    script,     \* the database script main ran last
    http,       \* the HTTP server's pool task
    isRunning,  \* is_running_
    serving,    \* the HTTP workers with a request
    grpc        \* grpcServer_ with its pool task

web == <<http, isRunning, serving>>
serverVars == <<vars, rabbitVars, service, main, script, web, grpc>>

\* What each main goes through, from the start to the exit.
RideMain == <<"initDatabase", "create", "startHttp", "startKafka", "startRabbit", "up",
              "stopKafka", "stopRabbit", "joinRabbit",
              "stopHttp", "closeHttp", "joinHttp", "exited">>
LocationMain == <<"initDatabase", "create", "startHttp", "startKafka", "startRabbit",
                  "up", "stopKafka", "stopRabbit", "joinRabbit", "stopGrpc", "joinGrpc",
                  "stopHttp", "closeHttp", "joinHttp", "exited">>
UserMain == <<"initDatabase", "create", "startHttp", "up",
              "stopHttp", "closeHttp", "joinHttp", "dropTables", "exited">>

Mains == [RideManager |-> RideMain, LocationManager |-> LocationMain,
          UserManager |-> UserMain]

ServerInit ==
    /\ Init
    /\ RabbitInit
    /\ service \in DOMAIN Mains
    /\ main = "initDatabase"
    /\ script = "none"
    /\ http = "absent"
    /\ isRunning = FALSE
    /\ serving = {}
    /\ grpc = "absent"

\* main is at a phase, and goes on to its next.
From(phase) ==
    /\ main = phase
    /\ \E i \in DOMAIN Mains[service] :
          Mains[service][i] = phase /\ main' = Mains[service][i + 1]

-----------------------------------------------------------------------------
(* main: startApplication *)

\* Whether the script succeeds makes no difference to main.
InitiateDatabase ==
    /\ From("initDatabase")
    /\ script' = "init"
    /\ UNCHANGED <<vars, rabbitVars, service, web, grpc>>

\* The constructor of RideRouteHandler creates the notification producer.
CreateRideServers ==
    /\ service = "RideManager"
    /\ \/ /\ main = "create"
          /\ BeginCreate("producer")
          /\ UNCHANGED main
       \/ /\ From("create")
          /\ EndCreate("producer")
    /\ UNCHANGED <<vars, service, script, web, grpc>>

\* ensureGrpcServer and startGrpcServer: the stand-in is queued on the pool.
DispatchGrpc == grpc' = IF grpc = "absent" THEN "queued" ELSE grpc

CreateLocationServers ==
    /\ service = "LocationManager"
    /\ From("create")
    /\ DispatchGrpc
    /\ UNCHANGED <<vars, rabbitVars, service, script, web>>

CreateUserServers ==
    /\ service = "UserManager"
    /\ From("create")
    /\ UNCHANGED <<vars, rabbitVars, service, script, web, grpc>>

StartHttpServers ==
    /\ From("startHttp")
    /\ http' = "queued"
    /\ UNCHANGED <<vars, rabbitVars, service, script, isRunning, serving, grpc>>

StartKafkaConsumers ==
    /\ From("startKafka")
    /\ RunConsumers
    /\ UNCHANGED <<rabbitVars, service, script, web, grpc>>

CreateRabbitConsumer ==
    /\ main = "startRabbit"
    /\ BeginCreate("consumer") \/ EndCreate("consumer")
    /\ UNCHANGED <<vars, service, main, script, web, grpc>>

StartRabbitConsumers ==
    /\ From("startRabbit")
    /\ RunRabbit
    /\ UNCHANGED <<vars, service, script, web, grpc>>

-----------------------------------------------------------------------------
(* main: stopApplication *)

\* main notices the signal, which may have come long before.
Shutdown ==
    /\ From("up")
    /\ IF main' = "stopKafka" THEN CallStop ELSE UNCHANGED vars
    /\ UNCHANGED <<rabbitVars, service, script, web, grpc>>

StopKafka ==
    /\ \/ main = "stopKafka" /\ StopStep /\ UNCHANGED main
       \/ From("stopKafka") /\ stopping = "returned" /\ UNCHANGED vars
    /\ UNCHANGED <<rabbitVars, service, script, web, grpc>>

StopRabbitConsumers ==
    /\ \/ From("stopRabbit") /\ StopRabbit
       \/ /\ From("joinRabbit")
          /\ polling = "done"
          /\ UNCHANGED rabbitVars
    /\ UNCHANGED <<vars, service, script, web, grpc>>

\* Nothing happens to a stand-in that has not run.
ShutdownGrpc ==
    /\ From("stopGrpc")
    /\ grpc' = IF grpc = "running" THEN "stopped" ELSE grpc
    /\ UNCHANGED <<vars, rabbitVars, service, script, web>>

\* grpcFuture_.get(), then the destructor, which shuts down what ran late.
StopGrpcServer ==
    /\ From("joinGrpc")
    /\ grpc # "queued"
    /\ grpc' = "destroyed"
    /\ UNCHANGED <<vars, rabbitVars, service, script, web>>

\* SharedHttpServer::stop returns at once when the server does not run.
StopHttp ==
    /\ main = "stopHttp"
    /\ main' = IF isRunning THEN "closeHttp" ELSE "joinHttp"
    /\ UNCHANGED <<vars, rabbitVars, service, script, web, grpc>>

\* Variant: the flag is cleared and the socket stays open.
CloseNothing ==
    /\ From("closeHttp")
    /\ isRunning' = FALSE
    /\ UNCHANGED <<vars, rabbitVars, service, script, http, serving, grpc>>

\* The library's stop closes the socket of a server that is listening, and does
\* nothing to one that is about to.
CloseHttp ==
    /\ From("closeHttp")
    /\ http' = IF http = "listening" THEN "closing" ELSE http
    /\ isRunning' = FALSE
    /\ UNCHANGED <<vars, rabbitVars, service, script, serving, grpc>>

\* httpServerFuture_.get(); the destructors find everything stopped.
JoinHttp ==
    /\ From("joinHttp")
    /\ http = "done"
    /\ UNCHANGED <<vars, rabbitVars, service, script, web, grpc>>

\* UserManager drops its database and creates it empty.
DistoryDatabase ==
    /\ From("dropTables")
    /\ script' = "drop"
    /\ UNCHANGED <<vars, rabbitVars, service, web, grpc>>

MainStep ==
    \/ InitiateDatabase
    \/ CreateRideServers \/ CreateLocationServers \/ CreateUserServers
    \/ StartHttpServers \/ StartKafkaConsumers
    \/ CreateRabbitConsumer \/ StartRabbitConsumers
    \/ StopKafka \/ StopRabbitConsumers \/ ShutdownGrpc \/ StopGrpcServer
    \/ StopHttp \/ CloseHttp \/ JoinHttp \/ DistoryDatabase

-----------------------------------------------------------------------------
(* SharedHttpServer::start, on the pool *)

MarkRunning ==
    /\ http = "queued"
    /\ http' = "marked"
    /\ isRunning' = TRUE
    /\ UNCHANGED <<vars, rabbitVars, service, main, script, serving, grpc>>

\* The host resolves, perhaps to a fallback, and the port is free.
Listen ==
    /\ http = "marked"
    /\ http' = "listening"
    /\ UNCHANGED <<vars, rabbitVars, service, main, script, isRunning, serving, grpc>>

\* No host resolves or the bind fails.
FailToListen ==
    /\ http = "marked"
    /\ http' = "done"
    /\ isRunning' = FALSE
    /\ UNCHANGED <<vars, rabbitVars, service, main, script, serving, grpc>>

\* Variant: the task ends while its workers still run.
AbandonWorkers ==
    /\ http = "closing"
    /\ http' = "done"
    /\ isRunning' = FALSE
    /\ UNCHANGED <<vars, rabbitVars, service, main, script, serving, grpc>>

\* The accept loop ends, the library waits for its workers, listen returns.
FinishListening ==
    /\ http = "closing"
    /\ serving = {}
    /\ http' = "done"
    /\ isRunning' = FALSE
    /\ UNCHANGED <<vars, rabbitVars, service, main, script, serving, grpc>>

HttpStep == MarkRunning \/ Listen \/ FailToListen \/ FinishListening

\* The stand-in's Run, on the pool, returns at once.
RunGrpc ==
    /\ grpc = "queued"
    /\ grpc' = "running"
    /\ UNCHANGED <<vars, rabbitVars, service, main, script, web>>

\* A worker takes a request.
BeginCall(p) ==
    /\ http = "listening"
    /\ p \notin serving
    /\ serving' = serving \cup {p}
    /\ UNCHANGED <<vars, rabbitVars, service, main, script, http, isRunning, grpc>>

\* RideManager and UserManager send events while they serve one; RideManager
\* also notifies drivers.
Tell(p) ==
    /\ p \in serving
    /\ \/ /\ service # "LocationManager"
          /\ BeginSend(p, Lifecycle)
          /\ UNCHANGED rabbitVars
       \/ /\ sending[p][1] = "idle"
          /\ Publish
          /\ UNCHANGED vars
    /\ UNCHANGED <<service, main, script, web, grpc>>

EndCall(p) ==
    /\ p \in serving
    /\ sending[p][1] = "idle"
    /\ serving' = serving \ {p}
    /\ UNCHANGED <<vars, rabbitVars, service, main, script, http, isRunning, grpc>>

-----------------------------------------------------------------------------
KafkaStep(step) == step /\ UNCHANGED <<rabbitVars, service, main, script, web, grpc>>
RabbitStep(step) == step /\ UNCHANGED <<vars, service, main, script, web, grpc>>

ServerNext ==
    \/ MainStep \/ Shutdown \/ HttpStep \/ RunGrpc
    \/ RabbitStep(EndPolling)
    \/ \E p \in Producers :
          BeginCall(p) \/ Tell(p) \/ KafkaStep(ProducerStep(p)) \/ EndCall(p)
    \/ \E c \in Consumers : KafkaStep(ConsumerStep(c))

\* Every thread runs, both Kafka waits have timeouts, and handlers return.  No
\* signal and no client has to come.
ServerFairness ==
    /\ WF_serverVars(MainStep)
    /\ WF_serverVars(HttpStep)
    /\ WF_serverVars(RunGrpc)
    /\ WF_serverVars(RabbitStep(EndPolling))
    /\ \A p \in Producers :
          WF_serverVars(KafkaStep(ProducerStep(p))) /\ WF_serverVars(EndCall(p))
    /\ \A c \in Consumers : WF_serverVars(KafkaStep(ConsumerStep(c)))

ServerSpec == ServerInit /\ [][ServerNext]_serverVars /\ ServerFairness

-----------------------------------------------------------------------------
(* Properties *)

\* Types, of the topics too; is_running_ is set only while the server's task is at
\* work.
ServerTypeOK ==
    /\ TypeOK
    /\ service \in DOMAIN Mains
    /\ main \in Range(Mains[service])
    /\ http \in {"absent", "queued", "marked", "listening", "closing", "done"}
    /\ grpc \in {"absent", "queued", "running", "stopped", "destroyed"}
    /\ isRunning \in BOOLEAN /\ script \in {"none", "init", "drop"} /\ serving \subseteq Producers
    /\ isRunning => http \in {"marked", "listening", "closing"}

\* When main exits, no thread of the process is inside a callback, a listening
\* loop or a request any more: what they use is about to be destroyed
\* (stopConsumers, stopGrpcServer and stopHttpServers join their futures).  Requests
\* are served after the script that makes the tables and before the one that drops
\* them.
NothingRunsAfterExit ==
    /\ serving # {} => script = "init"
    /\ main \in {"dropTables", "exited"} =>
          /\ \A c \in Consumers : loop[c] \in {"absent", "done"}
          /\ polling \in {"absent", "done"}
          /\ grpc \in {"absent", "destroyed"}
          /\ serving = {} /\ \A p \in Producers : sending[p][1] = "idle"

\* The consumers stop whatever the HTTP workers send meanwhile: main gets from
\* stopConsumers to stopHttpServers (the loops test their flags after every
\* wait, and every wait ends).
ConsumersStop == main = "stopKafka" ~> main = "stopHttp"

\* A server that listens when it is stopped lets the process end, with requests
\* in progress too (SharedHttpServer::stop, the future main waits for).
ListeningServerStops == main = "stopHttp" /\ http = "listening" ~> main = "exited"

\* Once main begins to stop, the process ends.
ShutdownEnds == main \in {"stopKafka", "stopHttp"} ~> main = "exited"
=============================================================================
