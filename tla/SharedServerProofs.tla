-------------------------- MODULE SharedServerProofs --------------------------
(***************************************************************************)
(* Proofs about the life of a service process, whichever service it is,    *)
(* for any number of request threads and consumers.                        *)
(***************************************************************************)
EXTENDS SharedServer, KafkaBrokerProofs

-----------------------------------------------------------------------------
(* Where main is *)

\* The phases before the server's task is queued.
BeforeHttp == {"initDatabase", "create", "startHttp"}

\* The phases after the loops of Kafka are joined, and after that of RabbitMQ is.
AfterKafka == {"stopRabbit", "joinRabbit", "stopGrpc", "joinGrpc",
               "stopHttp", "closeHttp", "joinHttp", "dropTables", "exited"}
AfterRabbit == AfterKafka \ {"stopRabbit", "joinRabbit"}
AfterGrpc == AfterRabbit \ {"stopGrpc", "joinGrpc"}
AfterHttp == {"dropTables", "exited"}

\* The phases that may follow a phase.
NextPhases(phase) ==
    CASE phase = "initDatabase" -> {"create"}
      [] phase = "create" -> {"startHttp"}
      [] phase = "startHttp" -> IF service = "UserManager" THEN {"up"} ELSE {"startKafka"}
      [] phase = "startKafka" -> {"startRabbit"}
      [] phase = "startRabbit" -> {"up"}
      [] phase = "up" -> IF service = "UserManager" THEN {"stopHttp"} ELSE {"stopKafka"}
      [] phase = "stopKafka" -> {"stopRabbit"}
      [] phase = "stopRabbit" -> {"joinRabbit"}
      [] phase = "joinRabbit" -> IF service = "LocationManager" THEN {"stopGrpc"} ELSE {"stopHttp"}
      [] phase = "stopGrpc" -> {"joinGrpc"}
      [] phase = "joinGrpc" -> {"stopHttp"}
      [] phase = "stopHttp" -> {"closeHttp"}
      [] phase = "closeHttp" -> {"joinHttp"}
      [] phase = "joinHttp" -> IF service = "UserManager" THEN {"dropTables"} ELSE {"exited"}
      [] OTHER -> {"exited"}

Phases == BeforeHttp \cup {"startKafka", "startRabbit", "up", "stopKafka"} \cup AfterKafka

LEMMA PhaseOrder ==
  ASSUME service \in DOMAIN Mains, NEW phase \in Phases \ {"exited"}, From(phase)
  PROVE  main = phase /\ main' \in NextPhases(phase) /\ main' \in Range(Mains[service])
<1>1. CASE service = "RideManager"
  <2>1. Mains[service] = RideMain
    BY <1>1 DEF Mains
  <2>2. PICK i \in 1 .. 13 : RideMain[i] = phase /\ main' = RideMain[i + 1]
    BY <2>1 DEF From, RideMain
  <2>3. i # 13
    BY <2>2 DEF RideMain
  <2>4. i \in 1 .. 12
    BY <2>2, <2>3
  <2>5. RideMain[i + 1] \in NextPhases(RideMain[i]) /\ RideMain[i + 1] \in Range(RideMain)
    BY <1>1, <2>4 DEF RideMain, NextPhases, Range
  <2> QED
    BY <2>1, <2>2, <2>5 DEF From
<1>2. CASE service = "LocationManager"
  <2>1. Mains[service] = LocationMain
    BY <1>2 DEF Mains
  <2>2. PICK i \in 1 .. 15 : LocationMain[i] = phase /\ main' = LocationMain[i + 1]
    BY <2>1 DEF From, LocationMain
  <2>3. i # 15
    BY <2>2 DEF LocationMain
  <2>4. i \in 1 .. 14
    BY <2>2, <2>3
  <2>5. LocationMain[i + 1] \in NextPhases(LocationMain[i]) /\ LocationMain[i + 1] \in Range(LocationMain)
    BY <1>2, <2>4 DEF LocationMain, NextPhases, Range
  <2> QED
    BY <2>1, <2>2, <2>5 DEF From
<1>3. CASE service = "UserManager"
  <2>1. Mains[service] = UserMain
    BY <1>3 DEF Mains
  <2>2. PICK i \in 1 .. 9 : UserMain[i] = phase /\ main' = UserMain[i + 1]
    BY <2>1 DEF From, UserMain
  <2>3. i # 9
    BY <2>2 DEF UserMain
  <2>4. i \in 1 .. 8
    BY <2>2, <2>3
  <2>5. UserMain[i + 1] \in NextPhases(UserMain[i]) /\ UserMain[i + 1] \in Range(UserMain)
    BY <1>3, <2>4 DEF UserMain, NextPhases, Range
  <2> QED
    BY <2>1, <2>2, <2>5 DEF From
<1> QED
  BY <1>1, <1>2, <1>3 DEF Mains

-----------------------------------------------------------------------------
(* The invariant *)

ProcessTypes ==
    /\ service \in DOMAIN Mains
    /\ main \in Range(Mains[service])
    /\ main \in Phases
    /\ http \in {"absent", "queued", "marked", "listening", "closing", "done"}
    /\ grpc \in {"absent", "queued", "running", "stopped", "destroyed"}
    /\ polling \in {"absent", "listening", "done"}
    /\ isRunning \in BOOLEAN /\ script \in {"none", "init", "drop"} /\ serving \subseteq Producers
    /\ isRunning => http \in {"marked", "listening", "closing"}

\* Requests are served by a server that listens or closes, between the two scripts,
\* and what sends a message is serving one.
RequestsServed ==
    /\ main \in BeforeHttp => http = "absent"
    /\ main \in AfterHttp => http = "done"
    /\ serving # {} => http \in {"listening", "closing"}
    /\ main # "initDatabase" /\ main # "exited" => script = "init"
    /\ \A p \in Producers : sending[p][1] # "idle" => p \in serving

\* What main has stopped has ended, and what a service does not have never starts.
LoopsStopped ==
    /\ stopping = "returned" => \A c \in Consumers : loop[c] = "done"
    /\ service = "UserManager" =>
          /\ main \in BeforeHttp \cup {"up", "stopHttp", "closeHttp", "joinHttp"} \cup AfterHttp
          /\ \A c \in Consumers : loop[c] = "absent"
          /\ polling = "absent"
    /\ service # "UserManager" =>
          /\ main \in AfterKafka => stopping = "returned"
          /\ main \in AfterRabbit => polling = "done"

GrpcStopped ==
    IF service = "LocationManager" THEN main \in AfterGrpc => grpc = "destroyed"
    ELSE grpc = "absent"

ProcessInv == ProcessTypes /\ RequestsServed /\ LoopsStopped /\ GrpcStopped

LEMMA ProcessInit == ServerInit => BrokerInv /\ ProcessInv
<1> SUFFICES ASSUME ServerInit PROVE BrokerInv /\ ProcessInv
  OBVIOUS
<1>1. BrokerInv
  BY BrokerInit DEF ServerInit
<1>2. main \in Range(Mains[service])
  <2>1. 1 \in DOMAIN Mains[service] /\ Mains[service][1] = main
    BY DEF ServerInit, Mains, RideMain, LocationMain, UserMain
  <2> QED
    BY <2>1 DEF Range
<1> QED
  BY <1>1, <1>2 DEF ServerInit, Init, RabbitInit, ProcessInv, ProcessTypes, RequestsServed,
     LoopsStopped, GrpcStopped, BeforeHttp, AfterHttp, AfterKafka, AfterRabbit, AfterGrpc, Phases

LEMMA ProcessInvShows == BrokerInv /\ ProcessInv => ServerTypeOK /\ NothingRunsAfterExit
<1> SUFFICES ASSUME BrokerInv, ProcessInv PROVE ServerTypeOK /\ NothingRunsAfterExit
  OBVIOUS
<1>1. ServerTypeOK
  BY BrokerInvTypes DEF ProcessInv, ProcessTypes, ServerTypeOK
<1>2. NothingRunsAfterExit
  BY DEF ProcessInv, ProcessTypes, RequestsServed, LoopsStopped, GrpcStopped,
         NothingRunsAfterExit, BeforeHttp, AfterHttp, AfterKafka, AfterRabbit, AfterGrpc, Phases, Mains
<1> QED
  BY <1>1, <1>2

\* A step of the process is a step of its broker.
LEMMA ProcessMovesBroker == [ServerNext]_serverVars => [Next]_vars
<1> SUFFICES ASSUME [ServerNext]_serverVars PROVE [Next]_vars
  OBVIOUS
<1>1. CASE MainStep \/ Shutdown
  BY <1>1
  DEF MainStep, InitiateDatabase, CreateRideServers, CreateLocationServers, CreateUserServers,
      StartHttpServers, StartKafkaConsumers, CreateRabbitConsumer, StartRabbitConsumers,
      Shutdown, StopKafka, StopRabbitConsumers, ShutdownGrpc, StopGrpcServer, StopHttp,
      CloseHttp, JoinHttp, DistoryDatabase, Next
<1>2. CASE HttpStep \/ RunGrpc \/ RabbitStep(EndPolling)
  BY <1>2 DEF HttpStep, MarkRunning, Listen, FailToListen, FinishListening, RunGrpc, RabbitStep
<1>3. ASSUME NEW p \in Producers,
             BeginCall(p) \/ Tell(p) \/ KafkaStep(ProducerStep(p)) \/ EndCall(p)
      PROVE  [Next]_vars
  BY <1>3, LifecycleAssumption DEF BeginCall, Tell, KafkaStep, EndCall, Next
<1>4. ASSUME NEW c \in Consumers, KafkaStep(ConsumerStep(c)) PROVE [Next]_vars
  BY <1>4 DEF KafkaStep, Next
<1>5. CASE UNCHANGED serverVars
  BY <1>5 DEF serverVars
<1> QED
  BY <1>1, <1>2, <1>3, <1>4, <1>5 DEF ServerNext

\* What main's steps do to the loops of Kafka.
LEMMA BrokerStepOfMain ==
  ASSUME BrokerInv, ProcessInv, RunConsumers \/ CallStop \/ StopStep \/ UNCHANGED vars
  PROVE  /\ sending' = sending
         /\ stopping = "returned" => stopping' = "returned"
         /\ stopping' = "returned" => \A c \in Consumers : loop'[c] = "done"
<1>1. CASE RunConsumers
  BY <1>1 DEF RunConsumers, producers, ProcessInv, LoopsStopped
<1>2. CASE CallStop
  BY <1>2 DEF CallStop, producers
<1>3. CASE StopStep
  BY <1>3, BrokerAssumption
  DEF StopStep, AllSignalled, JoinConsumers, StopConsumer, CloseTopic, producers, consumers,
      ProcessInv, LoopsStopped, BrokerInv, Shape
<1>4. CASE UNCHANGED vars
  BY <1>4 DEF vars, producers, consumers, ProcessInv, LoopsStopped
<1> QED
  BY <1>1, <1>2, <1>3, <1>4

-----------------------------------------------------------------------------
(* Its steps *)

LEMMA StartingKeeps ==
  ASSUME BrokerInv, ProcessInv,
         \/ InitiateDatabase
         \/ CreateRideServers \/ CreateLocationServers \/ CreateUserServers
         \/ StartHttpServers \/ StartKafkaConsumers
         \/ CreateRabbitConsumer \/ StartRabbitConsumers \/ Shutdown
  PROVE  ProcessInv'
<1> USE DEF ProcessInv, ProcessTypes, RequestsServed, LoopsStopped, GrpcStopped, web
<1> USE DEF BeforeHttp, AfterKafka, AfterRabbit, AfterGrpc, AfterHttp, Phases, NextPhases
<1>1. CASE InitiateDatabase
  <2>1. main = "initDatabase" /\ main' = "create" /\ main' \in Range(Mains[service])
    BY <1>1, PhaseOrder DEF InitiateDatabase
  <2> QED
    BY <1>1, <2>1 DEF InitiateDatabase, rabbitVars, vars, producers, consumers
<1>2. CASE CreateRideServers
  <2>1. /\ main = "create" /\ main' \in {"create", "startHttp"}
        /\ main' \in Range(Mains[service]) /\ polling' = polling
    BY <1>2, PhaseOrder DEF CreateRideServers, BeginCreate, EndCreate
  <2> QED
    BY <1>2, <2>1 DEF CreateRideServers, vars, producers, consumers
<1>3. CASE CreateLocationServers \/ CreateUserServers
  <2>1. main = "create" /\ main' = "startHttp" /\ main' \in Range(Mains[service])
    BY <1>3, PhaseOrder DEF CreateLocationServers, CreateUserServers
  <2> QED
    BY <1>3, <2>1 DEF CreateLocationServers, CreateUserServers, DispatchGrpc, rabbitVars, vars,
                      producers, consumers
<1>4. CASE StartHttpServers
  <2>1. main = "startHttp" /\ main' \in NextPhases("startHttp") /\ main' \in Range(Mains[service])
    BY <1>4, PhaseOrder DEF StartHttpServers
  <2> QED
    BY <1>4, <2>1 DEF StartHttpServers, rabbitVars, vars, producers, consumers
<1>5. CASE StartKafkaConsumers
  <2>1. main = "startKafka" /\ main' = "startRabbit" /\ main' \in Range(Mains[service])
    BY <1>5, PhaseOrder DEF StartKafkaConsumers
  <2> QED
    BY <1>5, <2>1, BrokerStepOfMain DEF StartKafkaConsumers, rabbitVars
<1>6. CASE CreateRabbitConsumer
  BY <1>6 DEF CreateRabbitConsumer, BeginCreate, EndCreate, vars, producers, consumers
<1>7. CASE StartRabbitConsumers
  <2>1. main = "startRabbit" /\ main' = "up" /\ main' \in Range(Mains[service])
    BY <1>7, PhaseOrder DEF StartRabbitConsumers
  <2> QED
    BY <1>7, <2>1 DEF StartRabbitConsumers, RunRabbit, vars, producers, consumers
<1>8. CASE Shutdown
  <2>1. main = "up" /\ main' \in NextPhases("up") /\ main' \in Range(Mains[service])
    BY <1>8, PhaseOrder DEF Shutdown
  <2>2. CallStop \/ UNCHANGED vars
    BY <1>8 DEF Shutdown
  <2>3. loop' = loop
    BY <2>2 DEF CallStop, vars, consumers
  <2> QED
    BY <1>8, <2>1, <2>2, <2>3, BrokerStepOfMain DEF Shutdown, rabbitVars
<1> QED
  BY <1>1, <1>2, <1>3, <1>4, <1>5, <1>6, <1>7, <1>8

LEMMA StoppingMainKeeps ==
  ASSUME BrokerInv, ProcessInv,
         \/ StopKafka \/ StopRabbitConsumers \/ ShutdownGrpc \/ StopGrpcServer
         \/ StopHttp \/ CloseHttp \/ JoinHttp \/ DistoryDatabase
  PROVE  ProcessInv'
<1> USE DEF ProcessInv, ProcessTypes, RequestsServed, LoopsStopped, GrpcStopped, web
<1> USE DEF BeforeHttp, AfterKafka, AfterRabbit, AfterGrpc, AfterHttp, Phases, NextPhases
<1>1. CASE StopKafka
  <2>1. service # "UserManager"
    BY <1>1, PhaseOrder DEF StopKafka
  <2>2. CASE main' = main
    BY <1>1, <2>1, <2>2, BrokerStepOfMain DEF StopKafka, rabbitVars
  <2>3. CASE From("stopKafka") /\ stopping = "returned" /\ UNCHANGED vars
    <3>1. main = "stopKafka" /\ main' = "stopRabbit" /\ main' \in Range(Mains[service])
      BY <2>3, PhaseOrder
    <3>2. UNCHANGED <<sending, loop, polling, service, script, web, grpc>>
      BY <1>1, <2>3 DEF StopKafka, rabbitVars, vars, producers, consumers
    <3>3. ProcessTypes'
      BY <3>1, <3>2
    <3>5. RequestsServed'
      BY <3>1, <3>2, <2>3
    <3>4. LoopsStopped' /\ GrpcStopped'
      BY <2>1, <2>3, <3>1, <3>2 DEF vars
    <3> QED
      BY <3>3, <3>4, <3>5
  <2> QED
    BY <1>1, <2>2, <2>3 DEF StopKafka
<1>2. CASE StopRabbitConsumers
  <2>1. /\ main' \in Range(Mains[service]) /\ service # "UserManager"
        /\ \/ main = "stopRabbit" /\ main' = "joinRabbit"
           \/ main = "joinRabbit" /\ main' \in NextPhases("joinRabbit") /\ polling = "done"
        /\ polling' = polling
    BY <1>2, PhaseOrder DEF StopRabbitConsumers, StopRabbit, rabbitVars
  <2> QED
    BY <1>2, <2>1 DEF StopRabbitConsumers, vars, producers, consumers
<1>3. CASE ShutdownGrpc \/ StopGrpcServer
  <2>1. /\ main' \in Range(Mains[service])
        /\ \/ main = "stopGrpc" /\ main' = "joinGrpc"
           \/ main = "joinGrpc" /\ main' = "stopHttp" /\ grpc' = "destroyed"
    BY <1>3, PhaseOrder DEF ShutdownGrpc, StopGrpcServer
  <2>2. service = "LocationManager"
    BY <1>3, <2>1 DEF Mains, RideMain, UserMain, Range
  <2> QED
    BY <1>3, <2>1, <2>2 DEF ShutdownGrpc, StopGrpcServer, rabbitVars, vars, producers, consumers
<1>4. CASE StopHttp
  <2>1. main' \in Range(Mains[service])
    BY <1>4 DEF StopHttp, Mains, RideMain, LocationMain, UserMain, Range
  <2> QED
    BY <1>4, <2>1 DEF StopHttp, rabbitVars, vars, producers, consumers
<1>5. CASE CloseHttp \/ JoinHttp \/ DistoryDatabase
  <2>1. UNCHANGED <<sending, loop, stopping, polling, service, serving, grpc>>
    BY <1>5 DEF CloseHttp, JoinHttp, DistoryDatabase, rabbitVars, vars, producers, consumers, web
  <2>2. CASE CloseHttp
    <3>1. main = "closeHttp" /\ main' = "joinHttp" /\ main' \in Range(Mains[service])
      BY <2>2, PhaseOrder DEF CloseHttp
    <3> QED
      BY <2>1, <2>2, <3>1 DEF CloseHttp
  <2>3. CASE JoinHttp
    <3>1. /\ main = "joinHttp" /\ main' \in NextPhases("joinHttp")
          /\ main' \in Range(Mains[service])
      BY <2>3, PhaseOrder DEF JoinHttp
    <3> QED
      BY <2>1, <2>3, <3>1 DEF JoinHttp
  <2>4. CASE DistoryDatabase
    <3>1. main = "dropTables" /\ main' = "exited" /\ main' \in Range(Mains[service])
      BY <2>4, PhaseOrder DEF DistoryDatabase
    <3> QED
      BY <2>1, <2>4, <3>1 DEF DistoryDatabase
  <2> QED
    BY <1>5, <2>2, <2>3, <2>4
<1> QED
  BY <1>1, <1>2, <1>3, <1>4, <1>5

LEMMA PoolKeeps ==
  ASSUME BrokerInv, ProcessInv, HttpStep \/ RunGrpc \/ RabbitStep(EndPolling)
  PROVE  ProcessInv'
<1> USE DEF ProcessInv, ProcessTypes, RequestsServed, LoopsStopped, GrpcStopped, web
<1>1. CASE HttpStep
  <2>1. /\ UNCHANGED <<sending, loop, stopping, polling, service, main, script, serving, grpc>>
        /\ \/ http = "queued" /\ http' = "marked" /\ isRunning' = TRUE
           \/ http = "marked" /\ http' = "listening" /\ isRunning' = isRunning
           \/ http = "marked" /\ http' = "done" /\ isRunning' = FALSE
           \/ http = "closing" /\ http' = "done" /\ isRunning' = FALSE /\ serving = {}
    BY <1>1 DEF HttpStep, MarkRunning, Listen, FailToListen, FinishListening, rabbitVars, vars,
                producers, consumers
  <2> QED
    BY <2>1, ZenonT(40)
<1>2. CASE RunGrpc
  BY <1>2 DEF RunGrpc, rabbitVars, vars, producers, consumers
<1>3. CASE RabbitStep(EndPolling)
  BY <1>3 DEF RabbitStep, EndPolling, vars, producers, consumers
<1> QED
  BY <1>1, <1>2, <1>3

LEMMA RequestsKeep ==
  ASSUME BrokerInv, ProcessInv, NEW p \in Producers,
         BeginCall(p) \/ Tell(p) \/ KafkaStep(ProducerStep(p)) \/ EndCall(p)
  PROVE  ProcessInv'
<1> USE DEF ProcessInv, ProcessTypes, RequestsServed, LoopsStopped, GrpcStopped, web
<1>1. CASE BeginCall(p) \/ EndCall(p)
  BY <1>1 DEF BeginCall, EndCall, rabbitVars, vars, producers, consumers, BeforeHttp, AfterHttp
<1>2. CASE Tell(p)
  <2>1. /\ p \in serving /\ polling' = polling /\ loop' = loop /\ stopping' = stopping
        /\ \A q \in Producers : q = p \/ sending'[q] = sending[q]
    BY <1>2 DEF Tell, BeginSend, Publish, rabbitVars, vars, producers, consumers, BrokerInv, Shape
  <2> QED
    BY <1>2, <2>1 DEF Tell
<1>3. CASE KafkaStep(ProducerStep(p))
  <2>1. /\ loop' = loop /\ stopping' = stopping
        /\ sending[p][1] # "idle"
        /\ \A q \in Producers : q = p \/ sending'[q] = sending[q]
    BY <1>3 DEF KafkaStep, ProducerStep, Push, EndSend, consumers, BrokerInv, Shape
  <2> QED
    BY <1>3, <2>1 DEF KafkaStep, rabbitVars
<1> QED
  BY <1>1, <1>2, <1>3

LEMMA LoopsKeep ==
  ASSUME BrokerInv, ProcessInv, NEW c \in Consumers, KafkaStep(ConsumerStep(c))
  PROVE  ProcessInv'
<1>1. /\ sending' = sending /\ stopping' = stopping
      /\ loop[c] \notin {"absent", "done"}
      /\ \A d \in Consumers : d = c \/ loop'[d] = loop[d]
  BY DEF KafkaStep, ConsumerStep, Check, BeginConsume, Take, EndConsume, Callback, Rest,
         producers, BrokerInv, Shape
<1> QED
  BY <1>1 DEF KafkaStep, rabbitVars, web, ProcessInv, ProcessTypes, RequestsServed, LoopsStopped,
              GrpcStopped

LEMMA ProcessStep == BrokerInv /\ ProcessInv /\ [ServerNext]_serverVars => ProcessInv'
<1> SUFFICES ASSUME BrokerInv, ProcessInv, [ServerNext]_serverVars PROVE ProcessInv'
  OBVIOUS
<1>1. CASE UNCHANGED serverVars
  BY <1>1 DEF serverVars, web, rabbitVars, vars, producers, consumers, ProcessInv, ProcessTypes,
              RequestsServed, LoopsStopped, GrpcStopped
<1> QED
  BY <1>1, StartingKeeps, StoppingMainKeeps, PoolKeeps, RequestsKeep, LoopsKeep
  DEF ServerNext, MainStep

-----------------------------------------------------------------------------

LEMMA ProcessInvariant == ServerSpec => [](BrokerInv /\ ProcessInv)
<1>1. BrokerInv /\ ProcessInv /\ [ServerNext]_serverVars => (BrokerInv /\ ProcessInv)'
  BY ProcessMovesBroker, BrokerStep, ProcessStep
<1> QED
  BY <1>1, ProcessInit, PTL DEF ServerSpec

\* Types, and is_running_ is set only while the server's task is at work, though main
\* clears it on its own.
THEOREM ProcessTypeCorrect == ServerSpec => []ServerTypeOK
  BY ProcessInvariant, ProcessInvShows, PTL

\* When main exits, or drops the tables, no loop, callback or request of the process
\* is at work, for each of the three services.
THEOREM ExitsQuietly == ServerSpec => []NothingRunsAfterExit
  BY ProcessInvariant, ProcessInvShows, PTL

\* In the whole process as well, where main starts and stops the loops when it comes
\* to it, callbacks get each producer's messages in the order they were sent, and
\* none twice.
THEOREM ProcessHandlesInOrder == ServerSpec => []HandledInOrder
<1>1. ServerInit => OrderInv
  BY OrderInit DEF ServerInit
<1>2. BrokerInv /\ OrderInv /\ [ServerNext]_serverVars => OrderInv'
  BY ProcessMovesBroker, OrderStep
<1> QED
  BY <1>1, <1>2, ProcessInvariant, OrderInvShows, PTL DEF ServerSpec

\* The process runs the broker as it is by itself: what holds of KafkaBroker's steps
\* holds of the process, where main decides when loops start and stop.
THEOREM ProcessRunsBroker == ServerSpec => Init /\ [][Next]_vars
<1>1. ServerInit => Init
  BY DEF ServerInit
<1> QED
  BY <1>1, ProcessMovesBroker, PTL DEF ServerSpec

-----------------------------------------------------------------------------
(* Driver notifications *)

\* No queue of the handlers holds a notification.
NothingQueued == \A e \in Endpoints : queued[e] = 0

\* An endpoint exists only after the call that held its queue.
QueuesDie == queued \in [Endpoints -> Nat] /\ NothingQueued /\ creating \cap created = {}

LEMMA RabbitMoves ==
  [ServerNext]_serverVars =>
     \/ \E e \in Endpoints : BeginCreate(e) \/ EndCreate(e)
     \/ Publish \/ RunRabbit \/ StopRabbit \/ EndPolling
     \/ UNCHANGED rabbitVars
<1> SUFFICES ASSUME [ServerNext]_serverVars
             PROVE  \/ \E e \in Endpoints : BeginCreate(e) \/ EndCreate(e)
                    \/ Publish \/ RunRabbit \/ StopRabbit \/ EndPolling
                    \/ UNCHANGED rabbitVars
  OBVIOUS
<1>1. CASE MainStep \/ Shutdown
  BY <1>1
  DEF MainStep, InitiateDatabase, CreateRideServers, CreateLocationServers, CreateUserServers,
      StartHttpServers, StartKafkaConsumers, CreateRabbitConsumer, StartRabbitConsumers,
      Shutdown, StopKafka, StopRabbitConsumers, ShutdownGrpc, StopGrpcServer, StopHttp,
      CloseHttp, JoinHttp, DistoryDatabase, Endpoints
<1>2. CASE HttpStep \/ RunGrpc \/ RabbitStep(EndPolling)
  BY <1>2 DEF HttpStep, MarkRunning, Listen, FailToListen, FinishListening, RunGrpc, RabbitStep
<1>3. ASSUME NEW p \in Producers,
             BeginCall(p) \/ Tell(p) \/ KafkaStep(ProducerStep(p)) \/ EndCall(p)
      PROVE  Publish \/ UNCHANGED rabbitVars
  BY <1>3 DEF BeginCall, Tell, KafkaStep, EndCall
<1>4. ASSUME NEW c \in Consumers, KafkaStep(ConsumerStep(c)) PROVE UNCHANGED rabbitVars
  BY <1>4 DEF KafkaStep
<1>5. CASE UNCHANGED serverVars
  BY <1>5 DEF serverVars
<1> QED
  BY <1>1, <1>2, <1>3, <1>4, <1>5 DEF ServerNext

LEMMA QueuesDieStep == QueuesDie /\ [ServerNext]_serverVars => QueuesDie'
<1> SUFFICES ASSUME QueuesDie, [ServerNext]_serverVars PROVE QueuesDie'
  OBVIOUS
<1> USE DEF QueuesDie, NothingQueued
<1>1. ASSUME NEW e \in Endpoints, BeginCreate(e) PROVE QueuesDie'
  BY <1>1 DEF BeginCreate
<1>2. ASSUME NEW e \in Endpoints, EndCreate(e) PROVE QueuesDie'
  BY <1>2 DEF EndCreate
<1>3. CASE Publish
  BY <1>3 DEF Publish, QueueExists
<1>4. CASE RunRabbit \/ StopRabbit \/ EndPolling
  BY <1>4 DEF RunRabbit, StopRabbit, EndPolling
<1>5. CASE UNCHANGED rabbitVars
  BY <1>5 DEF rabbitVars
<1> QED
  BY <1>1, <1>2, <1>3, <1>4, <1>5, RabbitMoves

\* In no service and at no moment is a driver's notification in a queue, so nothing
\* the producer publishes can reach the consumer (the queue is held weakly, by
\* handler and endpoint alike, and is gone when createProducer has returned).
THEOREM NoNoticeIsQueued == ServerSpec => []NothingQueued
<1>1. ServerInit => QueuesDie
  BY DEF ServerInit, RabbitInit, QueuesDie, NothingQueued
<1>2. QueuesDie => NothingQueued
  BY DEF QueuesDie
<1> QED
  BY <1>1, <1>2, QueuesDieStep, PTL DEF ServerSpec
=============================================================================
