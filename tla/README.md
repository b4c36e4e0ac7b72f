# Verification of uber_backend

TLA+ modules, TLC configurations and TLAPS proofs about the C++ services of this
repository: RideManager, LocationManager, UserManager and the libraries they
share (`sharedResources`, `sharedUtils`). Paths below are relative to `src/`;
`httplib.h` is `sharedResources/include/httplib.h`, the HTTP library the
repository carries with it.

## 1. The system

Three processes, each with its own HTTP server, its own MySQL schema, Kafka
producers and consumers and a thread pool. Kafka and RabbitMQ are in-memory
stand-ins compiled into every process, so messages never leave it; the MySQL
class that is compiled in is a stub as well. A real database is modelled beside
the stub because the handlers are written for one.

| Component | State it keeps | Operations | Talks to | What is hard |
|---|---|---|---|---|
| RideManager handlers (`RideManager/src/services/routeHandler/rideRouteHandler.cpp`) | `rides_`, `drivers_`, `rideSequence_`; tables `rides`, `payments` | ride request, ride status update, driver status update, four reads | location gateway (HTTP), MySQL, Kafka, RabbitMQ | one mutex taken per helper call, copies of records written back whole, statements whose result is dropped, identifiers that restart |
| In-memory Kafka (`sharedResources/src/kafka/KafkaStub.cpp`, `sharedKafka*.cpp`) | topics (weak pointers), messages, stop flags | publish, consume, close, listen, stop | thread pool, callbacks | topics that live only during calls, two timed waits, stop without the waiters' mutex |
| In-memory RabbitMQ (`sharedResources/src/sharedRabbitMQ*.cpp`) | queues (weak pointers), stop flag | create, publish, listen, stop | the same | the lifetime of the queue |
| Process lifecycle (`*/src/main.cpp`, `server.cpp`, `sharedServer.cpp`, `sharedHTTP*.cpp`) | `is_running_`, futures | start, signal, stop | all of the above | stop racing start, waiting for futures, an unsynchronised flag |
| LocationManager store (`LocationManager/src/services/routeHandler/routeHandler.cpp`) | table `locations`, foreign key to `riders` | update, get, find nearby, delete | MySQL | look-up then insert, no unique key, reload after write, search box |
| UserManager accounts (`UserManager/src/...`, `sharedUtils/src/jwt.cpp`) | table `users`; tokens, which only clients keep | signup, login, update, delete, password, profile, refresh, introspect, logout; list, pages, counts, search | MySQL, Kafka | check then insert, read hash then write, tokens outliving accounts, pages by offset |
| HTTP library (`httplib.h`) | sockets, the pool's queue, `svr_sock_`, `is_running_`; parser states | listen, accept, serve, stop; `Get`; read and write heads and bodies; ranges; multipart | every service, both ways | persistent connections holding threads, a stream per request, timeouts racing answers, text encoded by one routine and decoded by another |
| Fare parsing, HTTP routing | none | `parseFareAmount`, route patterns | | boundary cases, shadowed routes |
| Configuration (`sharedUtils/src/config.cpp`) | settings map | load, get | every component | sources that override each other, values that do not convert |
| Database wrapper (`sharedResources/src/mysql/...`, `sharedUtils`) | none of its own | build a statement, escape a text, execute | MySQL | what is taken for no value |
| gRPC stand-in, H3 and Redis handlers, models, website | little or none | | | not modelled (section 8) |

What makes them correct, in short: no ride lost or moved to other people, no
fare paid twice or not at all, memory, tables and messages telling the same
story, one driver on one ride; events in order, callbacks never after shutdown,
a process that can be stopped; one place per user, searches that find what is
near; names of one account only, tokens that show nobody else's profile; answers
that belong to their requests, connections that end, text that means the same at
both ends.

### Two things to know before reading the ride model

* `RideRouteHandler` is modelled as a class: any caller may pass it any ride id
  it knows. The HTTP route in front of it, `/rides/(\w+)/status`
  (`RideManager/src/services/httpHandler/servers/httpRideServer.cpp:69`), does
  not match the ids `generateRideId` makes (`ride-00000001` has a hyphen), so
  over HTTP such an update is answered 404 before it reaches the handler; the run
  `RoutesAstray` shows it.
* The location gateway's answer is any sequence of drivers up to a bound, the
  empty one (no answer, an error, another shape of JSON) included. `HttpClient`
  and `HttpServer` are the call that gets it, up to the status of the answer.

## 2. Modules

| Module | What it is |
|---|---|
| `RideRouteHandler` | ride and driver tables, worker threads, every mutating handler step by step |
| `RideLedger` | what the ride service promises about money, with no threads in it |
| `RideSettlement` | the handlers as an implementation of the ledger; the properties across memory, tables and messages |
| `RideFares` | what `parseFareAmount` makes of a JSON field |
| `KafkaBroker` | the broker, its producers, the consumers' loops, the handler's stop |
| `RabbitQueue` | the producer and consumer of driver notifications and their queues |
| `SharedServer` | a service process, any of the three: main, the HTTP server's task, with `KafkaBroker` and `RabbitQueue` inside |
| `ConfigManager` | where a setting comes from, and the ports that come out |
| `LocationDirectory` | what LocationManager promises about a user's place |
| `NearbySearch` | the geometry of the proximity search |
| `LocationStore` | LocationManager's handlers over its table, implementing the directory |
| `AccountDirectory` | what UserManager promises about accounts |
| `UserAccounts` | UserManager's account and token calls, implementing the directory |
| `UserQueries` | its lists, pages, counts and searches |
| `HttpRouting` | the route tables and the library's choice of a handler |
| `ByteRanges` | parsing, joining and serving of ranges |
| `HttpServer` | listen, the pool, connections, the checks of a request, stop |
| `HttpClient` | the library's client calling that server |
| `HttpText` | request lines, parameters and headers, byte by byte, written and read |
| `HttpContent` | bodies: by length, to the end, in chunks; trailers; forms; dispositions |
| `MultipartParser` | the parser of multipart bodies, fed piece by piece |
| `...Proofs` | theorems (section 5) |
| `SetInduction` | lemmas about finite sets, sums over them, ordered lists of them and folds of sequences, for the proofs |
| `MC...` | values of constants for TLC, and the samples of the properties of inputs |

### RideRouteHandler

`rides`, `drivers`, `rideSequence` are the members of the same names; `rideRows`
and `payments` the two tables; `lifecycle` and `notices` the status in the last
message handed to `ride_lifecycle_events` and to the driver queue (that is,
given to `publish`; what becomes of it is the other modules' matter). A worker
thread has a program counter `pc` and its locals: `req` while it matches a
driver, `rec`, its copy of a record, afterwards. An action is one lock section,
one statement or one publication of the C++ handler, in the order of the code:

* `handleRideRequest`: `StartRequest`, then `TakeCandidate`/`SkipCandidate` per
  driver the gateway named, `FallbackScan` or `RejectRequest`, `NumberRide`,
  `InsertRide`, `ReserveDriver`, `PersistRide`, `PublishRide`, `NotifyDriver`;
* `handleRideStatusUpdate`: `StartUpdate` (the copy and the branch of the
  switch), then `AcceptRide`, or `CreditDriver`, `LookupRide`, `RecordPayment`,
  `ReleaseDriver`, then `WriteBack` and the same tail;
* `handleDriverStatusUpdate`: `DriverReports`, one lock section;
* `Restart`: the process dies and starts again, only the tables survive.

Abstractions. `walletBalance` and `lifetimeEarnings` change together and are one
field. The fields of a record no decision depends on (addresses, coordinates,
vehicle, reason, currency) are left out. A fare is an integer, any negative one
stands for a field that is missing, unreadable or negative (`RideFares` is where
it comes from). The two events of a request (`ride.requested`, `ride.assigned`)
are one publication. The tables obey their keys; foreign keys to accounts are
assumed to be met, or the statement fails, which `DbFaults` allows at any time.
`Durable = FALSE` is the compiled stub: writes vanish, reads find nothing.
`persistRide` turns people's ids into integers for the table; ids here are
abstract and the conversion is taken to keep them apart.

### KafkaBroker, RabbitQueue, SharedServer, ConfigManager

`inside[t]` is the set of threads whose call is at work on topic `t`, that is,
the strong references to its state; when the last of them leaves, `messages[t]`
is lost, which is what `topics_` being a map of weak pointers means. A call is
three steps (enter, work under the topic's mutex, leave). The 50 ms wait of
`consume` and the 100 ms wait of `listening` may end at any moment; `closed` and
`stopRequested_` only make a wait shorter and are covered by that, which also
covers the unsynchronised read of `stopRequested_`. What a consumer's callback
was given is kept in `handled`.

`RabbitQueue` counts messages. A queue exists while `createProducer` or
`createConsumer` runs (`creating`), the only strong pointers in the program;
afterwards every `lock()` fails, `publish` drops and the consumer spins on
`running_`. The branch of `listening` that waits on a living queue is left out:
no endpoint of the program ever has one.

`SharedServer` adds `service`, which of the three the process is; `main`, its
place in the sequence of phases `Mains[service]`, read off the three `main.cpp`
and `server.cpp`; `http`, the pool task that runs `SharedHttpServer::start`;
`isRunning`, the flag both write; `grpc`, LocationManager's stand-in; and
`script`, the database script main ran last. HTTP workers send events and
notifications while the server listens; the library waits for them before
`listen` returns, which is `HttpServer`'s `DrainedAtReturn`.

`ConfigManager` is functions: the file's lines, the environment and a default
give a setting. A value is a number or something `std::stoi` cannot read. For
`PortsStayApart` each setting of a service is unset, spoilt or a port of its own, in
every mix.

### LocationStore, NearbySearch, LocationDirectory

A row has a key, a user, a position and a name; there is no unique key on the
user, and `FetchLocationRecord` may return any row of his, or, when the SELECT fails,
none: `fetchRows` then has no rows to give and the handlers take that for a user without
a row. An update whose look-up failed so goes on to INSERT; `hidden` is the history
that counts these, a bound too (`MaxHidden`). A worker thread goes
from `look` (the first fetch) to `write` (INSERT or UPDATE, chosen by what was
found then) to `reload` (the second fetch, of which the answer is made), or from
`look` to `remove`; each is one statement, and others come in between.
`database = "stub"` is the class that is compiled in: statements succeed and
change nothing. `Nearby` is one statement, then a filter and a sort
(`NearestFirst`; rows equally far come in some order, `std::sort` promises none); a
search whose statement fails answers 200 with nobody.

`LocationDirectory` is the promise: one place per user, a call takes effect at
one moment. The code keeps it for users two calls about whom never overlapped and
about whom no statement failed; for the others `stored` is `Unsure` from then
on, and the directory promises nothing. `doubted` and `alone` are the history
that says which.

Positions are points of a grid of angles over the whole globe, poles and antimeridian
included; radii are angles of that grid. The sines and cosines the code computes are
read off one table, `Hav`, the square of the sine of half an angle: `Haversine` is what
the code takes the arc of, which grows with the distance, and the code only compares and
sorts distances. `InBox` is the BETWEEN of the statement: degrees of 111 km, the width
divided by the cosine of the centre's latitude (`Narrowing`), and longitudes compared as
numbers. `Within` compares on the sphere, where a degree is 111.19 km. Radii between two
steps of the grid and rounding in floating point are outside the model.

### UserAccounts, AccountDirectory, UserQueries

An action is one statement, one event, one look at the clock. Signup makes its
two availability checks in the HTTP handler, the same two in `handleNewUser`,
then the INSERT, which the unique keys may refuse, then the event: five steps
another signup can come between. A password change reads the hash in one
statement and writes in another. An update sets the columns the client names, any of
them: `Changes` are such sets, `user_id` among them, and `moved` is the history of the
accounts an update has given another number. A query that fails gives no row, so a login
is refused with 401, a password change ends in an exception (500), a signup takes a name
for free and a profile is null. A token is what is in it: a user id and an
expiry (`owner` is history, the account it was issued to); verification is the
signature, taken as unforgeable, and the comparison with the clock. `StopAndStart`
drops the database, as UserManager's stop script does; `CrashAndStart` keeps it.
`Mixes` are what clients do in one behaviour: the account calls they make, what they use
tokens for, and whether time passes or the process restarts, which keeps the product of
all of it out of one state space.

`AccountDirectory` says what this amounts to: names and emails of one account
each, every call effective at one moment, except that a password change only
promises the old password was right at some moment of it (`past`). Each call has the
answers a failing statement gives it (`FailedAs`). Of a deletion of an account that is
not there the directory says only that it is answered, 200 or 404: the code and the
documentation differ there (section 7), so the refinement takes no side.

`UserQueries`, which `UserAccounts` extends, are operators on a table: pages are cut
with the code's defaults and limits (`Page`: what stands at each place of the table's
order), a search escapes its text (`EscapeString`), the database reads the literal
(`Literal`) and matches it (`Like`). Its constants are the inputs: `Texts` are names
and texts asked for, `Walks` the tables a client finds at page after page, `PageSizes`
the limits of such clients. The assumption on them says what the table promises and no
more: numbers are `AUTO_INCREMENT`, so one that appears between two pages is larger
than those that are there (`NumbersGrow`; a number whose row is gone may come again).
Left out by that are signups that commit in another order than they drew their numbers
in, and updates of `user_id`: either can put an account before a page already read.
Page sizes go to 100, the code's clamp: a client that asks for more and steps by what
it asked for skips accounts. `Stored` is what the INSERT leaves of a name.

### HttpServer, HttpClient, HttpRouting, ByteRanges

A connection's `sock` goes from the kernel's backlog to the pool's queue to a
worker and is closed. A request is a record of what the checks of
`process_request` look at; on the wire it is a head and, with a body, a second
item. `arrived` is the socket's buffer; `worker[w].held` is the buffer of the
stream the worker made for the request it serves, which takes all that has
arrived and is thrown away with the stream after the answer. Worker states are
the places where a thread can wait or others can interfere: `looking` (the first
look of `keep_alive`), `polling`, `reading`, `line`, `content`, `handling`,
`answering`, `leaving`. `Stop` and `StopCloses` are `Server::stop`, whose close
of the descriptor comes after the exchange of `svr_sock_`.

`ByteRanges` is parsing, checking, joining and answering as operators; `RangeLists` and
`Lengths` are the lists of ranges asked for and the lengths of bodies, `RangeMaxCount`
the limit of ranges in one request. Joining sorts by the first byte; the code's sort is
not stable, so `SortedByFirst` is some sorted arrangement.

Clients wait for answers, or pipeline, or are silent, or are the library's own
`Get` (`HttpClient`), which connects, writes, reads and gives up at any of these
steps.

Not in the model: heads that arrive in pieces, bodies longer than a buffer,
`EINTR` and a process out of descriptors, descriptor numbers (an error of
`accept` closes the descriptor and leaves `svr_sock_`, so a later stop closes the
number again, `httplib.h:7275`), a server decommissioned before it listens.

### HttpText, HttpContent, MultipartParser

Functions on sequences of bytes, one per routine of the library, recursive where
the code loops over a stream. `LineArrives`, `HeadersArrive`, `Arrives` (bodies
by length, in chunks, as forms), `PartIsNamed` and `PartsAreWhole` compose a
writer with its reader and say for which inputs the reader gets what was written.
The exceptions they name are the code's:

* a target that already holds `%` is decoded without having been encoded, and a
  trailing tab of it is lost; keys of parameters are not encoded, and two equal
  pairs arrive as one;
* header values are URL-decoded, except `Location` and `Referer`;
* a name with `;` or `=` inside the quotes of a `Content-Disposition` is misread;
* a chunked body is accepted without its last line, and a writer that hands over
  an empty piece never finishes its body;
* the length of a part's header lines is looked at once when the parser enters the
  headers (`EnterHeaders`), so a line as long as the limit is refused by some cuts of the
  body and not by others, and so is a longer one behind another line; a first line that
  is longer is always refused.

## 3. Runs

| Run | Specification | Bounds | Shows |
|---|---|---|---|
| `RideSerial` | `SerialSpec` | 2 threads, 2 drivers, 2 rides, statuses accepted/completed/cancelled, fares {missing, 7} | `TypeOK`, `WalletsBalance`, `PaymentsMatchLedger`, `QuietRidesAgree`, `SettledRidesArePaid`, the refinement `LedgerSpec`; `FaresReadAsWritten` |
| `RideRacing` | `Spec` | 2 threads, 2 riders, 1 driver, 2 rides, fares {5, 7}, no database, gateway answers up to length 1 | `RidesHaveOneOwner`, `NeverUnderpaid`, `RidesKeepParties` |
| `RideCrash` | `CrashSpec` | 1 thread, 2 rides, fares {missing, 0, 7}, statements may fail, restarts at any time | `ReportedPaymentsExist`, `EveryCallAnswered` |
| `Process` | `ServerSpec` | each of the three services; 2 HTTP workers with 2 events each, 1 Kafka and 1 RabbitMQ consumer, 1 notification | `ServerTypeOK`, `HandledInOrder`, `NothingRunsAfterExit`, `ConsumersStop`, `ListeningServerStops`, `WaitingConsumerIsServed`; `PortsStayApart` |
| `Locations` | `Spec` | 2 threads, 1 user with or without a row in `riders`, a grid of 30 degrees, 2 positions, 5 centres, radii {default, 1 step}, a name or none, the database that fails at times and the stub, at most 1 failed look-up of an update hidden | `TypeOK`, `RowsBounded`, `UpdateReachesEveryRow`, `SearchExact`, `StubStoresNothing`, the refinement `IsDirectory` |
| `Accounts` | `Spec` | 2 threads, 2 names, 2 emails, 2 passwords, 5 sets of changed columns, 5 mixes of calls, 2 accounts per life of the database, tokens of 1 second, a clock of 2, 1 restart or crash, statements may fail | `TypeOK`, `NamesBelongToOneAccount`, `AccountsAnnounced`, `ProfilesAreOwn`, `SessionsStayLapsed`, the refinement `IsAccountDirectory`; `QueriesShowAccounts` |
| `Web` | `WebSpec` | 2 connections, 1 worker, 2 requests per connection, 13 first requests, clients that wait, pipeline, stay silent or are the library's, a stop at any time | `AnswersInOrder`, `DrainedAtReturn`, `ServingEnds`, `CallsEnd`; `RangesServeAskedBytes`, `TextArrives`, `BodiesComeThrough` |
| `RacingSettlement` | `Spec` | 2 threads, 1 ride | violates `WalletsBalance`: two completions of one ride credit its driver twice |
| `DoubleBooking` | `SerialSpec` | 2 threads, 2 rides, 1 driver | violates `NoDoubleBooking`: one driver is given two rides |
| `RestartReusesIds` | `CrashSpec` | 2 threads, 1 ride id | violates `RowsNameTheirRide`: a new ride is merged into an old run's row |
| `RoutesAstray` | `WebSpec` | the documented calls, the routes of the three services | violates `CallsReachTheirHandlers`: updates and look-ups of a ride by its own identifier match no route, a proximity search is a look-up of the user `nearby` |
| `ShutdownHangs` | `ServerSpec` | 2 consumers, no messages | violates `ShutdownEnds`: a process stopped before its server listens never ends |

The three ride specifications differ in what clients and the world may do.
`Spec`: anyone sends anything at any time. `SerialSpec`: a ride's next update is
sent after the call before it on that ride was answered; different rides, driver
reports and requests still interleave freely. `CrashSpec`: the same and the
process may die between any two steps. The split is the result, not a
convenience: the money properties hold for `SerialSpec` and fail for `Spec`.

Properties after a semicolon are about functions of inputs, not about behaviour.
They quantify over samples defined in the `MC` modules and are evaluated in the
first states of the run (`Init => ...`); the state space of the run has no part in
them. For ranges and queries the samples are values of constants, and section 5 proves the
properties for every value. The samples are exhaustive up to a bound: all fares of up to two groups of
digits with their signs and currencies; every mix of unset, spoilt and set
ports; tables of up to 4 accounts at each of 3 or 4 pages, and names of up to
3 characters against texts of up to 3 over letters, wildcards, quote and
backslash; lists of up to 3 ranges of every form, and of 4 and 5 of a few, over bodies of
up to 4 bytes; every byte alone
and every triple of 21 significant ones in a target; bodies of up to 3 bytes, and
of up to 2 chunks of 2; multipart contents that end in, or hold, parts of a boundary, cut
at every place, and parts with no header line, with two, and with lines about the limit.
For them the limits of the library are set small (a line of 60
bytes, header lines of 14, of a part 4, 3 headers, a payload of 20, a form of 12, 4 ranges), so that
they are met.

Why the bounds are enough.

* Rides. The hazards are pairs: two threads in one handler, two rides of one
  driver, a stale copy and the record it is written over, a ride number drawn
  twice. Two threads and two rides give each of them; `MaxWallet` only stops the
  updates of a driver who owns more than any two fares (or, in `RideRacing` and
  `RideCrash`, after his first large one). In `RideRacing` both threads still start
  from the same unsettled record, so the double settlement happens in the very
  run that shows what survives it.
* Processes. Two senders are needed for one to keep alive the topic the other's
  message is in, two messages for order.
* Locations. Two threads are a race; both first updates of the user pass the
  look-up, and a look-up that fails hides his rows once more, so up to three rows occur,
  and later updates, look-ups and deletions meet them. `MaxRows` only stops a first
  update from beginning while the table holds a row, not one that has begun. Calls about
  different users share nothing but the table's keys, so one user is enough; the theorems
  have any number. The positions and centres are picked for the search: a pole, a place
  across the antimeridian, one inside the box and not the circle, one inside the circle
  and not the box, one further in longitude than the radius and near all the same, and
  two found at different distances.
* Accounts. Signups share a name, an email or both; updates give an account another's
  name, email or number, or move it to a free number; the number
  of a deleted account is followed by another account's; a token issued at 0
  has expired at 2 and is valid at 1; a restart leaves tokens in the clients' hands.
* Web. One worker makes the silent client hold the thread others wait for; with
  two requests per connection the second one ends it by the limit.

Symmetry is used over threads, riders and drivers, which no action tells
apart, and only in runs without liveness properties. The violation runs keep to
the smallest instance that shows the disagreement; section 7 tells what else was
seen.

## 4. Fairness

`EveryCallAnswered` assumes weak fairness of each thread's handler steps: once a
worker thread serves a call the operating system keeps running it. No step of a handler
waits for another thread (locks are held for one action), so one thread shows what is
left to go wrong: a handler that stops between two steps, or goes round the candidates
for ever. Clients need not call and drivers need not report.

`SharedServer` assumes the same of main, of the pool tasks (the HTTP server's, the
Kafka loops, the RabbitMQ loop, the gRPC stand-in), of producers in a call and of
HTTP workers finishing a request, and relies on the two timed waits of the Kafka
loop ending. No signal has to come, and beginning to stop (`Shutdown`) is not fair.

`HttpServer` assumes that listen's thread, the rest of a stop that has begun and
each worker go on (`WF` per thread: a worker has one next step, or waits), and
that time passes for a worker that waits on a client: the library gives every
read and every idle connection a timeout, and `TimeoutStep` is when it runs out.
Clients need not send, read or close, and nobody needs to stop the server. A
handler ends; those of the services take no lock they hold while waiting.
`HttpClient` adds that a call of the library goes on to its answer or its timeout
(`CallStep`); it needs no fairness of the server it asks, only time. A server that
trickles its answer out, byte by byte within the timeout of each read, is not modelled.

`Locations` and `Accounts` state safety and refinement alone: a handler there is a
straight line of statements, none waits.

## 5. Proofs

Every theorem holds for every value of the constants that meets the named
assumption of its module (`HandlerAssumption`, `BrokerAssumption`,
`LifecycleAssumption`, `StoreAssumption`, `AccountsAssumption`, `QueriesAssumption`,
`HttpAssumption`, `RangesAssumption`), where the runs take one small instance.

`RideRouteHandlerProofs`, `RideSettlementProofs`: any threads, riders, drivers and
statuses, any number of rides, any set of fares.

* `TypeCorrect`: `Spec => []TypeOK`. `TypeOK` is inductive by itself because it
  says which locals a thread has at which step.
* `OneOwner`: `Spec => []RidesHaveOneOwner`. Not inductive alone: two threads in
  the `insert` step could hold the same number. `OwnerInv` adds that every
  number in use is below `rideSequence` (`IdsDrawn`), that a ride being created
  is nobody else's (`NewRidesAlone`) and that copies agree with the stored
  record on rider and driver (`CopiesAgree`).
* `KeepParties`: `Spec => RidesKeepParties`, an action property, from `OwnerInv`:
  a write-back puts a copy over a record with the same parties.
* `SerialLedger`: `SerialSpec => LedgerSpec`, the refinement. `SerialInv` adds to
  `OwnerInv` that at most one thread holds a copy of a ride (`OneAtATime`) and
  that copy and record agree about the fare except between credit and
  write-back (`MoneyAgrees`). A step of `CreditDriver` maps to `Settle`, a step of
  `InsertRide` to `Open`, all others to stuttering. `LedgerUpdate` and `LedgerStart`
  are the two lemmas that carry it.
* `WalletsStayBalanced`: `SerialSpec => []WalletsBalance`, an argument about the
  ledger carried back over that refinement. `LedgerShape` types the ledger;
  `BalanceStep` says that settling one ride adds its fare to the sum of its driver's
  rides and to his wallet, and leaves every other driver's sum alone.
* `NobodyUnderpaid`: `Spec => []NeverUnderpaid`, without the help of the refinement,
  which fails here: racing completions credit twice and overwrite each other's
  records. What is inductive is `CreditsCover`: there is a function from rides to
  amounts, the largest each was ever credited for, that no record in memory or in a
  thread's hands exceeds and whose sums the wallets hold. The function is
  existential because the program does not keep it.
* `ReportsAreTrue`: `CrashSpec => []ReportedPaymentsExist`. `PaymentsInv` extends the
  property to the copies threads hold and says that who looks a ride up to pay it
  has its fare. Failing statements and restarts are steps like the others: a restart
  forgets every ride that could report a payment, so a row of an earlier run may be
  overwritten for the new ride of its number.
* `PaymentsMatch`: `SerialSpec => []PaymentsMatchLedger`, from `SerialInv` and
  `PaymentsInv`.
* `QuietAgree`, `QuietPaid`: `Durable /\ ~DbFaults /\ SerialSpec => []QuietRidesAgree`
  and `[]SettledRidesArePaid`. The two hypotheses are the constants' values in
  `RideSerial`: with the stub no row is written, and a statement that fails goes
  unnoticed, so neither property holds without them (section 7). `TellInv` says of
  each step of the tail what has already been told of the copy in hand (`ToldBy`),
  and of a ride nobody has in hand that all has been (`ToldRide`).

`KafkaBrokerProofs`: any topics, producers and consumers, any number of messages.

* `BrokerTypeCorrect`: `Spec => []TypeOK`. `BrokerInv` says who is inside a topic:
  exactly the senders, takers and the stopper whose call is on it (`Membership`).
  Without that a thread could leave a topic it is not in, and a topic nobody is
  in could keep its messages (`Kept`).
* `CallbacksInOrder`: `Spec => []HandledInOrder`. `OrderInv` lines up the places a
  message goes through: of one producer, what callbacks were given comes before
  what the consumer holds, that before what waits in the topic, that before what
  is still to be sent. A topic that dies takes a stretch out of the line and
  leaves the order.

`SharedServerProofs`, over `KafkaBrokerProofs`: any of the three services, any number
of request threads, consumers and messages.

* `ProcessTypeCorrect`, `ExitsQuietly`: `ServerSpec => []NothingRunsAfterExit`. `ProcessInv`
  says what each phase of main has settled (`PhaseOrder`: the phase that follows it):
  from `AfterHttp` on no request is served or sends (`RequestsServed`), from
  `AfterKafka` on no loop of Kafka runs, from `AfterRabbit` on none of RabbitMQ
  (`LoopsStopped`), from `AfterGrpc` on no gRPC server (`GrpcStopped`). UserManager
  has no loops at all, which is why its shorter list of phases is enough.
* `ProcessHandlesInOrder`: `ServerSpec => []HandledInOrder`. Every step of the process is
  a step of the broker or leaves it alone (`ProcessMovesBroker`), so `OrderInv` carries over.
* `ProcessRunsBroker`: `ServerSpec => Init /\ [][Next]_vars`, the same as a theorem: the
  broker inside the process does nothing the broker by itself cannot do. The broker's
  fairness does not carry over: in the process its loops run only once main has started
  them.
* `NoNoticeIsQueued`: `ServerSpec => []NothingQueued`: no driver notification is ever in
  a queue, of any service, at any time. No run checks it. `QueuesDie` says why: the call that creates an endpoint holds the only strong
  pointer, and an endpoint exists only after that call.

`HttpServerProofs`: any clients, requests and threads, any limit of requests to a
connection.

* `ListenDrains`: `WebSpec => []DrainedAtReturn`. `PoolInv` says that the queue holds
  each queued connection once, that a served one has exactly one thread, and that a
  thread leaves the pool only after accepting has ended and with the queue empty; from
  then on nothing can join the queue.
* `AnswersStayInOrder`: `WebSpec => []AnswersInOrder`, in three parts. `OrderInv`: the
  numbers of requests fall along the way they travel, from what the client has still
  to send over what has arrived to what its thread works on and what was answered.
  `CloseInv`: after an answer that closes, other than a 414, its thread is about to
  close the socket. `TurnInv`: a client that waits is, after each answer, in one of
  few states (about to send, sent and unread, in its thread's hands) until an answer
  leaves a body behind or the client is gone. Lemmas say what each step does to one
  connection (`HeadReadLeaves`, `RequestRead`, `AnswerWritten`, ...), so that the three
  parts need not look into the handlers.
* `AnyServerAnswersInOrder`: both of `Spec`, the server without the library's client.
* `WebRunsServer`: `WebSpec => Spec`, so everything said of the server is true of it with
  the library's clients, and the fairness of the server is among what `WebSpec` assumes.
* `RangesServedAsAsked`: `WebSpec => []RangesServeAskedBytes`, for lists of any length,
  ranges of every form and bodies of any length. `AllMerged` is the heart: the list
  `coalesce_ranges` joins stays sorted, apart, and of the same bytes, one range at a time
  (`JoinKeepsMerged`). The rest is that a sorted arrangement exists and that bytes repeat
  in it exactly where `range_error` counts them.

`LocationStoreProofs`: any threads and users, a table of any length.

* `StoreTypeCorrect` and `StubNeverStores`: from `StoreInv`, which adds to `TypeOK`
  the call each step works on, and that the stub's table is empty. That the
  INSERT finds a free key is a pigeonhole argument (`KeyIsFree`).
* `UpdatesReachEveryRow`: `ReachInv` adds `AloneInv`, what a thread that nothing
  overlapped knows between its statements: that its user has rows when it found one,
  that he has none when it found none, unless a failed look-up has hidden them, and,
  after the write, that all of them hold its place.
* `RowsStayBounded`: `RowsBounded` is inductive over `StoreInv`: an insert on its way
  becomes a row; a first look makes its thread an insert on its way only while the
  user has no rows, or when it failed, and then it is counted in `hidden`; and threads
  are finitely many.
* `StoreIsDirectory`: `Spec => IsDirectory`, the refinement, step by step.
  `DirectoryInv`: a user nobody doubts has at most one row, the call about him is the
  only one and what it found at its first look is still so (`SureCall`). A look-up that
  fails while he has a row makes him doubted, so of the others every look-up read right
  (`ReadRight`). The write of
  an update and the DELETE are where calls take effect; for a doubted user every step
  maps to one that leaves him `Unsure`.
* `SearchesAreExact`: `Spec => []SearchExact`, for every grid and every table `Hav` that
  rises to half way round, as the square of the sine of half an angle does, and is
  symmetric about it. A place within the radius is within it in latitude, whose term of
  the haversine alone is not larger than the sum (`NearInLatitude`), so a
  missed one was cut off by the width of the box; that is at least the radius in degrees
  (`BeyondTheWidth`), and on the equator the longitude alone already decides, so the place
  lies across the antimeridian (`NearOnEquator`). The sorted list exists
  (`NearestFirstLists`), so what `CHOOSE` takes is one.

`UserAccountsProofs`: any threads, names, emails and passwords, any number of
accounts, restarts and seconds.

* `AccountsTypeCorrect`: from `TypeInv`, which adds the fields of each call
  (`StepsTyped`) and that the numbers the table gives out and the owners in it run
  behind its counters (`TableTyped`).
* `NamesStayApart`: inductive over `TypeInv`; the checks a signup makes do not
  occur in the argument, the unique keys of the table carry it, which is why the
  race between check and INSERT is harmless.
* `AccountsGetAnnounced`: inductive over `TypeInv`; only a crash moves `crashed`.
* `ProfilesStayOwn`: `OwnersInv` says that a token of this life of the database and
  the row its subject names are of one account, unless an update moved the row's account
  there (`Identified`), and that a thread about to issue a token holds such a pair. An
  update of `user_id` puts only an account in `moved` under another number, and
  AUTO_INCREMENT, which stays ahead of it, gives no number twice (`NumbersStay`).
* `LapsedStaysLapsed`: `Spec => SessionsStayLapsed`, an action property, from
  `OwnersInv`: a refresh issues a token for its own owner and only after it found
  one that had not expired.
* `AccountsAreDirectory`: `Spec => IsAccountDirectory`, the refinement. `CallsInv` says
  what a call has come to: at which steps a signup may already have been refused,
  that the hash a password change compares was right at some moment of it
  (`PasswordNow` is within `past`), and that an answer is there exactly at the end.
  Every statement of the code maps to the one step of the directory it settles: one that
  fails, a query included, to the answer the directory has for a failure.
* `QueriesAnswered`: `Spec => []QueriesShowAccounts`, for all names and texts, tables of any
  size and walks of any number of pages. Three arguments:
  pages (`WalkInOrder`, `WalkMissesFew`) by ranks: the rank of an account never rises from
  page to page (`RankSinks`), so whoever is missed had it fall past a page's end, and as
  many below him were deleted as were missed; names (`EscapeUndone`): reading a literal
  undoes escaping one character at a time, so a name is stored as it is or, when it is taken
  for none, as the empty one; searches (`TextMatched`): how far the name is matched after
  each character of the pattern. `CountsAddUp` is the sum of the counts by role.

`SetInduction`: what the proofs about sums and searches rest on. The library's
induction theorems take an operator, which no installed prover can instantiate; these
lemmas take a set instead. `LeastNumber` (a set of numbers that is not empty has a
least one) follows from the library's well-founded order of the numbers; `OneLess`
is induction over finite sets; from it, a finite set can be listed in an order
(`InOrder`) and the fold behind `SumFunctionOnSet` is defined (`SumsExist`), does not
depend on the order in which it takes the elements (`SumOfRest`), and is monotone
(`SumCompared`, `SumGrows`). `Upward` is induction over the numbers up to one, with a set;
`FoldsExist` and `FoldsStayIn` do for `FoldLeft` what `SumsExist` does for sums.

What the attempts corrected. `RefuseTaken` of `UserAccounts` did not refuse at
`email2`, where a signup is when its second look has found the name taken: there it
could not go on, where the code answers 409. `NearbySearch` sorted with
`SetToSortSeq`, whose definition says nothing of rows that are equally far;
`NearestFirst` does. `ByteRanges` sorted with `SortSeq`, which fixes the order of ranges
that start together and the code does not; `SortedByFirst` leaves it open. Proving
`QueriesShowAccounts` for all inputs brought out three hypotheses the samples had met
unsaid: numbers only grow, page sizes stay within the clamp of 100, and names are
compared as stored (a user who calls himself `NULL` is stored without a name).
`SearchExact` was first stated near the equator; over the globe it needs the arc of a
step at the centre's latitude, and says now by how much a missed place is out of the box.

Checked by TLC only: liveness, which is beyond the proof system, in every module
(`EveryCallAnswered`, `ConsumersStop`, `ListeningServerStops`, `WaitingConsumerIsServed`,
`ServingEnds`, `CallsEnd`); and four properties of functions of inputs, stated over
values of the `MC` modules. `PortsStayApart` ranges over everything there is (each kind
of setting of three services), so the run decides it.
`FaresReadAsWritten` compares powers of ten and `BodiesComeThrough` and `TextArrives` are
about recursive operators, both beyond the provers; they say nothing of longer inputs
than those of section 3.

## 6. Plan

1. Done: rides and their money, the two brokers, the process around them.
2. Done: accounts, places, routing, configuration, fares, the HTTP library as far
   as the services use it, with proofs about accounts, places and Kafka.
3. Done: proofs about the HTTP server and the process; the three refinements; every
   invariant of the runs that is about behaviour; of the functions of inputs, ranges
   and queries, for every input; that the compositions run their parts.
4. Compositions worth trying if a larger state space is affordable: the ride
   handlers over `KafkaBroker`, so that `notices` and `lifecycle` become what arrives
   instead of what is sent.

## 7. What the models showed besides the runs

Each of these is behaviour of the code, seen in a counterexample or found while
the definitions were written, that no run of the table is spent on.

Rides:

* a finished ride can be accepted, completed or cancelled again; no transition
  is refused (`rideRouteHandler.cpp:558`);
* a late cancellation makes the driver available while he is on his next ride
  (line 614);
* a failed statement of `persistRide` goes unnoticed (line 261), so
  `QuietRidesAgree` needs a database that obeys;
* of two racing updates one can win in memory and the other in the table or in
  the topic (lines 625-636), so `QuietRidesAgree` needs `SerialSpec`;
* the snapshot in `driver.status_changed` is taken after the lock section that
  changed the driver (line 649), so two reports can be announced with one state;
* with the stub database a completed ride never gets its payment (line 361), so
  `SettledRidesArePaid` needs a real one;
* of a fare given as text the sign is dropped, and a thousands separator is
  not told from other characters that are dropped (line 283);
* an event published while the Kafka consumer rests between two calls is lost
  with the topic; `WaitingConsumerIsServed` says which one is not;
* every driver notification is dropped: its queue dies with the call that creates the
  producer (`sharedRabbitMQProducer.cpp:36`). `docs/system_validation_scenarios.md:125`
  has the notifications "loop back" to the consumer. The theorem `NoNoticeIsQueued` says
  that none is ever queued.

Gateway and configuration:

* the ride service reads the gateway's answer under `data` or `users`, while the
  location service answers with `nearby` (`locationGateway.cpp:36-46`,
  LocationManager's `routeHandler.cpp:420`), so no driver is ever taken from it;
* the default ports of LocationManager (8082) and RideManager (8083) are each
  other's ports in `.env`: a file that cannot be read swaps two services.

Places:

* the role asked for is not looked at by the search; a name that reads like null
  is stored as none;
* the box is cut with 111 km to a degree and the distance measured with 111.19, so the
  box is a little larger than the circle to the north and south; to the east and west its
  width is the radius at the centre's latitude, too little for circles near a pole and
  for those across the antimeridian, whose places are missed;
* two first updates of one user make two rows for ever, and so does one update whose
  look-up fails while he has a row (`routeHandler.cpp:521`): no statement merges them,
  and the old row keeps its place; a search whose statement fails is answered 200 with
  nobody.

Accounts:

* no event follows an update or a deletion, which
  `docs/system_validation_scenarios.md:25-26` describes;
* deleting an account that is not there is answered 200: the DELETE of no row succeeds.
  Line 45 of the same document has 404, and the handler has a branch for it
  (`httpUserServer.cpp:249-257`) that only a failing statement reaches;
* two password changes can both succeed on one old password;
* the profile and the renewal of a deleted account's token are answered as if it
  were there (`/user/me` with null and 200); logging out changes nothing;
* UserManager's stop script drops its database: tokens issued before stay valid
  and name, by number, accounts created later;
* UserManager's main never calls `startConsumers` (`UserManager/src/server.cpp:28`);
* an update may set any column the client names; one of `user_id` puts an account under
  a number a token of another one names, which then shows this account's profile
  (`ProfilesAreOwn` says that nothing else does);
* a query that fails is taken for no such account: 401 at login, 500 at a password
  change, a null profile with 200;
* `%` and `_` in a search are wildcards; a backslash in a text is lost; empty, `null`
  and quoted empty texts are all taken for no value;
* a list read page by page misses an account when an earlier one is deleted
  meanwhile, and never more than were deleted; a client that asks for pages of more than
  100 and steps by that misses the rest of each;
* a user named `NULL`, `null` or two quotes is stored with an empty name, and the next
  one is refused as taken.

The HTTP library, as the services use it:

* requests a client pipelines are lost when they arrive with the one before, in
  the buffer of its stream; a request refused early leaves its body to be read as
  the next request line;
* after a 414 the connection stays open although the answer says `close`, and the
  next thing read is a header block;
* a client that has closed its sending half counts as gone;
* a connection taken over after `stop` is looked at once before `svr_sock_` is
  (`keep_alive`), so a request that is already there is still served; a stop that
  comes before `is_running_` is set does nothing; the pool serves its queue before
  it ends;
* a POST without a length is read to the end of the connection or the timeout,
  and then refused;
* a range longer than the body from its end is answered 416; 206 never happens
  in the services, whose handlers set the status themselves;
* text behind the last multipart boundary is dropped when it arrives with it
  (`httplib.h:5305`) and parsed as a further part, or refused, when it comes later;
* the length of a part's header lines is looked at where the headers begin or go on with
  a new piece (`httplib.h:5193`), in whatever has arrived: the same body can be refused or
  not, depending on how it is cut.

## 8. Not modelled

* The Redis and H3 handlers of LocationManager: nothing calls them. gRPC: a server
  that sets a flag, a client that logs, generated code. Models: conversion field by
  field. The website, container and build files have no behaviour here.
* Ride reads (`GET` of rides and profiles): one lock section each, they change
  nothing. A SELECT that fails is modelled for places, accounts and a ride's look-up before
  its payment, not for the lists and searches of accounts (`UserQueries`). Text compares byte by byte, the collation of the
  database would ignore case.
* The database wrapper builds statements; a statement is taken as obeyed, refused
  or, by the stub, ignored.
* `httplib.h`: TLS, compression, static files, redirects, proxies, streamed
  bodies and content providers are compiled out or never used by the services.
  Of what is used: `is_decommissioned`, `EINTR` and a process out of descriptors, heads that arrive in pieces, bodies above 4096
  bytes, the order of accepted types.
* RabbitMQ's wait on a living queue: no endpoint of the program ever has one.
