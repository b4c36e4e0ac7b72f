----------------------------- MODULE HttpRouting -----------------------------
(***************************************************************************)
(* Which handler a request reaches.  A service registers its patterns in   *)
(* order, and the HTTP library gives a request to the first pattern of its *)
(* method that matches the whole path.  A path is the sequence of its      *)
(* segments; of the text of a segment only its characters' class matters.  *)
(***************************************************************************)
EXTENDS Naturals, Sequences
LOCAL INSTANCE SequencesExt

Root == <<"">>  \* the path "/"

\* (\w+) and (\d+).
Word == "(\\w+)"
Number == "(\\d+)"

UserId == "501"                 \* what the tables number
RideId == "ride-00000001"       \* what generateRideId makes: with a hyphen

MatchesSegment(pattern, segment) ==
    CASE pattern = Word -> segment \notin {"", RideId}
      [] pattern = Number -> segment = UserId
      [] OTHER -> segment = pattern

Matches(pattern, path) ==
    /\ Len(pattern) = Len(path)
    /\ \A i \in DOMAIN pattern : MatchesSegment(pattern[i], path[i])

Route(method, pattern, handler) ==
    [method |-> method, pattern |-> pattern, handler |-> handler]

\* The table a method is looked up in.
TableOf(method) == IF method = "HEAD" THEN "GET" ELSE method

\* The number of the route taken, 0 for none.
Dispatch(routes, method, path) ==
    SelectInSeq(routes, LAMBDA route : /\ route.method = TableOf(method)
                                       /\ Matches(route.pattern, path))

HandlerOf(routes, method, path) ==
    LET taken == Dispatch(routes, method, path)
    IN  IF taken = 0 THEN "none" ELSE routes[taken].handler

-----------------------------------------------------------------------------
(* The tables of the three services, in the order they are registered *)

RideRoutes == <<
    Route("GET", Root, "banner"),
    Route("POST", <<"rides", "request">>, "handleRideRequest"),
    Route("POST", <<"rides", Word, "status">>, "handleRideStatusUpdate"),
    Route("POST", <<"drivers", Word, "status">>, "handleDriverStatusUpdate"),
    Route("GET", <<"rides", Word>>, "handleGetRide"),
    Route("GET", <<"rides", "user", Word>>, "handleGetRidesForUser"),
    Route("GET", <<"rides", "driver", Word>>, "handleGetRidesForDriver"),
    Route("GET", <<"drivers", Word, "profile">>, "handleGetDriverProfile")>>

LocationRoutes == <<
    Route("GET", Root, "banner"),
    Route("POST", <<"location", "update">>, "handleLocationUpdate"),
    Route("GET", <<"location", Word>>, "handleGetLocationByUserId"),
    Route("GET", <<"location", "nearby">>, "handleFindNearby"),
    Route("DELETE", <<"location", Word>>, "handleDeleteLocation")>>

UserRoutes == <<
    Route("GET", Root, "banner"),
    Route("POST", <<"login">>, "login"),
    Route("POST", <<"signup">>, "signup"),
    Route("GET", <<"user", Number>>, "getUser"),
    Route("PUT", <<"user", Number>>, "updateUser"),
    Route("DELETE", <<"user", Number>>, "deleteUser"),
    Route("GET", <<"users">>, "getAllUsers"),
    Route("GET", <<"users", "paginated">>, "getPaginatedUsers"),
    Route("GET", <<"users", "stats">>, "getUserStats"),
    Route("GET", <<"user", "exists">>, "userExists"),
    Route("PATCH", <<"user", Number, "password">>, "updatePassword"),
    Route("PATCH", <<"user", Number, "profile">>, "updateProfile"),
    Route("GET", <<"user", "search">>, "searchUser"),
    Route("GET", <<"user", "me">>, "me"),
    Route("POST", <<"user", "refresh-token">>, "refreshToken"),
    Route("POST", <<"user", "token", "introspect">>, "introspect"),
    Route("GET", <<"health">>, "health"),
    Route("POST", <<"user", "logout">>, "logout")>>

-----------------------------------------------------------------------------
(* Properties *)

\* The calls the documents make: docs/system_validation_scenarios.md and the
\* services' calls of each other (locationGateway.cpp, fetchDriverProfile).
RideCalls == {
    Route("POST", <<"rides", "request">>, "handleRideRequest"),
    Route("POST", <<"rides", RideId, "status">>, "handleRideStatusUpdate"),
    Route("POST", <<"rides", "unknown", "status">>, "handleRideStatusUpdate"),
    Route("POST", <<"drivers", UserId, "status">>, "handleDriverStatusUpdate"),
    Route("GET", <<"rides", RideId>>, "handleGetRide"),
    Route("GET", <<"rides", "user", UserId>>, "handleGetRidesForUser"),
    Route("GET", <<"rides", "driver", UserId>>, "handleGetRidesForDriver"),
    Route("GET", <<"drivers", UserId, "profile">>, "handleGetDriverProfile")}

LocationCalls == {
    Route("POST", <<"location", "update">>, "handleLocationUpdate"),
    Route("GET", <<"location", UserId>>, "handleGetLocationByUserId"),
    Route("GET", <<"location", "nearby">>, "handleFindNearby"),
    Route("DELETE", <<"location", UserId>>, "handleDeleteLocation")}

UserCalls == {
    Route("POST", <<"signup">>, "signup"),
    Route("POST", <<"login">>, "login"),
    Route("GET", <<"user", UserId>>, "getUser"),
    Route("PUT", <<"user", UserId>>, "updateUser"),
    Route("PATCH", <<"user", UserId, "password">>, "updatePassword"),
    Route("PATCH", <<"user", UserId, "profile">>, "updateProfile"),
    Route("GET", <<"user", "exists">>, "userExists"),
    Route("GET", <<"user", "me">>, "me"),
    Route("POST", <<"user", "token", "introspect">>, "introspect"),
    Route("POST", <<"user", "refresh-token">>, "refreshToken"),
    Route("POST", <<"user", "logout">>, "logout"),
    Route("GET", <<"users">>, "getAllUsers"),
    Route("GET", <<"users", "paginated">>, "getPaginatedUsers"),
    Route("GET", <<"users", "stats">>, "getUserStats"),
    Route("GET", <<"user", "search">>, "searchUser"),
    Route("DELETE", <<"user", UserId>>, "deleteUser"),
    Route("GET", <<"health">>, "health")}

\* Calls that do not reach the handler the documents mean.
Astray(routes, asked) ==
    {call \in asked :
        HandlerOf(routes, call.method, call.pattern) # call.handler}
=============================================================================
