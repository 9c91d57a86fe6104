-------------------------------- MODULE Router --------------------------------
(***************************************************************************)
(* The route table: the check server_run makes of it before it listens     *)
(* (router_has_duplicate_routes), and the choice step_response_build makes *)
(* for each request between the registry, a route (route_lookup) and an    *)
(* error.  One action is one pass of a loop.                               *)
(*                                                                         *)
(* A handler is its route.  Paths and methods are compared as texts        *)
(* (strcmp), except for one comparison of pointers in the check: `merged`  *)
(* says whether the build gives all literals "GET" one address, which C    *)
(* leaves open (-O0 does not, linkers of optimised code do).               *)
(***************************************************************************)
EXTENDS Integers, Sequences

CONSTANTS
  Paths,
  Methods,          \* of routes
  RequestMethods,   \* those http_method_parse knows
  MAX_ALLOWED,      \* the length of RouteLookupResult.allowed
  SIZE_MAX,         \* of size_t
  Tables,           \* the route tables the program may pass
  Contents          \* the sets of paths the registry may hold

Route == [method : Methods, path : Paths]

(* A table of n routes has the indices of a C array. *)
ASSUME RouterAssumption ==
  /\ \A t \in Tables : \E n \in 0 .. SIZE_MAX : t \in [0 .. (n - 1) -> Route]
  /\ Contents \subseteq SUBSET Paths
  /\ RequestMethods \subseteq Methods
  /\ MAX_ALLOWED \in Nat /\ SIZE_MAX \in Nat

VARIABLES
  routes, registered, merged,   \* what the program passed, and how it was built
  checked,                      \* whether it calls server_run, or route_lookup itself
  pc,                           \* the loop the thread is in, or where it is between loops
  i, j,                         \* the indices of that loop
  req,                          \* the request being answered: its method and path
  allowed,                      \* RouteLookupResult.allowed
  answer                        \* what step_response_build answers with

vars == <<routes, registered, merged, checked, pc, i, j, req, allowed, answer>>
setup == <<routes, registered, merged, checked>>

count == CHOOSE n \in 0 .. SIZE_MAX : DOMAIN routes = 0 .. (n - 1)

NoRequest == [method |-> "none", path |-> "none"]
Pending == [kind |-> "pending", route |-> 0]

-----------------------------------------------------------------------------
(* router_has_duplicate_routes *)

(* Mistake: the comparison of the method is the wrong way round. *)
ShadowedInverted(r) == r.method # "GET" /\ merged /\ r.path \in registered

Shadowed(r) == r.method = "GET" /\ merged /\ r.path \in registered

(* First loop: a GET route whose path the registry has, too. *)
CheckRegistry ==
  /\ pc = "check_registry"
  /\ IF i < count
     THEN IF Shadowed(routes[i])
          THEN pc' = "refused" /\ UNCHANGED <<i, j>>
          ELSE i' = i + 1 /\ UNCHANGED <<pc, j>>
     ELSE pc' = "check_pairs" /\ i' = 0 /\ j' = 1
  /\ UNCHANGED <<setup, req, allowed, answer>>

Same(r1, r2) == r1.path = r2.path /\ r1.method = r2.method

(* Mistake: the inner loop starts behind the outer one's successor. *)
InnerStartLate(next) == next + 2

(* Where the inner loop starts for the outer index `next`. *)
InnerStart(next) == 1

(* The bound of the outer loop: route_count - 1 is computed on size_t. *)
LastRow == (count - 1) % (SIZE_MAX + 1)

(* Second loop. *)
CheckPairs ==
  /\ pc = "check_pairs"
  /\ IF i < LastRow
     THEN IF j < count
          THEN IF Same(routes[i], routes[j])
               THEN pc' = "refused" /\ UNCHANGED <<i, j>>
               ELSE j' = j + 1 /\ UNCHANGED <<pc, i>>
          ELSE i' = i + 1 /\ j' = InnerStart(i + 1) /\ UNCHANGED pc
     ELSE pc' = "serving" /\ UNCHANGED <<i, j>>
  /\ UNCHANGED <<setup, req, allowed, answer>>

-----------------------------------------------------------------------------
(* step_response_build and route_lookup *)

Receive ==
  /\ pc = "serving"
  /\ \E m \in RequestMethods, p \in Paths :
       /\ req' = [method |-> m, path |-> p]
       /\ IF m = "GET" /\ p \in registered
          THEN pc' = "answered" /\ answer' = [kind |-> "content", route |-> 0]
          ELSE pc' = "lookup" /\ answer' = Pending
  /\ i' = 0
  /\ allowed' = <<>>
  /\ UNCHANGED <<setup, j>>

(* What follows the loop: a 405 with the methods found, or a 404. *)
NoRoute == [kind |-> IF allowed # <<>> THEN "405" ELSE "404", route |-> 0]

(* Mistake: a route of another path is listed, too. *)
PathMatchesAny(r, path) == TRUE

PathMatches(r, path) == r.path = path

(* Mistake: the method is not compared. *)
MatchesPath(r) == r.path = req.path

Matches(r) == r.path = req.path /\ r.method = req.method

(* Mistake: one method more than `allowed` has room for. *)
RoomForOneMore == Len(allowed) <= MAX_ALLOWED

Room == Len(allowed) < MAX_ALLOWED

LookupRoute ==
  /\ pc = "lookup"
  /\ IF i < count
     THEN IF Matches(routes[i])
          THEN /\ answer' = [kind |-> "route", route |-> i]
               /\ pc' = "answered"
               /\ UNCHANGED <<i, allowed>>
          ELSE /\ i' = i + 1
               /\ allowed' = IF PathMatches(routes[i], req.path) /\ Room
                             THEN Append(allowed, routes[i].method) ELSE allowed
               /\ UNCHANGED <<pc, answer>>
     ELSE pc' = "answered" /\ answer' = NoRoute /\ UNCHANGED <<i, allowed>>
  /\ UNCHANGED <<setup, j, req>>

Answered ==
  /\ pc = "answered"
  /\ pc' = "serving"
  /\ UNCHANGED <<setup, i, j, req, allowed, answer>>

(* server_run exits. *)
Refused == pc = "refused" /\ UNCHANGED vars

-----------------------------------------------------------------------------
Init ==
  /\ routes \in Tables /\ registered \in Contents /\ merged \in BOOLEAN
  /\ checked \in BOOLEAN
  /\ pc = IF checked THEN "check_registry" ELSE "serving"
  /\ i = 0 /\ j = 0
  /\ req = NoRequest /\ allowed = <<>> /\ answer = Pending

Next == CheckRegistry \/ CheckPairs \/ Receive \/ LookupRoute \/ Answered \/ Refused

Spec == Init /\ [][Next]_vars

-----------------------------------------------------------------------------
(* Properties *)

(* The indices of the loops and the list of a 405 keep within their arrays. *)
TypeOK ==
  /\ routes \in Tables /\ registered \in Contents /\ merged \in BOOLEAN
  /\ checked \in BOOLEAN
  /\ pc \in {"check_registry", "check_pairs", "refused", "serving", "lookup", "answered"}
  /\ i \in Nat /\ j \in Nat
  /\ req \in [method : RequestMethods, path : Paths] \cup {NoRequest}
  /\ allowed \in Seq(Methods) /\ Len(allowed) <= MAX_ALLOWED
  /\ answer \in [kind : {"pending", "content", "route", "405", "404"}, route : Nat]

OpenForRequests == pc \in {"serving", "lookup", "answered"}

MethodsAt(path) == {routes[k].method : k \in {n \in DOMAIN routes : routes[n].path = path}}
Listed == {allowed[k] : k \in 1 .. Len(allowed)}

(* A table with two routes of one method and path never gets past the      *)
(* startup check, whatever positions they have in it.                      *)
DuplicatesAreRefused ==
  checked /\ OpenForRequests =>
    \A a, b \in DOMAIN routes : a # b => ~Same(routes[a], routes[b])

(* A request that some route was registered for is answered by that route: *)
(* the check has removed every other candidate, in the table and, where    *)
(* the literals are one object, in the registry.                           *)
OwnRouteAnswers ==
  checked /\ merged /\ pc = "answered" =>
    \A k \in DOMAIN routes :
      routes[k].method = req.method /\ routes[k].path = req.path
        => answer = [kind |-> "route", route |-> k]

(* The routes are searched in order: the answer is the first that matches  *)
(* method and path.                                                        *)
FirstMatchAnswers ==
  pc = "answered" /\ answer.kind = "route" =>
    /\ answer.route \in DOMAIN routes
    /\ routes[answer.route] = req
    /\ \A k \in DOMAIN routes : k < answer.route => routes[k] # req

(* A 405 lists methods of the path only, and all of them unless the list   *)
(* is full; a 404 is given only for a path no route has.                   *)
AllowIsExact ==
  /\ pc = "answered" /\ answer.kind = "405" =>
       /\ Listed \subseteq MethodsAt(req.path)
       /\ Len(allowed) < MAX_ALLOWED => Listed = MethodsAt(req.path)
  /\ pc = "answered" /\ answer.kind = "404" /\ MAX_ALLOWED > 0 => MethodsAt(req.path) = {}

(* HttpRouter.h of router_has_duplicate_routes: "non-zero if a duplicate   *)
(* is present, 0 otherwise".                                               *)
RefusedHasDuplicate ==
  pc = "refused" =>
    \/ \E a, b \in DOMAIN routes : a # b /\ Same(routes[a], routes[b])
    \/ \E a \in DOMAIN routes : routes[a].method = "GET" /\ routes[a].path \in registered

(* README.md: "405 responses with Allow headers when a path is registered  *)
(* under a different method"; content is registered under GET.             *)
RegisteredPathGets405 ==
  pc = "answered" /\ req.path \in registered => answer.kind # "404"
=============================================================================
