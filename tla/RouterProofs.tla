----------------------------- MODULE RouterProofs -----------------------------
(***************************************************************************)
(* For every route table, registry and length of the list of methods: the  *)
(* startup check lets no table with duplicates through, although its inner *)
(* loop starts at the wrong place, the search answers with the first route *)
(* that matches or lists exactly the methods of the path, and so a request *)
(* some route was registered for gets that one.                            *)
(***************************************************************************)
EXTENDS Router, SequenceTheorems, TLAPS

-----------------------------------------------------------------------------
(* The inductive invariant *)

Idx == 0 .. (count - 1)

(* Every pair with a row below n has been compared, and found different. *)
RowsDiffer(n) == \A a, b \in Idx : a < n /\ b >= 1 /\ a # b => ~Same(routes[a], routes[b])

(* The inner loop also meets b = a, which refuses the table; what it has   *)
(* passed in row n therefore differs.                                      *)
RowDiffers(n, m) == \A b \in Idx : 1 <= b /\ b < m => ~Same(routes[n], routes[b])

(* No two routes are the same. *)
AllDiffer == \A a, b \in Idx : a # b => ~Same(routes[a], routes[b])

SearchedUpTo(n) == \A k \in Idx : k < n => ~Matches(routes[k])

(* The methods of the path's routes below n are listed, or the list is full. *)
ListedUpTo(n) ==
  /\ Listed \subseteq MethodsAt(req.path)
  /\ \A k \in Idx : k < n /\ routes[k].path = req.path
       => routes[k].method \in Listed \/ Len(allowed) = MAX_ALLOWED

PairsInv ==
  pc = "check_pairs" =>
    /\ j >= 1
    /\ i < count => RowsDiffer(i) /\ RowDiffers(i, j)
    /\ i >= count - 1 => AllDiffer

ServeInv ==
  /\ checked /\ OpenForRequests => AllDiffer
  /\ ~checked => OpenForRequests

LookupInv ==
  pc = "lookup" =>
    /\ req \in [method : RequestMethods, path : Paths]
    /\ SearchedUpTo(i) /\ ListedUpTo(i)

AnswerInv ==
  pc = "answered" =>
    /\ answer.kind = "route" =>
         answer.route \in Idx /\ Matches(routes[answer.route]) /\ SearchedUpTo(answer.route)
    /\ answer.kind \in {"405", "404"} => ListedUpTo(count)
    /\ answer.kind = "405" => allowed # <<>>
    /\ answer.kind = "404" => allowed = <<>>

IInv == TypeOK /\ PairsInv /\ ServeInv /\ LookupInv /\ AnswerInv

-----------------------------------------------------------------------------
(* A table has a length, and its indices are those below it. *)
LEMMA TableSize ==
  ASSUME routes \in Tables
  PROVE  count \in 0 .. SIZE_MAX /\ DOMAIN routes = Idx /\ routes \in [Idx -> Route]
<1>1. PICK n \in 0 .. SIZE_MAX : routes \in [0 .. (n - 1) -> Route]
  BY RouterAssumption
<1>2. \E m \in 0 .. SIZE_MAX : DOMAIN routes = 0 .. (m - 1)
  BY <1>1
<1>3. count \in 0 .. SIZE_MAX /\ DOMAIN routes = 0 .. (count - 1)
  BY <1>2 DEF count
<1> QED
  BY <1>1, <1>3 DEF Idx

(* What the types say of the sizes and of the table. *)
LEMMA Facts ==
  ASSUME TypeOK
  PROVE  /\ SIZE_MAX \in Nat /\ MAX_ALLOWED \in Nat
         /\ count \in 0 .. SIZE_MAX /\ count \in Nat
         /\ DOMAIN routes = Idx /\ routes \in [Idx -> Route]
         /\ i \in Nat /\ j \in Nat
<1>1. routes \in Tables /\ i \in Nat /\ j \in Nat
  BY DEF TypeOK
<1>2. SIZE_MAX \in Nat /\ MAX_ALLOWED \in Nat
  BY RouterAssumption
<1>3. count \in 0 .. SIZE_MAX /\ DOMAIN routes = Idx /\ routes \in [Idx -> Route]
  BY <1>1, TableSize
<1> QED
  BY <1>1, <1>2, <1>3

(* Appending to the list adds one method to it. *)
LEMMA ListedAppend ==
  ASSUME NEW s \in Seq(Methods), NEW m \in Methods
  PROVE  LET t == Append(s, m)
         IN  /\ t \in Seq(Methods) /\ Len(t) = Len(s) + 1 /\ t # <<>>
             /\ {t[k] : k \in 1 .. Len(t)} = {s[k] : k \in 1 .. Len(s)} \cup {m}
<1> DEFINE t == Append(s, m)
<1>1. t \in Seq(Methods) /\ Len(t) = Len(s) + 1 /\ Len(s) \in Nat
  OBVIOUS
<1>2. t[Len(s) + 1] = m /\ \A k \in 1 .. Len(s) : t[k] = s[k]
  OBVIOUS
<1>3. 1 .. Len(t) = 1 .. Len(s) \cup {Len(s) + 1}
  BY <1>1
<1>4. t # <<>>
  BY <1>1
<1>5. {t[k] : k \in 1 .. Len(t)} = {s[k] : k \in 1 .. Len(s)} \cup {m}
  <2>1. ASSUME NEW x \in {t[k] : k \in 1 .. Len(t)} PROVE x \in {s[k] : k \in 1 .. Len(s)} \cup {m}
    BY <1>1, <1>2, <1>3
  <2>2. ASSUME NEW x \in {s[k] : k \in 1 .. Len(s)} PROVE x \in {t[k] : k \in 1 .. Len(t)}
    BY <1>1, <1>2, <1>3
  <2>3. m \in {t[k] : k \in 1 .. Len(t)}
    BY <1>1, <1>2, <1>3
  <2> QED
    BY <2>1, <2>2, <2>3
<1> QED
  BY <1>1, <1>4, <1>5

(* The list of methods is left alone.                                      *)
LEMMA TypeKept ==
  ASSUME TypeOK, UNCHANGED <<setup, allowed>>,
         pc' \in {"check_registry", "check_pairs", "refused", "serving", "lookup", "answered"},
         i' \in Nat, j' \in Nat, req' \in [method : RequestMethods, path : Paths] \cup {NoRequest},
         answer' \in [kind : {"pending", "content", "route", "405", "404"}, route : Nat]
  PROVE  TypeOK'
BY DEF TypeOK, setup

LEMMA InitOK == Init => IInv
<1> SUFFICES ASSUME Init PROVE IInv
  OBVIOUS
<1>1. pc \in {"check_registry", "serving"} /\ (checked => pc = "check_registry") /\ (~checked => pc = "serving")
  BY DEF Init
<1>2. TypeOK
  <2>1. allowed = <<>> /\ MAX_ALLOWED \in Nat
    BY RouterAssumption DEF Init
  <2>2. answer \in [kind : {"pending", "content", "route", "405", "404"}, route : Nat]
    BY DEF Init, Pending
  <2>3. allowed \in Seq(Methods) /\ Len(allowed) <= MAX_ALLOWED
    BY <2>1
  <2> QED
    BY <1>1, <2>2, <2>3 DEF Init, TypeOK
<1> QED
  BY <1>1, <1>2 DEF IInv, PairsInv, ServeInv, setup, LookupInv, AnswerInv, OpenForRequests

-----------------------------------------------------------------------------
(* The startup check *)

LEMMA CheckRegistryOK == IInv /\ CheckRegistry => IInv'
<1> SUFFICES ASSUME IInv, CheckRegistry PROVE IInv'
  OBVIOUS
<1>1. TypeOK /\ checked /\ pc = "check_registry"
  BY RouterAssumption DEF IInv, ServeInv, setup, OpenForRequests, CheckRegistry
<1>2. count' = count /\ count \in Nat /\ i \in Nat /\ j \in Nat
  BY <1>1, Facts DEF count, CheckRegistry, setup
<1>3. /\ UNCHANGED <<setup, req, allowed, answer>>
      /\ \/ pc' \in {"check_registry", "refused"} /\ i' \in {i, i + 1} /\ j' = j
         \/ pc' = "check_pairs" /\ i' = 0 /\ j' = 1
  BY <1>1 DEF CheckRegistry
<1>4. TypeOK'
  <2>1. pc' \in {"check_registry", "check_pairs", "refused", "serving", "lookup", "answered"} /\ i' \in Nat /\ j' \in Nat
    BY <1>2, <1>3
  <2>2. req' \in [method : RequestMethods, path : Paths] \cup {NoRequest}
        /\ answer' \in [kind : {"pending", "content", "route", "405", "404"}, route : Nat]
    BY <1>1, <1>3 DEF TypeOK
  <2> QED
    BY <1>1, <1>3, <2>1, <2>2, TypeKept
<1>5. PairsInv'
  BY <1>2, <1>3 DEF PairsInv, RowsDiffer, RowDiffers, AllDiffer, Idx
<1> QED
  BY <1>1, <1>3, <1>4, <1>5 DEF IInv, ServeInv, setup, LookupInv, AnswerInv, OpenForRequests

(* The loop condition on size_t: for an empty table it is i < SIZE_MAX,    *)
(* and otherwise what it looks like.                                       *)
LEMMA LastRowIs ==
  ASSUME TypeOK
  PROVE  LastRow \in Nat /\ LastRow = IF count = 0 THEN SIZE_MAX ELSE count - 1
<1>1. SIZE_MAX \in Nat /\ count \in 0 .. SIZE_MAX
  BY Facts
<1>2. CASE count = 0
  BY <1>1, <1>2 DEF LastRow
<1>3. CASE count # 0
  BY <1>1, <1>3 DEF LastRow
<1> QED
  BY <1>2, <1>3

(* A row is done: its pairs have all been compared.                        *)
LEMMA RowDone ==
  ASSUME TypeOK, RowsDiffer(i), RowDiffers(i, count), i < count
  PROVE  /\ RowsDiffer(i + 1)
         /\ i + 1 >= count - 1 => AllDiffer
<1>1. count \in Nat /\ i \in Nat
  BY Facts
<1>2. RowsDiffer(i + 1)
  BY <1>1 DEF RowsDiffer, RowDiffers, Idx
<1>3. ASSUME i + 1 >= count - 1, NEW a \in Idx, NEW b \in Idx, a < b
      PROVE  ~Same(routes[a], routes[b])
  BY <1>1, <1>2, <1>3 DEF RowsDiffer, Idx
<1>4. \A a, b \in Idx : Same(routes[a], routes[b]) => Same(routes[b], routes[a])
  BY DEF Same
<1>5. \A a, b \in Idx : a < b \/ b < a \/ a = b
  BY <1>1 DEF Idx
<1> QED
  BY <1>2, <1>3, <1>4, <1>5 DEF AllDiffer

LEMMA CheckPairsOK == IInv /\ CheckPairs => IInv'
<1> SUFFICES ASSUME IInv, CheckPairs PROVE IInv'
  OBVIOUS
<1>1. TypeOK /\ checked /\ pc = "check_pairs" /\ UNCHANGED <<setup, req, allowed, answer>>
  BY RouterAssumption DEF IInv, ServeInv, setup, OpenForRequests, CheckPairs
<1>2. count' = count /\ Idx' = Idx /\ routes' = routes
  BY <1>1 DEF count, Idx, setup
<1>3. count \in Nat /\ i \in Nat /\ j \in Nat /\ SIZE_MAX \in Nat
      /\ LastRow \in Nat /\ LastRow = IF count = 0 THEN SIZE_MAX ELSE count - 1
  BY <1>1, Facts, LastRowIs
<1>4. j >= 1 /\ (i < count => RowsDiffer(i) /\ RowDiffers(i, j)) /\ (i >= count - 1 => AllDiffer)
  BY <1>1 DEF IInv, PairsInv
<1>5. \/ pc' = "refused" /\ UNCHANGED <<i, j>>
      \/ i >= LastRow /\ pc' = "serving" /\ UNCHANGED <<i, j>>
      \/ i < LastRow /\ j < count /\ ~Same(routes[i], routes[j]) /\ pc' = pc /\ i' = i /\ j' = j + 1
      \/ i < LastRow /\ j >= count /\ pc' = pc /\ i' = i + 1 /\ j' = 1
  BY <1>3 DEF CheckPairs, InnerStart
<1>6. TypeOK'
  <2>1. pc' \in {"check_registry", "check_pairs", "refused", "serving", "lookup", "answered"} /\ i' \in Nat /\ j' \in Nat
    BY <1>1, <1>3, <1>5
  <2>2. req' \in [method : RequestMethods, path : Paths] \cup {NoRequest}
        /\ answer' \in [kind : {"pending", "content", "route", "405", "404"}, route : Nat]
    BY <1>1 DEF TypeOK
  <2> QED
    BY <1>1, <2>1, <2>2, TypeKept
<1>7. LookupInv' /\ AnswerInv'
  BY <1>1, <1>5 DEF LookupInv, AnswerInv
<1>8. CASE pc' = "refused"
  BY <1>1, <1>6, <1>7, <1>8 DEF IInv, PairsInv, ServeInv, setup, OpenForRequests
<1>9. CASE i >= LastRow /\ pc' = "serving" /\ UNCHANGED <<i, j>>
  <2>1. AllDiffer
    BY <1>3, <1>4, <1>9
  <2>2. AllDiffer'
    BY <2>1, <1>2 DEF AllDiffer, Same
  <2> QED
    BY <1>1, <1>6, <1>7, <1>9, <2>2 DEF IInv, PairsInv, ServeInv, setup
<1>10. CASE i < LastRow /\ j < count /\ ~Same(routes[i], routes[j]) /\ pc' = pc /\ i' = i /\ j' = j + 1
  <2>1. i < count - 1
    BY <1>3, <1>4, <1>10
  <2>2. RowsDiffer(i) /\ RowDiffers(i, j + 1)
    <3>1. RowsDiffer(i) /\ RowDiffers(i, j)
      BY <2>1, <1>3, <1>4
    <3> QED
      BY <3>1, <1>3, <1>10 DEF RowDiffers, Idx
  <2>3. RowsDiffer(i)' /\ RowDiffers(i, j)'
    BY <2>2, <1>2, <1>10 DEF RowsDiffer, RowDiffers, Same
  <2>4. PairsInv'
    BY <2>1, <2>3, <1>2, <1>3, <1>10 DEF PairsInv
  <2> QED
    BY <1>1, <1>6, <1>7, <1>10, <2>4 DEF IInv, ServeInv, setup, OpenForRequests
<1>11. CASE i < LastRow /\ j >= count /\ pc' = pc /\ i' = i + 1 /\ j' = 1
  <2>1. CASE count = 0
    <3>1. AllDiffer'
      BY <2>1, <1>2 DEF AllDiffer, Idx
    <3>2. PairsInv'
      BY <2>1, <3>1, <1>2, <1>3, <1>11 DEF PairsInv
    <3> QED
      BY <1>1, <1>6, <1>7, <1>11, <3>2 DEF IInv, ServeInv, setup, OpenForRequests
  <2>2. CASE count # 0
    <3>1. i < count - 1
      BY <2>2, <1>3, <1>11
    <3>2. RowsDiffer(i) /\ RowDiffers(i, j)
      BY <3>1, <1>3, <1>4
    <3>3. RowDiffers(i, count)
      BY <3>2, <1>3, <1>11 DEF RowDiffers, Idx
    <3>4. RowsDiffer(i + 1) /\ (i + 1 >= count - 1 => AllDiffer)
      BY <3>1, <3>2, <3>3, <1>1, <1>3, RowDone
    <3>5. RowDiffers(i + 1, 1)
      BY <1>3 DEF RowDiffers, Idx
    <3>6. RowsDiffer(i)' /\ RowDiffers(i, j)'
      BY <3>4, <3>5, <1>2, <1>11 DEF RowsDiffer, RowDiffers, Same
    <3>7. i' >= count' - 1 => AllDiffer'
      BY <3>4, <1>2, <1>11 DEF AllDiffer, Same
    <3>8. PairsInv'
      BY <3>6, <3>7, <1>2, <1>11 DEF PairsInv
    <3> QED
      BY <1>1, <1>6, <1>7, <1>11, <3>8 DEF IInv, ServeInv, setup, OpenForRequests
  <2> QED
    BY <2>1, <2>2
<1> QED
  BY <1>5, <1>8, <1>9, <1>10, <1>11

-----------------------------------------------------------------------------
(* Answering *)

LEMMA ReceiveOK == IInv /\ Receive => IInv'
<1> SUFFICES ASSUME IInv, Receive PROVE IInv'
  OBVIOUS
<1> USE DEF setup
<1>1. count' = count /\ Idx' = Idx /\ routes' = routes /\ count \in Nat
  BY Facts DEF count, Idx, IInv, Receive
<1>2. i' = 0 /\ allowed' = <<>> /\ pc' \in {"lookup", "answered"}
      /\ req' \in [method : RequestMethods, path : Paths]
      /\ (pc' = "answered" => answer'.kind = "content")
      /\ (pc' = "lookup" => answer' = Pending)
  BY DEF Receive
<1>3. TypeOK'
  <2>1. answer' \in [kind : {"pending", "content", "route", "405", "404"}, route : Nat]
    BY DEF Receive, Pending
  <2>2. allowed' \in Seq(Methods) /\ Len(allowed') <= MAX_ALLOWED
    <3>1. MAX_ALLOWED \in Nat
      BY RouterAssumption
    <3> QED
      BY <3>1, <1>2
  <2> QED
    BY <1>1, <1>2, <2>1, <2>2 DEF IInv, TypeOK, Receive
<1>4. checked' = checked /\ (checked => AllDiffer')
  BY <1>1 DEF IInv, ServeInv, setup, Receive, OpenForRequests, AllDiffer, Same
<1>5. SearchedUpTo(i)' /\ ListedUpTo(i)'
  BY <1>1, <1>2 DEF SearchedUpTo, ListedUpTo, Listed, Idx
<1> QED
  BY <1>2, <1>3, <1>4, <1>5 DEF IInv, PairsInv, ServeInv, setup, LookupInv, AnswerInv, OpenForRequests

LEMMA LookupRouteOK == IInv /\ LookupRoute => IInv'
<1> SUFFICES ASSUME IInv, LookupRoute PROVE IInv'
  OBVIOUS
<1> USE DEF setup
<1>1. count' = count /\ Idx' = Idx /\ routes' = routes /\ req' = req /\ pc = "lookup"
  BY DEF count, Idx, LookupRoute
<1>2. count \in Nat /\ i \in Nat /\ DOMAIN routes = Idx /\ routes \in [Idx -> Route]
      /\ MAX_ALLOWED \in Nat /\ allowed \in Seq(Methods) /\ Len(allowed) <= MAX_ALLOWED
  BY Facts DEF IInv, TypeOK
<1>3. req \in [method : RequestMethods, path : Paths] /\ SearchedUpTo(i) /\ ListedUpTo(i)
  BY <1>1 DEF IInv, LookupInv
<1>4. checked' = checked /\ (checked => AllDiffer')
  <2>1. checked' = checked
    BY DEF LookupRoute
  <2>2. checked => AllDiffer
    BY <1>1 DEF IInv, ServeInv, OpenForRequests
  <2>3. AllDiffer => AllDiffer'
    BY <1>1 DEF AllDiffer, Same
  <2> QED
    BY <2>1, <2>2, <2>3
<1>5. CASE i < count /\ Matches(routes[i])
  <2>1. answer' = [kind |-> "route", route |-> i] /\ pc' = "answered" /\ UNCHANGED <<i, allowed>>
    BY <1>5 DEF LookupRoute
  <2>2. TypeOK'
    BY <2>1, <1>1, <1>2 DEF IInv, TypeOK, LookupRoute
  <2>3. answer'.kind = "route" /\ answer'.route = i /\ i \in Idx
    BY <2>1, <1>2, <1>5 DEF Idx
  <2>4. Matches(routes[i])' /\ SearchedUpTo(i)'
    BY <1>1, <1>3, <1>5, <2>1 DEF SearchedUpTo, Matches
  <2> QED
    BY <1>1, <1>4, <2>1, <2>2, <2>3, <2>4 DEF IInv, PairsInv, ServeInv, setup, LookupInv, AnswerInv, OpenForRequests, SearchedUpTo, Matches
<1>6. CASE i < count /\ ~Matches(routes[i])
  <2>1. i' = i + 1 /\ pc' = "lookup" /\ answer' = answer /\ i \in Idx
    BY <1>1, <1>2, <1>6 DEF LookupRoute, Idx
  <2>2. routes[i].method \in Methods /\ routes[i].path \in Paths
    BY <1>2, <2>1 DEF Route
  <2>3. SearchedUpTo(i)'
    BY <1>1, <1>2, <1>3, <1>6, <2>1 DEF SearchedUpTo, Matches, Idx
  <2>4. allowed' \in Seq(Methods) /\ Len(allowed') <= MAX_ALLOWED /\ ListedUpTo(i)'
    <3>1. CASE routes[i].path = req.path /\ Len(allowed) < MAX_ALLOWED
      <4>1. allowed' = Append(allowed, routes[i].method)
        BY <1>6, <3>1 DEF LookupRoute, PathMatches, Room
      <4>2. allowed' \in Seq(Methods) /\ Len(allowed') = Len(allowed) + 1
            /\ Listed' = Listed \cup {routes[i].method}
        BY <4>1, <1>2, <2>2, ListedAppend DEF Listed
      <4>3. routes[i].method \in MethodsAt(req.path) /\ MethodsAt(req.path)' = MethodsAt(req.path)
        BY <1>1, <1>2, <2>1, <3>1 DEF MethodsAt
      <4>4. Listed' \subseteq MethodsAt(req.path)'
        BY <4>2, <4>3, <1>3 DEF ListedUpTo
      <4>5. ASSUME NEW k \in Idx, k < i + 1, routes[k].path = req.path
            PROVE  routes[k].method \in Listed'
        <5>1. CASE k = i
          BY <5>1, <4>2
        <5>2. CASE k < i
          BY <5>2, <4>2, <4>5, <1>2, <1>3, <3>1 DEF ListedUpTo
        <5> QED
          BY <5>1, <5>2, <4>5, <1>2 DEF Idx
      <4> QED
        BY <4>2, <4>4, <4>5, <1>1, <1>2, <2>1, <3>1 DEF ListedUpTo
    <3>2. CASE ~(routes[i].path = req.path /\ Len(allowed) < MAX_ALLOWED)
      <4>1. allowed' = allowed
        BY <1>6, <3>2 DEF LookupRoute, PathMatches, Room
      <4>2. Listed' = Listed /\ MethodsAt(req.path)' = MethodsAt(req.path)
        BY <4>1, <1>1 DEF Listed, MethodsAt
      <4>3. ASSUME NEW k \in Idx, k < i + 1, routes[k].path = req.path
            PROVE  routes[k].method \in Listed \/ Len(allowed) = MAX_ALLOWED
        <5>1. CASE k = i
          BY <5>1, <4>3, <3>2, <1>2
        <5>2. CASE k < i
          BY <5>2, <4>3, <1>3 DEF ListedUpTo
        <5> QED
          BY <5>1, <5>2, <4>3, <1>2 DEF Idx
      <4> QED
        BY <4>1, <4>2, <4>3, <1>1, <1>2, <1>3, <2>1 DEF ListedUpTo
    <3> QED
      BY <3>1, <3>2
  <2>5. TypeOK'
    BY <2>1, <2>4, <1>1, <1>2 DEF IInv, TypeOK, LookupRoute
  <2> QED
    BY <1>1, <1>3, <1>4, <2>1, <2>3, <2>4, <2>5 DEF IInv, PairsInv, ServeInv, setup, LookupInv, AnswerInv, OpenForRequests
<1>7. CASE ~(i < count)
  <2>1. pc' = "answered" /\ answer' = NoRoute /\ UNCHANGED <<i, allowed>>
    BY <1>7 DEF LookupRoute
  <2>2. answer'.kind = (IF allowed # <<>> THEN "405" ELSE "404") /\ answer'.route = 0
    BY <2>1 DEF NoRoute
  <2>3. TypeOK'
    BY <2>1, <1>1, <1>2 DEF IInv, TypeOK, LookupRoute, NoRoute
  <2>4. ListedUpTo(count)'
    <3>1. ListedUpTo(count)
      BY <1>2, <1>3, <1>7 DEF ListedUpTo, Idx
    <3> QED
      BY <3>1, <2>1, <1>1 DEF ListedUpTo, Listed, MethodsAt
  <2> QED
    BY <1>1, <1>4, <2>1, <2>2, <2>3, <2>4 DEF IInv, PairsInv, ServeInv, setup, LookupInv, AnswerInv, OpenForRequests
<1> QED
  BY <1>5, <1>6, <1>7

LEMMA AnsweredOK == IInv /\ Answered => IInv'
<1> SUFFICES ASSUME IInv, Answered PROVE IInv'
  OBVIOUS
<1>1. pc = "answered" /\ pc' = "serving" /\ UNCHANGED <<setup, i, j, req, allowed, answer>>
  BY DEF Answered
<1>2. TypeOK'
  BY <1>1 DEF IInv, TypeOK, setup
<1>3. checked' = checked /\ (checked => AllDiffer')
  BY <1>1 DEF IInv, ServeInv, OpenForRequests, AllDiffer, Same, Idx, count, setup
<1> QED
  BY <1>1, <1>2, <1>3 DEF IInv, PairsInv, ServeInv, setup, LookupInv, AnswerInv, OpenForRequests

LEMMA StutterOK == IInv /\ UNCHANGED vars => IInv'
<1> SUFFICES ASSUME IInv, UNCHANGED vars PROVE IInv'
  OBVIOUS
<1>1. TypeOK' /\ count' = count /\ Idx' = Idx
  BY DEF vars, IInv, TypeOK, count, Idx
<1>2. PairsInv' /\ ServeInv'
  BY <1>1 DEF vars, IInv, PairsInv, ServeInv, setup, OpenForRequests, RowsDiffer, RowDiffers, AllDiffer, Same
<1>3. UNCHANGED <<routes, pc, i, req, allowed, answer>>
  BY DEF vars
<1>4. Listed' = Listed /\ MethodsAt(req.path)' = MethodsAt(req.path)
  BY <1>3 DEF Listed, MethodsAt
<1>5. LookupInv'
  BY <1>1, <1>3, <1>4 DEF IInv, LookupInv, SearchedUpTo, ListedUpTo, Matches
<1>6. AnswerInv'
  BY <1>1, <1>3, <1>4 DEF IInv, AnswerInv, SearchedUpTo, ListedUpTo, Matches
<1> QED
  BY <1>1, <1>2, <1>5, <1>6 DEF IInv

LEMMA Inductive == IInv /\ [Next]_vars => IInv'
  BY CheckRegistryOK, CheckPairsOK, ReceiveOK, LookupRouteOK, AnsweredOK, StutterOK DEF Next, Refused

(* The inductive invariant of the startup check and of the route search.   *)
THEOREM Invariance == Spec => []IInv
  BY InitOK, Inductive, PTL DEF Spec

(* The list of methods a 405 carries never outgrows                        *)
(* RouteLookupResult.allowed.                                              *)
THEOREM TypeCorrect == Spec => []TypeOK
<1>1. IInv => TypeOK
  BY DEF IInv
<1> QED
  BY Invariance, <1>1, PTL

(* server_run never serves a table with two routes of one method and path, *)
(* for any number of routes: starting the inner loop at 1 costs only false *)
(* alarms.                                                                 *)
THEOREM NoDuplicatesServed == Spec => []DuplicatesAreRefused
<1>1. IInv => DuplicatesAreRefused
  BY Facts DEF IInv, ServeInv, setup, DuplicatesAreRefused, AllDiffer
<1> QED
  BY Invariance, <1>1, PTL

(* route_lookup answers with the first route that matches method and path. *)
THEOREM FirstMatch == Spec => []FirstMatchAnswers
<1> SUFFICES IInv => FirstMatchAnswers
  BY Invariance, PTL
<1> SUFFICES ASSUME IInv, pc = "answered", answer.kind = "route"
             PROVE  /\ answer.route \in DOMAIN routes
                    /\ routes[answer.route] = req
                    /\ \A k \in DOMAIN routes : k < answer.route => routes[k] # req
  BY DEF FirstMatchAnswers
<1>1. DOMAIN routes = Idx /\ routes \in [Idx -> Route]
  BY Facts DEF IInv
<1>2. answer.route \in Idx /\ Matches(routes[answer.route]) /\ SearchedUpTo(answer.route)
  BY DEF IInv, AnswerInv
<1>3. req \in [method : RequestMethods, path : Paths] \cup {NoRequest}
  BY DEF IInv, TypeOK
<1>4. routes[answer.route] = req
  BY <1>1, <1>2, <1>3 DEF Matches, Route, NoRequest
<1>5. ASSUME NEW k \in Idx, k < answer.route, routes[k] = req PROVE FALSE
  BY <1>2, <1>5 DEF SearchedUpTo, Matches
<1> QED
  BY <1>1, <1>2, <1>4, <1>5

(* A 405 lists methods of the path only, all of them while there is room;  *)
(* a 404 is given only for a path no route has.                            *)
THEOREM AllowExact == Spec => []AllowIsExact
<1> SUFFICES IInv => AllowIsExact
  BY Invariance, PTL
<1> SUFFICES ASSUME IInv, pc = "answered" PROVE AllowIsExact
  BY DEF AllowIsExact
<1>1. DOMAIN routes = Idx /\ routes \in [Idx -> Route] /\ count \in Nat /\ MAX_ALLOWED \in Nat
  BY Facts DEF IInv
<1>2. ASSUME answer.kind = "405"
      PROVE  Listed \subseteq MethodsAt(req.path) /\ (Len(allowed) < MAX_ALLOWED => Listed = MethodsAt(req.path))
  <2>1. ListedUpTo(count) /\ Len(allowed) \in Nat
    BY <1>2 DEF IInv, AnswerInv, TypeOK
  <2>2. ASSUME Len(allowed) < MAX_ALLOWED, NEW k \in Idx, routes[k].path = req.path
        PROVE  routes[k].method \in Listed
    BY <2>1, <2>2, <1>1 DEF ListedUpTo, Idx
  <2> QED
    BY <2>1, <2>2, <1>1 DEF ListedUpTo, MethodsAt
<1>3. ASSUME answer.kind = "404", MAX_ALLOWED > 0 PROVE MethodsAt(req.path) = {}
  <2>1. ListedUpTo(count) /\ allowed = <<>>
    BY <1>3 DEF IInv, AnswerInv
  <2>2. Listed = {} /\ Len(allowed) = 0
    BY <2>1 DEF Listed
  <2> QED
    BY <2>1, <2>2, <1>1, <1>3 DEF ListedUpTo, MethodsAt, Idx
<1> QED
  BY <1>2, <1>3 DEF AllowIsExact

-----------------------------------------------------------------------------
(* The route a request was registered for *)

(* The first loop has found no route below i that the registry shadows,    *)
(* and a table that got past it has none.                                  *)
ShadowInv ==
  checked =>
    /\ pc = "check_registry" => \A k \in Idx : k < i => ~Shadowed(routes[k])
    /\ pc = "check_pairs" \/ OpenForRequests => \A k \in Idx : ~Shadowed(routes[k])

(* What the registry answers it has; what no route answers none matches.   *)
ChoiceInv ==
  pc = "answered" =>
    /\ answer.kind # "pending"
    /\ answer.kind = "content" => req.method = "GET" /\ req.path \in registered
    /\ answer.kind \in {"405", "404"} => \A k \in Idx : ~Matches(routes[k])

OwnInv == IInv /\ ShadowInv /\ ChoiceInv

LEMMA ShadowKept == IInv /\ ShadowInv /\ [Next]_vars => ShadowInv'
<1> SUFFICES ASSUME IInv, ShadowInv, [Next]_vars PROVE ShadowInv'
  OBVIOUS
<1>1. count \in Nat /\ i \in Nat
  BY Facts DEF IInv
<1>2. UNCHANGED setup /\ Idx' = Idx
  BY DEF Next, CheckRegistry, CheckPairs, Receive, LookupRoute, Answered, Refused, vars, setup, count, Idx
<1>3. \A k \in Idx : Shadowed(routes[k])' <=> Shadowed(routes[k])
  BY <1>2 DEF Shadowed, setup
<1>4. CASE CheckRegistry
  <2>1. \/ pc' = "refused"
        \/ i < count /\ ~Shadowed(routes[i]) /\ pc' = "check_registry" /\ i' = i + 1
        \/ ~(i < count) /\ pc' = "check_pairs"
    BY <1>4 DEF CheckRegistry
  <2>2. checked => \A k \in Idx : k < i => ~Shadowed(routes[k])
    BY <1>4 DEF ShadowInv, CheckRegistry
  <2>3. \A k \in Idx : /\ k < i + 1 => k < i \/ k = i
                       /\ ~(i < count) => k < i
    BY <1>1 DEF Idx
  <2> QED
    BY <1>2, <1>3, <2>1, <2>2, <2>3 DEF ShadowInv, OpenForRequests, setup
<1>5. CASE CheckPairs \/ Receive \/ LookupRoute \/ Answered
  <2>1. pc = "check_pairs" \/ OpenForRequests
    BY <1>5 DEF CheckPairs, Receive, LookupRoute, Answered, OpenForRequests
  <2>2. pc' # "check_registry"
    BY <1>5 DEF CheckPairs, Receive, LookupRoute, Answered
  <2> QED
    BY <1>2, <1>3, <2>1, <2>2 DEF ShadowInv, setup
<1>6. CASE Refused \/ UNCHANGED vars
  BY <1>2, <1>3, <1>6 DEF ShadowInv, OpenForRequests, setup, Refused, vars
<1> QED
  BY <1>4, <1>5, <1>6 DEF Next

LEMMA ChoiceKept == IInv /\ ChoiceInv /\ [Next]_vars => ChoiceInv'
<1> SUFFICES ASSUME IInv, ChoiceInv, [Next]_vars PROVE ChoiceInv'
  OBVIOUS
<1>1. count \in Nat /\ i \in Nat
  BY Facts DEF IInv
<1>2. UNCHANGED setup /\ Idx' = Idx
  BY DEF Next, CheckRegistry, CheckPairs, Receive, LookupRoute, Answered, Refused, vars, setup, count, Idx
<1>3. CASE CheckRegistry \/ CheckPairs \/ Answered
  BY <1>3 DEF ChoiceInv, CheckRegistry, CheckPairs, Answered
<1>4. CASE Receive
  BY <1>2, <1>4 DEF ChoiceInv, Receive, Pending, setup
<1>5. CASE LookupRoute
  <2>1. \/ pc' = "lookup"
        \/ pc' = "answered" /\ answer'.kind = "route"
        \/ ~(i < count) /\ pc' = "answered" /\ answer'.kind \in {"405", "404"}
    BY <1>5 DEF LookupRoute, NoRoute
  <2>2. SearchedUpTo(i) /\ UNCHANGED <<req, routes>>
    BY <1>5 DEF LookupRoute, IInv, LookupInv, setup
  <2>3. ~(i < count) => \A k \in Idx : ~Matches(routes[k])
    <3>1. ~(i < count) => \A k \in Idx : k < i
      BY <1>1 DEF Idx
    <3> QED
      BY <2>2, <3>1 DEF SearchedUpTo
  <2> QED
    BY <1>2, <2>1, <2>2, <2>3 DEF ChoiceInv, Matches
<1>6. CASE Refused \/ UNCHANGED vars
  BY <1>2, <1>6 DEF ChoiceInv, Refused, Matches, setup, vars
<1> QED
  BY <1>3, <1>4, <1>5, <1>6 DEF Next

(* A request some route was registered for gets that route's answer: the   *)
(* startup check has removed every other candidate, in the table and, if   *)
(* equal literals share an address, in the content registry, for tables of *)
(* every size and any registry.                                            *)
THEOREM OwnRoute == Spec => []OwnRouteAnswers
<1>1. Init => OwnInv
  BY InitOK DEF Init, OwnInv, ShadowInv, ChoiceInv, OpenForRequests, Idx
<1>2. OwnInv /\ [Next]_vars => OwnInv'
  BY Inductive, ShadowKept, ChoiceKept DEF OwnInv
<1>3. OwnInv => OwnRouteAnswers
  <2> SUFFICES ASSUME OwnInv, checked, merged, pc = "answered", NEW k \in DOMAIN routes,
                      routes[k].method = req.method, routes[k].path = req.path
               PROVE  answer = [kind |-> "route", route |-> k]
    BY DEF OwnRouteAnswers
  <2>1. /\ k \in Idx /\ Matches(routes[k]) /\ AllDiffer /\ ~Shadowed(routes[k])
        /\ answer \in [kind : {"pending", "content", "route", "405", "404"}, route : Nat]
    BY Facts DEF OwnInv, IInv, ServeInv, ShadowInv, OpenForRequests, Matches, TypeOK
  <2>2. answer.kind # "pending" /\ answer.kind \notin {"405", "404"}
    BY <2>1 DEF OwnInv, ChoiceInv
  <2>3. answer.kind # "content"
    BY <2>1 DEF OwnInv, ChoiceInv, Shadowed
  <2>4. answer.kind = "route"
    BY <2>1, <2>2, <2>3
  <2>5. answer.route \in Idx /\ Matches(routes[answer.route])
    BY <2>4 DEF OwnInv, IInv, AnswerInv
  <2>6. answer.route = k
    BY <2>1, <2>5 DEF AllDiffer, Same, Matches
  <2> QED
    BY <2>1, <2>4, <2>6
<1> QED
  BY <1>1, <1>2, <1>3, PTL DEF Spec
=============================================================================
