----------------------------- MODULE ServerProofs -----------------------------
(***************************************************************************)
(* The client set for every number of slots and clients: descriptors and   *)
(* slots correspond, a client is refused only when all slots are taken,    *)
(* accept does not block, and every slot keeps the contract of Slot.       *)
(***************************************************************************)
EXTENDS Server, SequenceTheorems, FiniteSetTheorems, TLAPS

-----------------------------------------------------------------------------
(* The inductive invariant *)

(* A client is in the queue once. *)
NoRepeat == \A m, n \in 1 .. Len(queue) : queue[m] = queue[n] => m = n

(* What poll has reported of a slot the scan has yet to reach still holds. *)
Ahead(s) == s >= i /\ (pc = "step" => s > i)

ReportedIsReady ==
  pc # "poll" => \A s \in Slots : Ahead(s) /\ revents[s] /\ fd[s] # NoClient => Ready(s)

IInv == TypeOK /\ OpenIsHeld /\ NoRepeat /\ ReportedIsReady

-----------------------------------------------------------------------------
(* The queue *)

LEMMA QueueAppended ==
  ASSUME NEW S, NEW T, S \subseteq T, NEW q \in Seq(S), NEW c \in T, c \notin {q[n] : n \in 1 .. Len(q)},
         \A m, n \in 1 .. Len(q) : q[m] = q[n] => m = n
  PROVE  LET r == Append(q, c)
         IN  /\ r \in Seq(T) /\ r # <<>>
             /\ {r[n] : n \in 1 .. Len(r)} = {q[n] : n \in 1 .. Len(q)} \cup {c}
             /\ \A m, n \in 1 .. Len(r) : r[m] = r[n] => m = n
<1> DEFINE r == Append(q, c)
<1>1. q \in Seq(T)
  BY SeqMonotonic
<1>2. r \in Seq(T) /\ Len(q) \in Nat /\ Len(r) = Len(q) + 1 /\ r[Len(q) + 1] = c /\ \A n \in 1 .. Len(q) : r[n] = q[n]
  BY <1>1
<1> HIDE DEF r
<1>3. r # <<>>
  BY <1>2
<1>4. \A n \in 1 .. Len(r) : n \in 1 .. Len(q) \/ n = Len(q) + 1
  BY <1>2
<1>5. \A n \in 1 .. Len(q) : n \in 1 .. Len(r)
  BY <1>2
<1>6. Len(q) + 1 \in 1 .. Len(r)
  BY <1>2
<1>7. {r[n] : n \in 1 .. Len(r)} = {q[n] : n \in 1 .. Len(q)} \cup {c}
  <2>1. ASSUME NEW n \in 1 .. Len(r) PROVE r[n] \in {q[k] : k \in 1 .. Len(q)} \cup {c}
    BY <1>2, <1>4
  <2>2. ASSUME NEW n \in 1 .. Len(q) PROVE q[n] \in {r[k] : k \in 1 .. Len(r)}
    BY <1>2, <1>5
  <2>3. c \in {r[k] : k \in 1 .. Len(r)}
    BY <1>2, <1>6
  <2> QED
    BY <2>1, <2>2, <2>3
<1>8. ASSUME NEW m \in 1 .. Len(r), NEW n \in 1 .. Len(r), r[m] = r[n] PROVE m = n
  <2>1. CASE m \in 1 .. Len(q) /\ n \in 1 .. Len(q)
    BY <2>1, <1>2, <1>8
  <2>2. CASE m = Len(q) + 1 /\ n = Len(q) + 1
    BY <2>2
  <2>3. CASE m \in 1 .. Len(q) /\ n = Len(q) + 1
    BY <2>3, <1>2, <1>8
  <2>4. CASE n \in 1 .. Len(q) /\ m = Len(q) + 1
    BY <2>4, <1>2, <1>8
  <2> QED
    BY <2>1, <2>2, <2>3, <2>4, <1>4
<1> QED
  BY <1>2, <1>3, <1>7, <1>8 DEF r

LEMMA QueueTaken ==
  ASSUME NEW S, NEW q \in Seq(S), q # <<>>,
         \A m, n \in 1 .. Len(q) : q[m] = q[n] => m = n
  PROVE  LET r == Tail(q)
         IN  /\ r \in Seq(S) /\ Head(q) \in S
             /\ Head(q) \in {q[n] : n \in 1 .. Len(q)}
             /\ {r[n] : n \in 1 .. Len(r)} \subseteq {q[n] : n \in 1 .. Len(q)}
             /\ Head(q) \notin {r[n] : n \in 1 .. Len(r)}
             /\ \A m, n \in 1 .. Len(r) : r[m] = r[n] => m = n
<1> DEFINE r == Tail(q)
<1>1. /\ Head(q) \in S /\ r \in Seq(S) /\ Len(q) \in Nat /\ Len(q) > 0 /\ Len(r) = Len(q) - 1
      /\ \A n \in 1 .. Len(r) : r[n] = q[n + 1]
  BY HeadTailProperties, EmptySeq, LenProperties
<1>2. Head(q) = q[1]
  BY <1>1
<1> HIDE DEF r
<1>3. \A n \in 1 .. Len(r) : n + 1 \in 1 .. Len(q) /\ n + 1 # 1
  BY <1>1
<1>4. 1 \in 1 .. Len(q)
  BY <1>1
<1>5. {r[n] : n \in 1 .. Len(r)} \subseteq {q[n] : n \in 1 .. Len(q)}
  BY <1>1, <1>3
<1>6. Head(q) \notin {r[n] : n \in 1 .. Len(r)}
  BY <1>1, <1>2, <1>3, <1>4
<1>7. ASSUME NEW m \in 1 .. Len(r), NEW n \in 1 .. Len(r), r[m] = r[n] PROVE m = n
  <2>1. m + 1 = n + 1
    BY <1>1, <1>3, <1>7
  <2> QED
    BY <2>1
<1>8. Head(q) \in {q[n] : n \in 1 .. Len(q)}
  BY <1>2, <1>4
<1> QED
  BY <1>1, <1>5, <1>6, <1>7, <1>8 DEF r

(* The first free slot is free. *)
LEMMA FirstFree ==
  ASSUME Free # {}
  PROVE  Min(Free) \in Slots /\ fd[Min(Free)] = NoClient
<1> DEFINE before == OpToRel(<, Nat)
<1>1. \A a, b \in Nat : a < b => <<a, b>> \in before
  BY DEF OpToRel
<1>2. Free \in SUBSET Nat /\ Slots \subseteq Nat
  BY ServerAssumption DEF Free, Slots
<1> HIDE DEF before
<1>3. \E m \in Free : \A n \in Free : ~(<<n, m>> \in before)
  BY <1>2, NatLessThanWellFounded, WFMin DEF before
<1>4. PICK m \in Free : \A n \in Free : ~(<<n, m>> \in before)
  BY <1>3
<1>5. \A n \in Free : ~(n < m)
  BY <1>1, <1>2, <1>4, Zenon
<1>6. \A n \in Free : m <= n
  BY <1>2, <1>5
<1>7. Min(Free) \in Free
  BY <1>6 DEF Min
<1> QED
  BY <1>7 DEF Free

(* The queue and the descriptors are as they were. *)
LEMMA SameQueue ==
  ASSUME UNCHANGED queue
  PROVE  Waiting' = Waiting /\ (NoRepeat => NoRepeat')
BY DEF Waiting, NoRepeat

LEMMA SameHolders ==
  ASSUME OpenIsHeld, NoRepeat, UNCHANGED <<queue, open, fd>>
  PROVE  OpenIsHeld' /\ NoRepeat'
<1>1. Waiting' = Waiting /\ NoRepeat'
  BY SameQueue
<1>2. Held' = Held
  BY DEF Held
<1> QED
  BY <1>1, <1>2 DEF OpenIsHeld

-----------------------------------------------------------------------------
LEMMA InitOK == Init => IInv
<1> SUFFICES ASSUME Init PROVE IInv
  OBVIOUS
<1>1. TypeOK
  <2>1. queue \in Seq(came) /\ came \subseteq Clients /\ open \subseteq came /\ refused \subseteq came
    BY EmptySeq DEF Init
  <2>2. /\ readiness \in [Clients -> SUBSET Events] /\ fd \in [Slots -> Clients \cup {NoClient}]
        /\ events \in [Slots -> Events] /\ revents \in [Slots -> BOOLEAN]
    BY DEF Init, Events
  <2>3. i \in 1 .. HTTP_MAX_CONNECTIONS + 1
    BY ServerAssumption DEF Init
  <2>4. pc = "poll" /\ listening \in BOOLEAN
    BY DEF Init
  <2> QED
    BY <2>1, <2>2, <2>3, <2>4 DEF TypeOK
<1>2. Held = {} /\ Waiting = {}
  BY DEF Init, Held, Waiting
<1>3. OpenIsHeld /\ NoRepeat /\ ReportedIsReady
  BY <1>2 DEF Init, OpenIsHeld, NoRepeat, ReportedIsReady
<1> QED
  BY <1>1, <1>3 DEF IInv

(* What the queue and the descriptors have to do with each other, when     *)
(* neither a descriptor is opened nor the thread moves.                    *)
LEMMA ConnectOK == ASSUME IInv, NEW c \in Clients, Connect(c) PROVE IInv'
<1>1. c \notin came /\ came' = came \cup {c} /\ queue' = Append(queue, c)
      /\ UNCHANGED <<readiness, open, fd, events, revents, listening, pc, i, refused>>
  BY DEF Connect, pollfds
<1>2. queue \in Seq(came) /\ Waiting \subseteq came
  BY ElementOfSeq DEF IInv, TypeOK, Waiting
<1>3. queue' \in Seq(came') /\ Waiting' = Waiting \cup {c} /\ NoRepeat'
  BY <1>1, <1>2, QueueAppended DEF IInv, NoRepeat, Waiting
<1>4. TypeOK'
  BY <1>1, <1>3 DEF IInv, TypeOK
<1>5. Held' = Held /\ Held \subseteq came
  BY <1>1 DEF IInv, TypeOK, OpenIsHeld, Held
<1>6. OpenIsHeld'
  BY <1>1, <1>3, <1>5 DEF IInv, OpenIsHeld
<1>7. ReportedIsReady'
  BY <1>1 DEF IInv, ReportedIsReady, Ready, Ahead
<1> QED
  BY <1>3, <1>4, <1>6, <1>7 DEF IInv

LEMMA BecomesOK == ASSUME IInv, NEW c \in Clients, NEW e \in Events, Becomes(c, e) PROVE IInv'
<1>1. readiness' = [readiness EXCEPT ![c] = @ \cup {e}]
      /\ UNCHANGED <<came, queue, open, fd, events, revents, listening, pc, i, refused>>
  BY DEF Becomes, pollfds
<1>2. readiness' \in [Clients -> SUBSET Events] /\ \A d \in Clients : readiness[d] \subseteq readiness'[d]
  BY <1>1 DEF IInv, TypeOK
<1>3. TypeOK'
  BY <1>1, <1>2 DEF IInv, TypeOK
<1>4. OpenIsHeld' /\ NoRepeat'
  BY <1>1, SameHolders DEF IInv
<1>5. ReportedIsReady'
  BY <1>1, <1>2 DEF IInv, TypeOK, ReportedIsReady, Ready, Ahead
<1> QED
  BY <1>3, <1>4, <1>5 DEF IInv

LEMMA AbortOK == ASSUME IInv, Abort PROVE IInv'
<1>1. queue # <<>> /\ queue' = Tail(queue)
      /\ UNCHANGED <<came, readiness, open, fd, events, revents, listening, pc, i, refused>>
  BY DEF Abort, pollfds
<1>2. queue' \in Seq(came) /\ Waiting' \subseteq Waiting /\ NoRepeat'
  BY <1>1, QueueTaken DEF IInv, TypeOK, NoRepeat, Waiting
<1>3. TypeOK'
  BY <1>1, <1>2 DEF IInv, TypeOK
<1>4. OpenIsHeld'
  BY <1>1, <1>2 DEF IInv, OpenIsHeld, Held
<1>5. ReportedIsReady'
  BY <1>1 DEF IInv, ReportedIsReady, Ready, Ahead
<1> QED
  BY <1>2, <1>3, <1>4, <1>5 DEF IInv

LEMMA PollOK == ASSUME IInv, Poll PROVE IInv'
<1>1. /\ pc = "poll" /\ pc' = AfterPoll /\ i' = 1
      /\ revents' = [s \in Slots |-> Ready(s)] /\ listening' = (queue # <<>>)
      /\ UNCHANGED <<came, queue, readiness, open, fd, events, refused>>
  BY DEF Poll, peers
<1>2. revents' \in [Slots -> BOOLEAN]
  BY <1>1 DEF Ready
<1>3. TypeOK'
  <2>1. i' \in 1 .. HTTP_MAX_CONNECTIONS + 1 /\ listening' \in BOOLEAN
    BY <1>1, ServerAssumption
  <2>2. pc' \in {"accept", "scan"} /\ (pc' = "accept" => listening')
    BY <1>1 DEF AfterPoll
  <2>3. pc' \in {"poll", "accept", "scan", "step"} /\ pc' # "step"
    BY <2>2
  <2>4. /\ came \subseteq Clients /\ queue \in Seq(came) /\ open \subseteq came /\ refused \subseteq came
        /\ readiness \in [Clients -> SUBSET Events] /\ fd \in [Slots -> Clients \cup {NoClient}]
        /\ events \in [Slots -> Events]
    BY DEF IInv, TypeOK
  <2>5. /\ came' \subseteq Clients /\ queue' \in Seq(came') /\ open' \subseteq came' /\ refused' \subseteq came'
        /\ readiness' \in [Clients -> SUBSET Events] /\ fd' \in [Slots -> Clients \cup {NoClient}]
        /\ events' \in [Slots -> Events]
    BY <1>1, <2>4
  <2> QED
    BY <1>2, <2>1, <2>2, <2>3, <2>5 DEF TypeOK
<1>4. OpenIsHeld' /\ NoRepeat'
  BY <1>1, SameHolders DEF IInv
<1>5. ReportedIsReady'
  BY <1>1 DEF ReportedIsReady, Ready
<1> QED
  BY <1>3, <1>4, <1>5 DEF IInv

(* A client is given a slot. *)
LEMMA TakenOK ==
  ASSUME IInv, queue # <<>>, queue' = Tail(queue), Free # {}, TakeSlot(Min(Free), Head(queue)),
         open' = open \cup {Head(queue)}, UNCHANGED refused,
         pc = "accept", pc' = "scan", UNCHANGED <<came, readiness, listening, i>>
  PROVE  IInv'
<1> DEFINE c == Head(queue)
           s == Min(Free)
<1>1. /\ queue' \in Seq(came) /\ c \in came /\ c \in Waiting /\ Waiting' \subseteq Waiting
      /\ c \notin Waiting' /\ NoRepeat'
  BY QueueTaken DEF IInv, TypeOK, NoRepeat, Waiting
<1>2. s \in Slots /\ fd[s] = NoClient
  BY FirstFree
<1>3. c \in Clients /\ c # NoClient /\ c \notin Held
  BY <1>1, ServerAssumption DEF IInv, TypeOK, OpenIsHeld
<1>4. /\ fd' = [fd EXCEPT ![s] = c] /\ events' = [events EXCEPT ![s] = "POLLIN"]
      /\ revents' = [revents EXCEPT ![s] = FALSE] /\ open' = open \cup {c}
  BY DEF TakeSlot
<1> HIDE DEF c, s
<1>5. TypeOK'
  BY <1>1, <1>2, <1>3, <1>4 DEF IInv, TypeOK, Events
<1>6. Held' = Held \cup {c}
  <2>1. \A t \in Slots : fd'[t] = IF t = s THEN c ELSE fd[t]
    BY <1>4 DEF IInv, TypeOK
  <2> QED
    BY <2>1, <1>2, <1>3 DEF Held
<1>7. OpenIsHeld'
  <2>1. \A t \in Slots : fd'[t] = IF t = s THEN c ELSE fd[t]
    BY <1>4 DEF IInv, TypeOK
  <2>2. \A t, u \in Slots : fd'[t] = fd'[u] /\ fd'[t] # NoClient => t = u
    BY <2>1, <1>3 DEF IInv, OpenIsHeld, Held
  <2> QED
    BY <2>2, <1>1, <1>4, <1>6 DEF IInv, OpenIsHeld
<1>8. ReportedIsReady'
  BY <1>4 DEF IInv, TypeOK, ReportedIsReady, Ready, Ahead
<1> QED
  BY <1>1, <1>5, <1>7, <1>8 DEF IInv

LEMMA AcceptOK == ASSUME IInv, client_set_add_new PROVE IInv'
<1>1. pc = "accept" /\ queue # <<>> /\ pc' = "scan" /\ UNCHANGED <<came, readiness, listening, i>>
  BY DEF client_set_add_new
<1>2. Tail(queue) \in Seq(came) /\ Head(queue) \in came
  BY <1>1, HeadTailProperties DEF IInv, TypeOK
<1>6. ASSUME queue' = Tail(queue) PROVE Waiting' \subseteq Waiting /\ NoRepeat'
  <2>1. queue \in Seq(came) /\ \A m, n \in 1 .. Len(queue) : queue[m] = queue[n] => m = n
    BY DEF IInv, TypeOK, NoRepeat
  <2> QED
    BY <1>1, <1>6, <2>1, QueueTaken DEF NoRepeat, Waiting
<1>3. CASE queue' = Tail(queue) /\ Free # {} /\ add_to_client_set(Head(queue))
  BY <1>1, <1>3, TakenOK DEF add_to_client_set
<1>4. CASE /\ queue' = Tail(queue) /\ UNCHANGED <<open, fd, events, revents>>
           /\ refused' \in {refused, refused \cup {Head(queue)}}
  <2>1. TypeOK'
    BY <1>1, <1>2, <1>4 DEF IInv, TypeOK
  <2>2. OpenIsHeld'
    BY <1>4, <1>6 DEF IInv, OpenIsHeld, Held
  <2>3. ReportedIsReady'
    BY <1>1, <1>4 DEF IInv, ReportedIsReady, Ready, Ahead
  <2> QED
    BY <1>4, <1>6, <2>1, <2>2, <2>3 DEF IInv
<1>5. CASE UNCHANGED <<queue, open, fd, events, revents, refused>>
  <2>1. TypeOK'
    BY <1>1, <1>5 DEF IInv, TypeOK
  <2>3. NoRepeat' /\ OpenIsHeld'
    BY <1>5, SameHolders DEF IInv
  <2>2. ReportedIsReady'
    BY <1>1, <1>5 DEF IInv, ReportedIsReady, Ready, Ahead
  <2> QED
    BY <2>1, <2>2, <2>3 DEF IInv
<1> QED
  BY <1>3, <1>4, <1>5 DEF client_set_add_new, add_to_client_set, Refuse

LEMMA SkipOK == ASSUME IInv, Skip PROVE IInv'
<1>1. pc = "scan" /\ i \in Slots /\ i' = i + 1
      /\ UNCHANGED <<came, queue, readiness, open, fd, events, revents, listening, pc, refused>>
  BY DEF Skip, peers, pollfds
<1>2. TypeOK'
  BY <1>1, ServerAssumption DEF IInv, TypeOK, Slots
<1>3. OpenIsHeld' /\ NoRepeat'
  BY <1>1, SameHolders DEF IInv
<1>4. ReportedIsReady'
  BY <1>1, ServerAssumption DEF IInv, ReportedIsReady, Ready, Ahead, Slots
<1> QED
  BY <1>2, <1>3, <1>4 DEF IInv

LEMMA StepBeginsOK == ASSUME IInv, StepBegins PROVE IInv'
<1>1. pc = "scan" /\ i \in Slots /\ fd[i] # NoClient /\ pc' = "step"
      /\ UNCHANGED <<came, queue, readiness, open, fd, events, revents, listening, i, refused>>
  BY DEF StepBegins, peers, pollfds
<1>2. TypeOK'
  BY <1>1 DEF IInv, TypeOK
<1>3. OpenIsHeld' /\ NoRepeat'
  BY <1>1, SameHolders DEF IInv
<1>4. ReportedIsReady'
  BY <1>1 DEF IInv, ReportedIsReady, Ready, Ahead
<1> QED
  BY <1>2, <1>3, <1>4 DEF IInv

(* The readiness of the clients in the slots ahead is not touched.         *)
LEMMA StepParksOK == ASSUME IInv, NEW e \in Events, StepParks(e) PROVE IInv'
<1> DEFINE c == fd[i]
<1>1. pc = "step" /\ i \in Slots /\ c \in Clients /\ c # NoClient
  BY DEF StepParks, IInv, TypeOK
<1>2. PICK left \in SUBSET (readiness[c] \ {e}) : readiness' = [readiness EXCEPT ![c] = left]
  BY DEF StepParks
<1>3. events' = [events EXCEPT ![i] = e] /\ pc' = "scan" /\ i' = i + 1
      /\ UNCHANGED <<came, queue, open, fd, revents, listening, refused>>
  BY DEF StepParks
<1>4. TypeOK'
  <2>1. readiness' \in [Clients -> SUBSET Events]
    BY <1>1, <1>2 DEF IInv, TypeOK
  <2>2. events' \in [Slots -> Events] /\ i' \in 1 .. HTTP_MAX_CONNECTIONS + 1
    BY <1>1, <1>3, ServerAssumption DEF IInv, TypeOK, Slots
  <2> QED
    BY <1>3, <2>1, <2>2 DEF IInv, TypeOK
<1>5. OpenIsHeld' /\ NoRepeat'
  BY <1>3, SameHolders DEF IInv
<1>6. ReportedIsReady'
  <2>1. \A s \in Slots : s > i => s # i /\ Ahead(s)
    BY <1>1, ServerAssumption DEF Ahead, Slots
  <2>2. \A s \in Slots : s >= i + 1 => s > i
    BY <1>1, ServerAssumption DEF Slots
  <2>3. ASSUME NEW s \in Slots, s > i, revents[s], fd[s] # NoClient
        PROVE  events'[s] \in readiness'[fd[s]]
    <3>1. events[s] \in readiness[fd[s]]
      BY <1>1, <2>1, <2>3 DEF IInv, ReportedIsReady, Ready
    <3>2. fd[s] # c /\ fd[s] \in Clients
      BY <1>1, <2>1, <2>3 DEF IInv, TypeOK, OpenIsHeld
    <3> QED
      BY <1>1, <1>2, <1>3, <2>1, <2>3, <3>1, <3>2 DEF IInv, TypeOK
  <2> QED
    BY <1>3, <2>2, <2>3 DEF ReportedIsReady, Ready, Ahead
<1> QED
  BY <1>4, <1>5, <1>6 DEF IInv

LEMMA StepClosesOK == ASSUME IInv, StepCloses PROVE IInv'
<1>1. pc = "step" /\ i \in Slots /\ fd[i] \in Clients /\ fd[i] # NoClient
  BY DEF StepCloses, IInv, TypeOK
<1>2. /\ fd' = [fd EXCEPT ![i] = NoClient] /\ open' = open \ {fd[i]} /\ pc' = "scan" /\ i' = i + 1
      /\ UNCHANGED <<came, queue, readiness, events, revents, listening, refused>>
  BY DEF StepCloses, connection_close, peers
<1>3. \A s \in Slots : fd'[s] = IF s = i THEN NoClient ELSE fd[s]
  BY <1>2 DEF IInv, TypeOK
<1>4. TypeOK'
  BY <1>1, <1>2, ServerAssumption DEF IInv, TypeOK, Slots
<1>5. Held' = Held \ {fd[i]}
  BY <1>1, <1>3 DEF IInv, OpenIsHeld, Held
<1>6. OpenIsHeld' /\ NoRepeat'
  BY <1>2, <1>3, <1>5 DEF IInv, OpenIsHeld, NoRepeat, Waiting
<1>7. ReportedIsReady'
  <2>1. \A s \in Slots : s >= i + 1 => s > i /\ Ahead(s)
    BY <1>1, ServerAssumption DEF Ahead, Slots
  <2> QED
    BY <1>1, <1>2, <1>3, <2>1 DEF IInv, ReportedIsReady, Ready, Ahead
<1> QED
  BY <1>4, <1>6, <1>7 DEF IInv

LEMMA PollAgainOK == ASSUME IInv, PollAgain PROVE IInv'
<1>1. pc' = "poll"
      /\ UNCHANGED <<came, queue, readiness, open, fd, events, revents, listening, i, refused>>
  BY DEF PollAgain, peers, pollfds
<1>2. TypeOK' /\ OpenIsHeld' /\ NoRepeat' /\ ReportedIsReady'
  BY <1>1 DEF IInv, TypeOK, OpenIsHeld, NoRepeat, Held, Waiting, ReportedIsReady
<1> QED
  BY <1>2 DEF IInv

LEMMA StutterOK == ASSUME IInv, UNCHANGED vars PROVE IInv'
<1>1. UNCHANGED <<came, queue, readiness, open, fd, events, revents, listening, pc, i, refused>>
  BY DEF vars
<1>2. TypeOK' /\ OpenIsHeld' /\ NoRepeat' /\ ReportedIsReady'
  BY <1>1 DEF IInv, TypeOK, OpenIsHeld, NoRepeat, Held, Waiting, ReportedIsReady, Ready, Ahead
<1> QED
  BY <1>2 DEF IInv

(* The inductive invariant of the event loop.                              *)
THEOREM Invariance == Spec => []IInv
<1>1. IInv /\ [Next]_vars => IInv'
  BY ConnectOK, BecomesOK, AbortOK, PollOK, AcceptOK, SkipOK, StepBeginsOK, StepParksOK, StepClosesOK,
     PollAgainOK, StutterOK DEF Next, Environment, Loop, StepEnds
<1> QED
  BY InitOK, <1>1, PTL DEF Spec

(* Every descriptor the process holds is in exactly one slot.              *)
THEOREM DescriptorsAccounted == Spec => []OpenIsHeld
<1>1. IInv => OpenIsHeld
  BY DEF IInv
<1> QED
  BY Invariance, <1>1, PTL

(* The variables keep their types, the thread is in a step only of a slot  *)
(* in use, and calls accept only for a listener poll has reported.         *)
THEOREM TypeCorrect == Spec => []TypeOK
<1>1. IInv => TypeOK
  BY DEF IInv
<1> QED
  BY Invariance, <1>1, PTL

-----------------------------------------------------------------------------
(* A client is refused only when every slot holds another. *)

LEMMA FullMeansAll ==
  ASSUME IInv, Free = {}
  PROVE  Cardinality(open) >= HTTP_MAX_CONNECTIONS
<1>1. fd \in Injection(Slots, open)
  <2>1. \A s \in Slots : fd[s] \in open
    BY DEF IInv, OpenIsHeld, Held, Free
  <2>2. fd \in [Slots -> open]
    BY <2>1 DEF IInv, TypeOK
  <2>3. \A s, t \in Slots : fd[s] = fd[t] => s = t
    BY DEF IInv, OpenIsHeld, Free
  <2> QED
    BY <2>2, <2>3 DEF Injection, IsInjective
<1>2. IsFiniteSet(open)
  BY FS_Subset, ServerAssumption DEF IInv, TypeOK
<1>3. Cardinality(Slots) <= Cardinality(open)
  BY <1>1, <1>2, FS_Injection
<1>4. Cardinality(Slots) = HTTP_MAX_CONNECTIONS
  BY FS_Interval, ServerAssumption DEF Slots
<1>5. Cardinality(open) \in Nat
  BY <1>2, FS_CardinalityType
<1> QED
  BY <1>3, <1>4, <1>5, ServerAssumption

(* add_to_client_set turns a client away only when as many connections are *)
(* open as there are slots.                                                *)
THEOREM RefusedFull == Spec => RefusedOnlyWhenFull
<1>1. ASSUME IInv, [Next]_vars
      PROVE  [refused' # refused => Cardinality(open) >= HTTP_MAX_CONNECTIONS]_vars
  <2>1. ASSUME client_set_add_new, refused' # refused PROVE Free = {}
    BY <2>1 DEF client_set_add_new, add_to_client_set
  <2>2. ASSUME refused' # refused PROVE client_set_add_new
    BY <1>1, <2>2 DEF Next, Environment, Loop, StepEnds, vars,
         Connect, Becomes, Abort, Poll, Skip, StepBegins, StepParks, StepCloses, PollAgain
  <2> QED
    BY <1>1, <2>1, <2>2, FullMeansAll
<1> QED
  BY Invariance, <1>1, PTL DEF Spec, RefusedOnlyWhenFull

-----------------------------------------------------------------------------
(* Every slot keeps the contract. *)

Kept(s) == [SlotOf(s)!Next]_(SlotOf(s)!slot)

LEMMA SlotUntouched ==
  ASSUME NEW s \in Slots, StateOf(s)' = StateOf(s), events'[s] = events[s], fd'[s] = fd[s],
         fd[s] # NoClient => readiness'[fd[s]] = readiness[fd[s]]
  PROVE  Kept(s)
BY DEF Kept, SlotOf!slot

LEMMA SlotsOutsideSteps ==
  ASSUME pc # "step", pc' # "step", UNCHANGED <<fd, events, readiness>>, NEW s \in Slots
  PROVE  Kept(s)
BY SlotUntouched DEF StateOf

LEMMA SlotAccepts ==
  ASSUME IInv, client_set_add_new, NEW s \in Slots
  PROVE  Kept(s)
<1>1. pc = "accept" /\ pc' = "scan" /\ UNCHANGED readiness
  BY DEF client_set_add_new
<1>2. CASE UNCHANGED <<fd, events>>
  BY <1>1, <1>2, SlotsOutsideSteps
<1>3. CASE Free # {} /\ TakeSlot(Min(Free), Head(queue)) /\ queue # <<>>
  <2> DEFINE k == Min(Free)
             c == Head(queue)
  <2>1. k \in Slots /\ fd[k] = NoClient
    BY <1>3, FirstFree
  <2>2. c \in Clients /\ c # NoClient
    BY <1>3, HeadTailProperties, ServerAssumption DEF IInv, TypeOK
  <2>3. fd' = [fd EXCEPT ![k] = c] /\ events' = [events EXCEPT ![k] = "POLLIN"]
    BY <1>3 DEF TakeSlot
  <2> HIDE DEF k, c
  <2>4. CASE s = k
    <3>1. fd'[k] = c /\ events'[k] = "POLLIN"
      BY <2>1, <2>3 DEF IInv, TypeOK
    <3>2. StateOf(s) = "free" /\ StateOf(s)' = "parked"
      BY <1>1, <2>1, <2>2, <2>4, <3>1 DEF StateOf
    <3> QED
      BY <2>4, <3>1, <3>2 DEF Kept, SlotOf!Next, SlotOf!Accept
  <2>5. CASE s # k
    <3>1. fd'[s] = fd[s] /\ events'[s] = events[s]
      BY <2>3, <2>5 DEF IInv, TypeOK
    <3> QED
      BY <1>1, <3>1, SlotUntouched DEF StateOf
  <2> QED
    BY <2>4, <2>5
<1> QED
  BY <1>2, <1>3 DEF client_set_add_new, add_to_client_set, Refuse

LEMMA SlotArrives ==
  ASSUME IInv, NEW c \in Clients, NEW e \in Events, Becomes(c, e), NEW s \in Slots
  PROVE  Kept(s)
<1>1. UNCHANGED <<fd, events, pc, i>> /\ readiness' = [readiness EXCEPT ![c] = @ \cup {e}]
  BY DEF Becomes, pollfds
<1>2. StateOf(s)' = StateOf(s) /\ events'[s] = events[s] /\ fd'[s] = fd[s]
  BY <1>1 DEF StateOf
<1>3. CASE fd[s] # NoClient /\ e = "POLLIN" /\ fd[s] = c
  <2>1. "POLLIN" \in readiness'[fd'[s]]
    BY <1>1, <1>3 DEF IInv, TypeOK
  <2> QED
    BY <1>2, <1>3, <2>1 DEF Kept, SlotOf!Next, SlotOf!Arrive
<1>4. CASE fd[s] # NoClient /\ ~(e = "POLLIN" /\ fd[s] = c)
  <2>1. fd[s] \in Clients
    BY <1>4 DEF IInv, TypeOK
  <2>2. "POLLIN" \in readiness'[fd[s]] <=> "POLLIN" \in readiness[fd[s]]
    BY <1>1, <1>4, <2>1 DEF IInv, TypeOK
  <2> QED
    BY <1>2, <2>2 DEF Kept, SlotOf!slot
<1>5. CASE fd[s] = NoClient
  BY <1>2, <1>5 DEF Kept, SlotOf!slot
<1> QED
  BY <1>3, <1>4, <1>5

LEMMA SlotWakes ==
  ASSUME IInv, StepBegins, NEW s \in Slots
  PROVE  Kept(s)
<1>1. /\ pc = "scan" /\ i \in Slots /\ fd[i] # NoClient /\ revents[i] /\ pc' = "step"
      /\ UNCHANGED <<fd, events, readiness, i>>
  BY DEF StepBegins, peers, pollfds
<1>2. CASE s = i
  <2>1. Ready(i)
    BY <1>1, ServerAssumption DEF IInv, ReportedIsReady, Ahead, Slots
  <2>2. StateOf(s) = "parked" /\ StateOf(s)' = "stepping"
    BY <1>1, <1>2 DEF StateOf
  <2> QED
    BY <1>1, <1>2, <2>1, <2>2 DEF Kept, SlotOf!Next, SlotOf!Wake, Ready
<1>3. CASE s # i
  BY <1>1, <1>3, SlotUntouched DEF StateOf
<1> QED
  BY <1>2, <1>3

LEMMA SlotParks ==
  ASSUME IInv, NEW e \in Events, StepParks(e), NEW s \in Slots
  PROVE  Kept(s)
<1>1. pc = "step" /\ i \in Slots /\ fd[i] \in Clients /\ fd[i] # NoClient
  BY DEF StepParks, IInv, TypeOK
<1>2. PICK left \in SUBSET (readiness[fd[i]] \ {e}) : readiness' = [readiness EXCEPT ![fd[i]] = left]
  BY DEF StepParks
<1>3. events' = [events EXCEPT ![i] = e] /\ pc' = "scan" /\ UNCHANGED fd
  BY DEF StepParks
<1>4. CASE s = i
  <2>1. StateOf(s) = "stepping" /\ StateOf(s)' = "parked"
    BY <1>1, <1>3, <1>4 DEF StateOf
  <2>2. events'[s] = e /\ readiness'[fd'[s]] = left
    BY <1>1, <1>2, <1>3, <1>4 DEF IInv, TypeOK
  <2>3. e \notin left
    BY <1>2
  <2> QED
    BY <2>1, <2>2, <2>3 DEF Kept, SlotOf!Next, SlotOf!Park, Events
<1>5. CASE s # i
  <2>1. fd[s] # NoClient => fd[s] # fd[i] /\ fd[s] \in Clients
    BY <1>1, <1>5 DEF IInv, TypeOK, OpenIsHeld
  <2>2. fd[s] # NoClient => readiness'[fd[s]] = readiness[fd[s]]
    BY <1>2, <2>1 DEF IInv, TypeOK
  <2>3. events'[s] = events[s]
    BY <1>3, <1>5 DEF IInv, TypeOK
  <2> QED
    BY <1>1, <1>3, <1>5, <2>2, <2>3, SlotUntouched DEF StateOf
<1> QED
  BY <1>4, <1>5

LEMMA SlotDrops ==
  ASSUME IInv, StepCloses, NEW s \in Slots
  PROVE  Kept(s)
<1>1. pc = "step" /\ i \in Slots /\ fd[i] # NoClient
  BY DEF StepCloses, IInv, TypeOK
<1>2. fd' = [fd EXCEPT ![i] = NoClient] /\ pc' = "scan" /\ UNCHANGED <<readiness, events>>
  BY DEF StepCloses, connection_close, peers
<1>3. CASE s = i
  <2>1. fd'[s] = NoClient
    BY <1>1, <1>2, <1>3 DEF IInv, TypeOK
  <2>2. StateOf(s) = "stepping" /\ StateOf(s)' = "free"
    BY <1>1, <1>3, <2>1 DEF StateOf
  <2> QED
    BY <1>2, <2>1, <2>2 DEF Kept, SlotOf!Next, SlotOf!Drop
<1>4. CASE s # i
  <2>1. fd'[s] = fd[s]
    BY <1>2, <1>4 DEF IInv, TypeOK
  <2> QED
    BY <1>1, <1>2, <1>4, <2>1, SlotUntouched DEF StateOf
<1> QED
  BY <1>3, <1>4

LEMMA SlotKept == ASSUME IInv, [Next]_vars, NEW s \in Slots PROVE Kept(s)
<1>1. CASE Poll \/ Skip \/ PollAgain
  BY <1>1, SlotsOutsideSteps DEF Poll, Skip, PollAgain, AfterPoll, peers, pollfds
<1>2. CASE Abort \/ (\E c \in Clients : Connect(c)) \/ UNCHANGED vars
  <2>1. UNCHANGED <<fd, events, readiness, pc, i>>
    BY <1>2 DEF Abort, Connect, pollfds, vars
  <2> QED
    BY <2>1, SlotUntouched DEF StateOf
<1> QED
  BY <1>1, <1>2, SlotAccepts, SlotArrives, SlotWakes, SlotParks, SlotDrops
     DEF Next, Environment, Loop, StepEnds

(* The loop steps a connection only for what that connection waits for,    *)
(* and hands out a slot only after its last connection has closed.         *)
THEOREM SlotsImplement == Spec => ImplementsSlots
<1>1. Init => \A s \in Slots : SlotOf(s)!Init
  BY DEF Init, StateOf, SlotOf!Init
<1>2. ASSUME IInv, [Next]_vars PROVE [\A s \in Slots : Kept(s)]_vars
  BY <1>2, SlotKept
<1>3. Spec => [][\A s \in Slots : Kept(s)]_vars
  BY Invariance, <1>2, PTL DEF Spec
<1> QED
  BY <1>1, <1>3, PTL DEF Spec, ImplementsSlots, Kept
=============================================================================
