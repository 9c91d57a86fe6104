--------------------------------- MODULE Server ---------------------------------
(***************************************************************************)
(* The event loop of server_run over the listener and all slots, with the  *)
(* client set of Networking.c.  One action is one system call or one turn  *)
(* of a loop, and clients connect, send, drain and give up in between.     *)
(*                                                                         *)
(* A step of a connection is one action that begins it and one that ends   *)
(* it: what it does in between is module Connection.  Its contract is      *)
(* module Slot, which every slot here is shown to implement as well.       *)
(***************************************************************************)
EXTENDS Integers, Sequences, FiniteSets, FiniteSetsExt

CONSTANTS
  HTTP_MAX_CONNECTIONS,
  Backlog,      \* of listen(2)
  Clients,      \* each connects at most once
  NoClient,     \* a pollfd with fd = -1
  Endless,      \* clients whose response may be streamed without ever blocking
  Faults        \* "accept" failing; "fcntl" failing; "abort", a client that gives up
                \* in the listener's queue

Slots == 1 .. HTTP_MAX_CONNECTIONS

ASSUME ServerAssumption ==
  /\ HTTP_MAX_CONNECTIONS \in Nat /\ Backlog \in Nat
  /\ NoClient \notin Clients /\ IsFiniteSet(Clients) /\ Endless \subseteq Clients
  /\ Faults \subseteq {"accept", "fcntl", "abort"}

VARIABLES
  came,       \* clients that have connected (external)
  queue,      \* those not yet accepted, in order (external)
  readiness,  \* client -> which of POLLIN and POLLOUT its socket would report (external)
  open,       \* clients whose descriptor the process holds (external)
  fd, events, revents,    \* poll_fd_set[1 ..], by slot
  listening,  \* poll_fd_set[0].revents & POLLIN
  pc,         \* where the thread is
  i,          \* the slot it is at
  refused     \* clients turned away for want of a slot (history)

vars == <<came, queue, readiness, open, fd, events, revents, listening, pc, i, refused>>
peers == <<came, queue, readiness>>
pollfds == <<fd, events, revents, listening>>

Events == {"POLLIN", "POLLOUT"}

-----------------------------------------------------------------------------
(* Clients (external) *)

Connect(c) ==
  /\ c \notin came /\ Len(queue) < Backlog
  /\ came' = came \cup {c}
  /\ queue' = Append(queue, c)
  /\ UNCHANGED <<readiness, open, pollfds, pc, i, refused>>

(* The client sends, shuts down or resets, or makes room for more.         *)
Becomes(c, e) ==
  /\ c \in came
  /\ readiness' = [readiness EXCEPT ![c] = @ \cup {e}]
  /\ UNCHANGED <<came, queue, open, pollfds, pc, i, refused>>

(* The first client in the queue is gone from it, maybe after poll saw it. *)
Abort ==
  /\ queue # <<>>
  /\ "abort" \in Faults
  /\ queue' = Tail(queue)
  /\ UNCHANGED <<came, readiness, open, pollfds, pc, i, refused>>

-----------------------------------------------------------------------------
(* The loop *)

Ready(s) == fd[s] # NoClient /\ events[s] \in readiness[fd[s]]

(* Mistake: the listener is taken to be ready whenever a slot is. *)
AfterPollAlways == "accept"

(* Mistake: new clients have to wait until no slot is ready. *)
AfterPollSlotsFirst == IF queue # <<>> /\ \A s \in Slots : ~Ready(s) THEN "accept" ELSE "scan"

AfterPoll == IF queue # <<>> THEN "accept" ELSE "scan"

(* poll returns once something is ready, and reports all that is. *)
Poll ==
  /\ pc = "poll"
  /\ queue # <<>> \/ \E s \in Slots : Ready(s)
  /\ revents' = [s \in Slots |-> Ready(s)]
  /\ listening' = (queue # <<>>)
  /\ pc' = AfterPoll
  /\ i' = 1
  /\ UNCHANGED <<peers, open, fd, events, refused>>

(* Mistake: the last slot is not considered. *)
FreeButLast == {s \in Slots : fd[s] = NoClient /\ s < HTTP_MAX_CONNECTIONS}

Free == {s \in Slots : fd[s] = NoClient}

(* Mistake: the slot goes on waiting for what its last client waited for.  *)
TakeSlotAsItWas(s, c) ==
  /\ fd' = [fd EXCEPT ![s] = c]
  /\ revents' = [revents EXCEPT ![s] = FALSE]
  /\ UNCHANGED events

TakeSlot(s, c) ==
  /\ fd' = [fd EXCEPT ![s] = c]
  /\ events' = [events EXCEPT ![s] = "POLLIN"]
  /\ revents' = [revents EXCEPT ![s] = FALSE]

(* Mistake: the descriptor of a client there is no slot for stays open. *)
RefuseOpen(c) ==
  refused' = refused \cup {c} /\ open' = open \cup {c} /\ UNCHANGED <<fd, events, revents>>

(* No slot: the new descriptor is closed at once. *)
Refuse(c) == refused' = refused \cup {c} /\ UNCHANGED <<open, fd, events, revents>>

add_to_client_set(c) ==
  IF Free # {}
  THEN TakeSlot(Min(Free), c) /\ open' = open \cup {c} /\ UNCHANGED refused
  ELSE Refuse(c)

(* accept on the blocking listener: there is no way on while nobody is in  *)
(* its queue.                                                              *)
client_set_add_new ==
  /\ pc = "accept" /\ queue # <<>>
  /\ \/ /\ queue' = Tail(queue)
        /\ add_to_client_set(Head(queue))
     \/ /\ "fcntl" \in Faults
        /\ queue' = Tail(queue) /\ UNCHANGED <<open, fd, events, revents, refused>>
     \/ /\ "accept" \in Faults
        /\ UNCHANGED <<queue, open, fd, events, revents, refused>>
  /\ pc' = "scan"
  /\ UNCHANGED <<came, readiness, listening, i>>

Skip ==
  /\ pc = "scan" /\ i \in Slots
  /\ fd[i] = NoClient \/ ~revents[i]
  /\ i' = i + 1
  /\ UNCHANGED <<peers, open, pollfds, pc, refused>>

StepBegins ==
  /\ pc = "scan" /\ i \in Slots
  /\ fd[i] # NoClient /\ revents[i]
  /\ pc' = "step"
  /\ UNCHANGED <<peers, open, pollfds, i, refused>>

(* The step reads what is there and sends what the kernel takes, and ends  *)
(* when its socket would block on what it wants next.                      *)
StepParks(e) ==
  /\ pc = "step"
  /\ \E left \in SUBSET (readiness[fd[i]] \ {e}) :
       readiness' = [readiness EXCEPT ![fd[i]] = left]
  /\ events' = [events EXCEPT ![i] = e]
  /\ pc' = "scan" /\ i' = i + 1
  /\ UNCHANGED <<came, queue, open, fd, revents, listening, refused>>

connection_close(s) == fd' = [fd EXCEPT ![s] = NoClient] /\ open' = open \ {fd[s]}

StepCloses ==
  /\ pc = "step"
  /\ connection_close(i)
  /\ pc' = "scan" /\ i' = i + 1
  /\ UNCHANGED <<peers, events, revents, listening, refused>>

(* Mistake: the scan stops before the last slot. *)
ScannedEarly == i >= HTTP_MAX_CONNECTIONS

Scanned == i > HTTP_MAX_CONNECTIONS

PollAgain ==
  /\ pc = "scan" /\ Scanned
  /\ pc' = "poll"
  /\ UNCHANGED <<peers, open, pollfds, i, refused>>

-----------------------------------------------------------------------------
Init ==
  /\ came = {} /\ queue = <<>> /\ open = {}
  /\ readiness = [c \in Clients |-> {"POLLOUT"}]
  /\ fd = [s \in Slots |-> NoClient]
  /\ events = [s \in Slots |-> "POLLIN"]
  /\ revents = [s \in Slots |-> FALSE]
  /\ listening = FALSE
  /\ pc = "poll"
  /\ i = 1
  /\ refused = {}

Environment == \/ \E c \in Clients : Connect(c) \/ \E e \in Events : Becomes(c, e)
               \/ Abort

StepEnds == StepCloses \/ \E e \in Events : StepParks(e)

Loop == Poll \/ client_set_add_new \/ Skip \/ StepBegins \/ StepEnds \/ PollAgain

Next == Environment \/ Loop

Spec == Init /\ [][Next]_vars

(* The thread goes on whenever it can, a step of a client that is not      *)
(* endless comes to its end, and accept does not fail for ever.            *)
Takes == client_set_add_new /\ queue' = Tail(queue)

StepEndsBy(c) == pc = "step" /\ fd[i] = c /\ StepEnds

Fairness ==
  /\ WF_vars(Poll) /\ WF_vars(client_set_add_new) /\ SF_vars(Takes)
  /\ WF_vars(Skip) /\ WF_vars(StepBegins) /\ WF_vars(PollAgain)
  /\ \A c \in Clients \ Endless : WF_vars(StepEndsBy(c))

LiveSpec == Spec /\ Fairness

-----------------------------------------------------------------------------
(* Properties *)

Waiting == {queue[n] : n \in 1 .. Len(queue)}
Held == {fd[s] : s \in Slots} \ {NoClient}

(* The thread is in a step only of a slot in use, and calls accept only    *)
(* when poll has reported the listener.                                    *)
TypeOK ==
  /\ came \subseteq Clients /\ queue \in Seq(came) /\ open \subseteq came /\ refused \subseteq came
  /\ readiness \in [Clients -> SUBSET Events]
  /\ fd \in [Slots -> Clients \cup {NoClient}]
  /\ events \in [Slots -> Events]
  /\ revents \in [Slots -> BOOLEAN]
  /\ listening \in BOOLEAN
  /\ pc \in {"poll", "accept", "scan", "step"}
  /\ i \in 1 .. HTTP_MAX_CONNECTIONS + 1
  /\ pc = "step" => i \in Slots /\ fd[i] # NoClient
  /\ pc = "accept" => listening

(* Every descriptor the process holds is in exactly one slot, through all  *)
(* the ways a client can be accepted, refused, failed and closed.          *)
OpenIsHeld ==
  /\ open = Held
  /\ \A s, t \in Slots : fd[s] = fd[t] /\ fd[s] # NoClient => s = t
  /\ Held \cap Waiting = {}

(* What the repository says of the loop, and the code does not do;         *)
(* README.md:21, "Single-threaded non-blocking I/O via poll()": whoever    *)
(* leaves the listener's queue after poll, accept has somebody to return.  *)
AcceptNeverBlocks == pc = "accept" => queue # <<>>

(* A client that is turned away was one too many: as many as there are     *)
(* slots had open connections.                                             *)
RefusedOnlyWhenFull ==
  [][refused' # refused => Cardinality(open) >= HTTP_MAX_CONNECTIONS]_vars

(* Each slot keeps the contract: a client is stepped only for what its own *)
(* connection waits for, never for what poll reported of the slot's last   *)
(* client.                                                                 *)
StateOf(s) == IF fd[s] = NoClient THEN "free" ELSE IF pc = "step" /\ i = s THEN "stepping" ELSE "parked"

SlotOf(s) == INSTANCE Slot WITH
  state <- StateOf(s), waiting <- IF StateOf(s) = "parked" THEN events[s] ELSE "none",
  readable <- fd[s] # NoClient /\ "POLLIN" \in readiness[fd[s]]

ImplementsSlots ==
  /\ \A s \in Slots : SlotOf(s)!Init
  /\ [][\A s \in Slots : [SlotOf(s)!Next]_(SlotOf(s)!slot)]_vars

(* The two ways the one thread can be kept from its loop: the blocking     *)
(* accept when the client poll saw is gone, and a streamed response that   *)
(* neither blocks nor ends.                                                *)
BlockedInAccept == pc = "accept" /\ queue = <<>>
InEndlessStep == pc = "step" /\ fd[i] \in Endless

(* A client in the listener's queue is taken from it, however often accept *)
(* fails and whoever leaves the queue before it, unless the thread never   *)
(* again comes out of an endless response.                                 *)
ClientsAreTaken == \A c \in Clients : c \in Waiting ~> (c \notin Waiting \/ []InEndlessStep)

(* A connection whose event has come is stepped, however busy the others   *)
(* are, unless the thread stays for ever in an endless response, or in     *)
(* accept after the last client has left the queue: nothing else starves   *)
(* a slot.                                                                 *)
ReadyIsStepped ==
  \A s \in Slots :
    Ready(s) ~> ((pc = "step" /\ i = s) \/ [](InEndlessStep \/ BlockedInAccept))
=============================================================================
