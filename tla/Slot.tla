---------------------------------- MODULE Slot ----------------------------------
(***************************************************************************)
(* What the event loop and one connection owe each other.  The loop hands  *)
(* a free slot to a client and steps it only for what the connection waits *)
(* for; a step ends with the connection closed, or waiting for what its    *)
(* socket would block on at that moment, so that poll cannot miss it.      *)
(*                                                                         *)
(* Connection implements this for the slot it models, Server for each of   *)
(* its slots.                                                              *)
(***************************************************************************)

VARIABLES state,      \* "free", "parked" in poll, or "stepping"
          waiting,    \* pollfd.events of a parked connection, else "none"
          readable    \* poll would report POLLIN: bytes, an end or an error wait

slot == <<state, waiting, readable>>

Init == state = "free" /\ waiting = "none"

(* A new client, whose first bytes may be there already. *)
Accept == state = "free" /\ state' = "parked" /\ waiting' = "POLLIN" /\ readable' \in BOOLEAN

(* The client sends, shuts down or resets; a step reads or sends on.       *)
Arrive  == readable' = TRUE /\ UNCHANGED <<state, waiting>>
Proceed == state = "stepping" /\ readable' \in BOOLEAN /\ UNCHANGED <<state, waiting>>

Wake ==
  /\ state = "parked" /\ waiting = "POLLIN" => readable
  /\ state = "parked" /\ state' = "stepping" /\ waiting' = "none"
  /\ UNCHANGED readable

Park ==
  /\ state = "stepping" /\ state' = "parked"
  /\ waiting' \in {"POLLIN", "POLLOUT"} /\ readable' \in BOOLEAN
  /\ waiting' = "POLLIN" => ~readable'

Drop == state = "stepping" /\ state' = "free" /\ UNCHANGED waiting /\ readable' \in BOOLEAN

(* What happens to a socket nobody holds. *)
Unheld == state = "free" /\ UNCHANGED <<state, waiting>> /\ readable' \in BOOLEAN

Next == Accept \/ Arrive \/ Proceed \/ Wake \/ Park \/ Drop \/ Unheld

Spec == Init /\ [][Next]_slot
=============================================================================
