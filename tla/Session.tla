-------------------------------- MODULE Session --------------------------------
(***************************************************************************)
(* What one slot of the server promises a client, with no buffers, phases  *)
(* or partial I/O: the requests of its byte stream are answered in the     *)
(* order they were sent, each at most once; a response that announces      *)
(* `Connection: close` is the last one and the connection closes with it;  *)
(* and at most MaxAnswers of them are given on one connection.             *)
(***************************************************************************)
EXTENDS Naturals, Sequences

CONSTANTS Plans,        \* where the requests of a client may begin: sequences of offsets
          MaxAnswers

VARIABLES starts,       \* where the requests of this client begin
          connected,
          answers       \* the responses so far: the request's offset, and close or not

session == <<starts, connected, answers>>

Init == starts = <<>> /\ connected = FALSE /\ answers = <<>>

Connect ==
  /\ ~connected /\ connected' = TRUE
  /\ starts' \in Plans
  /\ answers' = <<>>

Answer ==
  /\ connected /\ Len(answers) < Len(starts) /\ Len(answers) < MaxAnswers
  /\ \E close \in BOOLEAN :
       /\ answers' = Append(answers, [pos |-> starts[Len(answers) + 1], close |-> close])
       /\ close => ~connected'
  /\ Len(answers') = MaxAnswers => ~connected'
  /\ connected' \in BOOLEAN
  /\ UNCHANGED starts

Disconnect == connected /\ connected' = FALSE /\ UNCHANGED <<starts, answers>>

Spec == Init /\ [][Connect \/ Answer \/ Disconnect]_session
=============================================================================
