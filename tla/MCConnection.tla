----------------------------- MODULE MCConnection -----------------------------
(***************************************************************************)
(* Small instances of Connection: a catalogue of requests that exercises   *)
(* every decision of step_header_read, and the byte streams clients build  *)
(* from it.                                                                *)
(***************************************************************************)
EXTENDS Framing, SequencesExt

Plain == [method |-> "GET", version |-> "1.1", parse |-> "PARSE_OK", host |-> TRUE,
          connection |-> "absent", te |-> <<>>, cl |-> [present |-> FALSE, value |-> <<>>],
          expect |-> FALSE]

Length(digits) == [present |-> TRUE, value |-> digits]

MCRequests ==
  [get         |-> Plain,
   getKeep     |-> [Plain EXCEPT !.connection = "keep-alive"],
   getClose    |-> [Plain EXCEPT !.connection = "other"],
   get10       |-> [Plain EXCEPT !.version = "1.0", !.host = FALSE],
   get09       |-> [Plain EXCEPT !.version = "0.9"],
   noHost      |-> [Plain EXCEPT !.host = FALSE],
   longUri     |-> [Plain EXCEPT !.parse = "PARSE_URI_TOO_LONG"],
   head        |-> [Plain EXCEPT !.method = "HEAD"],
   post0       |-> [Plain EXCEPT !.method = "POST", !.cl = Length(<<"0">>)],
   post2       |-> [Plain EXCEPT !.method = "POST", !.cl = Length(<<"2">>)],
   post2Close  |-> [Plain EXCEPT !.method = "POST", !.cl = Length(<<"2">>), !.connection = "other"],
   post15      |-> [Plain EXCEPT !.method = "POST", !.cl = Length(<<"1", "5">>)],
   postHuge    |-> [Plain EXCEPT !.method = "POST", !.cl = Length(<<"9", "9">>)],
   postBad     |-> [Plain EXCEPT !.method = "POST", !.cl = Length(<<"2", "x">>)],
   wait2       |-> [Plain EXCEPT !.method = "POST", !.cl = Length(<<"2">>), !.expect = TRUE],
   waitChunked |-> [Plain EXCEPT !.method = "POST", !.te = <<"chunked">>, !.expect = TRUE],
   chunked     |-> [Plain EXCEPT !.method = "POST", !.te = <<"chunked">>],
   chunked09   |-> [Plain EXCEPT !.method = "POST", !.te = <<"chunked">>, !.version = "0.9"],
   chunked10   |-> [Plain EXCEPT !.method = "POST", !.te = <<"chunked">>, !.version = "1.0"],
   chunkedCl   |-> [Plain EXCEPT !.method = "POST", !.te = <<"chunked">>, !.cl = Length(<<"2">>)],
   gzip        |-> [Plain EXCEPT !.method = "POST", !.te = <<"chunked", "unsupported">>],
   badCoding   |-> [Plain EXCEPT !.method = "POST", !.te = <<"malformed">>]]

Blank == CRLF \o CRLF
Size(d) == <<d>> \o CRLF
LastChunk == Size("0") \o CRLF
TwoBytes == <<"x", "x">>

Chunk2 == Size("2") \o TwoBytes \o CRLF \o LastChunk
Chunk11 == Size("1") \o <<"x">> \o CRLF \o <<"1", ";", "e">> \o CRLF \o <<"x">> \o CRLF \o LastChunk
Extended == <<"1", ";", "e">> \o CRLF \o <<"x">> \o CRLF \o LastChunk
TooMuch == Size("3") \o <<"x", "x", "x">> \o CRLF \o LastChunk
BadSize == Size("x")
BadTrail == Size("1") \o <<"x", "x", "x">>
Trailer == Size("0") \o <<"t", "x">> \o CRLF \o CRLF

(* The bytes of a message, and whether its client waits before the body.   *)
Message(name, body) == [head |-> <<name>> \o Blank, body |-> body]

Bytes(m) == m.head \o m.body
Before(ms, i) == Len(FlattenSeq([k \in 1 .. (i - 1) |-> Bytes(ms[k])]))

(* A client that sends these messages one after the other, as fast as the  *)
(* network takes them. *)
Eager(ms) ==
  [bytes |-> FlattenSeq([k \in DOMAIN ms |-> Bytes(ms[k])]),
   starts |-> [i \in DOMAIN ms |-> Before(ms, i)],
   holds |-> {}]

(* One that waits for the 100 Continue it asks for.  *)
Patient(ms) ==
  [Eager(ms) EXCEPT !.holds =
    {Before(ms, i) + Len(ms[i].head) : i \in {k \in DOMAIN ms : MCRequests[ms[k].head[1]].expect}}]

Get == Message("get", <<>>)
Post2 == Message("post2", TwoBytes)

(* Every decision of step_header_read and every way a body ends, followed  *)
(* by another request where the connection may stay open.                  *)
SingleRequests ==
  {Eager(<<m>>) : m \in
     {Message(n, <<>>) : n \in {"getClose", "get10", "noHost", "longUri", "head", "post0", "postHuge",
                                "postBad", "gzip", "badCoding"}}
     \cup {Message(n, TwoBytes) : n \in {"post2Close"}}
     \cup {Message(n, Chunk2) : n \in {"chunked10", "chunkedCl"}}
     \cup {Message("chunked", b) : b \in {TooMuch, BadSize, BadTrail, Trailer, Chunk11}}
     \cup {Message("post15", [i \in 1 .. 15 |-> "x"])}
     \cup {[head |-> <<"get">> \o [i \in 1 .. 16 |-> "h"] \o Blank, body |-> <<>>]}}

Pipelines ==
  {Eager(<<Get, Get, Get>>), Eager(<<Post2, Get>>), Eager(<<Get, Post2>>), Eager(<<Post2, Post2>>),
   Eager(<<Message("chunked", Chunk2), Get>>), Eager(<<Get, Message("get10", <<>>), Get>>),
   Eager(<<Message("getKeep", <<>>), Message("noHost", <<>>), Get>>)}

Waiting ==
  {Patient(<<Message("wait2", TwoBytes), Get>>), Patient(<<Get, Message("waitChunked", Chunk2)>>),
   Eager(<<Message("wait2", TwoBytes)>>)}

(* One request more than the connection answers: after the last answer a   *)
(* well-formed request is left in req_buf. *)
OneTooMany == Eager(<<Get, Get, Get, Get>>)

(* Clients whose every request is answered as the protocol asks.  Left out *)
(* are those refused after keep_alive has been set: CloseIsLast.           *)
SessionClients ==
  Pipelines \cup Waiting \cup {OneTooMany} \cup
  {Eager(<<m>>) : m \in
     {Message(n, <<>>) : n \in {"getClose", "get10", "noHost", "longUri", "head", "post0"}}
     \cup {Message("post2Close", TwoBytes), Message("chunked10", Chunk2), Message("chunked", Extended)}}

(* They are what the theorems of FramingProofs ask of a client. *)
ASSUME SessionClientsFramed == \A c \in SessionClients : WellFramed(c)

(* Clients of a slot that is handed on: what one leaves behind is there    *)
(* when the next begins.                                                   *)
ReuseClients ==
  {Eager(<<Get>>), Eager(<<Message("getClose", <<>>)>>), Eager(<<Message("post2Close", TwoBytes)>>),
   Eager(<<Post2>>), Eager(<<Message("chunked", Chunk2)>>), Eager(<<Message("noHost", <<>>), Get>>),
   Eager(<<Message("get09", <<>>), Message("chunked09", Chunk2)>>)}

SlotClients == SingleRequests \cup Pipelines \cup Waiting \cup ReuseClients

(* One client on a fresh slot, or two of ReuseClients one after the other. *)
HandedOn == uses = 0 \/ UNCHANGED uses \/ {client, client'} \subseteq ReuseClients
NotHandedOn == slot = "free" /\ uses = 1 /\ client \notin ReuseClients /\ UNCHANGED vars
SlotSpec == Init /\ [][(Next /\ HandedOn) \/ NotHandedOn]_vars

LiveClients == Pipelines \cup Waiting \cup {Eager(<<Message("getClose", <<>>)>>), Eager(<<Message("gzip", <<>>)>>),
   Eager(<<Message("chunked", TooMuch)>>)}
=============================================================================
