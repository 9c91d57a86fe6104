-------------------------------- MODULE Framing --------------------------------
(***************************************************************************)
(* What Connection can only promise a client that frames its requests as   *)
(* the protocol asks: which clients these are, and the inductive invariant *)
(* that says where in such a client's stream the connection stands.        *)
(*                                                                         *)
(* `b` is a client's stream; positions in it count from 0.  A body in      *)
(* chunks is described by the set of positions at which its chunks begin,  *)
(* closed under going on to the next chunk, so that nothing here recurs.   *)
(***************************************************************************)
EXTENDS Connection, FiniteSets

From(b, n) == SubSeq(b, n + 1, Len(b))

(* The head that begins at a ends with the first blank line. *)
HeadEnd(b, a) == a + Least(Occurrences(From(b, a), CRLF \o CRLF)) + 4

(* The chunk that begins at q: where its data are, and how many. *)
DataAt(b, q) == q + crlf_find(From(b, q)) + 2
ChunkLen(b, q) == uint_parse(SizeField(From(b, q), crlf_find(From(b, q))), 16, HTTP_MAX_BODY_LEN)
DataEnd(b, q) == DataAt(b, q) + ChunkLen(b, q).value

(* Chunks that begin at C make up the body p .. e - 1: behind the data of  *)
(* each come CR and LF and the next chunk, and the last, which is empty,   *)
(* ends the body.                                                          *)
ChunksFrom(b, p, e, C) ==
  /\ p \in C
  /\ \A q \in C :
       /\ ChunkLen(b, q).status = "PARSE_OK"
       /\ DataEnd(b, q) + 2 <= e /\ b[DataEnd(b, q) + 1] = "CR" /\ b[DataEnd(b, q) + 2] = "LF"
       /\ IF ChunkLen(b, q).value = 0 THEN DataEnd(b, q) + 2 = e ELSE DataEnd(b, q) + 2 \in C

LineStarts(b, p, e) == {q \in p .. e : q = p \/ b[q] = "LF"}

Decoded(b, C) == UNION {DataAt(b, q) .. (DataEnd(b, q) - 1) : q \in C}

(* Kept alive when it has been answered, if nothing goes wrong. *)
Kept(r) == ~is_http_1_0(r) /\ r.connection # "other"

(* Gets as far as the assignment to keep_alive. *)
Parsed(name) == request_parse(name) = "PARSE_OK" /\ (is_http_1_0(Requests[name]) \/ Requests[name].host)

BodyRefused(r) ==
  \/ CodingRefused(r) \/ FramingRefused(r)
  \/ r.cl.present /\ ContentLength(r).status # "PARSE_OK"

(* The bytes its Content-Length announces. *)
Announced(r) == IF r.cl.present THEN ContentLength(r).value ELSE 0

(* The chunks of a body, of which no more are decoded than body_dechunked  *)
(* holds if the connection is kept alive.                                  *)
ChunkedBody(r, b, p, e, C) ==
  /\ ChunksFrom(b, p, e, C)
  /\ Kept(r) => Cardinality(Decoded(b, C)) <= HTTP_MAX_DECHUNK_SIZE

(* The body p .. e - 1 is of the length that is announced. *)
Framed(r, b, p, e) ==
  IF TransferCoding(r) = "TE_CHUNKED"
  THEN \E C \in SUBSET LineStarts(b, p, e) : ChunkedBody(r, b, p, e, C)
  ELSE e = p + Announced(r)

(* The bytes a .. e - 1 are a request that is refused before keep_alive is *)
(* set, or that does not ask for it, or one with a well-formed body, which *)
(* fits req_buf together with its head if the connection is kept alive.    *)
WellFormed(b, a, e) ==
  LET r == Requests[b[a + 1]]
      p == HeadEnd(b, a)
  IN  /\ Occurrences(From(b, a), CRLF \o CRLF) # {} /\ p <= e /\ e <= Len(b)
      /\ Parsed(b[a + 1]) =>
           IF BodyRefused(r) THEN ~Kept(r)
           ELSE Framed(r, b, p, e) /\ (Kept(r) /\ p < e => e - a <= HTTP_MAX_REQUEST_LEN)

(* The client asks for a 100 Continue before it sends the body p .. e - 1. *)
AsksToGoOn(name, p, e) ==
  /\ Parsed(name) /\ ~BodyRefused(Requests[name])
  /\ ~is_http_1_0(Requests[name]) /\ Requests[name].expect /\ p < e

(* The stream is one well-formed request after the other, and the client   *)
(* waits only where the server owes it a 100 Continue.                     *)
WellFramed(c) ==
  /\ Start(c, 1) = 0
  /\ \A i \in DOMAIN c.starts :
       /\ WellFormed(c.bytes, c.starts[i], Start(c, i + 1))
       /\ \A j \in 1 .. i - 1 : Start(c, j + 1) <= c.starts[i]
  /\ \A h \in c.holds : \E i \in DOMAIN c.starts :
       /\ h = HeadEnd(c.bytes, c.starts[i])
       /\ AsksToGoOn(c.bytes[c.starts[i] + 1], h, Start(c, i + 1))

-----------------------------------------------------------------------------
(* Where the connection stands in the stream of such a client. *)

(* Where the next unanswered request ends. *)
NextEnd == Start(client, Len(answers) + 2)

(* From the end of its head until it is built, the fields describe the     *)
(* next unanswered request, whose bytes req_buf begins with.               *)
HeadFields ==
  LET r == Requests[req]
  IN  /\ Len(answers) < Len(client.starts) /\ base = NextStart
      /\ req = client.bytes[base + 1] /\ Parsed(req) /\ ~BodyRefused(r)
      /\ base + body_start = HeadEnd(client.bytes, base)
      /\ body_coding = TransferCoding(r) /\ (body_coding # "TE_CHUNKED" => body_len = Announced(r))
      /\ keep_alive = (IF Kept(r) THEN 1 ELSE 0)
      /\ released <= base + body_start

HeadPhases == {"CONN_SENDING_100", "CONN_READING_BODY_CL", "CONN_READING_BODY_CHUNKED", "CONN_BUILDING"}

HeadTaken == phase \in HeadPhases => HeadFields

(* The decoder has eaten the stream up to x. *)
ChunkPos(b, C, dec, x) ==
  /\ dec.phase = "CHUNK_SIZE" => x \in C
  /\ dec.phase = "CHUNK_DATA" => \E q \in C : DataAt(b, q) <= x /\ x + dec.remaining = DataEnd(b, q)
  /\ dec.phase = "CHUNK_TRAIL_CR" => \E q \in C : ChunkLen(b, q).value > 0 /\ x = DataEnd(b, q)
  /\ dec.phase = "CHUNK_TRAIL_LF" => \E q \in C : ChunkLen(b, q).value > 0 /\ x = DataEnd(b, q) + 1
  /\ dec.phase = "CHUNK_TRAILER" => \E q \in C : ChunkLen(b, q).value = 0 /\ x = DataEnd(b, q)
  /\ dec.phase # "CHUNK_DONE"

(* What has been decoded lies before x. *)
DecodedTo(b, C, n, x) == n <= Cardinality({y \in Decoded(b, C) : y < x})

ChunksFollowed ==
  LET p == base + body_start
      x == base + body_start + st.consumed
  IN  \E C \in SUBSET LineStarts(client.bytes, p, NextEnd) :
        /\ ChunkedBody(Requests[req], client.bytes, p, NextEnd, C)
        /\ ChunkPos(client.bytes, C, st.dec, x)
        /\ DecodedTo(client.bytes, C, dechunked, x)

BodyFollowed ==
  /\ phase = "CONN_READING_BODY_CL" => body_coding # "TE_CHUNKED"
  /\ phase = "CONN_READING_BODY_CHUNKED" => body_coding = "TE_CHUNKED" /\ ChunksFollowed
  /\ phase = "CONN_BUILDING" => NextEnd = base + (IF next_req_offset > 0 THEN next_req_offset ELSE size)

(* What keep_alive and body_len were before the head that begins at a was  *)
(* read makes no difference: they are clear, or the request sets them.     *)
ReadAfresh(b, a) ==
  LET r == Requests[b[a + 1]]
  IN  /\ keep_alive # 0 => Parsed(b[a + 1]) /\ Kept(r) /\ HeadEnd(b, a) - a <= HTTP_MAX_REQUEST_LEN
      /\ body_len # 0 /\ Parsed(b[a + 1]) => BodyRefused(r) \/ r.cl.present \/ TransferCoding(r) = "TE_CHUNKED"

BetweenRequests ==
  phase = "CONN_READING_REQUEST" => base = NextStart /\ ReadAfresh(client.bytes, base) /\ released <= base

(* A connection that will be kept alive has left the request it answers    *)
(* behind, unless its peer is gone and the response goes nowhere.          *)
Replying ==
  phase \in Sending =>
    /\ Len(answers) < Len(client.starts) /\ resp.pos = NextStart
    /\ \/ keep_alive = 0
       \/ phase = "CONN_SENDING_RESPONSE" /\ peer = "gone"
       \/ base = NextEnd /\ resp.connection = "keep-alive" /\ released <= base

(* The client keeps to its holds, and a body is read only when none before *)
(* it is left.                                                             *)
HoldsKept ==
  /\ \A h \in client.holds : h <= released \/ arrived <= h
  /\ phase \in {"CONN_READING_BODY_CL", "CONN_READING_BODY_CHUNKED"} =>
       \A h \in client.holds : h <= base + body_start => h <= released

Following == HeadTaken /\ BodyFollowed /\ BetweenRequests /\ Replying /\ HoldsKept

(* The client gave up before it had sent all.                              *)
CutShort == peer # "open" /\ arrived < Len(client.bytes) /\ "shut" \in Faults

(* A connection follows the stream of a well-framed client until that      *)
(* gives up and the connection notices, which it does before it parks to   *)
(* read once more.                                                         *)
FramingInv ==
  /\ peer = "shut" /\ slot # "free" => arrived = Len(client.bytes) \/ "shut" \in Faults
  /\ WellFramed(client) /\ slot # "free" /\ (CutShort => Parked /\ phase \in Reading) => Following

(* No client's first request depends on a field that connection_init       *)
(* leaves as the client before it left it.                                 *)
CleanHandOver == Accept => ReadAfresh(client.bytes, 0)'
=============================================================================
