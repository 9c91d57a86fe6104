------------------------------ MODULE Connection ------------------------------
(***************************************************************************)
(* One slot of the client set: the Connection that lives in it, driven     *)
(* through the requests of one client connection after another by          *)
(* connection_step_process, and the client at the other end of the socket. *)
(*                                                                         *)
(* The server is one thread, but the client and the kernel are not: bytes  *)
(* arrive, the peer shuts down or resets, and the send buffer fills while  *)
(* a step runs.  One action is one pass of the innermost loop of a step    *)
(* function, that is, at most one recv, send or pull, together with        *)
(* everything the code does up to the next one.                            *)
(*                                                                         *)
(* Bytes.  A client's byte stream is a sequence of strings.  A request     *)
(* line with its headers, up to the final blank line, is one string (its   *)
(* name); what request_parse makes of it is the constant Requests.  The    *)
(* blank line and chunked bodies keep their CR, LF and digits.  req_buf    *)
(* holds the window base + 1 .. base + size of the stream, because the     *)
(* code only ever appends at its end and moves its tail to its front.      *)
(*                                                                         *)
(* An operator whose comment begins with "Mistake" is no part of the model: *)
(* it is what a slip in the operator after it would look like, and the     *)
(* README says which property notices.                                     *)
(*                                                                         *)
(* C struct fields keep their names.  A field the code leaves alone when   *)
(* a slot is handed to the next client keeps its value here, too.          *)
(***************************************************************************)
EXTENDS HttpBody

CONSTANTS
  HTTP_MAX_REQUEST_LEN,       \* capacity of req_buf
  HTTP_MAX_DECHUNK_SIZE,      \* capacity of body_dechunked
  HTTP_RESPONSE_BUFFER_SIZE,  \* capacity of resp_buf
  HTTP_STREAM_CHUNK_SIZE,     \* the most one pull may return
  HTTP_MAX_REQUESTS,          \* requests served per connection
  CONTINUE_100_SIZE,          \* bytes of the interim response
  ErrorSize,                  \* bytes of a serialised error response
  ResponseSizes,              \* bytes of the other serialised responses
  FrameOverhead,              \* bytes chunk_frame adds to a block
  LastFrameSize,              \* bytes of chunk_frame_last
  Requests,                   \* request name -> what the parsers find in it
  Clients,                    \* what a client may do with its connection
  Faults,                     \* which of "shut", "gone", "block", "pull" happen
  MaxBlocks,                  \* bound: blocks a streamed body consists of
  MaxUses,                    \* bound: clients the slot serves
  MaxWire                     \* bound: bytes partial sends put on the wire for one response

Byte == STRING

ParseFailures ==
  {"PARSE_BAD_REQUEST", "PARSE_URI_TOO_LONG", "PARSE_HEADER_TOO_LONG", "PARSE_PAYLOAD_TOO_LARGE",
   "PARSE_VERSION_NOT_SUPPORTED", "PARSE_NOT_IMPLEMENTED", "PARSE_SERVER_ERROR"}

(* parse: the verdict of request_parse on everything but the method;       *)
(* te: one class per Transfer-Encoding header; cl: the digits of the       *)
(* Content-Length, if there is one.                                        *)
Request ==
  [method : STRING, version : {"0.9", "1.0", "1.1"}, parse : ParseFailures \cup {"PARSE_OK"},
   host : BOOLEAN, connection : {"absent", "keep-alive", "other"},
   te : Seq({"chunked", "unsupported", "malformed"}),
   cl : [present : BOOLEAN, value : Seq(Byte)], expect : BOOLEAN]

(* starts: where the requests of the client's stream begin; holds: the     *)
(* offsets at which it waits for a 100 Continue before it goes on.         *)
Client == [bytes : Seq(Byte), starts : Seq(Nat), holds : SUBSET Nat]

ASSUME SizesAssumption ==
  /\ HTTP_MAX_REQUEST_LEN \in Nat \ {0} /\ HTTP_MAX_DECHUNK_SIZE \in Nat
  /\ HTTP_RESPONSE_BUFFER_SIZE \in Nat  /\ HTTP_STREAM_CHUNK_SIZE \in Nat \ {0}
  /\ HTTP_MAX_REQUESTS \in Nat \ {0}    /\ CONTINUE_100_SIZE \in Nat \ {0}
  /\ FrameOverhead \in Nat              /\ MaxBlocks \in Nat /\ MaxUses \in Nat /\ MaxWire \in Nat
  /\ ErrorSize \in 1 .. HTTP_RESPONSE_BUFFER_SIZE
  /\ LastFrameSize \in 1 .. HTTP_RESPONSE_BUFFER_SIZE
  /\ ResponseSizes \subseteq 1 .. HTTP_RESPONSE_BUFFER_SIZE

ASSUME CatalogueAssumption ==
  /\ \A name \in DOMAIN Requests : name \in STRING /\ Requests[name] \in Request
  /\ Clients \subseteq Client

VARIABLES
  \* the client and the socket
  client,           \* the client the slot serves, or served last
  arrived,          \* bytes of its stream that have reached the socket
  released,         \* the last hold a 100 Continue has lifted
  peer,             \* "open", "shut" (its sending side) or "gone" (reset)
  \* the slot and the event loop
  slot,             \* "free" (fd -1), "parked" in poll, "stepping" inside
                    \* connection_step_process, or "dead": an assert failed there
  uses,             \* clients accepted so far
  \* the Connection
  phase, keep_alive, body_start, body_len, body_coding, next_req_offset, requests,
  req,              \* req_parsed, by name, or NoRequest
  req_body_len,     \* req_parsed.body_len
  base, size,       \* the window req_buf holds
  dechunked,        \* body_dechunked.size
  resp,             \* resp_buf: its size and what it holds
  producer,         \* the stream source, or NoProducer
  st,               \* the union of per-phase scratch; `arm` names the live member
  \* history
  wire,             \* bytes of resp_buf (or of the 100) put on the wire so far
  answers           \* the responses this client got in full

clientVars == <<client, arrived, released, peer>>
slotVars   == <<slot, uses>>
headVars   == <<keep_alive, body_start, body_len, body_coding>>
bodyVars   == <<next_req_offset, req_body_len, dechunked>>
bufVars    == <<base, size>>
respVars   == <<resp, wire>>
vars == <<clientVars, slotVars, phase, headVars, bodyVars, bufVars, respVars,
          requests, req, producer, st, answers>>

NoRequest  == "no request"
NoProducer == [pull |-> "NULL", left |-> 0]
NoClient   == [bytes |-> <<>>, starts |-> <<>>, holds |-> {}]

(* What resp_buf holds: its size, the request it answers, by where it      *)
(* begins, and which Connection header and status it carries.              *)
Reply(n, pos, connection, status) ==
  [size |-> n, pos |-> pos, connection |-> connection, status |-> status]
NoResponse == Reply(0, 0, "close", "none")

Reading == {"CONN_READING_REQUEST", "CONN_READING_BODY_CL", "CONN_READING_BODY_CHUNKED"}
Sending == {"CONN_SENDING_RESPONSE", "CONN_SENDING_RESPONSE_STREAM"}
Phases  == Reading \cup Sending \cup {"CONN_SENDING_100", "CONN_BUILDING", "CONN_CLOSED"}

SendArm(n)       == [arm |-> "send", sent |-> n]
ClArm(n)         == [arm |-> "cl", received |-> n]
ChunkedArm(d, n) == [arm |-> "chunked", dec |-> d, consumed |-> n]

(* Mistake: the cursor starts again at every wake-up.  *)
StreamArmRestarted(p, n) == [arm |-> "stream", phase |-> p, sent |-> 0]

StreamArm(p, n) == [arm |-> "stream", phase |-> p, sent |-> n]

StreamPhases == {"STREAM_HEADER", "STREAM_PULL", "STREAM_DRAIN", "STREAM_TRAILER", "STREAM_DONE"}

-----------------------------------------------------------------------------
(* Leaving a step.  connection_step_process calls the next step while the  *)
(* phase changes, and returns when it did not, or is CONN_CLOSED;          *)
(* server_run then asks conn_phase_event what to poll for and closes.      *)

(* Mistake: one step per wake-up, without the do ... while. *)
AdvanceOnce(next) == phase' = next /\ slot' = "parked" /\ UNCHANGED uses

Advance(next) == phase' = next /\ UNCHANGED slotVars

(* Mistake: POLLIN while a response waits to be sent. *)
conn_phase_event_in(ph) == IF ph \in Reading \cup Sending THEN "POLLIN" ELSE "none"

(* conn_phase_event has no case for CONN_SENDING_100: assert(0). *)
conn_phase_event(ph) == IF ph \in Reading THEN "POLLIN" ELSE IF ph \in Sending THEN "POLLOUT" ELSE "none"

Park ==
  /\ slot' = IF conn_phase_event(phase) = "none" THEN "dead" ELSE "parked"
  /\ UNCHANGED <<phase, uses>>

Close == phase' = "CONN_CLOSED" /\ slot' = "free" /\ UNCHANGED uses

-----------------------------------------------------------------------------
(* The socket *)

Unread == arrived - (base + size)

(* recv into the free end of req_buf *)
RecvBytes ==
  /\ Unread > 0 /\ size < HTTP_MAX_REQUEST_LEN
  /\ size' = size + (IF Unread < HTTP_MAX_REQUEST_LEN - size THEN Unread ELSE HTTP_MAX_REQUEST_LEN - size)
  /\ UNCHANGED base

RecvWouldBlock == Unread = 0 /\ peer = "open"   /\ size < HTTP_MAX_REQUEST_LEN
RecvFails      == Unread = 0 /\ peer # "open"   /\ size < HTTP_MAX_REQUEST_LEN  \* 0, or an error

(* send from offset `from`: n bytes of `of` are taken, none when the       *)
(* kernel's buffer is full.                                                *)
SendAll(of, from)     == peer # "gone" /\ wire' = wire + (of - from)
SendSome(of, from, n) ==
  /\ peer # "gone" /\ "block" \in Faults /\ n < of - from
  /\ wire + n <= MaxWire /\ wire' = wire + n
SendFails             == peer = "gone" /\ UNCHANGED wire

ReqBuf == SubSeq(client.bytes, base + 1, base + size)

-----------------------------------------------------------------------------
(* Replies the connection makes by itself *)

phase_send_begin == st' = SendArm(0) /\ Advance("CONN_SENDING_RESPONSE")

(* Mistake: the phase is set without phase_send_begin, so that st still    *)
(* holds the scratch of the phase before.                                  *)
ErrorReplyInPlace(status) ==
  /\ resp' = Reply(ErrorSize, base, "close", status)
  /\ wire' = 0
  /\ UNCHANGED st /\ Advance("CONN_SENDING_RESPONSE")

(* response_error_serialize announces `Connection: close`, whatever        *)
(* conn->keep_alive says; conn->keep_alive is not touched.                 *)
ErrorReply(status) ==
  /\ resp' = Reply(ErrorSize, base, "close", status)
  /\ wire' = 0
  /\ phase_send_begin

(* Reuse of a kept-alive connection: everything determined per request.    *)
connection_reset ==
  /\ st' = SendArm(0)
  /\ resp' = NoResponse
  /\ req' = NoRequest /\ req_body_len' = 0
  /\ keep_alive' = 0 /\ body_start' = 0 /\ body_len' = 0 /\ body_coding' = "TE_NONE"

(* The end of both step_response_send and step_response_send_stream.       *)
AnswerSent ==
  /\ answers' = Append(answers, [pos |-> resp.pos, connection |-> resp.connection, status |-> resp.status])
  /\ requests' = requests + 1
  /\ \/ /\ keep_alive = 0 \/ requests + 1 >= HTTP_MAX_REQUESTS
        /\ Close /\ UNCHANGED <<st, resp, req, req_body_len, headVars>>
     \/ /\ keep_alive = 1 /\ requests + 1 < HTTP_MAX_REQUESTS
        /\ connection_reset /\ Advance("CONN_READING_REQUEST")

-----------------------------------------------------------------------------
(* The header block *)

http_method_parse(m) == IF m \in {"GET", "POST", "PUT", "DELETE"} THEN m ELSE "UNKNOWN"

request_parse(name) ==
  IF name \notin DOMAIN Requests \/ http_method_parse(Requests[name].method) = "UNKNOWN"
  THEN "PARSE_BAD_REQUEST"
  ELSE Requests[name].parse

Terminators == Occurrences(ReqBuf, CRLF \o CRLF)

is_http_1_0(r) == r.version = "1.0"

(* transfer_encoding_parse runs on one header after the other, until one   *)
(* is unsupported or malformed.                                            *)
Uncoded(r) == {i \in DOMAIN r.te : r.te[i] # "chunked"}

TransferCoding(r) ==
  IF r.te = <<>> THEN "TE_NONE"
  ELSE IF Uncoded(r) = {} THEN "TE_CHUNKED"
  ELSE IF r.te[Least(Uncoded(r))] = "unsupported" THEN "TE_UNSUPPORTED" ELSE "TE_NONE"

CodingRefused(r) == Uncoded(r) # {}

CodingStatus(r) == IF TransferCoding(r) = "TE_UNSUPPORTED" THEN "PARSE_NOT_IMPLEMENTED" ELSE "PARSE_BAD_REQUEST"

(* Chunked under HTTP/1.0, or together with a Content-Length.              *)
FramingRefused(r) == TransferCoding(r) = "TE_CHUNKED" /\ (is_http_1_0(r) \/ r.cl.present)

ContentLength(r) == uint_parse(r.cl.value, 10, HTTP_MAX_BODY_LEN)

phase_body_dispatch(coding, len, start) ==
  \/ /\ coding = "TE_CHUNKED"
     /\ st' = ChunkedArm(DecoderInit, 0) /\ dechunked' = 0
     /\ Advance("CONN_READING_BODY_CHUNKED") /\ UNCHANGED <<next_req_offset, req_body_len>>
  \/ /\ coding # "TE_CHUNKED" /\ len = 0
     /\ req_body_len' = 0 /\ next_req_offset' = start
     /\ Advance("CONN_BUILDING") /\ UNCHANGED <<st, dechunked>>
  \/ /\ coding # "TE_CHUNKED" /\ len > 0
     /\ st' = ClArm(size - start)
     /\ Advance("CONN_READING_BODY_CL") /\ UNCHANGED bodyVars

(* Mistake: a client that has sent no body yet is not told to go on. *)
ExpectsContinueLate(r, has_body, start) == ~is_http_1_0(r) /\ has_body /\ size < start /\ r.expect

ExpectsContinue(r, has_body, start) == ~is_http_1_0(r) /\ has_body /\ size <= start /\ r.expect

(* Line 175 on: body_len is what this Content-Length says or, without one, *)
(* what the field held before.                                             *)
HeaderAccepted(r, start, len) ==
  LET has_body == TransferCoding(r) = "TE_CHUNKED" \/ (r.cl.present /\ len > 0)
      wait100  == ExpectsContinue(r, has_body, start)
  IN  /\ body_len' = len
      /\ IF r.method = "HEAD" /\ has_body
         THEN ErrorReply("PARSE_BAD_REQUEST") /\ UNCHANGED bodyVars
         ELSE \/ /\ ~wait100
                 /\ phase_body_dispatch(TransferCoding(r), len, start) /\ UNCHANGED respVars
              \/ /\ wait100
                 /\ st' = SendArm(0) /\ wire' = 0
                 /\ Advance("CONN_SENDING_100") /\ UNCHANGED <<resp, bodyVars>>

RefuseWith(status) == ErrorReply(status) /\ UNCHANGED <<body_len, bodyVars>>

(* From the host check on, with the assignments in the order of the code.  *)
HeaderChecked(r, start) ==
  /\ keep_alive' = IF ~is_http_1_0(r) /\ r.connection # "other" THEN 1 ELSE keep_alive
  /\ body_coding' = TransferCoding(r)
  /\ \/ CodingRefused(r) /\ RefuseWith(CodingStatus(r))
     \/ /\ ~CodingRefused(r) /\ FramingRefused(r)
        /\ RefuseWith("PARSE_BAD_REQUEST")
     \/ /\ ~CodingRefused(r) /\ ~FramingRefused(r)
        /\ \/ ~r.cl.present /\ HeaderAccepted(r, start, body_len)
           \/ /\ r.cl.present /\ ContentLength(r).status # "PARSE_OK"
              /\ RefuseWith(ContentLength(r).status)
           \/ /\ r.cl.present /\ ContentLength(r).status = "PARSE_OK"
              /\ HeaderAccepted(r, start, ContentLength(r).value)

(* A complete header block is in the buffer. *)
HeaderComplete ==
  LET name  == ReqBuf[1]
      start == Least(Terminators) + 4
  IN  /\ slot = "stepping" /\ phase = "CONN_READING_REQUEST" /\ Terminators # {}
      /\ req' = name
      /\ \/ /\ request_parse(name) # "PARSE_OK"
            /\ RefuseWith(request_parse(name)) /\ UNCHANGED <<keep_alive, body_start, body_coding>>
         \/ /\ request_parse(name) = "PARSE_OK"
            /\ body_start' = start
            /\ \/ /\ ~is_http_1_0(Requests[name]) /\ ~Requests[name].host
                  /\ RefuseWith("PARSE_BAD_REQUEST") /\ UNCHANGED <<keep_alive, body_coding>>
               \/ /\ is_http_1_0(Requests[name]) \/ Requests[name].host
                  /\ HeaderChecked(Requests[name], start)
      /\ UNCHANGED <<clientVars, bufVars, requests, producer, answers>>

(* One more pass of conn_recv_header's loop. *)
HeaderRecv ==
  /\ slot = "stepping" /\ phase = "CONN_READING_REQUEST" /\ Terminators = {}
  /\ \/ /\ size >= HTTP_MAX_REQUEST_LEN
        /\ RefuseWith("PARSE_HEADER_TOO_LONG") /\ UNCHANGED bufVars
     \/ RecvBytes      /\ UNCHANGED <<slotVars, phase, st, respVars, bodyVars, body_len>>
     \/ RecvFails      /\ Close /\ UNCHANGED <<bufVars, st, respVars, bodyVars, body_len>>
     \/ RecvWouldBlock /\ Park  /\ UNCHANGED <<bufVars, st, respVars, bodyVars, body_len>>
  /\ UNCHANGED <<clientVars, req, keep_alive, body_start, body_coding, requests, producer, answers>>

-----------------------------------------------------------------------------
(* The interim response *)

Send100 ==
  /\ slot = "stepping" /\ phase = "CONN_SENDING_100"
  /\ \/ /\ SendAll(CONTINUE_100_SIZE, st.sent)
        /\ phase_body_dispatch(body_coding, body_len, body_start)
        /\ released' = base + body_start
     \/ /\ \E n \in 0 .. CONTINUE_100_SIZE :
             SendSome(CONTINUE_100_SIZE, st.sent, n) /\ st' = SendArm(st.sent + n)
        /\ Park /\ UNCHANGED <<released, bodyVars>>
     \/ SendFails /\ Close /\ UNCHANGED <<released, st, bodyVars>>
  /\ UNCHANGED <<client, arrived, peer, headVars, bufVars, resp, req, requests, producer, answers>>

-----------------------------------------------------------------------------
(* Bodies *)

(* conn_recv_body_cl: what has been received may reach into the next       *)
(* request, and the body handed on is all that has been received.          *)
BodyClComplete ==
  /\ slot = "stepping" /\ phase = "CONN_READING_BODY_CL" /\ st.received >= body_len
  /\ req_body_len' = st.received
  /\ next_req_offset' = IF st.received > body_len THEN body_start + body_len ELSE 0
  /\ Advance("CONN_BUILDING")
  /\ UNCHANGED <<clientVars, headVars, bufVars, dechunked, respVars, req, requests, producer, st, answers>>

BodyClRecv ==
  /\ slot = "stepping" /\ phase = "CONN_READING_BODY_CL" /\ st.received < body_len
  /\ \/ (size >= HTTP_MAX_REQUEST_LEN \/ RecvFails) /\ ErrorReply("PARSE_BAD_REQUEST") /\ UNCHANGED bufVars
     \/ /\ RecvBytes /\ st' = ClArm(st.received + (size' - size))
        /\ UNCHANGED <<slotVars, phase, respVars>>
     \/ RecvWouldBlock /\ Park /\ UNCHANGED <<bufVars, respVars, st>>
  /\ UNCHANGED <<clientVars, headVars, bodyVars, req, requests, producer, answers>>

(* One pass of conn_recv_body_chunked: a decoding step over what is        *)
(* buffered and, when the decoder asks for more, a recv.                   *)
BodyChunked ==
  LET cr       == chunk_advance(st.dec, SubSeq(ReqBuf, body_start + st.consumed + 1, size),
                                HTTP_MAX_DECHUNK_SIZE - dechunked)
      consumed == st.consumed + cr.next
  IN
  /\ slot = "stepping" /\ phase = "CONN_READING_BODY_CHUNKED"
  /\ dechunked' = dechunked + cr.bytes_written
  /\ \/ /\ cr.status \notin {"PARSE_OK", "PARSE_INCOMPLETE"}
        /\ ErrorReply(cr.status) /\ UNCHANGED <<bufVars, req_body_len, next_req_offset>>
     \/ /\ cr.status = "PARSE_OK" /\ cr.dec.phase = "CHUNK_DONE"
        /\ req_body_len' = dechunked' /\ next_req_offset' = body_start + consumed
        /\ st' = ChunkedArm(cr.dec, consumed)
        /\ Advance("CONN_BUILDING") /\ UNCHANGED <<bufVars, respVars>>
     \/ /\ cr.status = "PARSE_OK" /\ cr.dec.phase # "CHUNK_DONE"
        /\ st' = ChunkedArm(cr.dec, consumed)
        /\ UNCHANGED <<slotVars, phase, bufVars, respVars, req_body_len, next_req_offset>>
     \/ /\ cr.status = "PARSE_INCOMPLETE"
        /\ \/ /\ size >= HTTP_MAX_REQUEST_LEN /\ ErrorReply("PARSE_PAYLOAD_TOO_LARGE") /\ UNCHANGED bufVars
           \/ RecvFails /\ ErrorReply("PARSE_BAD_REQUEST") /\ UNCHANGED bufVars
           \/ /\ RecvBytes /\ st' = ChunkedArm(cr.dec, consumed)
              /\ UNCHANGED <<slotVars, phase, respVars>>
           \/ /\ RecvWouldBlock /\ st' = ChunkedArm(cr.dec, consumed)
              /\ Park /\ UNCHANGED <<bufVars, respVars>>
        /\ UNCHANGED <<req_body_len, next_req_offset>>
  /\ UNCHANGED <<clientVars, headVars, req, requests, producer, answers>>

-----------------------------------------------------------------------------
(* Building the response.  Which handler or registry entry answers, what   *)
(* it returns and whether it fits resp_buf is left open.                   *)

(* Mistake: the offset of the last request is applied to the next one. *)
request_consume_stale ==
  /\ IF next_req_offset > 0
     THEN base' = base + next_req_offset /\ size' = size - next_req_offset
     ELSE base' = base + size /\ size' = 0
  /\ UNCHANGED next_req_offset

(* Mistake: pipelined bytes are dropped with the request. *)
request_consume_all == base' = base + size /\ size' = 0 /\ next_req_offset' = 0

(* request_consume: pipelined bytes move to the front of req_buf.          *)
request_consume ==
  /\ IF next_req_offset > 0
     THEN base' = base + next_req_offset /\ size' = size - next_req_offset
     ELSE base' = base + size /\ size' = 0
  /\ next_req_offset' = 0

(* Mistake: every response announces the close, kept-alive ones included. *)
SerialisedClose(n, status) == resp' = Reply(n, base, "close", status) /\ wire' = 0

Serialised(n, status) ==
  /\ resp' = Reply(n, base, IF keep_alive = 1 THEN "keep-alive" ELSE "close", status)
  /\ wire' = 0

ResponseBuild ==
  /\ slot = "stepping" /\ phase = "CONN_BUILDING"
  /\ \/ /\ \E n \in ResponseSizes : Serialised(n, "HANDLED")
        /\ phase_send_begin /\ UNCHANGED producer
     \/ /\ Serialised(ErrorSize, "PARSE_SERVER_ERROR")     \* did not fit: a 500, not an ErrorReply
        /\ phase_send_begin /\ UNCHANGED producer
     \/ /\ \E n \in ResponseSizes : Serialised(n, "HANDLED")
        /\ \E blocks \in 0 .. MaxBlocks : producer' = [pull |-> "set", left |-> blocks]
        /\ st' = StreamArm("STREAM_HEADER", 0)
        /\ Advance("CONN_SENDING_RESPONSE_STREAM")
  /\ request_consume
  /\ UNCHANGED <<clientVars, headVars, req, req_body_len, dechunked, requests, answers>>

-----------------------------------------------------------------------------
(* Sending a buffered response.  SEND_HAS_MORE goes through                *)
(* phase_send_begin, which starts the cursor again.                        *)
ResponseSend ==
  /\ slot = "stepping" /\ phase = "CONN_SENDING_RESPONSE"
  /\ \/ SendAll(resp.size, st.sent) /\ AnswerSent
     \/ /\ \E n \in 0 .. HTTP_RESPONSE_BUFFER_SIZE : SendSome(resp.size, st.sent, n)
        /\ st' = SendArm(0) /\ Park
        /\ UNCHANGED <<answers, requests, resp, req, req_body_len, headVars>>
     \/ SendFails /\ Close /\ UNCHANGED <<answers, requests, st, resp, req, req_body_len, headVars>>
  /\ UNCHANGED <<clientVars, bufVars, next_req_offset, dechunked, producer>>

-----------------------------------------------------------------------------
(* Sending a streamed response *)

stream_release == producer' = NoProducer

(* Mistake: an aborted stream keeps its source. *)
stream_abort_held == UNCHANGED producer /\ st' = StreamArm("STREAM_DONE", st.sent) /\ Close

stream_abort == stream_release /\ st' = StreamArm("STREAM_DONE", st.sent) /\ Close

(* After SEND_OK in each phase that sends. *)
StreamAfter ==
  [STREAM_HEADER  |-> IF req \in DOMAIN Requests /\ Requests[req].method = "HEAD" THEN "STREAM_DONE" ELSE "STREAM_PULL",
   STREAM_DRAIN   |-> "STREAM_PULL",
   STREAM_TRAILER |-> "STREAM_DONE"]

StreamUntouched ==
  UNCHANGED <<clientVars, headVars, bufVars, bodyVars, req, requests, answers>>

StreamSend ==
  /\ slot = "stepping" /\ phase = "CONN_SENDING_RESPONSE_STREAM" /\ st.phase \in DOMAIN StreamAfter
  /\ \/ /\ SendAll(resp.size, st.sent)
        /\ st' = StreamArm(StreamAfter[st.phase], 0)
        /\ UNCHANGED <<slotVars, phase, producer>>
     \/ /\ \E n \in 0 .. HTTP_RESPONSE_BUFFER_SIZE :
             SendSome(resp.size, st.sent, n) /\ st' = StreamArm(st.phase, st.sent + n)
        /\ Park /\ UNCHANGED producer
     \/ SendFails /\ stream_abort
  /\ UNCHANGED resp /\ StreamUntouched

(* A frame replaces what resp_buf held. *)
Frame(n, next) ==
  /\ resp' = [resp EXCEPT !.size = n] /\ wire' = 0
  /\ st' = StreamArm(next, 0)
  /\ UNCHANGED <<slotVars, phase>>

(* pull returns a block, 0 at the end, or fails; chunk_frame fails when    *)
(* the framed block does not fit resp_buf.                                 *)
StreamPull ==
  /\ slot = "stepping" /\ phase = "CONN_SENDING_RESPONSE_STREAM" /\ st.phase = "STREAM_PULL"
  /\ \/ producer.left = 0 /\ Frame(LastFrameSize, "STREAM_TRAILER") /\ UNCHANGED producer
     \/ /\ producer.left > 0
        /\ \E n \in 1 .. HTTP_STREAM_CHUNK_SIZE :
             \/ /\ n + FrameOverhead <= HTTP_RESPONSE_BUFFER_SIZE
                /\ producer' = [producer EXCEPT !.left = @ - 1]
                /\ Frame(n + FrameOverhead, "STREAM_DRAIN")
             \/ n + FrameOverhead > HTTP_RESPONSE_BUFFER_SIZE /\ stream_abort /\ UNCHANGED respVars
     \/ "pull" \in Faults /\ stream_abort /\ UNCHANGED respVars
  /\ StreamUntouched

StreamDone ==
  /\ slot = "stepping" /\ phase = "CONN_SENDING_RESPONSE_STREAM" /\ st.phase = "STREAM_DONE"
  /\ stream_release
  /\ AnswerSent
  /\ UNCHANGED <<clientVars, bufVars, next_req_offset, dechunked, wire>>

-----------------------------------------------------------------------------
(* The event loop's part: accept into the slot, and react to poll.         *)

(* Mistake: the count of the slot's last client goes on. *)
connection_init_counting ==
  /\ phase' = "CONN_READING_REQUEST" /\ base' = 0 /\ size' = 0 /\ dechunked' = 0
  /\ resp' = NoResponse /\ req' = NoRequest /\ req_body_len' = 0 /\ st' = SendArm(0)
  /\ UNCHANGED <<requests, headVars, next_req_offset, producer>>

(* connection_init.  keep_alive, body_start, body_len, body_coding,        *)
(* next_req_offset and producer keep what the previous client left.        *)
connection_init ==
  /\ phase' = "CONN_READING_REQUEST" /\ base' = 0 /\ size' = 0 /\ dechunked' = 0
  /\ resp' = NoResponse /\ req' = NoRequest /\ req_body_len' = 0 /\ st' = SendArm(0)
  /\ requests' = 0
  /\ UNCHANGED <<headVars, next_req_offset, producer>>

Accept ==
  /\ slot = "free" /\ uses < MaxUses
  /\ client' \in Clients
  /\ arrived' = 0 /\ released' = 0 /\ peer' = "open"
  /\ slot' = "parked" /\ uses' = uses + 1
  /\ wire' = 0 /\ answers' = <<>>
  /\ connection_init

(* The revents that get a slot stepped: POLLIN | POLLHUP | POLLOUT.        *)
Readable == Unread > 0 \/ peer # "open"

PollWake ==
  /\ slot = "parked"
  /\ \/ conn_phase_event(phase) = "POLLIN" /\ Readable
     \/ conn_phase_event(phase) = "POLLOUT"
  /\ slot' = "stepping"
  /\ UNCHANGED <<clientVars, uses, phase, headVars, bodyVars, bufVars, respVars,
                 requests, req, producer, st, answers>>

-----------------------------------------------------------------------------
(* The client *)

serverVars == <<slotVars, phase, headVars, bodyVars, bufVars, respVars,
                requests, req, producer, st, answers>>

Connected == slot \in {"parked", "stepping"}

(* It never passes a hold the server has not released. *)
Arrive ==
  /\ Connected /\ peer = "open"
  /\ \E n \in 1 .. (Len(client.bytes) - arrived) :
       /\ \A h \in client.holds : h <= released \/ arrived + n <= h
       /\ arrived' = arrived + n
  /\ UNCHANGED <<client, released, peer, serverVars>>

Shut ==
  /\ Connected /\ peer = "open"
  /\ arrived = Len(client.bytes) \/ "shut" \in Faults
  /\ peer' = "shut"
  /\ UNCHANGED <<client, arrived, released, serverVars>>

Reset ==
  /\ Connected /\ peer # "gone" /\ "gone" \in Faults
  /\ peer' = "gone"
  /\ UNCHANGED <<client, arrived, released, serverVars>>

-----------------------------------------------------------------------------
Init ==
  /\ client = NoClient /\ arrived = 0 /\ released = 0 /\ peer = "shut"
  /\ slot = "free" /\ uses = 0
  /\ phase = "CONN_READING_REQUEST"
  /\ keep_alive = 0 /\ body_start = 0 /\ body_len = 0 /\ body_coding = "TE_NONE"
  /\ next_req_offset = 0 /\ req_body_len = 0 /\ dechunked = 0
  /\ base = 0 /\ size = 0
  /\ resp = NoResponse /\ wire = 0
  /\ requests = 0 /\ req = NoRequest /\ producer = NoProducer
  /\ st = SendArm(0) /\ answers = <<>>

(* The process is gone, or the last client of the bounded run is served.   *)
Halted == (slot = "dead" \/ (slot = "free" /\ uses = MaxUses)) /\ UNCHANGED vars

Step ==
  \/ HeaderComplete \/ HeaderRecv \/ Send100 \/ BodyClComplete \/ BodyClRecv \/ BodyChunked
  \/ ResponseBuild \/ ResponseSend \/ StreamSend \/ StreamPull \/ StreamDone

Environment == Accept \/ Arrive \/ Shut \/ Reset

Next == Step \/ PollWake \/ Environment \/ Halted

Spec == Init /\ [][Next]_vars

-----------------------------------------------------------------------------
(* Types *)

Arms ==
  [arm : {"send"}, sent : Nat] \cup [arm : {"cl"}, received : Nat]
    \cup [arm : {"chunked"}, dec : ChunkDecoder, consumed : Nat]
    \cup [arm : {"stream"}, phase : StreamPhases, sent : Nat]

Statuses == ParseFailures \cup {"HANDLED", "none"}

Responses == [size : 0 .. HTTP_RESPONSE_BUFFER_SIZE, pos : Nat, connection : {"close", "keep-alive"}, status : Statuses]

Answers == [pos : Nat, connection : {"close", "keep-alive"}, status : Statuses]

(* The types of the variables. *)
TypeOK ==
  /\ client \in Clients \cup {NoClient}
  /\ arrived \in Nat /\ released \in Nat /\ peer \in {"open", "shut", "gone"}
  /\ slot \in {"free", "parked", "stepping", "dead"} /\ uses \in 0 .. MaxUses
  /\ phase \in Phases
  /\ keep_alive \in {0, 1} /\ body_start \in Nat /\ body_len \in 0 .. HTTP_MAX_BODY_LEN
  /\ body_coding \in {"TE_NONE", "TE_CHUNKED", "TE_UNSUPPORTED"}
  /\ next_req_offset \in Nat /\ req_body_len \in Nat /\ dechunked \in 0 .. HTTP_MAX_DECHUNK_SIZE
  /\ base \in Nat /\ size \in 0 .. HTTP_MAX_REQUEST_LEN
  /\ resp \in Responses
  /\ wire \in Nat /\ requests \in Nat
  /\ producer \in [pull : {"NULL", "set"}, left : Nat]
  /\ st \in Arms
  /\ req \in STRING \cup {NoRequest} /\ answers \in Seq(Answers)

-----------------------------------------------------------------------------
(* Safety.  Parked is a connection that waits in poll.                     *)

Parked == slot = "parked"

(* Every index the code computes stays inside the buffer it indexes: the   *)
(* received window, the body in it, the chunk decoder's cursor in the      *)
(* body, the start of the next request, and what has been dechunked; and   *)
(* the asserts on them (Connection.c:89-90, HttpBody.c:69, 174) hold.      *)
OffsetsInBounds ==
  /\ base + size <= arrived /\ arrived <= Len(client.bytes)
  /\ phase \in {"CONN_SENDING_100", "CONN_READING_BODY_CL", "CONN_READING_BODY_CHUNKED"} => body_start <= size
  /\ phase = "CONN_READING_BODY_CL" => st.arm = "cl" /\ st.received = size - body_start /\ body_len > 0
  /\ phase = "CONN_READING_BODY_CHUNKED" =>
       /\ st.arm = "chunked" /\ body_start + st.consumed <= size
       /\ st.dec.phase = "CHUNK_DATA" => st.dec.remaining > 0
  /\ next_req_offset <= size
  /\ phase # "CONN_BUILDING" => next_req_offset = 0

(* response_send is never entered with nothing left to send                *)
(* (HttpResponse.c:129), whichever of the three kinds of send it serves.   *)
SendCursorInBounds ==
  /\ phase = "CONN_SENDING_RESPONSE" => st.arm = "send" /\ st.sent < resp.size
  /\ phase = "CONN_SENDING_100" => st.arm = "send" /\ st.sent < CONTINUE_100_SIZE
  /\ phase = "CONN_SENDING_RESPONSE_STREAM" =>
       /\ st.arm = "stream"
       /\ st.phase \in DOMAIN StreamAfter => st.sent < resp.size

(* A stream source is held exactly while its response is being sent: every *)
(* way out of the stream phases, and a head that does not fit, releases    *)
(* it, and no request finds the source of an earlier one in its place.     *)
ProducerHeldWhileStreaming ==
  producer.pull = "set" <=> (phase = "CONN_SENDING_RESPONSE_STREAM")

(* Frames reach the wire whole and once: the cursor of a frame says what   *)
(* the peer has of it, across any number of wake-ups, and a block is       *)
(* pulled over resp_buf only when all of the frame in it has been sent.    *)
FramesReachTheWireWhole ==
  phase = "CONN_SENDING_RESPONSE_STREAM" =>
    wire = IF st.phase \in DOMAIN StreamAfter THEN st.sent ELSE resp.size

(* No lost wake-up: a connection waits for POLLIN only when nothing it     *)
(* already has would let it go on, a pipelined request included.           *)
ParkedOnlyWhenBlocked ==
  Parked =>
    /\ phase = "CONN_READING_REQUEST" => Terminators = {} /\ size < HTTP_MAX_REQUEST_LEN
    /\ phase = "CONN_READING_BODY_CL" => st.received < body_len /\ size < HTTP_MAX_REQUEST_LEN
    /\ phase = "CONN_READING_BODY_CHUNKED" =>
         LET cr == chunk_advance(st.dec, SubSeq(ReqBuf, body_start + st.consumed + 1, size),
                                 HTTP_MAX_DECHUNK_SIZE - dechunked)
         IN  cr.status = "PARSE_INCOMPLETE" /\ cr.next = 0 /\ size < HTTP_MAX_REQUEST_LEN

(* A client that waits for a 100 Continue and a server that waits for the  *)
(* body never wait for each other (step_header_read, lines 175-196).       *)
NoMutualWait ==
  ~ /\ Parked /\ phase \in Reading /\ Unread = 0
    /\ \E h \in client.holds : released < h /\ arrived = h

(* Where the i-th request of a client begins, or its stream ends. *)
Start(c, i) == IF i \in DOMAIN c.starts THEN c.starts[i] ELSE Len(c.bytes)

(* Where the next unanswered request of the client begins. *)
NextStart == Start(client, Len(answers) + 1)

(* Between requests req_buf begins with the first byte of the next one: no *)
(* byte of a body is parsed as a request, and none of a request is skipped *)
(* or parsed twice (request_consume, next_req_offset).                     *)
BufferStartsAtNextRequest ==
  Connected /\ phase = "CONN_READING_REQUEST" => base = NextStart

-----------------------------------------------------------------------------
(* The promise to the client. *)

Promise ==
  INSTANCE Session WITH
    Plans <- {c.starts : c \in Clients}, MaxAnswers <- HTTP_MAX_REQUESTS,
    starts <- client.starts, connected <- slot # "free",
    answers <- [i \in DOMAIN answers |-> [pos |-> answers[i].pos, close |-> answers[i].connection = "close"]]

(* Requests are answered in order, once each, up to and including the      *)
(* first answer that announces the close.                                  *)
ImplementsSession == Promise!Spec

(* The contract with the event loop: a connection goes back to poll only   *)
(* to wait for what its socket would block on, so that no event that let   *)
(* it go on is behind it already, and is stepped only when that comes.     *)
Contract ==
  INSTANCE Slot WITH
    state <- IF slot \in {"free", "parked"} THEN slot ELSE "stepping",
    waiting <- IF slot = "parked" THEN conn_phase_event(phase) ELSE "none",
    readable <- Connected /\ Readable

ImplementsSlot == Contract!Spec

-----------------------------------------------------------------------------
(* The inductive invariant of ConnectionProofs: the indices, cursors and   *)
(* the source depend on each other, and on which steps can run when.       *)

(* A step runs only in an open slot of a live process, and parks or closes *)
(* in the phases conn_phase_event knows; an open connection has answered   *)
(* as many requests as it counts, and may answer one more.                 *)
ControlOK ==
  /\ phase = "CONN_CLOSED" => slot = "free"
  /\ slot = "free" => phase \in {"CONN_CLOSED", "CONN_READING_REQUEST"}
  /\ Parked => phase \in Reading \cup Sending
  /\ Connected => requests < HTTP_MAX_REQUESTS /\ Len(answers) = requests

IInv ==
  /\ TypeOK /\ ControlOK /\ OffsetsInBounds /\ SendCursorInBounds
  /\ ProducerHeldWhileStreaming /\ FramesReachTheWireWhole

-----------------------------------------------------------------------------
(* Fairness.  The loop keeps stepping a connection poll reports, and polls *)
(* on; a client keeps sending and, when it has all its answers, shuts its  *)
(* side (it need not before: no wake-up can be owed to an impatient peer); *)
(* and of a response that is offered to the kernel again and again,  *)
(* one send takes all that is offered, as it does once the peer has read.  *)

ServerFairness == WF_vars(Step) /\ WF_vars(PollWake)

ShutWhenServed == Shut /\ Len(answers) >= Len(client.starts)

ClientFairness == WF_vars(Accept) /\ WF_vars(Arrive) /\ WF_vars(ShutWhenServed)

SendsAll == ResponseSend /\ answers' # answers

StreamSendsAll == StreamSend /\ slot' = "stepping" /\ st'.phase # st.phase

KernelFairness == SF_vars(SendsAll) /\ SF_vars(StreamSendsAll)

LiveSpec == Spec /\ ServerFairness /\ ClientFairness /\ KernelFairness

(* The client got an answer to each request, or to all up to one that      *)
(* announced the close or was the last the server grants.                  *)
Served ==
  /\ answers # <<>>
  /\ \/ Len(answers) \in {Len(client.starts), HTTP_MAX_REQUESTS}
     \/ answers[Len(answers)].connection = "close"

(* Every client that sends its requests in full is served and its          *)
(* connection closed, unless the assert of conn_phase_event ends the       *)
(* process first: no request is forgotten in a buffer, no client and       *)
(* server wait for each other, no response is abandoned half sent.         *)
EventuallyServed == <>[](slot = "dead" \/ (slot = "free" /\ uses = MaxUses /\ Served))

-----------------------------------------------------------------------------
(* What the repository says of the program, and the code does not do.      *)

(* README.md:28, "`Expect: 100-continue` handled": no assert fails.        *)
NoAssertFires == slot # "dead"

(* HttpResponse.h:78, "Idempotent across poll wake-ups: re-entering after  *)
(* EAGAIN resumes from the current cursor": of a response being sent, the  *)
(* wire has exactly what lies before the cursor.                           *)
SendResumesFromCursor == phase = "CONN_SENDING_RESPONSE" => wire = st.sent

(* HttpResponse.c:188, "error responses generally close": a response that  *)
(* announces the close is the last on its connection.                      *)
CloseIsLast == \A i \in DOMAIN answers : answers[i].connection = "close" => i = Len(answers)

(* HttpBody.c:27, "body length is not the size of the buffer but the       *)
(* length provided by the header": the handler's body is that long.        *)
HandlerSeesDeclaredBody ==
  phase = "CONN_BUILDING" /\ body_coding # "TE_CHUNKED" => req_body_len = body_len

(* Connection.c:362, keep_alive is "re-determined per request": a request  *)
(* that does not ask for it is not kept alive.                             *)
KeepAliveIsPerRequest ==
  phase = "CONN_BUILDING" /\ keep_alive = 1 => ~is_http_1_0(Requests[req]) /\ Requests[req].connection # "other"

(* Connection.c:80 and 84, "request without a body ... next request will   *)
(* start where the body should be": no Content-Length, no body is read.    *)
BodylessIsNotRead == phase = "CONN_READING_BODY_CL" => Requests[req].cl.present

(* README.md:29, "`HEAD` handled distinctly from `GET`": a HEAD request is *)
(* not answered as a malformed one.                                        *)
HeadIsServed ==
  phase = "CONN_SENDING_RESPONSE" /\ resp.status = "PARSE_BAD_REQUEST" /\ req \in DOMAIN Requests
    => Requests[req].method # "HEAD"

(* Connection.c:153, "chunked is HTTP/1.1+ only".                          *)
ChunkedIsHttp11Only == phase = "CONN_READING_BODY_CHUNKED" => Requests[req].version = "1.1"
=============================================================================
