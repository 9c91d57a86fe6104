---------------------------- MODULE ConnectionProofs ----------------------------
(***************************************************************************)
(* What the operators of HttpBody promise their callers for every input,   *)
(* and the safety of a connection that calls them, for every size of its   *)
(* buffers, every client, every number of requests and every number of     *)
(* clients its slot serves.                                                *)
(*                                                                         *)
(* The second half is about the moment at which a step returns, and is     *)
(* what the event loop relies on: a connection that goes back to poll      *)
(* could not have gone on with what it has, Connection implements the      *)
(* contract of Slot, and answers are given in the order of the requests.   *)
(***************************************************************************)
EXTENDS Connection, TLAPS, WellFoundedInduction

-----------------------------------------------------------------------------
(* The scanners and the chunk decoder of HttpBody *)

(* The scanners pick the first occurrence: Least is a member of its set.   *)
LEMMA LeastIsMember ==
  ASSUME NEW S \in SUBSET Nat, S # {}
  PROVE  Least(S) \in S /\ \A n \in S : Least(S) <= n
<1> DEFINE before == OpToRel(<, Nat)
<1>1. \A a, b \in Nat : a < b => <<a, b>> \in before
  BY DEF OpToRel
<1> HIDE DEF before
<1>2. \E m \in S : \A n \in S : ~(<<n, m>> \in before)
  BY NatLessThanWellFounded, WFMin DEF before
<1>3. PICK m \in S : \A n \in S : ~(<<n, m>> \in before)
  BY <1>2
<1>4. \A n \in S : ~(n < m)
  BY <1>1, <1>3, Zenon
<1>5. \A n \in S : m <= n
  BY <1>4
<1> QED
  BY <1>5 DEF Least

(* crlf_find returns an offset inside the input, and where it finds one    *)
(* the two bytes of the CRLF are inside as well.                           *)
LEMMA CrlfFindInBounds ==
  ASSUME NEW in \in Seq(STRING)
  PROVE  /\ crlf_find(in) \in 0 .. Len(in)
         /\ Len(in) - crlf_find(in) >= 2 => crlf_find(in) + 2 \in 2 .. Len(in)
<1> DEFINE hits == Occurrences(in, CRLF)
<1>1. Len(in) \in Nat
  OBVIOUS
<1>2. hits \in SUBSET (0 .. (Len(in) - 2))
  BY DEF Occurrences, CRLF
<1>3. hits # {} => Least(hits) \in hits
  BY <1>1, <1>2, LeastIsMember
<1> QED
  BY <1>1, <1>2, <1>3 DEF crlf_find

(* uint_parse accepts no value above its bound, and never answers with a   *)
(* status its callers do not handle.                                       *)
LEMMA UintParseBounded ==
  ASSUME NEW s \in Seq(STRING), NEW b, NEW max \in Nat
  PROVE  /\ uint_parse(s, b, max).status \in {"PARSE_OK", "PARSE_BAD_REQUEST", "PARSE_PAYLOAD_TOO_LARGE"}
         /\ uint_parse(s, b, max).status = "PARSE_OK" => uint_parse(s, b, max).value \in 0 .. max
<1> DEFINE result == Accumulated(s, b)
           fails  == {i \in 1 .. Len(s) : digit_value(s[i], b) = -1 \/ result[i] \notin 0 .. max}
<1>1. s # <<>> => Len(s) \in 1 .. Len(s)
  OBVIOUS
<1> HIDE DEF result
<1>2. s # <<>> /\ fails = {} => result[Len(s)] \in 0 .. max
  BY <1>1
<1> QED
  BY <1>2 DEF uint_parse, result

(* A decoder in CHUNK_DATA has bytes to wait for (HttpBody.c:174).         *)
DecoderOK(dec) == dec \in ChunkDecoder /\ (dec.phase = "CHUNK_DATA" => dec.remaining > 0)

(* One call of chunk_advance: it stays inside the input it was given and   *)
(* the room it was given, leaves a decoder its next call can start from,   *)
(* and reports PARSE_OK, on which the caller's loop goes round again, only *)
(* after it has consumed something.                                        *)
ChunkStepOK(dec, in, avail, cr) ==
  /\ cr.status \in ChunkStatuses
  /\ cr.next \in 0 .. Len(in) /\ cr.bytes_written \in 0 .. avail
  /\ DecoderOK(cr.dec)
  /\ cr.status = "PARSE_OK" /\ dec.phase # "CHUNK_DONE" => cr.next > 0

(* The size field is a prefix of the input. *)
LEMMA SizeFieldIsText ==
  ASSUME NEW in \in Seq(STRING), NEW crlf \in 0 .. Len(in)
  PROVE  SizeField(in, crlf) \in Seq(STRING)
<1> DEFINE semis == {i \in 0 .. (crlf - 1) : in[i + 1] = ";"}
           last == IF semis = {} THEN crlf ELSE Least(semis)
<1>1. crlf \in Nat /\ Len(in) \in Nat /\ crlf <= Len(in)
  OBVIOUS
<1>2. semis \subseteq 0 .. (crlf - 1)
  OBVIOUS
<1> HIDE DEF semis
<1>3. semis \in SUBSET Nat /\ \A i \in semis : i < crlf
  BY <1>1, <1>2
<1>4. semis # {} => Least(semis) \in Nat /\ Least(semis) < crlf
  BY <1>3, LeastIsMember
<1>5. last \in 0 .. Len(in)
  BY <1>1, <1>4
<1>6. SizeField(in, crlf) = SubSeq(in, 1, last)
  BY DEF SizeField, semis
<1> HIDE DEF last
<1> QED
  BY <1>5, <1>6

LEMMA ChunkSizeStep ==
  ASSUME NEW dec, DecoderOK(dec), NEW in \in Seq(STRING), NEW avail \in Nat
  PROVE  ChunkStepOK(dec, in, avail, chunk_size(dec, in))
<1> DEFINE crlf == crlf_find(in)
           field == SizeField(in, crlf)
           len == uint_parse(field, 16, HTTP_MAX_BODY_LEN)
<1>1. crlf \in 0 .. Len(in) /\ Len(in) \in Nat
  BY CrlfFindInBounds
<1>2. field \in Seq(STRING)
  BY <1>1, SizeFieldIsText
<1>3. /\ len.status \in {"PARSE_OK", "PARSE_BAD_REQUEST", "PARSE_PAYLOAD_TOO_LARGE"}
      /\ len.status = "PARSE_OK" => len.value \in 0 .. HTTP_MAX_BODY_LEN
  BY <1>2, UintParseBounded, MaxBodyLenAssumption
<1> HIDE DEF crlf, field, len
<1> DEFINE trailer == [dec EXCEPT !.phase = "CHUNK_TRAILER"]
           data == [phase |-> "CHUNK_DATA", remaining |-> len.value]
<1>4. DecoderOK(trailer)
  BY DEF DecoderOK, ChunkDecoder, ChunkPhases
<1>5. len.status = "PARSE_OK" /\ len.value # 0 => DecoderOK(data)
  BY <1>3, MaxBodyLenAssumption DEF DecoderOK, ChunkDecoder, ChunkPhases
<1>6. chunk_size(dec, in) =
        IF Len(in) - crlf < 2 THEN Stop(dec, "PARSE_INCOMPLETE")
        ELSE IF len.status # "PARSE_OK" THEN Stop(dec, len.status)
        ELSE IF len.value = 0 THEN Consume(trailer, crlf + 2) ELSE Consume(data, crlf + 2)
  BY DEF chunk_size, crlf, field, len
<1> HIDE DEF trailer, data
<1> QED
  BY <1>1, <1>3, <1>4, <1>5, <1>6 DEF ChunkStepOK, Stop, Consume, ChunkStatuses

LEMMA ChunkDataStep ==
  ASSUME NEW dec, DecoderOK(dec), dec.phase = "CHUNK_DATA", NEW in \in Seq(STRING), NEW avail \in Nat
  PROVE  ChunkStepOK(dec, in, avail, chunk_data(dec, in, avail))
<1> DEFINE take == IF dec.remaining < Len(in) THEN dec.remaining ELSE Len(in)
           left == dec.remaining - take
           after == [phase |-> IF left = 0 THEN "CHUNK_TRAIL_CR" ELSE "CHUNK_DATA", remaining |-> left]
<1>1. dec.remaining \in Nat /\ dec.remaining > 0 /\ Len(in) \in Nat
  BY DEF DecoderOK, ChunkDecoder
<1>2. take \in 0 .. Len(in) /\ left \in Nat /\ (left = 0 => take > 0)
  BY <1>1
<1> HIDE DEF take, left
<1>3. DecoderOK(after)
  BY <1>2 DEF DecoderOK, ChunkDecoder, ChunkPhases
<1>4. chunk_data(dec, in, avail) =
        IF take > avail THEN Stop(dec, "PARSE_PAYLOAD_TOO_LARGE")
        ELSE [status |-> IF left = 0 THEN "PARSE_OK" ELSE "PARSE_INCOMPLETE",
              next |-> take, bytes_written |-> take, dec |-> after]
  BY DEF chunk_data, take, left
<1> HIDE DEF after
<1> QED
  BY <1>1, <1>2, <1>3, <1>4 DEF ChunkStepOK, Stop, ChunkStatuses

LEMMA ChunkExpectStep ==
  ASSUME NEW dec, DecoderOK(dec), NEW in \in Seq(STRING), NEW avail \in Nat,
         NEW want, Len(want) \in Nat \ {0},
         NEW after \in ChunkPhases \ {"CHUNK_DATA"}
  PROVE  ChunkStepOK(dec, in, avail, chunk_expect(dec, in, want, after))
<1> DEFINE next == [dec EXCEPT !.phase = after]
<1>1. DecoderOK(next)
  BY DEF DecoderOK, ChunkDecoder
<1> HIDE DEF next
<1>2. chunk_expect(dec, in, want, after) =
        IF Len(in) < Len(want) THEN Stop(dec, "PARSE_INCOMPLETE")
        ELSE IF SubSeq(in, 1, Len(want)) # want THEN Stop(dec, "PARSE_BAD_REQUEST")
        ELSE Consume(next, Len(want))
  BY DEF chunk_expect, next
<1> QED
  BY <1>1, <1>2 DEF ChunkStepOK, Stop, Consume, ChunkStatuses

(* chunk_advance in every phase. *)
THEOREM ChunkAdvanceOK ==
  ASSUME NEW dec, DecoderOK(dec), NEW in \in Seq(STRING), NEW avail \in Nat
  PROVE  ChunkStepOK(dec, in, avail, chunk_advance(dec, in, avail))
<1>1. dec.phase \in ChunkPhases
  BY DEF DecoderOK, ChunkDecoder
<1>2. CASE dec.phase = "CHUNK_SIZE"
  BY <1>2, ChunkSizeStep DEF chunk_advance
<1>3. CASE dec.phase = "CHUNK_DATA"
  BY <1>3, ChunkDataStep DEF chunk_advance
<1>4. CASE dec.phase = "CHUNK_TRAIL_CR"
  <2>1. Len(<<"CR">>) \in Nat \ {0} /\ "CHUNK_TRAIL_LF" \in ChunkPhases \ {"CHUNK_DATA"}
    BY DEF ChunkPhases
  <2> QED
    BY <1>4, <2>1, ChunkExpectStep DEF chunk_advance
<1>5. CASE dec.phase = "CHUNK_TRAIL_LF"
  <2>1. Len(<<"LF">>) \in Nat \ {0} /\ "CHUNK_SIZE" \in ChunkPhases \ {"CHUNK_DATA"}
    BY DEF ChunkPhases
  <2> QED
    BY <1>5, <2>1, ChunkExpectStep DEF chunk_advance
<1>6. CASE dec.phase = "CHUNK_TRAILER"
  <2>1. Len(CRLF) \in Nat \ {0} /\ "CHUNK_DONE" \in ChunkPhases \ {"CHUNK_DATA"}
    BY DEF ChunkPhases, CRLF
  <2> QED
    BY <1>6, <2>1, ChunkExpectStep DEF chunk_advance
<1>7. CASE dec.phase = "CHUNK_DONE"
  BY <1>7 DEF chunk_advance, Consume, ChunkStepOK, ChunkStatuses, DecoderOK, ChunkDecoder
<1> QED
  BY <1>1, <1>2, <1>3, <1>4, <1>5, <1>6, <1>7 DEF ChunkPhases

-----------------------------------------------------------------------------
(* The connection *)

(* The members of the union st are told apart by their tag.                *)
LEMMA ArmFields ==
  ASSUME NEW s \in Arms
  PROVE  /\ s.arm = "send" => s.sent \in Nat
         /\ s.arm = "cl" => s.received \in Nat
         /\ s.arm = "chunked" => s.dec \in ChunkDecoder /\ s.consumed \in Nat
         /\ s.arm = "stream" => s.phase \in StreamPhases /\ s.sent \in Nat
BY DEF Arms

LEMMA SendArmOK ==
  ASSUME NEW n \in Nat
  PROVE  SendArm(n) \in Arms /\ SendArm(n).arm = "send" /\ SendArm(n).sent = n
BY DEF Arms, SendArm

LEMMA ClArmOK ==
  ASSUME NEW n \in Nat
  PROVE  ClArm(n) \in Arms /\ ClArm(n).arm = "cl" /\ ClArm(n).received = n
BY DEF Arms, ClArm

LEMMA ChunkedArmOK ==
  ASSUME NEW d \in ChunkDecoder, NEW n \in Nat
  PROVE  /\ ChunkedArm(d, n) \in Arms /\ ChunkedArm(d, n).arm = "chunked"
         /\ ChunkedArm(d, n).dec = d /\ ChunkedArm(d, n).consumed = n
BY DEF Arms, ChunkedArm

LEMMA StreamArmOK ==
  ASSUME NEW p \in StreamPhases, NEW n \in Nat
  PROVE  /\ StreamArm(p, n) \in Arms /\ StreamArm(p, n).arm = "stream"
         /\ StreamArm(p, n).phase = p /\ StreamArm(p, n).sent = n
BY DEF Arms, StreamArm

LEMMA ReplyOK ==
  ASSUME NEW n \in 0 .. HTTP_RESPONSE_BUFFER_SIZE, NEW p \in Nat, NEW c \in {"close", "keep-alive"},
         NEW s \in Statuses
  PROVE  Reply(n, p, c, s) \in Responses /\ Reply(n, p, c, s).size = n
BY DEF Reply, Responses

LEMMA NoResponseOK == NoResponse \in Responses
BY SizesAssumption, ReplyOK DEF NoResponse, Statuses

-----------------------------------------------------------------------------
(* Ways a step ends.  Each lemma takes a step's ending and what else the   *)
(* step changed, and re-establishes the whole invariant.                   *)

HeaderTypesAfter ==
  /\ keep_alive' \in {0, 1} /\ body_start' \in Nat /\ body_len' \in 0 .. HTTP_MAX_BODY_LEN
  /\ body_coding' \in {"TE_NONE", "TE_CHUNKED", "TE_UNSUPPORTED"}

(* An error reply begins: from the header or from a body being read.       *)
LEMMA ErrorReplyPreserves ==
  ASSUME IInv, phase \in Reading, slot = "stepping",
         NEW STATE status, status \in Statuses, ErrorReply(status),
         HeaderTypesAfter, dechunked' \in 0 .. HTTP_MAX_DECHUNK_SIZE,
         req' \in STRING \cup {NoRequest},
         UNCHANGED <<clientVars, bufVars, requests, producer, next_req_offset, req_body_len, answers>>
  PROVE  IInv'
<1>1. resp' \in Responses /\ resp'.size > 0
  BY SizesAssumption, ReplyOK DEF ErrorReply, IInv, TypeOK
<1>2. st' \in Arms /\ st'.arm = "send" /\ st'.sent = 0
  BY SendArmOK DEF ErrorReply, phase_send_begin
<1>3. phase' = "CONN_SENDING_RESPONSE" /\ slot' = slot /\ uses' = uses /\ wire' = 0
  BY DEF ErrorReply, phase_send_begin, Advance, slotVars
<1> USE <1>1, <1>2, <1>3 DEF IInv, clientVars, bufVars
<1>4. TypeOK'
  BY DEF TypeOK, HeaderTypesAfter, Phases, Sending
<1>5. ControlOK'
  BY DEF ControlOK, Parked, Connected
<1>6. OffsetsInBounds'
  BY DEF OffsetsInBounds, Reading
<1>7. SendCursorInBounds'
  BY DEF SendCursorInBounds
<1>8. ProducerHeldWhileStreaming'
  BY DEF ProducerHeldWhileStreaming, Reading
<1>9. FramesReachTheWireWhole'
  BY DEF FramesReachTheWireWhole
<1> QED
  BY <1>4, <1>5, <1>6, <1>7, <1>8, <1>9

(* phase_body_dispatch, after the header or after the interim response.    *)
LEMMA DispatchPreserves ==
  ASSUME IInv, phase \in {"CONN_READING_REQUEST", "CONN_SENDING_100"}, slot = "stepping",
         phase_body_dispatch(body_coding', body_len', body_start'),
         HeaderTypesAfter, body_start' <= size, released' \in Nat, wire' \in Nat,
         req' \in STRING \cup {NoRequest},
         UNCHANGED <<client, arrived, peer, bufVars, resp, requests, producer, answers>>
  PROVE  IInv'
<1>1. slot' = slot /\ uses' = uses
  BY DEF phase_body_dispatch, Advance, slotVars
<1>2. size \in Nat /\ body_start' \in Nat /\ size - body_start' \in Nat
  <2>1. size \in Nat
    BY SizesAssumption DEF IInv, TypeOK
  <2>2. body_start' \in Nat
    BY DEF HeaderTypesAfter
  <2>3. \A m, n \in Nat : m <= n => n - m \in Nat
    OBVIOUS
  <2> QED
    BY <2>1, <2>2, <2>3
<1>3. DecoderInit \in ChunkDecoder /\ DecoderInit.phase = "CHUNK_SIZE"
  BY DEF DecoderInit, ChunkDecoder, ChunkPhases
<1>4. \/ /\ phase' = "CONN_READING_BODY_CHUNKED" /\ dechunked' = 0
         /\ st' \in Arms /\ st'.arm = "chunked" /\ st'.dec = DecoderInit /\ st'.consumed = 0
         /\ UNCHANGED <<next_req_offset, req_body_len>>
      \/ /\ phase' = "CONN_BUILDING" /\ next_req_offset' = body_start' /\ req_body_len' = 0
         /\ UNCHANGED <<st, dechunked>>
      \/ /\ phase' = "CONN_READING_BODY_CL" /\ body_len' > 0
         /\ st' \in Arms /\ st'.arm = "cl" /\ st'.received = size - body_start'
         /\ UNCHANGED <<next_req_offset, req_body_len, dechunked>>
  BY <1>2, <1>3, ChunkedArmOK, ClArmOK DEF phase_body_dispatch, Advance, bodyVars
<1> USE <1>1, <1>4 DEF IInv, bufVars
<1>5. TypeOK'
  <2>1. st' \in Arms /\ next_req_offset' \in Nat /\ req_body_len' \in Nat
    BY <1>2 DEF TypeOK
  <2>2. dechunked' \in 0 .. HTTP_MAX_DECHUNK_SIZE
    BY SizesAssumption DEF TypeOK
  <2> QED
    BY <2>1, <2>2 DEF TypeOK, HeaderTypesAfter, Phases, Reading
<1>6. ControlOK'
  BY DEF ControlOK, Parked, Connected
<1>7. OffsetsInBounds'
  BY <1>2, <1>3 DEF OffsetsInBounds
<1>8. SendCursorInBounds'
  BY DEF SendCursorInBounds
<1>9. ProducerHeldWhileStreaming'
  BY DEF ProducerHeldWhileStreaming
<1>10. FramesReachTheWireWhole'
  BY DEF FramesReachTheWireWhole
<1> QED
  BY <1>5, <1>6, <1>7, <1>8, <1>9, <1>10

(* The step returns the phase it was entered with. *)
LEMMA ParkPreserves ==
  ASSUME IInv, Park, slot = "stepping", st' \in Arms, wire' \in Nat,
         dechunked' \in 0 .. HTTP_MAX_DECHUNK_SIZE,
         SendCursorInBounds', OffsetsInBounds', FramesReachTheWireWhole',
         UNCHANGED <<clientVars, bufVars, headVars, resp, requests, producer, next_req_offset, req_body_len,
                     req, answers>>
  PROVE  IInv'
<1> USE DEF IInv, clientVars, bufVars, headVars, Park
<1>1. TypeOK'
  BY DEF TypeOK
<1>2. ControlOK'
  BY DEF ControlOK, Parked, Connected, conn_phase_event
<1>3. ProducerHeldWhileStreaming'
  BY DEF ProducerHeldWhileStreaming
<1> QED
  BY <1>1, <1>2, <1>3

(* The step returns CONN_CLOSED. *)
LEMMA ClosePreserves ==
  ASSUME IInv, Close, phase # "CONN_BUILDING", st' \in Arms, wire' \in Nat,
         producer' = NoProducer \/ (producer' = producer /\ phase # "CONN_SENDING_RESPONSE_STREAM"),
         UNCHANGED <<clientVars, bufVars, bodyVars, headVars, resp, requests, req, answers>>
  PROVE  IInv'
<1> USE DEF IInv, clientVars, bufVars, bodyVars, headVars, Close
<1>1. TypeOK'
  BY DEF TypeOK, Phases, NoProducer
<1>2. ControlOK'
  BY DEF ControlOK, Parked, Connected
<1>3. OffsetsInBounds'
  BY DEF OffsetsInBounds
<1>4. SendCursorInBounds'
  BY DEF SendCursorInBounds
<1>5. ProducerHeldWhileStreaming'
  BY DEF ProducerHeldWhileStreaming, NoProducer
<1>6. FramesReachTheWireWhole'
  BY DEF FramesReachTheWireWhole
<1> QED
  BY <1>1, <1>2, <1>3, <1>4, <1>5, <1>6

(* recv stays inside req_buf and inside what has arrived. *)
LEMMA RecvBytesFacts ==
  ASSUME IInv, RecvBytes, UNCHANGED clientVars
  PROVE  /\ base' = base /\ size' \in 0 .. HTTP_MAX_REQUEST_LEN /\ size' \in Nat /\ size < size'
         /\ base' + size' <= arrived' /\ arrived' <= Len(client'.bytes)
<1>1. base \in Nat /\ size \in Nat /\ arrived \in Nat /\ size <= HTTP_MAX_REQUEST_LEN /\ HTTP_MAX_REQUEST_LEN \in Nat
  BY SizesAssumption DEF IInv, TypeOK
<1>2. arrived <= Len(client.bytes) /\ UNCHANGED <<client, arrived>>
  BY DEF IInv, OffsetsInBounds, clientVars
<1> QED
  BY <1>1, <1>2 DEF RecvBytes, Unread

(* The end of a response: closed, or reset and reading again. *)
LEMMA AnswerSentFacts ==
  ASSUME TypeOK, AnswerSent
  PROVE  /\ \/ phase' = "CONN_CLOSED" /\ slot' = "free" /\ UNCHANGED <<st, resp>>
            \/ phase' = "CONN_READING_REQUEST" /\ UNCHANGED slot
         /\ uses' = uses /\ requests' \in Nat /\ st' \in Arms /\ resp' \in Responses
         /\ req_body_len' \in Nat /\ keep_alive' \in {0, 1}
         /\ body_start' \in Nat /\ body_len' \in 0 .. HTTP_MAX_BODY_LEN
         /\ body_coding' \in {"TE_NONE", "TE_CHUNKED", "TE_UNSUPPORTED"}
         /\ req' \in STRING \cup {NoRequest} /\ answers' \in Seq(Answers)
         /\ Len(answers) = requests => Len(answers') = requests'
         /\ phase' # "CONN_CLOSED" => requests' < HTTP_MAX_REQUESTS
<1>1. answers' \in Seq(Answers) /\ (Len(answers) = requests => Len(answers') = requests')
  <2>1. [pos |-> resp.pos, connection |-> resp.connection, status |-> resp.status] \in Answers
    BY DEF TypeOK, Responses, Answers
  <2> QED
    BY <2>1 DEF TypeOK, AnswerSent
<1>2. CASE Close /\ UNCHANGED <<st, resp, req, req_body_len, headVars>>
  BY <1>1, <1>2 DEF TypeOK, AnswerSent, Close, headVars
<1>3. CASE requests + 1 < HTTP_MAX_REQUESTS /\ connection_reset /\ Advance("CONN_READING_REQUEST")
  <2>1. st' \in Arms /\ resp' \in Responses /\ body_len' \in 0 .. HTTP_MAX_BODY_LEN
    BY <1>3, SendArmOK, NoResponseOK, MaxBodyLenAssumption DEF connection_reset
  <2>2. requests' \in Nat /\ requests' < HTTP_MAX_REQUESTS
    BY <1>3 DEF TypeOK, AnswerSent
  <2>3. req' \in STRING \cup {NoRequest}
    BY <1>3 DEF connection_reset
  <2> QED
    BY <1>1, <1>3, <2>1, <2>2, <2>3 DEF connection_reset, Advance, slotVars
<1> QED
  BY <1>2, <1>3 DEF AnswerSent

-----------------------------------------------------------------------------
(* The receive buffer as text, and the header block in it.                 *)

LEMMA ReqBufIsText ==
  ASSUME IInv
  PROVE  ReqBuf \in Seq(STRING) /\ Len(ReqBuf) = size
<1>1. client.bytes \in Seq(STRING)
  <2>1. CASE client \in Clients
    <3>1. client \in Client
      BY <2>1, CatalogueAssumption
    <3> QED
      BY <3>1 DEF Client, Byte
  <2>2. CASE client = NoClient
    BY <2>2 DEF NoClient
  <2> QED
    BY <2>1, <2>2 DEF IInv, TypeOK
<1>2. base \in Nat /\ size \in Nat /\ base + size <= Len(client.bytes)
  <2>1. base \in Nat /\ size \in Nat /\ arrived \in Nat
    BY SizesAssumption DEF IInv, TypeOK
  <2>2. base + size <= arrived /\ arrived <= Len(client.bytes)
    BY DEF IInv, OffsetsInBounds
  <2> QED
    BY <1>1, <2>1, <2>2
<1> QED
  BY <1>1, <1>2 DEF ReqBuf

LEMMA SuffixIsText ==
  ASSUME NEW s \in Seq(STRING), NEW from \in Nat, from <= Len(s)
  PROVE  /\ SubSeq(s, from + 1, Len(s)) \in Seq(STRING)
         /\ Len(SubSeq(s, from + 1, Len(s))) = Len(s) - from
OBVIOUS

LEMMA TerminatorInBounds ==
  ASSUME IInv, Terminators # {}
  PROVE  Least(Terminators) + 4 \in 4 .. size
<1>1. Len(CRLF \o CRLF) = 4
  BY DEF CRLF
<1>2. size \in Nat
  BY SizesAssumption DEF IInv, TypeOK
<1>3. Terminators \subseteq 0 .. (size - 4)
  BY <1>1, ReqBufIsText DEF Terminators, Occurrences
<1>4. Terminators \in SUBSET Nat
  BY <1>2, <1>3
<1>5. \A m \in Terminators : m \in Nat /\ m <= size - 4
  BY <1>2, <1>3
<1>6. Least(Terminators) \in Terminators
  BY <1>4, LeastIsMember
<1>7. Least(Terminators) \in Nat /\ Least(Terminators) <= size - 4
  <2> DEFINE m == Least(Terminators)
  <2> HIDE DEF m
  <2>1. m \in Terminators
    BY <1>6 DEF m
  <2>2. m \in Nat /\ m <= size - 4
    BY <1>5, <2>1
  <2> QED
    BY <2>2 DEF m
<1> QED
  BY <1>2, <1>7

-----------------------------------------------------------------------------
(* The actions, one by one. *)

LEMMA HeaderRecvPreserves == IInv /\ HeaderRecv => IInv'
<1> SUFFICES ASSUME IInv, HeaderRecv PROVE IInv'
  OBVIOUS
<1> USE DEF HeaderRecv
<1>1. HeaderTypesAfter /\ req' \in STRING \cup {NoRequest}
  BY DEF IInv, TypeOK, HeaderTypesAfter, RefuseWith
<1>2. CASE RefuseWith("PARSE_HEADER_TOO_LONG") /\ UNCHANGED bufVars
  <2>1. "PARSE_HEADER_TOO_LONG" \in Statuses /\ phase \in Reading
    BY DEF Statuses, ParseFailures, Reading
  <2>2. dechunked' \in 0 .. HTTP_MAX_DECHUNK_SIZE
    BY <1>2 DEF IInv, TypeOK, RefuseWith, bodyVars
  <2> QED
    BY <1>1, <1>2, <2>1, <2>2, ErrorReplyPreserves DEF RefuseWith, bodyVars
<1>3. CASE RecvBytes /\ UNCHANGED <<slotVars, phase, st, respVars, bodyVars, body_len>>
  <2> USE <1>3, RecvBytesFacts DEF IInv, clientVars, slotVars, respVars, bodyVars
  <2>1. TypeOK'
    BY DEF TypeOK
  <2>2. ControlOK'
    BY DEF ControlOK, Parked, Connected
  <2>3. OffsetsInBounds'
    BY SizesAssumption DEF OffsetsInBounds
  <2>4. SendCursorInBounds' /\ ProducerHeldWhileStreaming' /\ FramesReachTheWireWhole'
    BY DEF SendCursorInBounds, ProducerHeldWhileStreaming, FramesReachTheWireWhole
  <2> QED
    BY <2>1, <2>2, <2>3, <2>4
<1>4. CASE Close /\ UNCHANGED <<bufVars, st, respVars, bodyVars, body_len>>
  <2>1. st' \in Arms /\ wire' \in Nat
    BY <1>4 DEF IInv, TypeOK, respVars
  <2> QED
    BY <1>4, <2>1, ClosePreserves DEF headVars, respVars
<1>5. CASE Park /\ UNCHANGED <<bufVars, st, respVars, bodyVars, body_len>>
  <2>1. st' \in Arms /\ wire' \in Nat /\ dechunked' \in 0 .. HTTP_MAX_DECHUNK_SIZE
    BY <1>5 DEF IInv, TypeOK, respVars, bodyVars
  <2>2. SendCursorInBounds' /\ OffsetsInBounds' /\ FramesReachTheWireWhole'
    BY <1>5 DEF IInv, SendCursorInBounds, OffsetsInBounds, FramesReachTheWireWhole,
                Park, clientVars, bufVars, bodyVars, respVars
  <2> QED
    BY <1>5, <2>1, <2>2, ParkPreserves DEF headVars, bodyVars, respVars
<1> QED
  BY <1>2, <1>3, <1>4, <1>5

LEMMA BodyClCompletePreserves == IInv /\ BodyClComplete => IInv'
<1> SUFFICES ASSUME IInv, BodyClComplete PROVE IInv'
  OBVIOUS
<1> USE DEF IInv, BodyClComplete, Advance, slotVars, clientVars, headVars, bufVars, respVars
<1>1. /\ st.received \in Nat /\ st.received = size - body_start /\ body_start \in Nat /\ body_len \in Nat
      /\ size \in Nat
  BY ArmFields, SizesAssumption, MaxBodyLenAssumption DEF TypeOK, OffsetsInBounds
<1>2. next_req_offset' \in Nat /\ next_req_offset' <= size
  BY <1>1
<1>3. TypeOK'
  BY <1>1, <1>2 DEF TypeOK, Phases
<1>4. ControlOK'
  BY DEF ControlOK, Parked, Connected
<1>5. OffsetsInBounds'
  BY <1>2 DEF OffsetsInBounds
<1>6. SendCursorInBounds' /\ ProducerHeldWhileStreaming' /\ FramesReachTheWireWhole'
  BY DEF SendCursorInBounds, ProducerHeldWhileStreaming, FramesReachTheWireWhole
<1> QED
  BY <1>3, <1>4, <1>5, <1>6

LEMMA BodyClRecvPreserves == IInv /\ BodyClRecv => IInv'
<1> SUFFICES ASSUME IInv, BodyClRecv PROVE IInv'
  OBVIOUS
<1> USE DEF BodyClRecv
<1>1. HeaderTypesAfter /\ dechunked' \in 0 .. HTTP_MAX_DECHUNK_SIZE /\ req' \in STRING \cup {NoRequest}
  BY DEF IInv, TypeOK, HeaderTypesAfter, headVars, bodyVars
<1>2. CASE ErrorReply("PARSE_BAD_REQUEST") /\ UNCHANGED bufVars
  <2>1. "PARSE_BAD_REQUEST" \in Statuses /\ phase \in Reading
    BY DEF Statuses, ParseFailures, Reading
  <2> QED
    BY <1>1, <1>2, <2>1, ErrorReplyPreserves DEF bodyVars
<1>3. CASE RecvBytes /\ st' = ClArm(st.received + (size' - size)) /\ UNCHANGED <<slotVars, phase, respVars>>
  <2> USE <1>3 DEF IInv, clientVars, slotVars, respVars, bodyVars, headVars
  <2>1. st.received \in Nat /\ st.received = size - body_start /\ body_start \in Nat
    BY ArmFields DEF TypeOK, OffsetsInBounds
  <2>2. /\ base' = base /\ size' \in 0 .. HTTP_MAX_REQUEST_LEN /\ size' \in Nat /\ size < size'
        /\ base' + size' <= arrived' /\ arrived' <= Len(client'.bytes)
    BY RecvBytesFacts
  <2>3. size \in Nat
    BY SizesAssumption DEF TypeOK
  <2>4. st' \in Arms /\ st'.arm = "cl" /\ st'.received = size' - body_start
    BY <2>1, <2>2, <2>3, ClArmOK
  <2>5. TypeOK'
    BY <2>2, <2>4 DEF TypeOK
  <2>6. ControlOK'
    BY DEF ControlOK, Parked, Connected
  <2>7. OffsetsInBounds'
    BY <2>1, <2>2, <2>3, <2>4 DEF OffsetsInBounds
  <2>8. SendCursorInBounds' /\ ProducerHeldWhileStreaming' /\ FramesReachTheWireWhole'
    BY DEF SendCursorInBounds, ProducerHeldWhileStreaming, FramesReachTheWireWhole
  <2> QED
    BY <2>5, <2>6, <2>7, <2>8
<1>4. CASE Park /\ UNCHANGED <<bufVars, respVars, st>>
  <2>1. st' \in Arms /\ wire' \in Nat
    BY <1>4 DEF IInv, TypeOK, respVars
  <2>2. SendCursorInBounds' /\ OffsetsInBounds' /\ FramesReachTheWireWhole'
    BY <1>4 DEF IInv, SendCursorInBounds, OffsetsInBounds, FramesReachTheWireWhole,
                Park, clientVars, bufVars, bodyVars, respVars, headVars
  <2> QED
    BY <1>1, <1>4, <2>1, <2>2, ParkPreserves DEF bodyVars, respVars
<1> QED
  BY <1>2, <1>3, <1>4

LEMMA StreamDonePreserves == IInv /\ StreamDone => IInv'
<1> SUFFICES ASSUME IInv, StreamDone PROVE IInv'
  OBVIOUS
<1> USE AnswerSentFacts DEF IInv, StreamDone, clientVars, bufVars
<1>1. TypeOK'
  BY DEF TypeOK, stream_release, NoProducer, Phases, Reading
<1>2. ControlOK'
  BY DEF ControlOK, Parked, Connected, Reading, Sending
<1>3. OffsetsInBounds'
  BY DEF OffsetsInBounds
<1>4. SendCursorInBounds'
  BY DEF SendCursorInBounds
<1>5. ProducerHeldWhileStreaming'
  BY DEF ProducerHeldWhileStreaming, stream_release, NoProducer
<1>6. FramesReachTheWireWhole'
  BY DEF FramesReachTheWireWhole
<1> QED
  BY <1>1, <1>2, <1>3, <1>4, <1>5, <1>6

LEMMA Send100Preserves == IInv /\ Send100 => IInv'
<1> SUFFICES ASSUME IInv, Send100 PROVE IInv'
  OBVIOUS
<1> USE DEF Send100
<1>1. HeaderTypesAfter /\ req' \in STRING \cup {NoRequest}
  BY DEF IInv, TypeOK, HeaderTypesAfter, headVars
<1>2. /\ st.arm = "send" /\ st.sent \in Nat /\ st.sent < CONTINUE_100_SIZE
      /\ CONTINUE_100_SIZE \in Nat /\ wire \in Nat /\ body_start \in Nat /\ base \in Nat /\ body_start <= size
  BY ArmFields, SizesAssumption DEF IInv, TypeOK, SendCursorInBounds, OffsetsInBounds
<1>3. CASE /\ SendAll(CONTINUE_100_SIZE, st.sent)
           /\ phase_body_dispatch(body_coding, body_len, body_start)
           /\ released' = base + body_start
  <2>1. wire' \in Nat /\ released' \in Nat
    BY <1>2, <1>3 DEF SendAll
  <2>2. phase_body_dispatch(body_coding', body_len', body_start') /\ body_start' <= size
    BY <1>2, <1>3 DEF headVars
  <2> QED
    BY <1>1, <1>3, <2>1, <2>2, DispatchPreserves
<1>4. CASE /\ \E n \in 0 .. CONTINUE_100_SIZE :
                SendSome(CONTINUE_100_SIZE, st.sent, n) /\ st' = SendArm(st.sent + n)
           /\ Park /\ UNCHANGED <<released, bodyVars>>
  <2>1. PICK n \in 0 .. CONTINUE_100_SIZE :
          SendSome(CONTINUE_100_SIZE, st.sent, n) /\ st' = SendArm(st.sent + n)
    BY <1>4
  <2>2. st.sent + n \in Nat /\ st.sent + n < CONTINUE_100_SIZE /\ wire' \in Nat
    BY <1>2, <2>1 DEF SendSome
  <2>3. st' \in Arms /\ st'.arm = "send" /\ st'.sent < CONTINUE_100_SIZE
    BY <2>1, <2>2, SendArmOK
  <2>4. SendCursorInBounds' /\ FramesReachTheWireWhole'
    BY <1>4, <2>3 DEF Park, SendCursorInBounds, FramesReachTheWireWhole
  <2>5. OffsetsInBounds'
    BY <1>4 DEF IInv, Park, OffsetsInBounds, headVars, bufVars, bodyVars
  <2>6. dechunked' \in 0 .. HTTP_MAX_DECHUNK_SIZE
    BY <1>4 DEF IInv, TypeOK, bodyVars
  <2> QED
    BY <1>4, <2>2, <2>3, <2>4, <2>5, <2>6, ParkPreserves DEF clientVars, bodyVars
<1>5. CASE SendFails /\ Close /\ UNCHANGED <<released, st, bodyVars>>
  <2>1. st' \in Arms /\ wire' \in Nat
    BY <1>5 DEF IInv, TypeOK, SendFails
  <2> QED
    BY <1>5, <2>1, ClosePreserves DEF clientVars
<1> QED
  BY <1>3, <1>4, <1>5

LEMMA BodyChunkedPreserves == IInv /\ BodyChunked => IInv'
<1> SUFFICES ASSUME IInv, BodyChunked PROVE IInv'
  OBVIOUS
<1> DEFINE in       == SubSeq(ReqBuf, body_start + st.consumed + 1, size)
           avail    == HTTP_MAX_DECHUNK_SIZE - dechunked
           cr       == chunk_advance(st.dec, in, avail)
           consumed == st.consumed + cr.next
<1>1. /\ slot = "stepping" /\ phase = "CONN_READING_BODY_CHUNKED"
      /\ dechunked' = dechunked + cr.bytes_written
      /\ UNCHANGED <<clientVars, headVars, req, requests, producer, answers>>
  BY DEF BodyChunked
<1>2. /\ st.arm = "chunked" /\ DecoderOK(st.dec) /\ st.consumed \in Nat
      /\ body_start \in Nat /\ size \in Nat /\ body_start + st.consumed <= size
  BY <1>1, ArmFields, SizesAssumption DEF IInv, TypeOK, OffsetsInBounds, DecoderOK
<1>3. in \in Seq(STRING) /\ Len(in) = size - (body_start + st.consumed)
  <2> DEFINE from == body_start + st.consumed
  <2>1. from \in Nat /\ from <= size /\ in = SubSeq(ReqBuf, from + 1, size)
    BY <1>2
  <2> HIDE DEF from
  <2>2. in \in Seq(STRING) /\ Len(in) = size - from
    BY <2>1, ReqBufIsText, SuffixIsText
  <2> QED
    BY <2>2 DEF from
<1>4. avail \in Nat
  <2>1. HTTP_MAX_DECHUNK_SIZE \in Nat /\ dechunked \in 0 .. HTTP_MAX_DECHUNK_SIZE
    BY SizesAssumption DEF IInv, TypeOK
  <2> QED
    BY <2>1
<1> HIDE DEF in, avail
<1>5. ChunkStepOK(st.dec, in, avail, cr)
  BY <1>2, <1>3, <1>4, ChunkAdvanceOK
<1> HIDE DEF cr
<1>6. /\ dechunked' \in 0 .. HTTP_MAX_DECHUNK_SIZE /\ dechunked' \in Nat
      /\ consumed \in Nat /\ body_start + consumed \in Nat /\ body_start + consumed <= size
  <2>1. cr.bytes_written \in 0 .. avail /\ cr.next \in 0 .. Len(in)
    BY <1>5 DEF ChunkStepOK
  <2>2. HTTP_MAX_DECHUNK_SIZE \in Nat /\ dechunked \in 0 .. HTTP_MAX_DECHUNK_SIZE
    BY SizesAssumption DEF IInv, TypeOK
  <2>3. dechunked' \in 0 .. HTTP_MAX_DECHUNK_SIZE /\ dechunked' \in Nat
    BY <1>1, <2>1, <2>2 DEF avail
  <2> QED
    BY <1>2, <1>3, <2>1, <2>3
<1>7. /\ ChunkedArm(cr.dec, consumed) \in Arms /\ ChunkedArm(cr.dec, consumed).arm = "chunked"
      /\ ChunkedArm(cr.dec, consumed).dec = cr.dec /\ ChunkedArm(cr.dec, consumed).consumed = consumed
      /\ cr.dec.phase = "CHUNK_DATA" => cr.dec.remaining > 0
  BY <1>5, <1>6, ChunkedArmOK DEF ChunkStepOK, DecoderOK
<1> HIDE DEF consumed
<1>8. HeaderTypesAfter /\ req' \in STRING \cup {NoRequest}
  BY <1>1 DEF IInv, TypeOK, HeaderTypesAfter, headVars
<1>9. \A status \in Statuses :
        ErrorReply(status) /\ UNCHANGED <<bufVars, req_body_len, next_req_offset>> => IInv'
  <2>1. phase \in Reading
    BY <1>1 DEF Reading
  <2> QED
    BY <1>1, <1>6, <1>8, <2>1, ErrorReplyPreserves
<1>10. CASE /\ cr.status \notin {"PARSE_OK", "PARSE_INCOMPLETE"}
            /\ ErrorReply(cr.status) /\ UNCHANGED <<bufVars, req_body_len, next_req_offset>>
  <2>1. cr.status \in Statuses
    BY <1>5, <1>10 DEF ChunkStepOK, ChunkStatuses, Statuses, ParseFailures
  <2> QED
    BY <1>9, <1>10, <2>1
<1>11. CASE /\ req_body_len' = dechunked' /\ next_req_offset' = body_start + consumed
            /\ st' = ChunkedArm(cr.dec, consumed)
            /\ Advance("CONN_BUILDING") /\ UNCHANGED <<bufVars, respVars>>
  <2> USE <1>11 DEF IInv, Advance, slotVars, clientVars, bufVars, respVars, headVars
  <2>1. TypeOK'
    BY <1>1, <1>6, <1>7 DEF TypeOK, Phases
  <2>2. OffsetsInBounds'
    BY <1>1, <1>6 DEF OffsetsInBounds
  <2>3. ControlOK'
    BY <1>1 DEF ControlOK, Parked, Connected
  <2>4. SendCursorInBounds' /\ ProducerHeldWhileStreaming' /\ FramesReachTheWireWhole'
    BY <1>1 DEF SendCursorInBounds, ProducerHeldWhileStreaming, FramesReachTheWireWhole
  <2> QED
    BY <2>1, <2>2, <2>3, <2>4
<1>12. CASE /\ st' = ChunkedArm(cr.dec, consumed)
            /\ UNCHANGED <<slotVars, phase, bufVars, respVars, req_body_len, next_req_offset>>
  <2> USE <1>12 DEF IInv, slotVars, clientVars, bufVars, respVars, headVars
  <2>1. TypeOK'
    BY <1>1, <1>6, <1>7 DEF TypeOK
  <2>2. OffsetsInBounds'
    BY <1>1, <1>6, <1>7 DEF OffsetsInBounds
  <2>3. ControlOK'
    BY <1>1 DEF ControlOK, Parked, Connected
  <2>4. SendCursorInBounds' /\ ProducerHeldWhileStreaming' /\ FramesReachTheWireWhole'
    BY <1>1 DEF SendCursorInBounds, ProducerHeldWhileStreaming, FramesReachTheWireWhole
  <2> QED
    BY <2>1, <2>2, <2>3, <2>4
<1>13. CASE /\ ErrorReply("PARSE_PAYLOAD_TOO_LARGE") \/ ErrorReply("PARSE_BAD_REQUEST")
            /\ UNCHANGED <<bufVars, req_body_len, next_req_offset>>
  BY <1>9, <1>13 DEF Statuses, ParseFailures
<1>14. CASE /\ RecvBytes /\ st' = ChunkedArm(cr.dec, consumed)
            /\ UNCHANGED <<slotVars, phase, respVars, req_body_len, next_req_offset>>
  <2> USE <1>14 DEF IInv, slotVars, clientVars, respVars, headVars
  <2>1. /\ base' = base /\ size' \in 0 .. HTTP_MAX_REQUEST_LEN /\ size' \in Nat /\ size < size'
        /\ base' + size' <= arrived' /\ arrived' <= Len(client'.bytes)
    BY <1>1, RecvBytesFacts
  <2>2. TypeOK'
    BY <1>1, <1>6, <1>7, <2>1 DEF TypeOK
  <2>3. body_start' + consumed <= size' /\ next_req_offset' <= size' /\ body_start' <= size'
    BY <1>1, <1>2, <1>6, <2>1 DEF OffsetsInBounds
  <2>4. OffsetsInBounds'
    BY <1>1, <1>7, <2>1, <2>3 DEF OffsetsInBounds
  <2>5. ControlOK'
    BY <1>1 DEF ControlOK, Parked, Connected
  <2>6. SendCursorInBounds' /\ ProducerHeldWhileStreaming' /\ FramesReachTheWireWhole'
    BY <1>1 DEF SendCursorInBounds, ProducerHeldWhileStreaming, FramesReachTheWireWhole
  <2> QED
    BY <2>2, <2>4, <2>5, <2>6
<1>15. CASE /\ st' = ChunkedArm(cr.dec, consumed) /\ Park
            /\ UNCHANGED <<bufVars, respVars, req_body_len, next_req_offset>>
  <2>1. st' \in Arms /\ wire' \in Nat
    BY <1>7, <1>15 DEF IInv, TypeOK, respVars
  <2>2. OffsetsInBounds'
    BY <1>1, <1>6, <1>7, <1>15 DEF IInv, OffsetsInBounds, Park, clientVars, bufVars, headVars
  <2>3. SendCursorInBounds' /\ FramesReachTheWireWhole'
    BY <1>1, <1>15 DEF SendCursorInBounds, FramesReachTheWireWhole, Park
  <2> QED
    BY <1>1, <1>6, <1>15, <2>1, <2>2, <2>3, ParkPreserves DEF respVars
<1>16. \/ /\ cr.status \notin {"PARSE_OK", "PARSE_INCOMPLETE"}
          /\ ErrorReply(cr.status) /\ UNCHANGED <<bufVars, req_body_len, next_req_offset>>
       \/ /\ req_body_len' = dechunked' /\ next_req_offset' = body_start + consumed
          /\ st' = ChunkedArm(cr.dec, consumed)
          /\ Advance("CONN_BUILDING") /\ UNCHANGED <<bufVars, respVars>>
       \/ /\ st' = ChunkedArm(cr.dec, consumed)
          /\ UNCHANGED <<slotVars, phase, bufVars, respVars, req_body_len, next_req_offset>>
       \/ /\ ErrorReply("PARSE_PAYLOAD_TOO_LARGE") \/ ErrorReply("PARSE_BAD_REQUEST")
          /\ UNCHANGED <<bufVars, req_body_len, next_req_offset>>
       \/ /\ RecvBytes /\ st' = ChunkedArm(cr.dec, consumed)
          /\ UNCHANGED <<slotVars, phase, respVars, req_body_len, next_req_offset>>
       \/ /\ st' = ChunkedArm(cr.dec, consumed) /\ Park
          /\ UNCHANGED <<bufVars, respVars, req_body_len, next_req_offset>>
  BY DEF BodyChunked, in, avail, cr, consumed
<1> QED
  BY <1>10, <1>11, <1>12, <1>13, <1>14, <1>15, <1>16

LEMMA ResponseBuildPreserves == IInv /\ ResponseBuild => IInv'
<1> SUFFICES ASSUME IInv, ResponseBuild PROVE IInv'
  OBVIOUS
<1> USE DEF IInv, ResponseBuild, clientVars, headVars
<1>1. /\ base' \in Nat /\ size' \in 0 .. HTTP_MAX_REQUEST_LEN /\ base' + size' <= arrived
      /\ next_req_offset' = 0 /\ next_req_offset' <= size'
  <2>1. /\ base \in Nat /\ size \in 0 .. HTTP_MAX_REQUEST_LEN /\ size \in Nat /\ arrived \in Nat
        /\ next_req_offset \in Nat /\ next_req_offset <= size /\ base + size <= arrived
        /\ HTTP_MAX_REQUEST_LEN \in Nat
    BY SizesAssumption DEF TypeOK, OffsetsInBounds
  <2> QED
    BY <2>1 DEF request_consume
<1>2. \A n \in 1 .. HTTP_RESPONSE_BUFFER_SIZE, s \in Statuses :
        Serialised(n, s) => resp' \in Responses /\ resp'.size > 0 /\ wire' = 0
  <2>1. HTTP_RESPONSE_BUFFER_SIZE \in Nat /\ base \in Nat
    BY SizesAssumption DEF TypeOK
  <2> QED
    BY <2>1, ReplyOK DEF Serialised
<1>3. resp' \in Responses /\ resp'.size > 0 /\ wire' = 0
  BY <1>2, SizesAssumption DEF Statuses, ParseFailures
<1>4. \/ /\ phase' = "CONN_SENDING_RESPONSE" /\ UNCHANGED <<slot, uses, producer>>
         /\ st' \in Arms /\ st'.arm = "send" /\ st'.sent = 0
      \/ /\ phase' = "CONN_SENDING_RESPONSE_STREAM" /\ UNCHANGED <<slot, uses>>
         /\ st' \in Arms /\ st'.arm = "stream" /\ st'.phase = "STREAM_HEADER" /\ st'.sent = 0
         /\ producer' \in [pull : {"NULL", "set"}, left : Nat] /\ producer'.pull = "set"
  <2>1. CASE phase_send_begin /\ UNCHANGED producer
    BY <2>1, SendArmOK DEF phase_send_begin, Advance, slotVars
  <2>2. CASE /\ \E blocks \in 0 .. MaxBlocks : producer' = [pull |-> "set", left |-> blocks]
             /\ st' = StreamArm("STREAM_HEADER", 0)
             /\ Advance("CONN_SENDING_RESPONSE_STREAM")
    <3>1. producer' \in [pull : {"NULL", "set"}, left : Nat] /\ producer'.pull = "set"
      BY <2>2, SizesAssumption
    <3>2. "STREAM_HEADER" \in StreamPhases
      BY DEF StreamPhases
    <3> QED
      BY <2>2, <3>1, <3>2, StreamArmOK DEF Advance, slotVars
  <2> QED
    BY <2>1, <2>2
<1>5. TypeOK'
  BY <1>1, <1>3, <1>4 DEF TypeOK, Phases, Sending
<1>6. ControlOK'
  BY <1>4 DEF ControlOK, Parked, Connected
<1>7. OffsetsInBounds'
  BY <1>1, <1>4 DEF OffsetsInBounds
<1>8. SendCursorInBounds'
  BY <1>3, <1>4 DEF SendCursorInBounds
<1>9. ProducerHeldWhileStreaming'
  BY <1>4 DEF ProducerHeldWhileStreaming
<1>10. FramesReachTheWireWhole'
  BY <1>3, <1>4 DEF FramesReachTheWireWhole, StreamAfter
<1> QED
  BY <1>5, <1>6, <1>7, <1>8, <1>9, <1>10

LEMMA ResponseSendPreserves == IInv /\ ResponseSend => IInv'
<1> SUFFICES ASSUME IInv, ResponseSend PROVE IInv'
  OBVIOUS
<1> USE DEF ResponseSend
<1>1. /\ st.arm = "send" /\ st.sent \in Nat /\ st.sent < resp.size
      /\ resp \in Responses /\ resp.size \in Nat /\ wire \in Nat
  BY ArmFields, SizesAssumption DEF IInv, TypeOK, SendCursorInBounds, Responses
<1>2. CASE SendAll(resp.size, st.sent) /\ AnswerSent
  <2> USE <1>2 DEF IInv, clientVars, bufVars
  <2>1. wire' \in Nat
    BY <1>1 DEF SendAll
  <2>2. TypeOK'
    BY <2>1, AnswerSentFacts DEF TypeOK, Phases, Reading
  <2>3. ControlOK'
    BY AnswerSentFacts DEF ControlOK, Parked, Connected, Reading, Sending
  <2>4. OffsetsInBounds'
    BY AnswerSentFacts DEF OffsetsInBounds
  <2>5. SendCursorInBounds' /\ FramesReachTheWireWhole'
    BY AnswerSentFacts DEF SendCursorInBounds, FramesReachTheWireWhole
  <2>6. ProducerHeldWhileStreaming'
    BY AnswerSentFacts DEF ProducerHeldWhileStreaming
  <2> QED
    BY <2>2, <2>3, <2>4, <2>5, <2>6
<1>3. CASE /\ \E n \in 0 .. HTTP_RESPONSE_BUFFER_SIZE : SendSome(resp.size, st.sent, n)
           /\ st' = SendArm(0) /\ Park
           /\ UNCHANGED <<answers, requests, resp, req, req_body_len, headVars>>
  <2>1. st' \in Arms /\ st'.arm = "send" /\ st'.sent = 0
    BY <1>3, SendArmOK
  <2>2. wire' \in Nat
    BY <1>1, <1>3 DEF SendSome
  <2>3. SendCursorInBounds' /\ FramesReachTheWireWhole'
    BY <1>1, <1>3, <2>1 DEF Park, SendCursorInBounds, FramesReachTheWireWhole
  <2>4. OffsetsInBounds' /\ dechunked' \in 0 .. HTTP_MAX_DECHUNK_SIZE
    BY <1>3 DEF IInv, TypeOK, Park, OffsetsInBounds, headVars, bufVars, clientVars
  <2> QED
    BY <1>3, <2>1, <2>2, <2>3, <2>4, ParkPreserves DEF clientVars, bodyVars
<1>4. CASE SendFails /\ Close /\ UNCHANGED <<answers, requests, st, resp, req, req_body_len, headVars>>
  <2>1. st' \in Arms /\ wire' \in Nat
    BY <1>4 DEF IInv, TypeOK, SendFails
  <2> QED
    BY <1>4, <2>1, ClosePreserves DEF clientVars, bodyVars
<1> QED
  BY <1>2, <1>3, <1>4

LEMMA StreamSendPreserves == IInv /\ StreamSend => IInv'
<1> SUFFICES ASSUME IInv, StreamSend PROVE IInv'
  OBVIOUS
<1> USE DEF StreamSend
<1>1. /\ st.arm = "stream" /\ st.phase \in DOMAIN StreamAfter /\ st.sent \in Nat /\ st.sent < resp.size
      /\ resp.size \in Nat /\ wire \in Nat /\ wire = st.sent
  BY ArmFields, SizesAssumption
     DEF IInv, TypeOK, SendCursorInBounds, FramesReachTheWireWhole, Responses
<1>2. StreamAfter[st.phase] \in {"STREAM_PULL", "STREAM_DONE"} /\ st.phase \in StreamPhases
  BY <1>1 DEF StreamAfter, StreamPhases
<1>3. {"STREAM_PULL", "STREAM_DONE"} \cap DOMAIN StreamAfter = {}
  BY DEF StreamAfter
<1>4. DOMAIN StreamAfter' = DOMAIN StreamAfter
  BY DEF StreamAfter
<1>5. CASE /\ SendAll(resp.size, st.sent) /\ st' = StreamArm(StreamAfter[st.phase], 0)
           /\ UNCHANGED <<slotVars, phase, producer>>
  <2> DEFINE next == StreamAfter[st.phase]
  <2>1. next \in {"STREAM_PULL", "STREAM_DONE"} /\ next \in StreamPhases
    BY <1>2 DEF StreamPhases
  <2>2. st' = StreamArm(next, 0)
    BY <1>5
  <2> HIDE DEF next
  <2>3. st' \in Arms /\ st'.arm = "stream" /\ st'.phase = next /\ st'.sent = 0
    BY <2>1, <2>2, StreamArmOK
  <2>4. wire' = resp.size
    BY <1>1, <1>5 DEF SendAll
  <2> USE <1>5, <2>3, <2>4 DEF IInv, slotVars, StreamUntouched, clientVars, headVars, bufVars, bodyVars
  <2>5. TypeOK'
    BY <1>1 DEF TypeOK
  <2>6. ControlOK' /\ ProducerHeldWhileStreaming'
    BY DEF ControlOK, Parked, Connected, ProducerHeldWhileStreaming
  <2>7. OffsetsInBounds'
    BY DEF OffsetsInBounds
  <2>8. SendCursorInBounds' /\ FramesReachTheWireWhole'
    BY <1>3, <1>4, <2>1 DEF SendCursorInBounds, FramesReachTheWireWhole
  <2> QED
    BY <2>5, <2>6, <2>7, <2>8
<1>6. CASE /\ \E n \in 0 .. HTTP_RESPONSE_BUFFER_SIZE :
                SendSome(resp.size, st.sent, n) /\ st' = StreamArm(st.phase, st.sent + n)
           /\ Park /\ UNCHANGED producer
  <2>1. PICK n \in 0 .. HTTP_RESPONSE_BUFFER_SIZE :
          SendSome(resp.size, st.sent, n) /\ st' = StreamArm(st.phase, st.sent + n)
    BY <1>6
  <2>2. st.sent + n \in Nat /\ st.sent + n < resp.size /\ wire' = st.sent + n
    BY <1>1, <2>1 DEF SendSome
  <2>3. st' \in Arms /\ st'.arm = "stream" /\ st'.phase = st.phase /\ st'.sent = st.sent + n
    BY <1>2, <2>1, <2>2, StreamArmOK
  <2>4. SendCursorInBounds' /\ FramesReachTheWireWhole'
    BY <1>1, <1>4, <1>6, <2>2, <2>3 DEF Park, SendCursorInBounds, FramesReachTheWireWhole
  <2>5. OffsetsInBounds' /\ dechunked' \in 0 .. HTTP_MAX_DECHUNK_SIZE
    BY <1>6 DEF IInv, TypeOK, Park, OffsetsInBounds, StreamUntouched, headVars, bufVars, bodyVars, clientVars
  <2> QED
    BY <1>6, <2>2, <2>3, <2>4, <2>5, ParkPreserves DEF StreamUntouched, bodyVars
<1>7. CASE SendFails /\ stream_abort
  <2>1. st' \in Arms /\ wire' \in Nat
    BY <1>1, <1>7, StreamArmOK DEF SendFails, stream_abort, StreamPhases
  <2> QED
    BY <1>7, <2>1, ClosePreserves DEF stream_abort, stream_release, StreamUntouched
<1> QED
  BY <1>5, <1>6, <1>7

LEMMA StreamPullPreserves == IInv /\ StreamPull => IInv'
<1> SUFFICES ASSUME IInv, StreamPull PROVE IInv'
  OBVIOUS
<1> USE DEF StreamPull
<1>1. /\ st.arm = "stream" /\ st.sent \in Nat /\ wire \in Nat
      /\ producer \in [pull : {"NULL", "set"}, left : Nat] /\ producer.pull = "set"
      /\ resp \in Responses
  BY ArmFields DEF IInv, TypeOK, SendCursorInBounds, ProducerHeldWhileStreaming
<1>2. ASSUME NEW n \in 1 .. HTTP_RESPONSE_BUFFER_SIZE, NEW next \in {"STREAM_TRAILER", "STREAM_DRAIN"},
             Frame(n, next),
             producer' \in [pull : {"NULL", "set"}, left : Nat], producer'.pull = "set"
      PROVE  IInv'
  <2> USE <1>2 DEF IInv, Frame, slotVars, StreamUntouched, clientVars, headVars, bufVars, bodyVars
  <2>1. st' \in Arms /\ st'.arm = "stream" /\ st'.phase = next /\ st'.sent = 0
    BY StreamArmOK DEF StreamPhases
  <2>2. n \in Nat /\ n > 0 /\ n \in 0 .. HTTP_RESPONSE_BUFFER_SIZE
    BY SizesAssumption
  <2>3. resp' \in Responses /\ resp'.size = n
    BY <1>1, <2>2 DEF Responses
  <2>4. TypeOK'
    BY <2>1, <2>3 DEF TypeOK
  <2>5. ControlOK' /\ ProducerHeldWhileStreaming'
    BY DEF ControlOK, Parked, Connected, ProducerHeldWhileStreaming
  <2>6. OffsetsInBounds'
    BY DEF OffsetsInBounds
  <2>7. SendCursorInBounds' /\ FramesReachTheWireWhole'
    BY <2>1, <2>2, <2>3 DEF SendCursorInBounds, FramesReachTheWireWhole, StreamAfter
  <2> QED
    BY <2>4, <2>5, <2>6, <2>7
<1>3. CASE Frame(LastFrameSize, "STREAM_TRAILER") /\ UNCHANGED producer
  BY <1>1, <1>2, <1>3, SizesAssumption
<1>4. CASE \E n \in 1 .. HTTP_STREAM_CHUNK_SIZE :
             /\ n + FrameOverhead <= HTTP_RESPONSE_BUFFER_SIZE
             /\ producer' = [producer EXCEPT !.left = @ - 1] /\ producer.left > 0
             /\ Frame(n + FrameOverhead, "STREAM_DRAIN")
  <2>1. PICK n \in 1 .. HTTP_STREAM_CHUNK_SIZE :
             /\ n + FrameOverhead <= HTTP_RESPONSE_BUFFER_SIZE
             /\ producer' = [producer EXCEPT !.left = @ - 1] /\ producer.left > 0
             /\ Frame(n + FrameOverhead, "STREAM_DRAIN")
    BY <1>4
  <2>2. n + FrameOverhead \in 1 .. HTTP_RESPONSE_BUFFER_SIZE
    BY <2>1, SizesAssumption
  <2>3. producer' \in [pull : {"NULL", "set"}, left : Nat] /\ producer'.pull = "set"
    BY <1>1, <2>1
  <2> QED
    BY <1>2, <2>1, <2>2, <2>3
<1>5. CASE stream_abort /\ UNCHANGED respVars
  <2>1. st' \in Arms /\ wire' \in Nat
    BY <1>1, <1>5, StreamArmOK DEF stream_abort, StreamPhases, respVars
  <2> QED
    BY <1>5, <2>1, ClosePreserves DEF stream_abort, stream_release, StreamUntouched, respVars
<1> QED
  BY <1>3, <1>4, <1>5

LEMMA AcceptPreserves == IInv /\ Accept => IInv'
<1> SUFFICES ASSUME IInv, Accept PROVE IInv'
  OBVIOUS
<1> USE DEF IInv, Accept, connection_init, headVars
<1>1. st' \in Arms /\ st'.arm = "send" /\ resp' \in Responses
  BY SendArmOK, NoResponseOK
<1>2. client'.bytes \in Seq(STRING)
  <2>1. client' \in Client
    BY CatalogueAssumption
  <2> QED
    BY <2>1 DEF Client, Byte
<1>3. next_req_offset' = 0 /\ phase # "CONN_SENDING_RESPONSE_STREAM"
  BY DEF OffsetsInBounds, ControlOK
<1>4. TypeOK'
  BY <1>1, SizesAssumption DEF TypeOK, Phases, Reading
<1>5. ControlOK'
  BY SizesAssumption DEF ControlOK, Parked, Connected, Reading
<1>6. OffsetsInBounds'
  BY <1>2, <1>3 DEF OffsetsInBounds
<1>7. SendCursorInBounds' /\ FramesReachTheWireWhole'
  BY DEF SendCursorInBounds, FramesReachTheWireWhole
<1>8. ProducerHeldWhileStreaming'
  BY <1>3 DEF ProducerHeldWhileStreaming
<1> QED
  BY <1>4, <1>5, <1>6, <1>7, <1>8

LEMMA PollWakePreserves == IInv /\ PollWake => IInv'
<1> SUFFICES ASSUME IInv, PollWake PROVE IInv'
  OBVIOUS
<1> USE DEF IInv, PollWake, clientVars, headVars, bodyVars, bufVars, respVars
<1>1. TypeOK'
  BY DEF TypeOK
<1>2. ControlOK'
  BY DEF ControlOK, Parked, Connected
<1>3. OffsetsInBounds'
  BY DEF OffsetsInBounds
<1>4. SendCursorInBounds' /\ FramesReachTheWireWhole' /\ ProducerHeldWhileStreaming'
  BY DEF SendCursorInBounds, FramesReachTheWireWhole, ProducerHeldWhileStreaming, StreamAfter
<1> QED
  BY <1>1, <1>2, <1>3, <1>4

(* The client and the network only add to what has arrived. *)
LEMMA ClientPreserves == IInv /\ (Arrive \/ Shut \/ Reset) => IInv'
<1> SUFFICES ASSUME IInv, Arrive \/ Shut \/ Reset PROVE IInv'
  OBVIOUS
<1> USE DEF IInv, serverVars, slotVars, headVars, bodyVars, bufVars, respVars
<1>1. UNCHANGED <<client, released, serverVars>>
  BY DEF Arrive, Shut, Reset
<1>2. peer' \in {"open", "shut", "gone"}
  BY DEF Arrive, Shut, Reset, TypeOK
<1>3. arrived' \in Nat /\ arrived <= arrived' /\ arrived' <= Len(client.bytes)
  <2>1. arrived \in Nat /\ arrived <= Len(client.bytes)
    BY DEF TypeOK, OffsetsInBounds
  <2>2. CASE Arrive
    BY <2>1, <2>2 DEF Arrive
  <2>3. CASE Shut \/ Reset
    BY <2>1, <2>3 DEF Shut, Reset
  <2> QED
    BY <2>2, <2>3
<1>4. TypeOK'
  BY <1>1, <1>2, <1>3 DEF TypeOK
<1>5. ControlOK'
  BY <1>1 DEF ControlOK, Parked, Connected
<1>6. base' + size' <= arrived' /\ arrived' <= Len(client'.bytes)
  <2>1. base \in Nat /\ size \in Nat /\ arrived \in Nat /\ base + size <= arrived
    BY SizesAssumption DEF TypeOK, OffsetsInBounds
  <2> QED
    BY <1>1, <1>3, <2>1
<1>7. OffsetsInBounds'
  BY <1>1, <1>6 DEF OffsetsInBounds
<1>8. SendCursorInBounds' /\ FramesReachTheWireWhole' /\ ProducerHeldWhileStreaming'
  BY <1>1 DEF SendCursorInBounds, FramesReachTheWireWhole, ProducerHeldWhileStreaming, StreamAfter
<1> QED
  BY <1>4, <1>5, <1>7, <1>8

(* What the parsers may find in a header block. *)
LEMMA RequestFacts ==
  ASSUME NEW r \in Request
  PROVE  /\ TransferCoding(r) \in {"TE_NONE", "TE_CHUNKED", "TE_UNSUPPORTED"}
         /\ CodingStatus(r) \in Statuses
         /\ ContentLength(r).status # "PARSE_OK" => ContentLength(r).status \in Statuses
         /\ ContentLength(r).status = "PARSE_OK" => ContentLength(r).value \in 0 .. HTTP_MAX_BODY_LEN
<1>1. r.cl.value \in Seq(STRING)
  BY DEF Request, Byte
<1>2. /\ ContentLength(r).status \in {"PARSE_OK", "PARSE_BAD_REQUEST", "PARSE_PAYLOAD_TOO_LARGE"}
      /\ ContentLength(r).status = "PARSE_OK" => ContentLength(r).value \in 0 .. HTTP_MAX_BODY_LEN
  BY <1>1, UintParseBounded, MaxBodyLenAssumption DEF ContentLength
<1> QED
  BY <1>2 DEF TransferCoding, CodingStatus, Statuses, ParseFailures

LEMMA HeaderCompletePreserves == IInv /\ HeaderComplete => IInv'
<1> SUFFICES ASSUME IInv, HeaderComplete PROVE IInv'
  OBVIOUS
<1> DEFINE name  == ReqBuf[1]
           r     == Requests[name]
           start == Least(Terminators) + 4
<1>1. /\ slot = "stepping" /\ phase = "CONN_READING_REQUEST" /\ Terminators # {}
      /\ req' = name /\ UNCHANGED <<clientVars, bufVars, requests, producer, answers>>
  BY DEF HeaderComplete
<1>2. /\ start \in 4 .. size /\ start \in Nat /\ start <= size /\ size \in Nat
  <2>1. size \in Nat
    BY SizesAssumption DEF IInv, TypeOK
  <2>2. start \in 4 .. size
    BY <1>1, TerminatorInBounds
  <2> HIDE DEF start
  <2> QED
    BY <2>1, <2>2
<1> HIDE DEF start
<1>3. req' \in STRING \cup {NoRequest} /\ phase \in Reading
  BY <1>1, <1>2, ReqBufIsText DEF Reading
<1>4. /\ keep_alive \in {0, 1} /\ body_start \in Nat /\ body_len \in 0 .. HTTP_MAX_BODY_LEN
      /\ body_coding \in {"TE_NONE", "TE_CHUNKED", "TE_UNSUPPORTED"}
      /\ dechunked \in 0 .. HTTP_MAX_DECHUNK_SIZE /\ wire \in Nat /\ released \in Nat
  BY DEF IInv, TypeOK
<1>5. ASSUME NEW status \in Statuses, RefuseWith(status),
             keep_alive' \in {0, 1}, body_start' \in Nat,
             body_coding' \in {"TE_NONE", "TE_CHUNKED", "TE_UNSUPPORTED"}
      PROVE  IInv'
  <2>1. HeaderTypesAfter /\ dechunked' \in 0 .. HTTP_MAX_DECHUNK_SIZE
    BY <1>4, <1>5 DEF HeaderTypesAfter, RefuseWith, bodyVars
  <2> QED
    BY <1>1, <1>3, <1>5, <2>1, ErrorReplyPreserves DEF RefuseWith, bodyVars
<1>6. CASE request_parse(name) # "PARSE_OK"
  <2>1. request_parse(name) \in Statuses
    <3>1. CASE name \in DOMAIN Requests
      BY <1>6, <3>1, CatalogueAssumption DEF request_parse, Request, Statuses, ParseFailures
    <3>2. CASE name \notin DOMAIN Requests
      BY <3>2 DEF request_parse, Statuses, ParseFailures
    <3> QED
      BY <3>1, <3>2
  <2>2. RefuseWith(request_parse(name)) /\ UNCHANGED <<keep_alive, body_start, body_coding>>
    BY <1>6 DEF HeaderComplete
  <2> QED
    BY <1>4, <1>5, <2>1, <2>2
<1>7. CASE request_parse(name) = "PARSE_OK"
  <2>1. r \in Request
    BY <1>7, CatalogueAssumption DEF request_parse
  <2>2. body_start' = start
    BY <1>7 DEF HeaderComplete, start
  <2> HIDE DEF r
  <2>3. \/ RefuseWith("PARSE_BAD_REQUEST") /\ UNCHANGED <<keep_alive, body_coding>>
        \/ HeaderChecked(r, start)
    BY <1>7 DEF HeaderComplete, start, r
  <2>4. "PARSE_BAD_REQUEST" \in Statuses
    BY DEF Statuses, ParseFailures
  <2>5. CASE RefuseWith("PARSE_BAD_REQUEST") /\ UNCHANGED <<keep_alive, body_coding>>
    BY <1>2, <1>4, <1>5, <2>2, <2>4, <2>5
  <2>6. CASE HeaderChecked(r, start)
    <3>1. keep_alive' \in {0, 1} /\ body_coding' = TransferCoding(r)
      BY <1>4, <2>6 DEF HeaderChecked
    <3>2. body_coding' \in {"TE_NONE", "TE_CHUNKED", "TE_UNSUPPORTED"} /\ body_start' \in Nat
      BY <1>2, <2>1, <2>2, <3>1, RequestFacts
    <3>3. \/ \E status \in Statuses : RefuseWith(status)
          \/ \E len \in 0 .. HTTP_MAX_BODY_LEN : HeaderAccepted(r, start, len)
      BY <1>4, <2>1, <2>4, <2>6, RequestFacts DEF HeaderChecked
    <3>4. CASE \E status \in Statuses : RefuseWith(status)
      BY <1>5, <3>1, <3>2, <3>4
    <3>5. ASSUME NEW len \in 0 .. HTTP_MAX_BODY_LEN, HeaderAccepted(r, start, len)
          PROVE  IInv'
      <4>1. body_len' = len /\ HeaderTypesAfter
        BY <3>1, <3>2, <3>5 DEF HeaderAccepted, HeaderTypesAfter
      <4>2. \/ ErrorReply("PARSE_BAD_REQUEST") /\ UNCHANGED bodyVars
            \/ phase_body_dispatch(TransferCoding(r), len, start) /\ UNCHANGED respVars
            \/ /\ st' = SendArm(0) /\ wire' = 0
               /\ Advance("CONN_SENDING_100") /\ UNCHANGED <<resp, bodyVars>>
        BY <3>5 DEF HeaderAccepted
      <4>3. CASE ErrorReply("PARSE_BAD_REQUEST") /\ UNCHANGED bodyVars
        BY <1>1, <1>3, <1>4, <2>4, <4>1, <4>3, ErrorReplyPreserves DEF bodyVars
      <4>4. CASE phase_body_dispatch(TransferCoding(r), len, start) /\ UNCHANGED respVars
        <5>1. phase_body_dispatch(body_coding', body_len', body_start') /\ body_start' <= size
          BY <1>2, <2>2, <3>1, <4>1, <4>4
        <5> QED
          BY <1>1, <1>3, <1>4, <4>1, <4>4, <5>1, DispatchPreserves DEF clientVars, respVars
      <4>5. CASE /\ st' = SendArm(0) /\ wire' = 0
                 /\ Advance("CONN_SENDING_100") /\ UNCHANGED <<resp, bodyVars>>
        <5> USE <1>1, <4>5 DEF IInv, Advance, slotVars, clientVars, bufVars, bodyVars
        <5>1. st' \in Arms /\ st'.arm = "send" /\ st'.sent = 0
          BY SendArmOK
        <5>2. TypeOK'
          BY <1>3, <4>1, <5>1 DEF TypeOK, HeaderTypesAfter, Phases
        <5>3. ControlOK' /\ ProducerHeldWhileStreaming' /\ FramesReachTheWireWhole'
          BY DEF ControlOK, Parked, Connected, ProducerHeldWhileStreaming, FramesReachTheWireWhole
        <5>4. OffsetsInBounds'
          BY <1>2, <2>2 DEF OffsetsInBounds
        <5>5. SendCursorInBounds'
          BY <5>1, SizesAssumption DEF SendCursorInBounds
        <5> QED
          BY <5>2, <5>3, <5>4, <5>5
      <4> QED
        BY <4>2, <4>3, <4>4, <4>5
    <3> QED
      BY <3>3, <3>4, <3>5
  <2> QED
    BY <2>3, <2>5, <2>6
<1> QED
  BY <1>6, <1>7

-----------------------------------------------------------------------------
(* The invariant *)

LEMMA InitEstablishes == Init => IInv
<1> SUFFICES ASSUME Init PROVE IInv
  OBVIOUS
<1> USE DEF Init
<1>1. st \in Arms /\ st.arm = "send" /\ resp \in Responses
  BY SendArmOK, NoResponseOK
<1>2. client.bytes = <<>> /\ Len(client.bytes) = 0
  BY DEF NoClient
<1>3. TypeOK
  BY <1>1, SizesAssumption, MaxBodyLenAssumption DEF TypeOK, Phases, Reading, NoProducer
<1>4. ControlOK
  BY DEF ControlOK, Parked, Connected
<1>5. OffsetsInBounds
  BY <1>2 DEF OffsetsInBounds
<1>6. SendCursorInBounds /\ ProducerHeldWhileStreaming /\ FramesReachTheWireWhole
  BY DEF SendCursorInBounds, ProducerHeldWhileStreaming, FramesReachTheWireWhole, NoProducer
<1> QED
  BY <1>3, <1>4, <1>5, <1>6 DEF IInv

LEMMA NextPreserves == IInv /\ [Next]_vars => IInv'
<1> SUFFICES ASSUME IInv, [Next]_vars PROVE IInv'
  OBVIOUS
<1>1. CASE UNCHANGED vars
  BY <1>1 DEF vars, clientVars, slotVars, headVars, bodyVars, bufVars, respVars,
              IInv, TypeOK, ControlOK, Parked, Connected, OffsetsInBounds, SendCursorInBounds,
              ProducerHeldWhileStreaming, FramesReachTheWireWhole, StreamAfter
<1>2. CASE Step
  BY <1>2, HeaderCompletePreserves, HeaderRecvPreserves, Send100Preserves, BodyClCompletePreserves,
     BodyClRecvPreserves, BodyChunkedPreserves, ResponseBuildPreserves, ResponseSendPreserves,
     StreamSendPreserves, StreamPullPreserves, StreamDonePreserves DEF Step
<1>3. CASE PollWake
  BY <1>3, PollWakePreserves
<1>4. CASE Environment
  BY <1>4, AcceptPreserves, ClientPreserves DEF Environment
<1>5. CASE Halted
  BY <1>1, <1>5 DEF Halted
<1> QED
  BY <1>1, <1>2, <1>3, <1>4, <1>5 DEF Next

(* The inductive invariant holds: whatever clients send, however bytes are *)
(* fragmented and wherever a peer or the kernel stops a transfer, the      *)
(* indices, cursors, stream source and event loop of a slot stay in step.  *)
THEOREM Invariance == Spec => []IInv
<1>1. Init => IInv
  BY InitEstablishes
<1>2. IInv /\ [Next]_vars => IInv'
  BY NextPreserves
<1> QED
  BY <1>1, <1>2, PTL DEF Spec

(* Every field of the connection keeps its type: a Content-Length is never *)
(* accepted above HTTP_MAX_BODY_LEN, req_buf, body_dechunked and resp_buf  *)
(* never hold more than their capacity.                                    *)
THEOREM TypeCorrect == Spec => []TypeOK
<1>1. IInv => TypeOK
  BY DEF IInv
<1> QED
  BY <1>1, Invariance, PTL

(* No index leaves its buffer and no assert on one fails, in the header,   *)
(* Content-Length and chunked readers and in request_consume.              *)
THEOREM BufferSafety == Spec => []OffsetsInBounds
<1>1. IInv => OffsetsInBounds
  BY DEF IInv
<1> QED
  BY <1>1, Invariance, PTL

(* response_send always has something to send (HttpResponse.c:129), in     *)
(* each of the phases that call it and after each wake-up.                 *)
THEOREM SendSafety == Spec => []SendCursorInBounds
<1>1. IInv => SendCursorInBounds
  BY DEF IInv
<1> QED
  BY <1>1, Invariance, PTL

(* stream_release runs on every way out of a streamed response, and on     *)
(* none twice, for any number of requests and clients.                     *)
THEOREM ProducerSafety == Spec => []ProducerHeldWhileStreaming
<1>1. IInv => ProducerHeldWhileStreaming
  BY DEF IInv
<1> QED
  BY <1>1, Invariance, PTL

(* Frames of a streamed response reach the wire whole, in order and once,  *)
(* at whatever bytes the kernel's buffer fills and drains.                 *)
THEOREM StreamIntegrity == Spec => []FramesReachTheWireWhole
<1>1. IInv => FramesReachTheWireWhole
  BY DEF IInv
<1> QED
  BY <1>1, Invariance, PTL

-----------------------------------------------------------------------------
(* How much a decoder that asks for more has done. *)

(* A chunk decoder that asks for more has either done nothing, or eaten    *)
(* all there was of the data of a chunk that is not complete.              *)
LEMMA IncompleteStep ==
  ASSUME NEW dec, DecoderOK(dec), NEW in \in Seq(STRING), NEW avail \in Nat,
         NEW cr, cr = chunk_advance(dec, in, avail), cr.status = "PARSE_INCOMPLETE"
  PROVE  \/ cr.next = 0 /\ cr.bytes_written = 0 /\ cr.dec = dec
         \/ /\ cr.next = Len(in) /\ cr.bytes_written = Len(in) /\ Len(in) <= avail
            /\ cr.dec.phase = "CHUNK_DATA" /\ cr.dec.remaining \in Nat \ {0}
<1>1. dec.phase \in ChunkPhases /\ dec.remaining \in Nat /\ Len(in) \in Nat
  BY DEF DecoderOK, ChunkDecoder
<1>2. CASE dec.phase = "CHUNK_SIZE"
  <2>1. cr = chunk_size(dec, in)
    BY <1>2 DEF chunk_advance
  <2> QED
    BY <2>1 DEF chunk_size, Stop, Consume
<1>3. CASE dec.phase = "CHUNK_DATA"
  <2>1. cr = chunk_data(dec, in, avail)
    BY <1>3 DEF chunk_advance
  <2> QED
    BY <1>1, <2>1 DEF chunk_data, Stop
<1>4. CASE dec.phase \in {"CHUNK_TRAIL_CR", "CHUNK_TRAIL_LF", "CHUNK_TRAILER"}
  <2>1. \E want, after : cr = chunk_expect(dec, in, want, after)
    BY <1>4 DEF chunk_advance
  <2> QED
    BY <2>1 DEF chunk_expect, Stop, Consume
<1>5. CASE dec.phase = "CHUNK_DONE"
  BY <1>5 DEF chunk_advance, Consume
<1> QED
  BY <1>1, <1>2, <1>3, <1>4, <1>5 DEF ChunkPhases

(* With no input, the data of a chunk stays incomplete. *)
LEMMA NoDataStep ==
  ASSUME NEW dec, dec.phase = "CHUNK_DATA", dec.remaining \in Nat \ {0},
         NEW in \in Seq(STRING), Len(in) = 0, NEW avail \in Nat
  PROVE  /\ chunk_advance(dec, in, avail).status = "PARSE_INCOMPLETE"
         /\ chunk_advance(dec, in, avail).next = 0
BY DEF chunk_advance, chunk_data

-----------------------------------------------------------------------------
(* How a step ends: it goes on, closes, fails an assert or parks, and when *)
(* it parks to read, its last recv would have blocked.                     *)

ParksBlocked ==
  /\ Park /\ UNCHANGED client
  /\ phase \in Reading => RecvWouldBlock /\ UNCHANGED <<clientVars, bufVars>>

StepEnds == slot = "stepping" /\ (slot' \in {"stepping", "free"} \/ ParksBlocked)

LEMMA EveryStepEnds == IInv /\ Step => StepEnds
<1> SUFFICES ASSUME IInv, Step PROVE StepEnds
  OBVIOUS
<1> USE DEF StepEnds, ParksBlocked, Close, Advance, slotVars, clientVars, bufVars
<1>1. CASE HeaderComplete
  BY <1>1 DEF HeaderComplete, HeaderChecked, HeaderAccepted, RefuseWith, ErrorReply, phase_send_begin,
              phase_body_dispatch
<1>2. CASE HeaderRecv
  BY <1>2 DEF HeaderRecv, RefuseWith, ErrorReply, phase_send_begin
<1>3. CASE Send100
  BY <1>3 DEF Send100, phase_body_dispatch, Reading
<1>4. CASE BodyClComplete \/ BodyClRecv
  BY <1>4 DEF BodyClComplete, BodyClRecv, ErrorReply, phase_send_begin
<1>5. CASE BodyChunked
  BY <1>5 DEF BodyChunked, ErrorReply, phase_send_begin
<1>6. CASE ResponseBuild
  BY <1>6 DEF ResponseBuild, phase_send_begin
<1>7. CASE ResponseSend
  BY <1>7, AnswerSentFacts DEF ResponseSend, Reading, IInv
<1>8. CASE StreamSend \/ StreamPull
  BY <1>8 DEF StreamSend, StreamPull, Frame, stream_abort, StreamUntouched, Reading
<1>9. CASE StreamDone
  BY <1>9, AnswerSentFacts DEF StreamDone, IInv
<1> QED
  BY <1>1, <1>2, <1>3, <1>4, <1>5, <1>6, <1>7, <1>8, <1>9 DEF Step

-----------------------------------------------------------------------------
(* No lost wake-up. *)

(* What is left to decode, as conn_recv_body_chunked sees it. *)
Undecoded == SubSeq(ReqBuf, body_start + st.consumed + 1, size)

LEMMA UndecodedIsText ==
  ASSUME IInv, phase = "CONN_READING_BODY_CHUNKED"
  PROVE  /\ Undecoded \in Seq(STRING) /\ Len(Undecoded) = size - (body_start + st.consumed)
         /\ st.arm = "chunked" /\ DecoderOK(st.dec) /\ st.consumed \in Nat
         /\ body_start \in Nat /\ size \in Nat /\ body_start + st.consumed <= size
         /\ dechunked \in Nat /\ HTTP_MAX_DECHUNK_SIZE - dechunked \in Nat
<1>1. /\ st.arm = "chunked" /\ DecoderOK(st.dec) /\ st.consumed \in Nat
      /\ body_start \in Nat /\ size \in Nat /\ body_start + st.consumed <= size
  BY ArmFields, SizesAssumption DEF IInv, TypeOK, OffsetsInBounds, DecoderOK
<1>2. dechunked \in Nat /\ HTTP_MAX_DECHUNK_SIZE - dechunked \in Nat
  <2>1. HTTP_MAX_DECHUNK_SIZE \in Nat /\ dechunked \in 0 .. HTTP_MAX_DECHUNK_SIZE
    BY SizesAssumption DEF IInv, TypeOK
  <2> QED
    BY <2>1
<1>3. Undecoded \in Seq(STRING) /\ Len(Undecoded) = size - (body_start + st.consumed)
  <2> DEFINE from == body_start + st.consumed
  <2>1. from \in Nat /\ from <= size /\ Undecoded = SubSeq(ReqBuf, from + 1, size)
    BY <1>1 DEF Undecoded
  <2> HIDE DEF from
  <2>2. Undecoded \in Seq(STRING) /\ Len(Undecoded) = size - from
    BY <2>1, ReqBufIsText, SuffixIsText
  <2> QED
    BY <2>2 DEF from
<1> QED
  BY <1>1, <1>2, <1>3

(* A connection that parks in a chunked body parks where the decoder would *)
(* do nothing again, because the step that parks has run it.               *)
LEMMA ChunkedParks ==
  ASSUME IInv, BodyChunked, ParksBlocked
  PROVE  ParkedOnlyWhenBlocked'
<1> DEFINE avail == HTTP_MAX_DECHUNK_SIZE - dechunked
           cr    == chunk_advance(st.dec, Undecoded, avail)
<1>1. slot = "stepping" /\ phase = "CONN_READING_BODY_CHUNKED" /\ phase' = phase
  BY DEF BodyChunked, ParksBlocked, Park
<1>2. /\ RecvWouldBlock /\ UNCHANGED <<client, base, size, body_start>>
  BY <1>1 DEF ParksBlocked, clientVars, bufVars, BodyChunked, headVars, Reading
<1>3. /\ cr.status = "PARSE_INCOMPLETE" /\ dechunked' = dechunked + cr.bytes_written
      /\ st' = ChunkedArm(cr.dec, st.consumed + cr.next)
  <2>1. slot' # slot
    BY <1>1 DEF ParksBlocked, Park
  <2>2. ~RecvBytes
    BY <1>2 DEF RecvBytes, RecvWouldBlock
  <2> HIDE DEF cr
  <2>3. /\ dechunked' = dechunked + cr.bytes_written
        /\ \/ ErrorReply(cr.status) \/ ErrorReply("PARSE_PAYLOAD_TOO_LARGE") \/ ErrorReply("PARSE_BAD_REQUEST")
           \/ Advance("CONN_BUILDING")
           \/ UNCHANGED slotVars
           \/ /\ cr.status = "PARSE_INCOMPLETE"
              /\ RecvBytes \/ st' = ChunkedArm(cr.dec, st.consumed + cr.next)
    BY DEF BodyChunked, cr, Undecoded
  <2> QED
    BY <2>1, <2>2, <2>3 DEF ErrorReply, phase_send_begin, Advance, slotVars
<1>4. /\ Undecoded \in Seq(STRING) /\ Len(Undecoded) = size - (body_start + st.consumed)
      /\ DecoderOK(st.dec) /\ st.consumed \in Nat
      /\ body_start \in Nat /\ size \in Nat /\ body_start + st.consumed <= size
      /\ dechunked \in Nat /\ HTTP_MAX_DECHUNK_SIZE - dechunked \in Nat
  BY <1>1, UndecodedIsText
<1>5. \/ cr.next = 0 /\ cr.bytes_written = 0 /\ cr.dec = st.dec
      \/ /\ cr.next = Len(Undecoded) /\ cr.bytes_written = Len(Undecoded)
         /\ Len(Undecoded) <= HTTP_MAX_DECHUNK_SIZE - dechunked
         /\ cr.dec.phase = "CHUNK_DATA" /\ cr.dec.remaining \in Nat \ {0}
  <2> DEFINE in == Undecoded
  <2>1. in \in Seq(STRING) /\ avail \in Nat /\ DecoderOK(st.dec) /\ cr = chunk_advance(st.dec, in, avail)
    BY <1>4
  <2> HIDE DEF in, avail, cr
  <2>2. cr.status = "PARSE_INCOMPLETE"
    BY <1>3
  <2>3. \/ cr.next = 0 /\ cr.bytes_written = 0 /\ cr.dec = st.dec
        \/ /\ cr.next = Len(in) /\ cr.bytes_written = Len(in) /\ Len(in) <= avail
           /\ cr.dec.phase = "CHUNK_DATA" /\ cr.dec.remaining \in Nat \ {0}
    BY <2>1, <2>2, IncompleteStep
  <2> QED
    BY <2>3 DEF in, avail
<1>6. cr.dec \in ChunkDecoder
  <2>1. ChunkStepOK(st.dec, Undecoded, HTTP_MAX_DECHUNK_SIZE - dechunked, cr)
    BY <1>4, ChunkAdvanceOK
  <2> QED
    BY <2>1 DEF ChunkStepOK, DecoderOK
<1> DEFINE d == cr.dec  next == cr.next  written == cr.bytes_written  status == cr.status
<1>7. status = "PARSE_INCOMPLETE" /\ dechunked' = dechunked + written /\ st' = ChunkedArm(d, st.consumed + next)
  BY <1>3
<1>8. st'.dec = d /\ st'.consumed = st.consumed + next
  <2>1. st.consumed + next \in Nat
    BY <1>4, <1>5
  <2> QED
    BY <1>6, <1>7, <2>1, ChunkedArmOK
<1>9. Undecoded' = SubSeq(ReqBuf, body_start + (st.consumed + next) + 1, size)
  BY <1>2, <1>8 DEF Undecoded, ReqBuf
<1> DEFINE again == chunk_advance(st'.dec, Undecoded', HTTP_MAX_DECHUNK_SIZE - dechunked')
<1>10. again.status = "PARSE_INCOMPLETE" /\ again.next = 0
  <2>1. CASE next = 0 /\ written = 0 /\ d = st.dec
    <3>1. Undecoded' = Undecoded /\ dechunked' = dechunked
      <4>1. st.consumed + next = st.consumed /\ dechunked + written = dechunked
        BY <1>4, <2>1
      <4> QED
        BY <1>7, <1>9, <4>1 DEF Undecoded
    <3>2. again = cr
      BY <1>8, <2>1, <3>1
    <3> QED
      BY <1>7, <2>1, <3>2
  <2>2. CASE /\ next = Len(Undecoded) /\ written = Len(Undecoded)
             /\ Len(Undecoded) <= HTTP_MAX_DECHUNK_SIZE - dechunked
             /\ d.phase = "CHUNK_DATA" /\ d.remaining \in Nat \ {0}
    <3>1. body_start + (st.consumed + next) = size
      BY <1>4, <2>2
    <3>2. Undecoded' \in Seq(STRING) /\ Len(Undecoded') = 0
      <4>1. Undecoded' = SubSeq(ReqBuf, size + 1, size)
        BY <1>9, <3>1
      <4> QED
        BY <1>4, <4>1, ReqBufIsText
    <3>3. HTTP_MAX_DECHUNK_SIZE - dechunked' \in Nat
      <4>1. \A max, m, n \in Nat : n <= max - m => max - (m + n) \in Nat
        OBVIOUS
      <4>2. HTTP_MAX_DECHUNK_SIZE \in Nat /\ Len(Undecoded) \in Nat
        BY <1>4, SizesAssumption
      <4> QED
        BY <1>4, <1>7, <2>2, <4>1, <4>2
    <3> QED
      BY <1>8, <2>2, <3>2, <3>3, NoDataStep
  <2> QED
    BY <1>5, <2>1, <2>2
<1>11. size' < HTTP_MAX_REQUEST_LEN
  BY <1>2 DEF RecvWouldBlock
<1> QED
  BY <1>1, <1>10, <1>11 DEF ParkedOnlyWhenBlocked, Undecoded

LEMMA StepParks == IInv /\ Step => ParkedOnlyWhenBlocked'
<1> SUFFICES ASSUME IInv, Step, Parked' PROVE ParkedOnlyWhenBlocked'
  BY DEF ParkedOnlyWhenBlocked
<1>1. slot = "stepping" /\ ParksBlocked /\ phase' = phase
  BY EveryStepEnds DEF StepEnds, Parked, ParksBlocked, Park
<1>2. CASE phase \notin Reading
  BY <1>1, <1>2 DEF ParkedOnlyWhenBlocked, Reading
<1>3. CASE phase \in Reading
  <2>1. RecvWouldBlock /\ UNCHANGED <<client, base, size>>
    BY <1>1, <1>3 DEF ParksBlocked, clientVars, bufVars
  <2>2. size' < HTTP_MAX_REQUEST_LEN /\ Terminators' = Terminators
    BY <2>1 DEF RecvWouldBlock, Terminators, ReqBuf
  <2>3. CASE HeaderRecv
    BY <1>1, <2>2, <2>3 DEF HeaderRecv, ParkedOnlyWhenBlocked
  <2>4. CASE BodyClRecv
    <3>1. UNCHANGED <<st, body_len>>
      BY <1>1, <2>1, <2>4 DEF BodyClRecv, headVars, ParksBlocked, Park, ErrorReply, phase_send_begin, Advance,
                              slotVars, RecvBytes, RecvWouldBlock
    <3> QED
      BY <1>1, <2>2, <2>4, <3>1 DEF BodyClRecv, ParkedOnlyWhenBlocked
  <2>5. CASE BodyChunked
    BY <1>1, <2>5, ChunkedParks
  <2>6. ~HeaderComplete /\ ~BodyClComplete
    BY <1>1 DEF HeaderComplete, HeaderChecked, HeaderAccepted, RefuseWith, ErrorReply, phase_send_begin,
                phase_body_dispatch, BodyClComplete, ParksBlocked, Park, Advance, slotVars, conn_phase_event
  <2>7. HeaderRecv \/ BodyClRecv \/ BodyChunked
    BY <1>3, <2>6 DEF Step, Reading, Send100, ResponseBuild, ResponseSend, StreamSend, StreamPull, StreamDone
  <2> QED
    BY <2>3, <2>4, <2>5, <2>7
<1> QED
  BY <1>2, <1>3

(* Nothing but the connection itself touches what it waits with.           *)
LEMMA WaitKept ==
  ASSUME ParkedOnlyWhenBlocked, slot' = slot,
         UNCHANGED <<client, base, size, phase, body_start, body_len, st, dechunked>>
  PROVE  ParkedOnlyWhenBlocked'
BY DEF ParkedOnlyWhenBlocked, Parked, Terminators, ReqBuf

LEMMA AcceptParks == Accept => ParkedOnlyWhenBlocked'
<1> SUFFICES ASSUME Accept PROVE ParkedOnlyWhenBlocked'
  OBVIOUS
<1>1. phase' = "CONN_READING_REQUEST" /\ size' = 0 /\ base' = 0
  BY DEF Accept, connection_init
<1>2. client'.bytes \in Seq(STRING)
  BY CatalogueAssumption DEF Accept, Client, Byte
<1>3. Terminators' = {}
  <2>1. ReqBuf' = <<>>
    BY <1>1, <1>2 DEF ReqBuf
  <2>2. Len(CRLF \o CRLF) = 4
    BY DEF CRLF
  <2> QED
    BY <2>1, <2>2 DEF Terminators, Occurrences
<1> QED
  BY <1>1, <1>3, SizesAssumption DEF ParkedOnlyWhenBlocked

(* No wake-up is lost: what a connection parks with never lets it go on,   *)
(* a pipelined request, the rest of a body or a full buffer included, so   *)
(* that polling for POLLIN waits for nothing that has happened already     *)
(* (the do ... while of connection_step_process and the loops of           *)
(* conn_recv_header, conn_recv_body_cl and conn_recv_body_chunked).        *)
THEOREM NoLostWakeUp == Spec => []ParkedOnlyWhenBlocked
<1>1. Init => ParkedOnlyWhenBlocked
  BY DEF Init, ParkedOnlyWhenBlocked, Parked
<1>2. IInv /\ ParkedOnlyWhenBlocked /\ [Next]_vars => ParkedOnlyWhenBlocked'
  <2> SUFFICES ASSUME IInv, ParkedOnlyWhenBlocked, [Next]_vars PROVE ParkedOnlyWhenBlocked'
    OBVIOUS
  <2>1. CASE Step
    BY <2>1, StepParks
  <2>2. CASE Accept
    BY <2>2, AcceptParks
  <2>3. CASE PollWake
    BY <2>3 DEF PollWake, ParkedOnlyWhenBlocked, Parked
  <2>4. CASE Arrive \/ Shut \/ Reset
    BY <2>4, WaitKept DEF Arrive, Shut, Reset, serverVars, slotVars, headVars, bodyVars, bufVars
  <2>5. CASE Halted \/ UNCHANGED vars
    BY <2>5, WaitKept DEF Halted, vars, clientVars, slotVars, headVars, bodyVars, bufVars
  <2> QED
    BY <2>1, <2>2, <2>3, <2>4, <2>5 DEF Next, Environment
<1> QED
  BY Invariance, <1>1, <1>2, PTL DEF Spec

-----------------------------------------------------------------------------
(* The contract with the event loop. *)

(* poll is asked about a parked connection for what its phase waits for.   *)
LEMMA PhaseEvents ==
  ASSUME NEW ph
  PROVE  /\ ph \in Reading => conn_phase_event(ph) = "POLLIN"
         /\ ph \in Sending => conn_phase_event(ph) = "POLLOUT"
         /\ ph \notin Reading \cup Sending => conn_phase_event(ph) = "none"
BY DEF conn_phase_event, Reading, Sending

LEMMA AcceptMaps == Accept => Contract!Accept
<1> SUFFICES ASSUME Accept PROVE Contract!Accept
  OBVIOUS
<1>1. slot = "free" /\ slot' = "parked" /\ phase' = "CONN_READING_REQUEST"
  BY DEF Accept, connection_init
<1>2. conn_phase_event(phase') = "POLLIN"
  BY <1>1, PhaseEvents DEF Reading
<1>3. conn_phase_event(phase)' = "POLLIN"
  BY <1>2 DEF conn_phase_event, Reading
<1>4. (Connected /\ Readable)' \in BOOLEAN
  OBVIOUS
<1> QED
  BY <1>1, <1>3, <1>4 DEF Contract!Accept

(* Bytes, an end or an error at the socket: poll would report it.          *)
LEMMA ArriveMaps == IInv /\ (Arrive \/ Shut \/ Reset) => Contract!Arrive
<1> SUFFICES ASSUME IInv, Arrive \/ Shut \/ Reset PROVE Contract!Arrive
  OBVIOUS
<1>1. slot' = slot /\ phase' = phase /\ base' = base /\ size' = size /\ Connected
  BY DEF Arrive, Shut, Reset, serverVars, slotVars, bufVars
<1>2. Connected'
  BY <1>1 DEF Connected
<1>3. Readable'
  <2>1. CASE Arrive
    <3>1. PICK n \in 1 .. (Len(client.bytes) - arrived) : arrived' = arrived + n
      BY <2>1 DEF Arrive
    <3>2. n \in Nat /\ n > 0 /\ base \in Nat /\ size \in Nat /\ arrived \in Nat /\ base + size <= arrived
      BY SizesAssumption DEF IInv, TypeOK, OffsetsInBounds
    <3>3. arrived' - (base' + size') > 0
      BY <1>1, <3>1, <3>2
    <3> QED
      BY <3>3 DEF Readable, Unread
  <2>2. CASE Shut \/ Reset
    BY <2>2 DEF Shut, Reset, Readable
  <2> QED
    BY <2>1, <2>2
<1> QED
  BY <1>1, <1>2, <1>3 DEF Contract!Arrive, conn_phase_event

LEMMA PollWakeMaps == PollWake => Contract!Wake
<1> SUFFICES ASSUME PollWake PROVE Contract!Wake
  OBVIOUS
<1>1. slot = "parked" /\ slot' = "stepping" /\ Connected /\ Connected'
  BY DEF PollWake, Connected
<1>2. Readable' = Readable
  BY DEF PollWake, Readable, Unread, clientVars, bufVars
<1>3. conn_phase_event(phase) = "POLLIN" => Readable
  BY DEF PollWake
<1> QED
  BY <1>1, <1>2, <1>3 DEF Contract!Wake

(* A step that parks to read found nothing to read. *)
LEMMA ParksUnreadable ==
  ASSUME IInv, ParksBlocked, phase \in Reading
  PROVE  ~(Connected /\ Readable)'
<1>1. RecvWouldBlock /\ UNCHANGED <<arrived, peer, base, size>>
  BY DEF ParksBlocked, clientVars, bufVars
<1>2. Unread' = 0 /\ peer' = "open"
  BY <1>1 DEF RecvWouldBlock, Unread
<1> QED
  BY <1>2 DEF Readable

LEMMA StepMaps == IInv /\ Step => Contract!Next
<1> SUFFICES ASSUME IInv, Step PROVE Contract!Next
  OBVIOUS
<1>1. slot = "stepping" /\ (slot' \in {"stepping", "free"} \/ ParksBlocked)
  BY EveryStepEnds DEF StepEnds
<1>2. (Connected /\ Readable)' \in BOOLEAN
  OBVIOUS
<1>3. CASE slot' = "stepping" \/ slot' = "dead"
  <2>1. Contract!Proceed
    BY <1>1, <1>2, <1>3 DEF Contract!Proceed
  <2> QED
    BY <2>1 DEF Contract!Next
<1>4. CASE slot' = "free"
  <2>1. Contract!Drop
    BY <1>1, <1>2, <1>4 DEF Contract!Drop
  <2> QED
    BY <2>1 DEF Contract!Next
<1>5. CASE ParksBlocked /\ slot' = "parked"
  <2>1. phase' = phase /\ phase \in Reading \cup Sending
    BY <1>5, PhaseEvents DEF ParksBlocked, Park
  <2>2. conn_phase_event(phase)' = conn_phase_event(phase)
    BY <2>1 DEF conn_phase_event
  <2>3. conn_phase_event(phase) \in {"POLLIN", "POLLOUT"}
    BY <2>1, PhaseEvents
  <2>4. conn_phase_event(phase) = "POLLIN" => ~(Connected /\ Readable)'
    BY <1>5, <2>1, PhaseEvents, ParksUnreadable
  <2>5. Contract!Park
    BY <1>1, <1>2, <1>5, <2>2, <2>3, <2>4 DEF Contract!Park
  <2> QED
    BY <2>5 DEF Contract!Next
<1> QED
  BY <1>1, <1>3, <1>4, <1>5 DEF ParksBlocked, Park

(* A connection keeps its side of the contract with the event loop: it is  *)
(* stepped only for what it waits for, and goes back to poll only to wait  *)
(* for what its socket would block on at that moment, so that no event can *)
(* come between the recv that blocked and the poll.                        *)
THEOREM SlotImplemented == Spec => ImplementsSlot
<1>1. Init => Contract!Init
  BY DEF Init, Contract!Init
<1>2. IInv /\ [Next]_vars => [Contract!Next]_(Contract!slot)
  <2> SUFFICES ASSUME IInv, [Next]_vars PROVE Contract!Next \/ UNCHANGED Contract!slot
    OBVIOUS
  <2>1. CASE Step
    BY <2>1, StepMaps
  <2>2. CASE Accept
    BY <2>2, AcceptMaps DEF Contract!Next
  <2>3. CASE Arrive \/ Shut \/ Reset
    BY <2>3, ArriveMaps DEF Contract!Next
  <2>4. CASE PollWake
    BY <2>4, PollWakeMaps DEF Contract!Next
  <2>5. CASE Halted \/ UNCHANGED vars
    BY <2>5 DEF Halted, vars, slotVars, clientVars, bufVars, Contract!slot, conn_phase_event, Connected,
                Readable, Unread
  <2> QED
    BY <2>1, <2>2, <2>3, <2>4, <2>5 DEF Next, Environment
<1> QED
  BY Invariance, <1>1, <1>2, PTL DEF Spec, ImplementsSlot, Contract!Spec

-----------------------------------------------------------------------------
(* The order of the answers. *)

(* The answer a is to a request before p or, when no handler saw it, at p. *)
Behind(a, p) == a.pos <= p /\ (a.status = "HANDLED" => a.pos < p)

(* Responses answer requests in the order of the client's stream, and what *)
(* a handler has answered is never parsed as a request again, whatever was *)
(* pipelined behind it and however it arrived (request_consume,            *)
(* connection_reset).  An error reply leaves its request in the buffer.    *)
AnsweredInOrder ==
  \A j \in DOMAIN answers : \A i \in 1 .. j - 1 : Behind(answers[i], answers[j].pos)

(* A response is built from a header block that is in the buffer.          *)
HeadHeld ==
  phase \in {"CONN_SENDING_100", "CONN_READING_BODY_CL", "CONN_READING_BODY_CHUNKED", "CONN_BUILDING"} =>
    0 < body_start /\ body_start <= size

(* What has been answered lies before the buffer, and before the response  *)
(* that is being sent.                                                     *)
AnswersBehind ==
  /\ \A i \in DOMAIN answers : Behind(answers[i], base)
  /\ phase \in Sending => Behind(resp, base) /\ \A i \in DOMAIN answers : Behind(answers[i], resp.pos)

OrderInv == AnsweredInOrder /\ HeadHeld /\ AnswersBehind

LEMMA BehindGrows ==
  ASSUME NEW a, a.pos \in Nat, NEW p \in Nat, NEW q \in Nat, p <= q, Behind(a, p)
  PROVE  Behind(a, q)
BY DEF Behind

(* What a step does to the answers and to the response.                    *)
Keeps ==
  /\ answers' = answers /\ base' = base
  /\ phase' \in Sending => phase \in Sending /\ resp'.pos = resp.pos /\ resp'.status = resp.status

Refuses == answers' = answers /\ base' = base /\ resp'.pos = base /\ resp'.status # "HANDLED"

Builds == answers' = answers /\ base' \in Nat /\ base < base' /\ resp'.pos = base

Answered ==
  /\ phase \in Sending /\ phase' \notin Sending /\ base' = base
  /\ answers' = Append(answers, [pos |-> resp.pos, connection |-> resp.connection, status |-> resp.status])

LEMMA ErrorReplyRefuses ==
  ASSUME NEW STATE status, ErrorReply(status), status # "HANDLED", UNCHANGED <<answers, base>>
  PROVE  Refuses
BY DEF ErrorReply, Refuses, Reply

LEMMA NotSendingKeeps ==
  ASSUME UNCHANGED <<answers, base>>, phase' \notin Sending
  PROVE  Keeps
BY DEF Keeps

LEMMA HeaderStatuses ==
  ASSUME NEW r \in Request
  PROVE  /\ CodingStatus(r) # "HANDLED"
         /\ ContentLength(r).status # "HANDLED"
<1>1. r.cl.value \in Seq(STRING)
  BY DEF Request, Byte
<1>2. ContentLength(r).status \in {"PARSE_OK", "PARSE_BAD_REQUEST", "PARSE_PAYLOAD_TOO_LARGE"}
  BY <1>1, UintParseBounded, MaxBodyLenAssumption DEF ContentLength
<1> QED
  BY <1>2 DEF CodingStatus

LEMMA HeaderCompleteOrder == IInv /\ HeaderComplete => Keeps \/ Refuses
<1> SUFFICES ASSUME IInv, HeaderComplete PROVE Keeps \/ Refuses
  OBVIOUS
<1> DEFINE name  == ReqBuf[1]
           r     == Requests[name]
           start == Least(Terminators) + 4
<1>1. UNCHANGED <<answers, base>>
  BY DEF HeaderComplete, bufVars
<1>2. CASE request_parse(name) # "PARSE_OK"
  <2>1. request_parse(name) # "HANDLED"
    BY CatalogueAssumption DEF request_parse, Request, ParseFailures
  <2>2. ErrorReply(request_parse(name))
    BY <1>2 DEF HeaderComplete, RefuseWith
  <2> QED
    BY <1>1, <2>1, <2>2, ErrorReplyRefuses
<1>3. CASE request_parse(name) = "PARSE_OK"
  <2>1. r \in Request
    BY <1>3, CatalogueAssumption DEF request_parse
  <2> HIDE DEF start
  <2>2. ErrorReply("PARSE_BAD_REQUEST") \/ HeaderChecked(r, start)
    BY <1>3 DEF HeaderComplete, RefuseWith, start
  <2> HIDE DEF r
  <2>3. CASE ErrorReply("PARSE_BAD_REQUEST")
    BY <1>1, <2>3, ErrorReplyRefuses
  <2>4. CASE HeaderChecked(r, start)
    <3>1. \/ ErrorReply("PARSE_BAD_REQUEST") \/ ErrorReply(CodingStatus(r)) \/ ErrorReply(ContentLength(r).status)
          \/ \E len : HeaderAccepted(r, start, len)
      BY <2>4 DEF HeaderChecked, RefuseWith
    <3>2. ASSUME NEW len, HeaderAccepted(r, start, len) PROVE Keeps \/ Refuses
      <4>1. \/ ErrorReply("PARSE_BAD_REQUEST")
            \/ phase' \notin Sending
        BY <3>2 DEF HeaderAccepted, phase_body_dispatch, Advance, Sending
      <4> QED
        BY <1>1, <4>1, ErrorReplyRefuses, NotSendingKeeps
    <3> QED
      BY <1>1, <2>1, <3>1, <3>2, HeaderStatuses, ErrorReplyRefuses
  <2> QED
    BY <2>2, <2>3, <2>4
<1> QED
  BY <1>2, <1>3

LEMMA ReadingOrder == IInv /\ (HeaderRecv \/ Send100 \/ BodyClComplete \/ BodyClRecv) => Keeps \/ Refuses
<1> SUFFICES ASSUME IInv, HeaderRecv \/ Send100 \/ BodyClComplete \/ BodyClRecv PROVE Keeps \/ Refuses
  OBVIOUS
<1>1. answers' = answers /\ base' = base
  BY DEF HeaderRecv, RefuseWith, RecvBytes, Send100, BodyClComplete, BodyClRecv, bufVars
<1>2. \/ ErrorReply("PARSE_HEADER_TOO_LONG") \/ ErrorReply("PARSE_BAD_REQUEST")
      \/ phase' \notin Sending
  BY DEF HeaderRecv, RefuseWith, Send100, BodyClComplete, BodyClRecv, phase_body_dispatch, Advance, Park, Close,
         Sending
<1> QED
  BY <1>1, <1>2, ErrorReplyRefuses, NotSendingKeeps

LEMMA BodyChunkedOrder == IInv /\ BodyChunked => Keeps \/ Refuses
<1> SUFFICES ASSUME IInv, BodyChunked PROVE Keeps \/ Refuses
  OBVIOUS
<1> DEFINE cr == chunk_advance(st.dec, Undecoded, HTTP_MAX_DECHUNK_SIZE - dechunked)
<1>1. cr.status # "HANDLED"
  <2>1. phase = "CONN_READING_BODY_CHUNKED"
    BY DEF BodyChunked
  <2>2. ChunkStepOK(st.dec, Undecoded, HTTP_MAX_DECHUNK_SIZE - dechunked, cr)
    BY <2>1, UndecodedIsText, ChunkAdvanceOK
  <2> QED
    BY <2>2 DEF ChunkStepOK, ChunkStatuses
<1> HIDE DEF cr
<1>2. answers' = answers /\ base' = base
  BY DEF BodyChunked, RecvBytes, bufVars
<1>3. \/ ErrorReply(cr.status) \/ ErrorReply("PARSE_PAYLOAD_TOO_LARGE") \/ ErrorReply("PARSE_BAD_REQUEST")
      \/ phase' \notin Sending
  BY DEF BodyChunked, cr, Undecoded, Advance, Park, Sending
<1> QED
  BY <1>1, <1>2, <1>3, ErrorReplyRefuses, NotSendingKeeps

LEMMA ResponseBuildOrder == IInv /\ HeadHeld /\ ResponseBuild => Builds
<1> SUFFICES ASSUME IInv, HeadHeld, ResponseBuild PROVE Builds
  OBVIOUS
<1>1. answers' = answers /\ resp'.pos = base /\ request_consume
  BY DEF ResponseBuild, Serialised, Reply
<1>2. base \in Nat /\ size \in Nat /\ size > 0 /\ next_req_offset \in Nat
  BY SizesAssumption DEF ResponseBuild, HeadHeld, IInv, TypeOK
<1> QED
  BY <1>1, <1>2 DEF Builds, request_consume

LEMMA SendingOrder == IInv /\ (ResponseSend \/ StreamSend \/ StreamPull \/ StreamDone) => Keeps \/ Answered
<1> SUFFICES ASSUME IInv, ResponseSend \/ StreamSend \/ StreamPull \/ StreamDone PROVE Keeps \/ Answered
  OBVIOUS
<1>1. phase \in Sending /\ base' = base
  BY DEF ResponseSend, StreamSend, StreamPull, StreamDone, StreamUntouched, bufVars, Sending
<1>2. CASE AnswerSent
  <2>1. phase' \notin Sending
    BY <1>2, AnswerSentFacts DEF IInv, Sending
  <2> QED
    BY <1>1, <1>2, <2>1 DEF Answered, AnswerSent
<1>3. CASE ~AnswerSent
  <2>1. answers' = answers
    BY <1>3 DEF ResponseSend, StreamSend, StreamPull, StreamDone, StreamUntouched
  <2>2. (resp'.pos = resp.pos /\ resp'.status = resp.status) \/ phase' \notin Sending
    BY <1>3 DEF ResponseSend, StreamSend, StreamPull, StreamDone, Frame, respVars, IInv, TypeOK, Responses,
                stream_abort, Close, Sending
  <2> QED
    BY <1>1, <2>1, <2>2 DEF Keeps
<1> QED
  BY <1>2, <1>3

(* The header block stays in the buffer until the response is built.       *)
LEMMA StepHoldsHead ==
  ASSUME IInv, HeadHeld, Step
  PROVE  HeadHeld'
<1> USE DEF HeadHeld
<1>1. size \in Nat /\ body_start \in Nat
  BY SizesAssumption DEF IInv, TypeOK
<1>2. CASE HeaderComplete
  <2> DEFINE start == Least(Terminators) + 4
  <2>1. start \in 4 .. size
    BY <1>2, TerminatorInBounds DEF HeaderComplete
  <2> HIDE DEF start
  <2>2. 0 < start /\ start <= size /\ size' = size
    BY <1>1, <1>2, <2>1 DEF HeaderComplete, bufVars
  <2>3. body_start' = start \/ phase' = "CONN_SENDING_RESPONSE"
    BY <1>2 DEF HeaderComplete, RefuseWith, ErrorReply, phase_send_begin, Advance, start
  <2> QED
    BY <2>2, <2>3
<1>3. CASE BodyClComplete \/ BodyClRecv \/ BodyChunked
  <2>1. size' \in Nat /\ size <= size'
    <3>1. UNCHANGED clientVars /\ (UNCHANGED bufVars \/ RecvBytes)
      BY <1>3 DEF BodyClComplete, BodyClRecv, BodyChunked
    <3> QED
      BY <1>1, <3>1, RecvBytesFacts DEF bufVars
  <2>2. body_start' = body_start /\ 0 < body_start /\ body_start <= size
    BY <1>3 DEF BodyClComplete, BodyClRecv, BodyChunked, headVars
  <2> QED
    BY <1>1, <2>1, <2>2
<1>4. CASE Send100
  BY <1>4 DEF Send100, headVars, bufVars
<1>5. CASE HeaderRecv
  BY <1>5 DEF HeaderRecv, RefuseWith, ErrorReply, phase_send_begin, Advance, Park, Close, slotVars
<1>6. CASE ResponseBuild
  BY <1>6 DEF ResponseBuild, phase_send_begin, Advance
<1>7. CASE ResponseSend \/ StreamSend \/ StreamPull \/ StreamDone
  <2>1. CASE AnswerSent
    BY <2>1, AnswerSentFacts DEF IInv
  <2>2. CASE ~AnswerSent
    BY <1>7, <2>2 DEF ResponseSend, StreamSend, StreamPull, StreamDone, Frame, Park, stream_abort, Close
  <2> QED
    BY <2>1, <2>2
<1> QED
  BY <1>2, <1>3, <1>4, <1>5, <1>6, <1>7 DEF Step

(* The types the order is said of. *)
LEMMA PositionsAreNat ==
  ASSUME IInv
  PROVE  /\ base \in Nat /\ resp.pos \in Nat /\ answers \in Seq(Answers) /\ Len(answers) \in Nat
         /\ \A i \in DOMAIN answers : answers[i].pos \in Nat
<1>1. base \in Nat /\ resp \in Responses /\ answers \in Seq(Answers)
  BY DEF IInv, TypeOK
<1>2. \A i \in DOMAIN answers : answers[i] \in Answers
  BY <1>1
<1> QED
  BY <1>1, <1>2 DEF Responses, Answers

LEMMA StepKeepsOrder ==
  ASSUME IInv, OrderInv, Step
  PROVE  AnsweredInOrder' /\ AnswersBehind'
<1> USE DEF OrderInv
<1>1. Keeps \/ Refuses \/ Builds \/ Answered
  BY HeaderCompleteOrder, ReadingOrder, BodyChunkedOrder, ResponseBuildOrder, SendingOrder DEF Step
<1>2. /\ base \in Nat /\ resp.pos \in Nat /\ answers \in Seq(Answers) /\ Len(answers) \in Nat
      /\ \A i \in DOMAIN answers : answers[i].pos \in Nat
  BY PositionsAreNat
<1>3. CASE Keeps
  BY <1>3 DEF Keeps, AnsweredInOrder, AnswersBehind, Behind
<1>4. CASE Refuses
  <2>1. AnsweredInOrder'
    BY <1>4 DEF Refuses, AnsweredInOrder, Behind
  <2>2. \A i \in DOMAIN answers' : Behind(answers'[i], base')
    BY <1>4 DEF Refuses, AnswersBehind
  <2>3. Behind(resp', base')
    BY <1>2, <1>4 DEF Refuses, Behind
  <2> QED
    BY <1>4, <2>1, <2>2, <2>3 DEF AnswersBehind, Behind, Refuses
<1>5. CASE Builds
  <2>1. AnsweredInOrder'
    BY <1>5 DEF Builds, AnsweredInOrder, Behind
  <2>2. \A i \in DOMAIN answers' : Behind(answers'[i], resp'.pos)
    BY <1>5 DEF Builds, AnswersBehind
  <2>3. resp'.pos < base' /\ base' \in Nat /\ resp'.pos \in Nat
    BY <1>2, <1>5 DEF Builds
  <2>4. Behind(resp', base')
    BY <2>3 DEF Behind
  <2>5. \A i \in DOMAIN answers' : Behind(answers'[i], base')
    BY <1>2, <1>5, <2>2, <2>3, BehindGrows DEF Builds
  <2> QED
    BY <2>1, <2>2, <2>4, <2>5 DEF AnswersBehind, Behind
<1>6. CASE Answered
  <2> DEFINE last == [pos |-> resp.pos, connection |-> resp.connection, status |-> resp.status]
  <2>1. answers' = Append(answers, last) /\ base' = base /\ phase' \notin Sending
        /\ Behind(resp, base) /\ \A i \in DOMAIN answers : Behind(answers[i], resp.pos)
    BY <1>6 DEF Answered, AnswersBehind
  <2>2. last.pos = resp.pos /\ Behind(last, base)
    BY <2>1 DEF Behind
  <2> HIDE DEF last
  <2>3. /\ DOMAIN answers' = 1 .. Len(answers) + 1 /\ DOMAIN answers = 1 .. Len(answers)
        /\ answers'[Len(answers) + 1] = last
        /\ \A i \in DOMAIN answers : answers'[i] = answers[i]
    BY <1>2, <2>1
  <2>4. AnsweredInOrder'
    <3> SUFFICES ASSUME NEW j \in DOMAIN answers', NEW i \in 1 .. j - 1
                 PROVE  Behind(answers'[i], answers'[j].pos)
      BY DEF AnsweredInOrder, Behind
    <3>1. i \in DOMAIN answers /\ answers'[i] = answers[i]
      BY <1>2, <2>3
    <3>2. CASE j \in DOMAIN answers
      BY <2>3, <3>1, <3>2 DEF AnsweredInOrder
    <3>3. CASE j = Len(answers) + 1
      BY <2>1, <2>2, <2>3, <3>1, <3>3
    <3> QED
      BY <1>2, <2>3, <3>2, <3>3
  <2>5. \A i \in DOMAIN answers' : Behind(answers'[i], base')
    <3> SUFFICES ASSUME NEW i \in DOMAIN answers' PROVE Behind(answers'[i], base')
      OBVIOUS
    <3>1. CASE i \in DOMAIN answers
      BY <2>1, <2>3, <3>1 DEF AnswersBehind
    <3>2. CASE i = Len(answers) + 1
      BY <2>1, <2>2, <2>3, <3>2
    <3> QED
      BY <1>2, <2>3, <3>1, <3>2
  <2> QED
    BY <2>1, <2>4, <2>5 DEF AnswersBehind, Behind
<1> QED
  BY <1>1, <1>3, <1>4, <1>5, <1>6

(* Whatever a client sends and however it arrives, its requests are        *)
(* answered in the order of its stream, and none that a handler has        *)
(* answered is answered again.                                             *)
THEOREM InOrder == Spec => []AnsweredInOrder
<1>1. Init => OrderInv
  BY DEF Init, OrderInv, AnsweredInOrder, HeadHeld, AnswersBehind, Sending
<1>2. IInv /\ OrderInv /\ [Next]_vars => OrderInv'
  <2> SUFFICES ASSUME IInv, OrderInv, [Next]_vars PROVE OrderInv'
    OBVIOUS
  <2>1. CASE Step
    BY <2>1, StepKeepsOrder, StepHoldsHead DEF OrderInv
  <2>2. CASE Accept
    BY <2>2 DEF Accept, connection_init, OrderInv, AnsweredInOrder, HeadHeld, AnswersBehind, Sending
  <2>3. CASE PollWake \/ Arrive \/ Shut \/ Reset \/ Halted \/ UNCHANGED vars
    <3>1. UNCHANGED <<answers, base, size, phase, body_start, resp>>
      BY <2>3 DEF PollWake, Arrive, Shut, Reset, Halted, vars, serverVars, headVars, bufVars, respVars
    <3> QED
      BY <3>1 DEF OrderInv, AnsweredInOrder, HeadHeld, AnswersBehind, Behind
  <2> QED
    BY <2>1, <2>2, <2>3 DEF Next, Environment
<1> QED
  BY Invariance, <1>1, <1>2, PTL DEF Spec, OrderInv
=============================================================================
