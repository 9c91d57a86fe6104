--------------------------- MODULE HttpRequestProofs ---------------------------
(***************************************************************************)
(* Parsing a request head, for every text a client may send, every way the *)
(* bytes arrive and every capacity: the two scanners agree on where the    *)
(* head ends, no array is written past its capacity, and a list of codings *)
(* is judged as its table says.                                            *)
(***************************************************************************)
EXTENDS HttpRequest, FiniteSetTheorems, SequenceTheorems, TLAPS

-----------------------------------------------------------------------------
(* The inductive invariant *)

Term == body_start - 4

(* body_start follows the first CR LF CR LF of what was received, and the  *)
(* end that request_parse works with is not before it.                     *)
HeadFound ==
  body_start > 0 =>
    /\ Term \in 1 .. size - 3 /\ CrlfAt(Term) /\ CrlfAt(Term + 2)
    /\ \A u \in 1 .. size - 3 : CrlfAt(u) /\ CrlfAt(u + 2) => Term <= u
    /\ body_start <= stop

(* Reading and parsing are apart. *)
Apart ==
  /\ at \in {"receive", "closed"} => body_start = 0
  /\ at \notin {"receive", "closed", "done"} => body_start > 0

(* Every line ends at or before the terminator, at a CR LF. *)
InLine ==
  at \in {"method", "target", "uri", "version", "key", "value"} =>
    cur <= eol /\ eol <= Term /\ CrlfAt(eol)

(* Where a token ends within the line. *)
InToken ==
  /\ at \in {"uri", "key"} => cur <= limit /\ limit < eol
  /\ at = "value" => /\ cur <= limit /\ limit <= eol
                     /\ Len(value) + (limit - cur) <= HTTP_MAX_HEADER_VALUE_LEN - 1
  /\ at = "uri" /\ into = "path" => query = <<>>
  /\ at = "key" => value = <<>>

(* Between lines the cursor is at, or just after, a CR LF. *)
BetweenLines ==
  /\ at = "line_end" => cur <= Term /\ CrlfAt(cur)
  /\ at = "header_line" => 3 <= cur /\ cur <= Term + 2 /\ CrlfAt(cur - 2)

InField == at = "element" => field <= Len(headers)

IInv == TypeOK /\ ScansAgree /\ HeadFound /\ Apart /\ InLine /\ InToken /\ BetweenLines /\ InField

-----------------------------------------------------------------------------
(* A line that starts at or before a CR LF ends there or before. *)
LEMMA LineEndsInHead ==
  ASSUME NEW t \in Int, CrlfAt(t), NEW end \in Int, t + 1 < end,
         NEW p \in Int, p <= t, NEW e \in crlf_find(p, end)
  PROVE  e \in Int /\ p <= e /\ e <= t /\ CrlfAt(e)
<1>1. e \in p .. end /\ (e = end \/ CrlfAt(e)) /\ \A k \in p .. e - 1 : ~(k + 1 < end /\ CrlfAt(k))
  BY DEF crlf_find
<1>2. e <= t
  BY <1>1
<1> QED  BY <1>1, <1>2

(* An early return disturbs nothing. *)
LEMMA FailKeeps ==
  ASSUME IInv, NEW why \in Statuses, Fail(why)
  PROVE  IInv'
BY DEF IInv, Fail, TypeOK, ScansAgree, HeadFound, Apart, InLine, InToken, BetweenLines, InField, Term,
       CrlfAt, recvVars, lineVars, fieldVars, teVars, Statuses

LEMMA InitHolds == Init => IInv
<1> SUFFICES ASSUME Init PROVE IInv  OBVIOUS
<1>1. text \in Seq(Bytes) /\ Len(text) \in Nat
  BY TextsAssumption DEF Init
<1>2. <<>> \in Seq(Bytes) /\ <<>> \in Seq([key : Seq(Bytes), value : Seq(Bytes)]) /\ Len(<<>>) = 0
  OBVIOUS
<1>3. /\ HTTP_MAX_REQUEST_LEN >= 0 /\ HTTP_MAX_HEADERS >= 0 /\ HTTP_MAX_PATH_LEN > 0
      /\ HTTP_MAX_QUERY_LEN > 0 /\ HTTP_MAX_HEADER_KEY_LEN > 0 /\ HTTP_MAX_HEADER_VALUE_LEN > 0
  BY CapsAssumption
<1>4. TypeOK
  <2>1. size \in 0 .. Len(text) /\ size <= HTTP_MAX_REQUEST_LEN /\ body_start \in 0 .. size + 1
    BY <1>1, <1>3 DEF Init
  <2>2. stop \in 1 .. size + 1 /\ cur \in 1 .. size + 1 /\ eol \in 1 .. size + 1 /\ limit \in 1 .. size + 1
    BY DEF Init
  <2>3. chunked_position \in -1 .. total_non_empty - 1 /\ field \in 1 .. Len(headers) + 1
    BY <1>2 DEF Init
  <2>4. has_unsupported \in BOOLEAN
    BY Zenon DEF Init
  <2>5. /\ path = <<>> /\ query = <<>> /\ key = <<>> /\ value = <<>> /\ headers = <<>>
        /\ at = "receive" /\ into = "path" /\ status = "none" /\ tcur = 1 /\ total_non_empty = 0
        /\ body_coding = "TE_NONE" /\ te_status = "PARSE_OK"
    BY DEF Init
  <2> QED  BY <1>1, <1>2, <1>3, <2>1, <2>2, <2>3, <2>4, <2>5 DEF TypeOK, Statuses
<1> QED
  BY <1>4 DEF Init, IInv, ScansAgree, HeadFound, Apart, InLine, InToken, BetweenLines, InField

-----------------------------------------------------------------------------
(* conn_recv_header *)

(* An index of what was received stays one when more is. *)
LEMMA StillReceived ==
  ASSUME NEW m \in Nat, NEW n \in Nat, m <= n
  PROVE  0 \in 0 .. n + 1 /\ \A i \in 1 .. m + 1 : i \in 1 .. n + 1
OBVIOUS

LEMMA RecvKeeps ==
  ASSUME IInv, RecvBytes \/ RecvEnds
  PROVE  IInv'
<1>1. CASE RecvBytes
  <2>1. /\ at = "receive" /\ at' = "receive" /\ body_start = 0 /\ body_start' = 0 /\ text' = text
        /\ size' \in size + 1 .. Len(text) /\ size' <= HTTP_MAX_REQUEST_LEN
        /\ UNCHANGED <<stop, cur, eol, limit, lineVars, fieldVars, headers, status, teVars>>
    BY <1>1 DEF IInv, Apart, RecvBytes
  <2>2. /\ size' \in 0 .. Len(text') /\ body_start' \in 0 .. size' + 1 /\ stop' \in 1 .. size' + 1
        /\ cur' \in 1 .. size' + 1 /\ eol' \in 1 .. size' + 1 /\ limit' \in 1 .. size' + 1
    <3>1. size \in Nat /\ Len(text) \in Nat /\ size' \in Nat /\ size <= size' /\ size' <= Len(text)
      BY <2>1 DEF IInv, TypeOK
    <3>2. /\ stop \in 1 .. size + 1 /\ cur \in 1 .. size + 1 /\ eol \in 1 .. size + 1 /\ limit \in 1 .. size + 1
      BY DEF IInv, TypeOK
    <3>3. stop' = stop /\ cur' = cur /\ eol' = eol /\ limit' = limit
      BY <2>1
    <3>4. /\ stop' \in 1 .. size' + 1 /\ cur' \in 1 .. size' + 1 /\ eol' \in 1 .. size' + 1 /\ limit' \in 1 .. size' + 1
      BY <3>1, <3>2, <3>3, StillReceived
    <3>5. body_start' \in 0 .. size' + 1
      <4>1. 0 \in 0 .. size' + 1
        BY <3>1, StillReceived
      <4> QED  BY <2>1, <4>1
    <3>6. size' \in 0 .. Len(text')
      BY <2>1, <3>1
    <3> QED  BY <3>4, <3>5, <3>6
  <2>3. TypeOK'
    BY <2>1, <2>2 DEF IInv, TypeOK, lineVars, fieldVars, teVars
  <2> QED
    BY <2>1, <2>3 DEF IInv, ScansAgree, HeadFound, Apart, InLine, InToken, BetweenLines, InField
<1>2. CASE RecvEnds
  BY <1>2 DEF IInv, RecvEnds, TypeOK, ScansAgree, HeadFound, Apart, InLine, InToken, BetweenLines, InField,
              recvVars, lineVars, fieldVars, teVars
<1> QED  BY <1>1, <1>2

LEMMA HeadReceivedKeeps ==
  ASSUME IInv, HeadReceived
  PROVE  IInv'
<1>0. /\ text' = text /\ size' = size /\ at' = "method" /\ cur' = 1 /\ limit' = limit
      /\ path' = path /\ query' = query /\ into' = into /\ key' = key /\ value' = value
      /\ headers' = headers /\ status' = status /\ UNCHANGED teVars
      /\ stop' \in ows_trim_trailing(text, 1, size + 1) /\ eol' \in crlf_find(1, stop')
  BY DEF HeadReceived, lineVars, fieldVars
<1>1. PICK t \in Terminators(size) : (\A u \in Terminators(size) : t <= u) /\ body_start' = t + 4
  BY DEF HeadReceived
<1>2. /\ size \in Nat /\ t \in 1 .. size - 3 /\ CrlfAt(t) /\ CrlfAt(t + 2)
      /\ \A u \in 1 .. size - 3 : CrlfAt(u) /\ CrlfAt(u + 2) => t <= u
  BY <1>1 DEF Terminators, IInv, TypeOK
<1>3. stop' \in 1 .. size + 1 /\ body_start' <= stop'
  <2>1. stop' \in 1 .. size + 1 /\ \A k \in stop' .. size + 1 - 1 : text[k] \in Ows
    BY <1>0, <1>2 DEF ows_trim_trailing
  <2>2. text[t + 3] = "LF" /\ t + 3 \in 1 .. size
    BY <1>2 DEF CrlfAt
  <2> QED  BY <2>1, <2>2, <1>1, <1>2 DEF Ows
<1>4. eol' \in Int /\ 1 <= eol' /\ eol' <= t /\ CrlfAt(eol')
  <2>1. t \in Int /\ 1 <= t /\ stop' \in Int /\ t + 1 < stop'
    BY <1>1, <1>2, <1>3
  <2> QED  BY <1>0, <1>2, <2>1, LineEndsInHead
<1>5. TypeOK'
  BY <1>0, <1>1, <1>2, <1>3, <1>4 DEF IInv, TypeOK, teVars
<1>6. HeadFound'
  BY <1>0, <1>1, <1>2, <1>3 DEF HeadFound, Term, CrlfAt
<1>7. InLine' /\ Apart'
  BY <1>0, <1>1, <1>2, <1>4 DEF InLine, Apart, Term, CrlfAt
<1> QED
  BY <1>0, <1>5, <1>6, <1>7 DEF IInv, ScansAgree, InToken, BetweenLines, InField

-----------------------------------------------------------------------------
(* The request line *)

LEMMA MethodKeeps ==
  ASSUME IInv, method_parse
  PROVE  IInv'
<1>1. PICK sp \in byte_find(text, "SP", cur, eol) :
        IF sp = cur + 1 /\ sp < eol /\ text[cur] = "GET"
        THEN /\ at' = "target" /\ cur' = sp + 1
             /\ UNCHANGED <<recvVars, stop, eol, limit, lineVars, fieldVars, headers, status, teVars>>
        ELSE Fail("PARSE_BAD_REQUEST")
  BY DEF method_parse
<1>2. CASE sp = cur + 1 /\ sp < eol /\ text[cur] = "GET"
  BY <1>1, <1>2 DEF method_parse, IInv, TypeOK, ScansAgree, HeadFound, Apart, InLine, InToken, BetweenLines,
       InField, Term, CrlfAt, recvVars, lineVars, fieldVars, teVars
<1>3. CASE ~(sp = cur + 1 /\ sp < eol /\ text[cur] = "GET")
  BY <1>1, <1>3, FailKeeps DEF Statuses
<1> QED  BY <1>2, <1>3

LEMMA UriStartKeeps ==
  ASSUME IInv, uri_start
  PROVE  IInv'
<1>1. PICK sp \in byte_find(text, "SP", cur, eol) :
        IF cur < eol /\ sp < eol /\ text[cur] = "SLASH"
        THEN /\ at' = "uri" /\ limit' = sp /\ path' = <<>> /\ query' = <<>> /\ into' = "path"
             /\ UNCHANGED <<recvVars, stop, cur, eol, fieldVars, headers, status, teVars>>
        ELSE Fail("PARSE_BAD_REQUEST")
  BY DEF uri_start
<1>2. CASE cur < eol /\ sp < eol /\ text[cur] = "SLASH"
  <2>1. sp \in cur .. eol
    BY DEF byte_find
  <2> QED
    BY <1>1, <1>2, <2>1, CapsAssumption
       DEF uri_start, IInv, TypeOK, ScansAgree, HeadFound, Apart, InLine, InToken, BetweenLines,
           InField, Term, CrlfAt, recvVars, fieldVars, teVars
<1>3. CASE ~(cur < eol /\ sp < eol /\ text[cur] = "SLASH")
  BY <1>1, <1>3, FailKeeps DEF Statuses
<1> QED  BY <1>2, <1>3

LEMMA UriByteKeeps ==
  ASSUME IInv, UriByte
  PROVE  IInv'
<1> DEFINE c == text[cur]
<1>1. CASE UriRefuses(c) # "none" /\ Fail(UriRefuses(c))
  <2>1. UriRefuses(c) \in Statuses
    BY <1>1 DEF UriRefuses, Statuses
  <2> QED  BY <1>1, <2>1, FailKeeps
<1>2. ASSUME UriRefuses(c) = "none",
             UNCHANGED <<recvVars, stop, at, eol, limit, fieldVars, headers, status, teVars>>,
             \/ /\ c = "QUEST" /\ into = "path"
                /\ into' = "query" /\ query' = <<c>> /\ path' = path /\ cur' = cur + 1
             \/ /\ c = "PCT" /\ into' = into
                /\ Store(<<c, text[cur + 1], text[cur + 2]>>) /\ cur' = cur + 3
             \/ /\ c # "PCT" /\ ~(c = "QUEST" /\ into = "path") /\ into' = into
                /\ Store(<<c>>) /\ cur' = cur + 1
      PROVE  IInv'
  <2>1. /\ at = "uri" /\ cur \in Int /\ limit \in Int /\ 1 <= cur /\ cur < limit /\ limit < eol
        /\ eol \in Int /\ eol <= Term /\ Term \in Int /\ Term <= size /\ size <= Len(text) /\ Len(text) \in Nat
        /\ text \in Seq(Bytes) /\ c \in Bytes /\ size \in Nat
    BY DEF UriByte, IInv, TypeOK, InLine, InToken, Apart, HeadFound, Term
  <2>2. /\ cur' \in Int /\ cur <= cur' /\ cur' <= limit
        /\ path' \in Seq(Bytes) /\ Len(path') < HTTP_MAX_PATH_LEN
        /\ query' \in Seq(Bytes) /\ Len(query') < HTTP_MAX_QUERY_LEN
        /\ into' \in {"path", "query"} /\ (into' = "path" => query' = <<>>)
    <3>0. /\ path \in Seq(Bytes) /\ query \in Seq(Bytes) /\ into \in {"path", "query"}
          /\ Len(path) \in Nat /\ Len(query) \in Nat
          /\ Len(path) < HTTP_MAX_PATH_LEN /\ Len(query) < HTTP_MAX_QUERY_LEN
          /\ HTTP_MAX_PATH_LEN \in Nat /\ HTTP_MAX_QUERY_LEN \in Nat /\ 1 < HTTP_MAX_QUERY_LEN
          /\ (into = "path" => query = <<>>)
      BY <2>1, CapsAssumption DEF IInv, TypeOK, InToken
    <3>1. ASSUME NEW s \in Seq(Bytes), NEW n \in Nat, Len(s) = n, ~Full(n), Store(s), into' = into
          PROVE  /\ path' \in Seq(Bytes) /\ Len(path') < HTTP_MAX_PATH_LEN
                 /\ query' \in Seq(Bytes) /\ Len(query') < HTTP_MAX_QUERY_LEN
                 /\ into' \in {"path", "query"} /\ (into' = "path" => query' = <<>>)
      <4>1. CASE into = "path"
        <5>1. path' = path \o s /\ query' = query /\ Len(path) + n <= HTTP_MAX_PATH_LEN - 1
          BY <3>0, <3>1, <4>1 DEF Full, Stored, Cap, Store
        <5>2. path \o s \in Seq(Bytes) /\ Len(path \o s) = Len(path) + Len(s)
          BY <3>0, <3>1
        <5> QED  BY <3>0, <3>1, <5>1, <5>2
      <4>2. CASE into = "query"
        <5>1. path' = path /\ query' = query \o s /\ Len(query) + n <= HTTP_MAX_QUERY_LEN - 1
          BY <3>0, <3>1, <4>2 DEF Full, Stored, Cap, Store
        <5>2. query \o s \in Seq(Bytes) /\ Len(query \o s) = Len(query) + Len(s)
          BY <3>0, <3>1
        <5> QED  BY <3>0, <3>1, <4>2, <5>1, <5>2
      <4> QED  BY <3>0, <4>1, <4>2
    <3>2. CASE /\ c = "QUEST" /\ into = "path"
               /\ into' = "query" /\ query' = <<c>> /\ path' = path /\ cur' = cur + 1
      BY <3>0, <3>2, <2>1
    <3>3. CASE c = "PCT" /\ into' = into /\ Store(<<c, text[cur + 1], text[cur + 2]>>) /\ cur' = cur + 3
      <4>1. cur + 3 <= limit /\ ~Full(3)
        BY <1>2, <2>1, <3>3 DEF UriRefuses
      <4>2. cur + 1 \in 1 .. Len(text) /\ cur + 2 \in 1 .. Len(text)
        BY <2>1, <4>1
      <4>3. text[cur + 1] \in Bytes /\ text[cur + 2] \in Bytes
        BY <2>1, <4>2
      <4> DEFINE s == <<c, text[cur + 1], text[cur + 2]>>
      <4>4. s \in Seq(Bytes) /\ Len(s) = 3
        BY <2>1, <4>3
      <4>5. Store(s) /\ into' = into
        BY <3>3
      <4> HIDE DEF s
      <4>6. /\ path' \in Seq(Bytes) /\ Len(path') < HTTP_MAX_PATH_LEN
            /\ query' \in Seq(Bytes) /\ Len(query') < HTTP_MAX_QUERY_LEN
            /\ into' \in {"path", "query"} /\ (into' = "path" => query' = <<>>)
        BY <3>1, <4>1, <4>4, <4>5
      <4> QED  BY <2>1, <3>3, <4>1, <4>6
    <3>4. CASE /\ c # "PCT" /\ ~(c = "QUEST" /\ into = "path") /\ into' = into
               /\ Store(<<c>>) /\ cur' = cur + 1
      <4>1. ~Full(1)
        BY <1>2, <2>1, <3>4 DEF UriRefuses
      <4> DEFINE s == <<c>>
      <4>2. s \in Seq(Bytes) /\ Len(s) = 1
        BY <2>1
      <4>3. Store(s) /\ into' = into
        BY <3>4
      <4> HIDE DEF s
      <4>4. /\ path' \in Seq(Bytes) /\ Len(path') < HTTP_MAX_PATH_LEN
            /\ query' \in Seq(Bytes) /\ Len(query') < HTTP_MAX_QUERY_LEN
            /\ into' \in {"path", "query"} /\ (into' = "path" => query' = <<>>)
        BY <3>1, <4>1, <4>2, <4>3
      <4> QED  BY <2>1, <3>4, <4>4
    <3> QED  BY <1>2, <3>2, <3>3, <3>4
  <2>3. /\ text' = text /\ size' = size /\ body_start' = body_start /\ stop' = stop /\ at' = at /\ eol' = eol
        /\ limit' = limit /\ key' = key /\ value' = value /\ headers' = headers /\ status' = status
        /\ UNCHANGED teVars
    BY <1>2 DEF recvVars, fieldVars
  <2>4. TypeOK'
    BY <2>1, <2>2, <2>3 DEF IInv, TypeOK, teVars
  <2>5. InLine' /\ InToken'
    BY <2>1, <2>2, <2>3 DEF IInv, InLine, InToken, Term, CrlfAt
  <2> QED
    BY <2>1, <2>3, <2>4, <2>5 DEF IInv, ScansAgree, HeadFound, Apart, BetweenLines, InField, Term, CrlfAt, teVars
<1> QED  BY <1>1, <1>2 DEF UriByte

LEMMA UriEndKeeps ==
  ASSUME IInv, UriEnd
  PROVE  IInv'
BY DEF UriEnd, IInv, TypeOK, ScansAgree, HeadFound, Apart, InLine, InToken, BetweenLines,
       InField, Term, CrlfAt, recvVars, lineVars, fieldVars, teVars

LEMMA VersionKeeps ==
  ASSUME IInv, version_parse
  PROVE  IInv'
<1>1. CASE at' = "line_end" /\ cur' = eol /\ UNCHANGED <<recvVars, stop, eol, limit, lineVars, fieldVars, headers, status, teVars>>
  BY <1>1 DEF version_parse, IInv, TypeOK, ScansAgree, HeadFound, Apart, InLine, InToken, BetweenLines,
       InField, Term, CrlfAt, recvVars, lineVars, fieldVars, teVars
<1>2. CASE Fail("PARSE_BAD_REQUEST") \/ Fail("PARSE_VERSION_NOT_SUPPORTED")
  BY <1>2, FailKeeps DEF Statuses
<1> QED  BY <1>1, <1>2 DEF version_parse

-----------------------------------------------------------------------------
(* The header lines *)

LEMMA LineEndKeeps ==
  ASSUME IInv, LineEnd
  PROVE  IInv'
<1>1. CASE cur + 2 <= stop /\ CrlfAt(cur)
  BY <1>1 DEF LineEnd, IInv, TypeOK, ScansAgree, HeadFound, Apart, InLine, InToken, BetweenLines,
       InField, Term, CrlfAt, recvVars, lineVars, fieldVars, teVars
<1>2. CASE ~(cur + 2 <= stop /\ CrlfAt(cur))
  BY <1>2, FailKeeps DEF LineEnd, Statuses
<1> QED  BY <1>1, <1>2

(* The line before the empty one ends in the CR LF that, with the empty    *)
(* line's own, is the first CR LF CR LF there is.                          *)
LEMMA HeadersEndKeeps ==
  ASSUME IInv, HeadersEnd
  PROVE  IInv'
<1>0. /\ at = "header_line" /\ at' = "codings" /\ cur' = cur + 2 /\ status' = "PARSE_OK" /\ field' = 1
      /\ body_coding' = "TE_NONE" /\ te_status' = "PARSE_OK" /\ CrlfAt(cur) /\ cur + 2 <= stop
      /\ UNCHANGED <<text, size, body_start, stop, eol, limit, path, query, into, key, value, headers,
                     tcur, chunked_position, total_non_empty, has_unsupported>>
  BY DEF HeadersEnd, EmptyLine, recvVars, lineVars, fieldVars
<1>1. /\ Term \in Int /\ body_start = Term + 4 /\ size \in Nat /\ cur \in Int /\ Term <= size - 3
      /\ 3 <= cur /\ cur <= Term + 2 /\ CrlfAt(cur - 2)
      /\ \A u \in 1 .. size - 3 : CrlfAt(u) /\ CrlfAt(u + 2) => Term <= u
  BY <1>0 DEF IInv, TypeOK, Apart, HeadFound, BetweenLines, Term
<1>2. cur - 2 \in 1 .. size - 3 /\ (cur - 2) + 2 = cur
  BY <1>1
<1>3. cur' = body_start'
  BY <1>0, <1>1, <1>2
<1>4. TypeOK'
  BY <1>0, <1>1, <1>3 DEF IInv, TypeOK, Statuses
<1> QED
  BY <1>0, <1>3, <1>4 DEF IInv, ScansAgree, HeadFound, Apart, InLine, InToken, BetweenLines, InField, Term, CrlfAt

LEMMA HeaderLineKeeps ==
  ASSUME IInv, header_line
  PROVE  IInv'
<1>1. PICK e \in crlf_find(cur, stop) : \E colon \in byte_find(text, "COLON", cur, e) :
        IF cur < e /\ cur < colon /\ text[colon] = "COLON"
        THEN /\ at' = "key" /\ eol' = e /\ limit' = colon /\ key' = <<>> /\ value' = <<>>
             /\ UNCHANGED <<recvVars, stop, cur, lineVars, headers, status, teVars>>
        ELSE Fail("PARSE_BAD_REQUEST")
  BY DEF header_line
<1>2. PICK colon \in byte_find(text, "COLON", cur, e) :
        IF cur < e /\ cur < colon /\ text[colon] = "COLON"
        THEN /\ at' = "key" /\ eol' = e /\ limit' = colon /\ key' = <<>> /\ value' = <<>>
             /\ UNCHANGED <<recvVars, stop, cur, lineVars, headers, status, teVars>>
        ELSE Fail("PARSE_BAD_REQUEST")
  BY <1>1
<1>3. CASE cur < e /\ cur < colon /\ text[colon] = "COLON"
  <2>0. /\ at = "header_line" /\ at' = "key" /\ eol' = e /\ limit' = colon /\ key' = <<>> /\ value' = <<>>
        /\ UNCHANGED <<text, size, body_start, stop, cur, path, query, into, headers, status, teVars>>
    BY <1>2, <1>3 DEF header_line, recvVars, lineVars
  <2>1. /\ Term \in Int /\ cur \in Int /\ stop \in Int /\ Term + 4 <= stop /\ Term \in 1 .. size - 3 /\ size \in Nat
        /\ CrlfAt(Term) /\ CrlfAt(Term + 2) /\ 3 <= cur /\ cur <= Term + 2 /\ CrlfAt(cur - 2)
    BY <2>0 DEF IInv, TypeOK, Apart, HeadFound, BetweenLines, Term
  <2>2. ~(cur + 2 <= stop /\ CrlfAt(cur))
    BY DEF header_line, EmptyLine
  <2>3. cur <= Term
    <3>1. cur # Term + 2
      BY <2>1, <2>2
    <3>2. cur # Term + 1
      <4> SUFFICES ASSUME cur = Term + 1 PROVE FALSE  OBVIOUS
      <4>1. (cur - 2) + 1 = Term
        BY <2>1
      <4> QED  BY <2>1, <4>1 DEF CrlfAt
    <3> QED  BY <2>1, <3>1, <3>2
  <2>4. e \in Int /\ cur <= e /\ e <= Term /\ CrlfAt(e)
    BY <2>1, <2>3, LineEndsInHead
  <2>5. colon \in cur .. e /\ colon # e
    <3>1. colon \in cur .. e
      BY DEF byte_find
    <3> QED  BY <3>1, <2>4, <1>3 DEF CrlfAt
  <2>6. /\ <<>> \in Seq(Bytes) /\ Len(<<>>) = 0
        /\ 0 < HTTP_MAX_HEADER_KEY_LEN /\ 0 < HTTP_MAX_HEADER_VALUE_LEN
    BY CapsAssumption
  <2>7. eol' \in 1 .. size + 1 /\ limit' \in 1 .. size + 1
    BY <2>0, <2>1, <2>4, <2>5
  <2>8. TypeOK'
    BY <2>0, <2>6, <2>7 DEF IInv, TypeOK, teVars
  <2>9. InLine' /\ InToken'
    BY <2>0, <2>1, <2>4, <2>5 DEF InLine, InToken, Term, CrlfAt
  <2> QED
    BY <2>0, <2>8, <2>9 DEF IInv, ScansAgree, HeadFound, Apart, BetweenLines, InField, Term, CrlfAt
<1>4. CASE ~(cur < e /\ cur < colon /\ text[colon] = "COLON")
  BY <1>2, <1>4, FailKeeps DEF Statuses
<1> QED  BY <1>3, <1>4

LEMMA KeyByteKeeps ==
  ASSUME IInv, KeyByte
  PROVE  IInv'
<1>1. CASE Fail("PARSE_BAD_REQUEST") \/ Fail("PARSE_HEADER_KEY_TOO_LONG")
  BY <1>1, FailKeeps DEF Statuses
<1>2. CASE /\ Len(key) < HTTP_MAX_HEADER_KEY_LEN - 1 /\ key' = Append(key, text[cur]) /\ cur' = cur + 1
           /\ UNCHANGED <<recvVars, stop, at, eol, limit, lineVars, value, headers, status, teVars>>
  <2>0. /\ at = "key" /\ cur < limit /\ key' = Append(key, text[cur]) /\ cur' = cur + 1
        /\ UNCHANGED <<text, size, body_start, stop, at, eol, limit, path, query, into, value, headers, status, teVars>>
    BY <1>2 DEF KeyByte, recvVars, lineVars
  <2>1. /\ cur \in Int /\ 1 <= cur /\ limit \in Int /\ limit < eol /\ eol \in Int /\ eol <= Term
        /\ Term <= size /\ size <= Len(text) /\ size \in Nat /\ text \in Seq(Bytes) /\ Term \in Int
    BY <2>0 DEF IInv, TypeOK, Apart, InLine, InToken, HeadFound, Term
  <2>2. key' \in Seq(Bytes) /\ Len(key') < HTTP_MAX_HEADER_KEY_LEN
    <3>1. cur \in 1 .. Len(text) /\ text[cur] \in Bytes
      BY <2>0, <2>1
    <3>2. key \in Seq(Bytes) /\ HTTP_MAX_HEADER_KEY_LEN \in Nat
      BY CapsAssumption DEF IInv, TypeOK
    <3> QED  BY <1>2, <3>1, <3>2
  <2>3. cur' \in 1 .. size + 1 /\ cur' <= limit /\ cur' <= eol
    BY <2>0, <2>1
  <2>4. TypeOK'
    BY <2>0, <2>2, <2>3 DEF IInv, TypeOK, teVars
  <2> QED
    BY <2>0, <2>3, <2>4 DEF IInv, ScansAgree, HeadFound, Apart, InLine, InToken, BetweenLines, InField, Term, CrlfAt, teVars
<1>3. Len(key) >= HTTP_MAX_HEADER_KEY_LEN - 1 \/ Len(key) < HTTP_MAX_HEADER_KEY_LEN - 1
  BY CapsAssumption DEF IInv, TypeOK
<1> QED  BY <1>1, <1>2, <1>3 DEF KeyByte

(* What is left of a value once the whitespace around it is cut. *)
LEMMA Cut ==
  ASSUME NEW m \in Int, NEW f \in Int, NEW e \in Int, e - f <= m, NEW c \in f .. e, NEW l \in c .. e
  PROVE  c <= l /\ l <= e /\ c <= e /\ c \in Int /\ l \in Int /\ f <= c /\ 0 + (l - c) <= m
OBVIOUS

LEMMA ValueStartKeeps ==
  ASSUME IInv, value_start
  PROVE  IInv'
<1> DEFINE first == cur + 1
<1>1. CASE eol - first > HTTP_MAX_HEADER_VALUE_LEN - 1
  BY <1>1, FailKeeps DEF value_start, Statuses
<1>2. CASE ~(eol - first > HTTP_MAX_HEADER_VALUE_LEN - 1)
  <2>0. /\ at = "key" /\ cur >= limit /\ at' = "value"
        /\ cur' \in ows_skip(text, first, eol) /\ limit' \in ows_trim_trailing(text, cur', eol)
        /\ UNCHANGED <<text, size, body_start, stop, eol, path, query, into, key, value, headers, status, teVars>>
    BY <1>2 DEF value_start, recvVars, lineVars, fieldVars
  <2>1. /\ cur \in Int /\ 1 <= cur /\ limit \in Int /\ limit < eol /\ cur = limit /\ eol \in Int
        /\ eol <= Term /\ CrlfAt(eol) /\ Term <= size /\ size \in Nat /\ Term \in Int
    BY <2>0 DEF IInv, TypeOK, Apart, InLine, InToken, HeadFound, Term
  <2>2. cur' \in first .. eol
    BY <2>0 DEF ows_skip
  <2>3. limit' \in cur' .. eol
    BY <2>0 DEF ows_trim_trailing
  <2>4. HTTP_MAX_HEADER_VALUE_LEN - 1 \in Int /\ first \in Int /\ eol - first <= HTTP_MAX_HEADER_VALUE_LEN - 1
    BY <1>2, <2>1, CapsAssumption
  <2>5. /\ cur' <= limit' /\ limit' <= eol /\ cur' <= eol /\ cur' \in Int /\ limit' \in Int /\ first <= cur'
        /\ 0 + (limit' - cur') <= HTTP_MAX_HEADER_VALUE_LEN - 1
    BY <2>1, <2>2, <2>3, <2>4, Cut
  <2>6. cur' \in 1 .. size + 1 /\ limit' \in 1 .. size + 1
    BY <2>1, <2>5
  <2>7. TypeOK'
    BY <2>0, <2>6 DEF IInv, TypeOK, teVars
  <2>8. InToken'
    <3>1. value' = <<>> /\ Len(<<>>) = 0
      BY <2>0 DEF IInv, InToken
    <3>2. Len(value') + (limit' - cur') <= HTTP_MAX_HEADER_VALUE_LEN - 1
      BY <2>5, <3>1
    <3> QED  BY <2>0, <2>5, <3>2 DEF InToken
  <2> QED
    BY <2>0, <2>1, <2>5, <2>7, <2>8
       DEF IInv, ScansAgree, HeadFound, Apart, InLine, BetweenLines, InField, Term, CrlfAt
<1> QED  BY <1>1, <1>2

LEMMA ValueByteKeeps ==
  ASSUME IInv, ValueByte
  PROVE  IInv'
<1>1. CASE text[cur] \notin FieldContent
  BY <1>1, FailKeeps DEF ValueByte, Statuses
<1>2. CASE text[cur] \in FieldContent
  <2>0. /\ at = "value" /\ cur < limit /\ value' = Append(value, text[cur]) /\ cur' = cur + 1
        /\ UNCHANGED <<text, size, body_start, stop, at, eol, limit, path, query, into, key, headers, status, teVars>>
    BY <1>2 DEF ValueByte, recvVars, lineVars
  <2>1. /\ cur \in Int /\ 1 <= cur /\ limit \in Int /\ limit <= eol /\ eol \in Int /\ eol <= Term
        /\ Term <= size /\ size <= Len(text) /\ size \in Nat /\ text \in Seq(Bytes) /\ Term \in Int
        /\ value \in Seq(Bytes) /\ Len(value) + (limit - cur) <= HTTP_MAX_HEADER_VALUE_LEN - 1
        /\ HTTP_MAX_HEADER_VALUE_LEN \in Int
    BY <2>0, CapsAssumption DEF IInv, TypeOK, Apart, InLine, InToken, HeadFound, Term
  <2>2. cur \in 1 .. Len(text) /\ text[cur] \in Bytes
    BY <2>0, <2>1
  <2>3. value' \in Seq(Bytes) /\ Len(value') = Len(value) + 1 /\ Len(value) \in Nat
    BY <2>0, <2>1, <2>2
  <2>4. cur' \in 1 .. size + 1 /\ cur' <= limit /\ cur' <= eol
    BY <2>0, <2>1
  <2>5. /\ Len(value') < HTTP_MAX_HEADER_VALUE_LEN
        /\ Len(value') + (limit - cur') <= HTTP_MAX_HEADER_VALUE_LEN - 1
    <3>1. /\ Len(value) + 1 < HTTP_MAX_HEADER_VALUE_LEN
          /\ (Len(value) + 1) + (limit - (cur + 1)) <= HTTP_MAX_HEADER_VALUE_LEN - 1
      BY <2>0, <2>1, <2>3
    <3> QED  BY <2>0, <2>3, <3>1
  <2>6. TypeOK'
    BY <2>0, <2>3, <2>4, <2>5 DEF IInv, TypeOK, teVars
  <2> QED
    BY <2>0, <2>4, <2>5, <2>6
       DEF IInv, ScansAgree, HeadFound, Apart, InLine, InToken, BetweenLines, InField, Term, CrlfAt, teVars
<1> QED  BY <1>1, <1>2

LEMMA ValueEndKeeps ==
  ASSUME IInv, ValueEnd
  PROVE  IInv'
<1>1. CASE Len(headers) >= HTTP_MAX_HEADERS
  BY <1>1, FailKeeps DEF ValueEnd, Statuses
<1>2. CASE ~(Len(headers) >= HTTP_MAX_HEADERS)
  <2> DEFINE h == [key |-> key, value |-> value]
  <2>0. /\ at = "value" /\ headers' = Append(headers, h) /\ at' = "line_end" /\ cur' = eol
        /\ UNCHANGED <<text, size, body_start, stop, eol, limit, path, query, into, key, value, status, teVars>>
    BY <1>2 DEF ValueEnd, recvVars, lineVars, fieldVars
  <2>1. h \in [key : Seq(Bytes), value : Seq(Bytes)]
    BY DEF IInv, TypeOK
  <2>2. headers \in Seq([key : Seq(Bytes), value : Seq(Bytes)]) /\ Len(headers) \in Nat /\ HTTP_MAX_HEADERS \in Nat
    BY CapsAssumption DEF IInv, TypeOK
  <2> HIDE DEF h
  <2>3. /\ headers' \in Seq([key : Seq(Bytes), value : Seq(Bytes)]) /\ Len(headers') = Len(headers) + 1
    BY <2>0, <2>1, <2>2
  <2>4. Len(headers') <= HTTP_MAX_HEADERS /\ field' \in 1 .. Len(headers') + 1
    <3>1. Len(headers) + 1 <= HTTP_MAX_HEADERS /\ field \in 1 .. Len(headers) + 1
      BY <1>2, <2>2 DEF IInv, TypeOK
    <3>2. field \in 1 .. (Len(headers) + 1) + 1
      BY <2>2, <3>1
    <3> QED  BY <2>0, <2>3, <3>1, <3>2 DEF teVars
  <2>5. TypeOK'
    BY <2>0, <2>3, <2>4 DEF IInv, TypeOK, teVars
  <2> QED
    BY <2>0, <2>5 DEF IInv, ScansAgree, HeadFound, Apart, InLine, InToken, BetweenLines, InField, Term, CrlfAt
<1> QED  BY <1>1, <1>2

-----------------------------------------------------------------------------
(* The codings *)

LEMMA NextFieldKeeps ==
  ASSUME IInv, NextField
  PROVE  IInv'
<1>0. /\ at = "codings" /\ field <= Len(headers)
      /\ UNCHANGED <<text, size, body_start, stop, cur, eol, limit, path, query, into, key, value, headers, status, te_status>>
  BY DEF NextField, recvVars, lineVars, fieldVars
<1>1. field \in 1 .. Len(headers) /\ field + 1 \in 1 .. Len(headers) + 1 /\ Len(headers) \in Nat
  BY <1>0 DEF IInv, TypeOK
<1>2. CASE headers[field].key # <<"TE">>
  <2>1. /\ field' = field + 1
        /\ UNCHANGED <<at, tcur, chunked_position, total_non_empty, has_unsupported, body_coding>>
    BY <1>2 DEF NextField
  <2>2. TypeOK'
    BY <1>0, <1>1, <2>1 DEF IInv, TypeOK
  <2> QED
    BY <1>0, <2>1, <2>2 DEF IInv, ScansAgree, HeadFound, Apart, InLine, InToken, BetweenLines, InField, Term, CrlfAt
<1>3. CASE headers[field].key = <<"TE">>
  <2>1. /\ at' = "element" /\ body_coding' = "TE_NONE" /\ tcur' = 1 /\ field' = field
        /\ chunked_position' = -1 /\ total_non_empty' = 0 /\ has_unsupported' = FALSE
    BY <1>3 DEF NextField
  <2>2. chunked_position' \in -1 .. total_non_empty' - 1 /\ total_non_empty' \in Nat /\ tcur' \in Nat \ {0}
    BY <2>1
  <2>3. has_unsupported' \in BOOLEAN
    BY <2>1, Zenon
  <2>4. TypeOK'
    BY <1>0, <1>1, <2>1, <2>2, <2>3 DEF IInv, TypeOK
  <2> QED
    BY <1>0, <2>1, <2>4 DEF IInv, ScansAgree, HeadFound, Apart, InLine, InToken, BetweenLines, InField, Term, CrlfAt
<1> QED  BY <1>2, <1>3

LEMMA FieldsEndKeeps ==
  ASSUME IInv, FieldsEnd
  PROVE  IInv'
BY DEF FieldsEnd, IInv, TypeOK, ScansAgree, HeadFound, Apart, InLine, InToken, BetweenLines,
       InField, Term, CrlfAt, recvVars, lineVars, fieldVars, teVars

(* A return of transfer_encoding_parse. *)
LEMMA CodingKeeps ==
  ASSUME IInv, at = "element", NEW why \in Statuses, NEW coding \in {"TE_NONE", "TE_CHUNKED", "TE_UNSUPPORTED"},
         Coding(why, coding),
         UNCHANGED <<recvVars, stop, cur, eol, limit, lineVars, fieldVars, headers, status>>
  PROVE  IInv'
<1>0. /\ te_status' = why /\ body_coding' = coding /\ at' = "codings" /\ field' = field + 1
      /\ UNCHANGED <<text, size, body_start, stop, cur, eol, limit, path, query, into, key, value, headers, status,
                     tcur, chunked_position, total_non_empty, has_unsupported>>
  BY DEF Coding, recvVars, lineVars, fieldVars
<1>1. field + 1 \in 1 .. Len(headers) + 1
  BY DEF IInv, TypeOK, InField
<1>2. TypeOK'
  BY <1>0, <1>1 DEF IInv, TypeOK
<1> QED
  BY <1>0, <1>2 DEF IInv, ScansAgree, HeadFound, Apart, InLine, InToken, BetweenLines, InField, Term, CrlfAt

LEMMA Item ==
  ASSUME NEW R, NEW s \in Seq(R), NEW i \in 1 .. Len(s)
  PROVE  s[i] \in R
OBVIOUS

(* What one element does to the cursor and the counters. *)
LEMMA ElementSteps ==
  ASSUME NEW val \in Seq(Bytes), Element(val)
  PROVE  \E comma \in byte_find(val, "COMMA", tcur, Len(val) + 1) :
           \/ /\ tcur' = comma + 1
              /\ UNCHANGED <<at, field, body_coding, te_status, chunked_position, total_non_empty, has_unsupported>>
           \/ Coding("PARSE_BAD_REQUEST", "TE_NONE")
           \/ /\ chunked_position' \in {total_non_empty, chunked_position} /\ has_unsupported' \in BOOLEAN
              /\ total_non_empty' = total_non_empty + 1 /\ tcur' = comma + 1
              /\ UNCHANGED <<at, field, body_coding, te_status>>
<1> DEFINE end == Len(val) + 1
<1>1. PICK comma \in byte_find(val, "COMMA", tcur, end) : \E tok_start, tok_end, name_end :
        LET name == SubSeq(val, tok_start, name_end - 1)
        IN  \/ /\ tok_start >= tok_end /\ tcur' = comma + 1
               /\ UNCHANGED <<at, field, body_coding, te_status, chunked_position, total_non_empty, has_unsupported>>
            \/ /\ tok_start < tok_end /\ (~is_token(name) \/ (name = <<"chunked">> /\ chunked_position # -1))
               /\ Coding("PARSE_BAD_REQUEST", "TE_NONE")
            \/ /\ tok_start < tok_end /\ is_token(name) /\ ~(name = <<"chunked">> /\ chunked_position # -1)
               /\ chunked_position' = IF name = <<"chunked">> THEN total_non_empty ELSE chunked_position
               /\ has_unsupported' = (has_unsupported \/ name # <<"chunked">>)
               /\ total_non_empty' = total_non_empty + 1 /\ tcur' = comma + 1
               /\ UNCHANGED <<at, field, body_coding, te_status>>
  BY Zenon DEF Element
<1>2. PICK tok_start, tok_end, name_end :
        LET name == SubSeq(val, tok_start, name_end - 1)
        IN  \/ /\ tcur' = comma + 1
               /\ UNCHANGED <<at, field, body_coding, te_status, chunked_position, total_non_empty, has_unsupported>>
            \/ Coding("PARSE_BAD_REQUEST", "TE_NONE")
            \/ /\ chunked_position' = IF name = <<"chunked">> THEN total_non_empty ELSE chunked_position
               /\ has_unsupported' = (has_unsupported \/ name # <<"chunked">>)
               /\ total_non_empty' = total_non_empty + 1 /\ tcur' = comma + 1
               /\ UNCHANGED <<at, field, body_coding, te_status>>
  BY <1>1, Zenon
<1> DEFINE name == SubSeq(val, tok_start, name_end - 1)
<1> HIDE DEF name
<1>3. CASE /\ tcur' = comma + 1
           /\ UNCHANGED <<at, field, body_coding, te_status, chunked_position, total_non_empty, has_unsupported>>
  BY <1>3
<1>4. CASE Coding("PARSE_BAD_REQUEST", "TE_NONE")
  BY <1>4
<1>5. CASE /\ chunked_position' = IF name = <<"chunked">> THEN total_non_empty ELSE chunked_position
           /\ has_unsupported' = (has_unsupported \/ name # <<"chunked">>)
           /\ total_non_empty' = total_non_empty + 1 /\ tcur' = comma + 1
           /\ UNCHANGED <<at, field, body_coding, te_status>>
  <2>1. (has_unsupported \/ name # <<"chunked">>) \in BOOLEAN
    OBVIOUS
  <2>2. has_unsupported' \in BOOLEAN
    BY <1>5, <2>1, Zenon
  <2> QED  BY <1>5, <2>2
<1> QED  BY <1>2, <1>3, <1>4, <1>5, Zenon DEF name

LEMMA CodingElementKeeps ==
  ASSUME IInv, CodingElement
  PROVE  IInv'
<1> DEFINE val == headers[field].value
           end == Len(val) + 1
<1>0. /\ at = "element" /\ tcur <= Len(val) /\ Element(val)
      /\ UNCHANGED <<recvVars, stop, cur, eol, limit, lineVars, fieldVars, headers, status>>
  BY DEF CodingElement
<1>1. val \in Seq(Bytes) /\ Len(val) \in Nat
  <2>1. field \in 1 .. Len(headers) /\ headers \in Seq([key : Seq(Bytes), value : Seq(Bytes)])
    BY <1>0 DEF IInv, TypeOK, InField
  <2>2. headers[field] \in [key : Seq(Bytes), value : Seq(Bytes)]
    BY <2>1, Item
  <2> QED  BY <2>2
<1> HIDE DEF val
<1>2. PICK comma \in byte_find(val, "COMMA", tcur, end) :
        \/ /\ tcur' = comma + 1
           /\ UNCHANGED <<at, field, body_coding, te_status, chunked_position, total_non_empty, has_unsupported>>
        \/ Coding("PARSE_BAD_REQUEST", "TE_NONE")
        \/ /\ chunked_position' \in {total_non_empty, chunked_position} /\ has_unsupported' \in BOOLEAN
           /\ total_non_empty' = total_non_empty + 1 /\ tcur' = comma + 1
           /\ UNCHANGED <<at, field, body_coding, te_status>>
  BY <1>0, <1>1, ElementSteps
<1>3. comma + 1 \in Nat \ {0}
  BY <1>1, <1>2 DEF byte_find, IInv, TypeOK
<1>4. /\ UNCHANGED <<text, size, body_start, stop, cur, eol, limit, path, query, into, key, value, headers, status>>
      /\ chunked_position \in -1 .. total_non_empty - 1 /\ total_non_empty \in Nat /\ tcur \in Nat \ {0}
      /\ has_unsupported \in BOOLEAN
  BY <1>0 DEF recvVars, lineVars, fieldVars, IInv, TypeOK
<1>5. ASSUME tcur' \in Nat \ {0}, UNCHANGED <<at, field, body_coding, te_status>>,
             has_unsupported' \in BOOLEAN,
             total_non_empty' \in Nat, chunked_position' \in -1 .. total_non_empty' - 1
      PROVE  IInv'
  <2>1. /\ field' \in 1 .. Len(headers') + 1 /\ te_status' \in Statuses
        /\ body_coding' \in {"TE_NONE", "TE_CHUNKED", "TE_UNSUPPORTED"}
    BY <1>4, <1>5 DEF IInv, TypeOK
  <2>2. TypeOK'
    BY <1>4, <1>5, <2>1 DEF IInv, TypeOK
  <2> QED
    BY <1>0, <1>4, <1>5, <2>2
       DEF IInv, ScansAgree, HeadFound, Apart, InLine, InToken, BetweenLines, InField, Term, CrlfAt
<1>6. CASE /\ tcur' = comma + 1
           /\ UNCHANGED <<at, field, body_coding, te_status, chunked_position, total_non_empty, has_unsupported>>
  <2>1. tcur' \in Nat \ {0} /\ total_non_empty' \in Nat /\ chunked_position' \in -1 .. total_non_empty' - 1
    BY <1>3, <1>4, <1>6
  <2>2. has_unsupported' \in BOOLEAN
    BY <1>4, <1>6
  <2> QED  BY <1>5, <1>6, <2>1, <2>2
<1>7. CASE Coding("PARSE_BAD_REQUEST", "TE_NONE")
  BY <1>0, <1>7, CodingKeeps DEF Statuses
<1>8. CASE /\ chunked_position' \in {total_non_empty, chunked_position} /\ has_unsupported' \in BOOLEAN
           /\ total_non_empty' = total_non_empty + 1 /\ tcur' = comma + 1
           /\ UNCHANGED <<at, field, body_coding, te_status>>
  <2>1. total_non_empty + 1 \in Nat /\ {total_non_empty, chunked_position} \subseteq -1 .. (total_non_empty + 1) - 1
    BY <1>4
  <2>2. tcur' \in Nat \ {0} /\ total_non_empty' \in Nat /\ chunked_position' \in -1 .. total_non_empty' - 1
    BY <1>3, <1>8, <2>1
  <2> QED  BY <1>5, <1>8, <2>2
<1> QED  BY <1>2, <1>6, <1>7, <1>8

LEMMA CodingsEndKeeps ==
  ASSUME IInv, CodingsEnd
  PROVE  IInv'
BY CodingKeeps DEF CodingsEnd, Statuses

-----------------------------------------------------------------------------
(* The theorems *)

LEMMA NextKeeps == IInv /\ [Next]_vars => IInv'
<1> SUFFICES ASSUME IInv, [Next]_vars PROVE IInv'  OBVIOUS
<1>1. CASE TooLarge
  BY <1>1, FailKeeps DEF TooLarge, Statuses
<1>2. CASE UNCHANGED vars
  BY <1>2 DEF vars, IInv, TypeOK, ScansAgree, HeadFound, Apart, InLine, InToken, BetweenLines, InField,
              Term, CrlfAt, recvVars, lineVars, fieldVars, teVars
<1> QED
  BY <1>1, <1>2, RecvKeeps, HeadReceivedKeeps, MethodKeeps, UriStartKeeps, UriByteKeeps, UriEndKeeps,
     VersionKeeps, LineEndKeeps, HeadersEndKeeps, HeaderLineKeeps, KeyByteKeeps, ValueStartKeeps,
     ValueByteKeeps, ValueEndKeeps, NextFieldKeeps, FieldsEndKeeps, CodingElementKeeps, CodingsEndKeeps
     DEF Next, Parse

(* The strengthening is inductive: conn_recv_header finds the first CR LF  *)
(* CR LF, and every line request_parse reads ends at or before it.         *)
THEOREM Invariance == Spec => []IInv
BY InitHolds, NextKeeps, PTL DEF Spec

(* request_parse and conn_recv_header agree where the head ends, whatever  *)
(* the client sends and whatever follows the head in the buffer: the body, *)
(* and the next request, start where the headers were read to.             *)
THEOREM ScansMeet == Spec => []ScansAgree
BY Invariance, PTL DEF IInv

(* No cursor of request_parse leaves the bytes received and no array of    *)
(* the parsed request is written past its capacity, for all capacities.    *)
THEOREM ArraysHold == Spec => []TypeOK
BY Invariance, PTL DEF IInv

-----------------------------------------------------------------------------
(* The list of codings *)

(* The definitions inside Codings, by name. *)
EndsAt(s, set) == {i \in 1 .. Len(s) : s[i] \in set} \union {Len(s) + 1}
EndOf(s, i, set) == CHOOSE e \in EndsAt(s, set) : e >= i /\ \A f \in EndsAt(s, set) : f >= i => e <= f
ListStarts(s) == {i \in 1 .. Len(s) : i = 1 \/ s[i - 1] = "COMMA"}
Listed(s, i) == [from |-> i, name |-> Trimmed(SubSeq(s, i, EndOf(s, i, {"COMMA", "SEMI"}) - 1))]
Blank(s, i) == Trimmed(SubSeq(s, i, EndOf(s, i, {"COMMA"}) - 1)) = <<>>

LEMMA CodingsAre ==
  \A s : Codings(s) = {Listed(s, i) : i \in {j \in ListStarts(s) : ~Blank(s, j)}}
BY Zenon DEF Codings, Listed, ListStarts, Blank, EndOf, EndsAt

LEMMA EndIs ==
  ASSUME NEW s \in Seq(Bytes), NEW i \in 1 .. Len(s), NEW set, NEW e \in i .. Len(s) + 1,
         e = Len(s) + 1 \/ s[e] \in set, \A k \in i .. e - 1 : s[k] \notin set
  PROVE  EndOf(s, i, set) = e
<1> DEFINE First(x) == x >= i /\ \A f \in EndsAt(s, set) : f >= i => x <= f
<1>1. \A f \in EndsAt(s, set) : f \in Int
  BY DEF EndsAt
<1>2. e \in EndsAt(s, set)
  BY DEF EndsAt
<1>3. \A f \in EndsAt(s, set) : f >= i => e <= f
  BY DEF EndsAt
<1>4. First(e) /\ \A x \in EndsAt(s, set) : First(x) => x = e
  BY <1>1, <1>2, <1>3
<1>5. EndOf(s, i, set) = CHOOSE x \in EndsAt(s, set) : First(x)
  BY DEF EndOf
<1> HIDE DEF First
<1> QED  BY <1>2, <1>4, <1>5

LEMMA Slice ==
  ASSUME NEW R, NEW s \in Seq(R), NEW p \in Int, NEW n \in Int, 1 <= p, n <= Len(s) + 1
  PROVE  /\ SubSeq(s, p, p - 1) = <<>>
         /\ p <= n => Len(SubSeq(s, p, n - 1)) = n - p
         /\ p + 2 < n => SubSeq(s, p, n - 4) \o <<s[n - 3], s[n - 2], s[n - 1]>> = SubSeq(s, p, n - 1)
OBVIOUS

(* The least and the greatest of a set of integers. *)
LEMMA EndsOf ==
  ASSUME NEW K, NEW m \in K, NEW n \in K, m \in Int, n \in Int,
         \A i \in K : i \in Int /\ m <= i /\ i <= n
  PROVE  /\ m = CHOOSE i \in K : \A j \in K : i <= j
         /\ n = CHOOSE i \in K : \A j \in K : i >= j
<1>1. m = CHOOSE i \in K : \A j \in K : i <= j
  <2> DEFINE Low(i) == \A j \in K : i <= j
  <2>1. Low(m) /\ \A i \in K : Low(i) => i = m
    OBVIOUS
  <2> HIDE DEF Low
  <2>2. m = CHOOSE i \in K : Low(i)
    BY <2>1
  <2> QED  BY <2>2 DEF Low
<1>2. n = CHOOSE i \in K : \A j \in K : i >= j
  <2> DEFINE High(i) == \A j \in K : i >= j
  <2>1. High(n) /\ \A i \in K : High(i) => i = n
    OBVIOUS
  <2> HIDE DEF High
  <2>2. n = CHOOSE i \in K : High(i)
    BY <2>1
  <2> QED  BY <2>2 DEF High
<1> QED  BY <1>1, <1>2

(* What lies between two cuts is what Trimmed keeps. *)
Cuts(s, p, f, g, e) ==
  /\ p \in Int /\ f \in Int /\ g \in Int /\ e \in Int
  /\ 1 <= p /\ p <= f /\ f <= g /\ g <= e /\ e <= Len(s) + 1
  /\ \A k \in p .. f - 1 : s[k] \in Ows
  /\ \A k \in g .. e - 1 : s[k] \in Ows
  /\ f < g => s[f] \notin Ows /\ s[g - 1] \notin Ows

LEMMA TrimIs ==
  ASSUME NEW s \in Seq(Bytes), NEW p, NEW f, NEW g, NEW e, Cuts(s, p, f, g, e)
  PROVE  Trimmed(SubSeq(s, p, e - 1)) = SubSeq(s, f, g - 1)
<1> DEFINE t == SubSeq(s, p, e - 1)
           kept == {i \in 1 .. Len(t) : t[i] \notin Ows}
           least == CHOOSE i \in kept : \A j \in kept : i <= j
           most == CHOOSE i \in kept : \A j \in kept : i >= j
<1> USE DEF Cuts
<1>1. Len(t) = e - p /\ \A i \in 1 .. Len(t) : t[i] = s[(p - 1) + i]
  <2>1. \A i \in p .. e - 1 : s[i] \in Bytes
    OBVIOUS
  <2>2. /\ Len(t) = IF p <= e - 1 THEN (e - 1) - p + 1 ELSE 0
        /\ \A i \in 1 .. (e - 1) - p + 1 : t[i] = s[p + i - 1]
    <3>1. e - 1 \in Int
      OBVIOUS
    <3> QED  BY <2>1, <3>1, SubSeqProperties
  <2> HIDE DEF t
  <2>3. Len(t) = e - p
    BY <2>2
  <2>4. \A i \in Int : p + i - 1 = (p - 1) + i
    OBVIOUS
  <2> QED  BY <2>2, <2>3, <2>4
<1>2. Trimmed(t) = IF kept = {} THEN <<>> ELSE SubSeq(t, least, most)
  BY DEF Trimmed
<1>3. \A i \in kept : i \in Int /\ f - p + 1 <= i /\ i <= g - p
  <2> TAKE i \in kept
  <2>1. i \in Int /\ 1 <= i /\ i <= e - p /\ s[(p - 1) + i] \notin Ows
    BY <1>1
  <2>2. (p - 1) + i \notin p .. f - 1 /\ (p - 1) + i \notin g .. e - 1
    BY <2>1
  <2> QED  BY <2>1, <2>2
<1>4. CASE f = g
  <2>1. kept = {}
    <3> HIDE DEF kept
    <3> QED  BY <1>3, <1>4
  <2>2. SubSeq(s, f, g - 1) = <<>>
    BY <1>4, SubSeqEmpty
  <2> QED  BY <1>2, <2>1, <2>2
<1>5. CASE f < g
  <2> DEFINE m == f - p + 1
             n == g - p
  <2>1. m \in kept /\ n \in kept
    <3>1. m \in 1 .. Len(t) /\ n \in 1 .. Len(t) /\ (p - 1) + m = f /\ (p - 1) + n = g - 1
      BY <1>1, <1>5
    <3>2. t[m] = s[f] /\ t[n] = s[g - 1]
      BY <1>1, <3>1
    <3> QED  BY <1>5, <3>1, <3>2
  <2>2. least = m /\ most = n
    <3>1. m \in Int /\ n \in Int /\ \A i \in kept : i \in Int /\ m <= i /\ i <= n
      BY <1>3
    <3> HIDE DEF kept, m, n
    <3> QED  BY <2>1, <3>1, EndsOf
  <2>3. SubSeq(t, m, n) = SubSeq(s, f, g - 1)
    <3> DEFINE j == e - 1
    <3>1. p \in 1 .. Len(s) /\ j \in 1 .. Len(s) /\ m \in 1 .. j - p + 1 /\ n \in 1 .. j - p + 1
          /\ p + m - 1 = f /\ p + n - 1 = g - 1
      BY <1>5
    <3>2. SubSeq(SubSeq(s, p, j), m, n) = SubSeq(s, p + m - 1, p + n - 1)
      <4> HIDE DEF j, m, n
      <4> QED  BY <3>1, SubSeqOfSubSeq
    <3> QED  BY <3>1, <3>2
  <2>4. kept # {}
    BY <2>1
  <2> HIDE DEF t, kept, least, most, m, n
  <2> QED  BY <1>2, <2>2, <2>3, <2>4 DEF t
<1> QED  BY <1>4, <1>5

-----------------------------------------------------------------------------
(* One pass of the loop is one element *)

Upto(s, n) == {c \in Codings(s) : c.from < n}

LEMMA CodingFacts ==
  ASSUME NEW s \in Seq(Bytes), NEW c \in Codings(s)
  PROVE  c = Listed(s, c.from) /\ c.from \in ListStarts(s) /\ ~Blank(s, c.from)
         /\ c.from \in Int /\ 1 <= c.from /\ c.from <= Len(s)
<1>1. PICK i \in ListStarts(s) : ~Blank(s, i) /\ c = Listed(s, i)
  BY CodingsAre
<1>2. c.from = i
  BY <1>1 DEF Listed
<1> QED  BY <1>1, <1>2 DEF ListStarts

(* The places at which Element cuts the element that starts at t. *)
CutAt(s, t, tok_start, comma, tok_end, semi, name_end) ==
  /\ tok_start \in ows_skip(s, t, Len(s) + 1) /\ comma \in byte_find(s, "COMMA", t, Len(s) + 1)
  /\ tok_end \in ows_trim_trailing(s, tok_start, comma)
  /\ semi \in byte_find(s, "SEMI", tok_start, tok_end)
  /\ name_end \in ows_trim_trailing(s, tok_start, semi)

Named(s, t, tok_start, name_end) == [from |-> t, name |-> SubSeq(s, tok_start, name_end - 1)]

(* From the start t of an element: up to its comma there is this element,  *)
(* if it is not blank, and no other.                                       *)
LEMMA ElementIs ==
  ASSUME NEW s \in Seq(Bytes), NEW t \in 1 .. Len(s), t = 1 \/ s[t - 1] = "COMMA",
         NEW tok_start, NEW comma, NEW tok_end, NEW semi, NEW name_end,
         CutAt(s, t, tok_start, comma, tok_end, semi, name_end)
  PROVE  /\ comma \in t .. Len(s) + 1 /\ (comma = Len(s) + 1 \/ s[comma] = "COMMA")
         /\ tok_start >= tok_end => Upto(s, comma + 1) = Upto(s, t)
         /\ tok_start < tok_end =>
               /\ Upto(s, comma + 1) = Upto(s, t) \union {Named(s, t, tok_start, name_end)}
               /\ Named(s, t, tok_start, name_end) \in Codings(s)
<1> DEFINE end == Len(s) + 1
           c == Named(s, t, tok_start, name_end)
<1>0. Len(s) \in Nat /\ t \in Int /\ 1 <= t /\ t <= Len(s)
  OBVIOUS
<1>1. /\ comma \in Int /\ t <= comma /\ comma <= end /\ (comma = end \/ s[comma] = "COMMA")
      /\ \A k \in t .. comma - 1 : s[k] # "COMMA"
  BY DEF CutAt, byte_find
<1>2. /\ tok_start \in Int /\ t <= tok_start /\ tok_start <= end /\ (tok_start = end \/ s[tok_start] \notin Ows)
      /\ \A k \in t .. tok_start - 1 : s[k] \in Ows
  BY DEF CutAt, ows_skip
<1>3. tok_start <= comma
  <2>1. "COMMA" \notin Ows
    BY DEF Ows
  <2> QED  BY <1>0, <1>1, <1>2, <2>1
<1>4. /\ tok_end \in Int /\ tok_start <= tok_end /\ tok_end <= comma
      /\ tok_end = tok_start \/ s[tok_end - 1] \notin Ows
      /\ \A k \in tok_end .. comma - 1 : s[k] \in Ows
  BY <1>1, <1>2, <1>3 DEF CutAt, ows_trim_trailing
<1>5. EndOf(s, t, {"COMMA"}) = comma
  <2>1. comma \in t .. Len(s) + 1 /\ (comma = Len(s) + 1 \/ s[comma] \in {"COMMA"}) /\ \A k \in t .. comma - 1 : s[k] \notin {"COMMA"}
    BY <1>0, <1>1
  <2> QED  BY <2>1, EndIs
<1>6. Blank(s, t) <=> tok_start >= tok_end
  <2>1. CASE tok_start < tok_end
    <3>1. s[tok_start] \notin Ows
      BY <1>0, <1>1, <1>2, <1>4, <2>1
    <3>2. Trimmed(SubSeq(s, t, comma - 1)) = SubSeq(s, tok_start, tok_end - 1)
      <4>1. \A k \in t .. tok_start - 1 : s[k] \in Ows
        BY <1>2
      <4>2. \A k \in tok_end .. comma - 1 : s[k] \in Ows
        BY <1>4
      <4>3. s[tok_start] \notin Ows /\ s[tok_end - 1] \notin Ows
        BY <1>2, <1>4, <2>1, <3>1
      <4>4. /\ t \in Int /\ tok_start \in Int /\ tok_end \in Int /\ comma \in Int
            /\ 1 <= t /\ t <= tok_start /\ tok_start <= tok_end /\ tok_end <= comma /\ comma <= Len(s) + 1
        BY <1>0, <1>1, <1>2, <1>4
      <4>5. Cuts(s, t, tok_start, tok_end, comma)
        BY <4>1, <4>2, <4>3, <4>4 DEF Cuts
      <4> QED  BY <4>5, TrimIs
    <3>3. SubSeq(s, tok_start, tok_end - 1) # <<>>
      <4>1. Len(SubSeq(s, tok_start, tok_end - 1)) = tok_end - tok_start
        BY <1>0, <1>1, <1>2, <1>4, Slice
      <4> QED  BY <1>2, <1>4, <2>1, <4>1
    <3> QED  BY <1>2, <1>4, <1>5, <2>1, <3>2, <3>3 DEF Blank
  <2>2. CASE ~(tok_start < tok_end)
    <3>1. tok_start = comma
      BY <1>0, <1>1, <1>2, <1>3, <1>4, <2>2
    <3>2. Trimmed(SubSeq(s, t, comma - 1)) = SubSeq(s, comma, comma - 1)
      <4>1. Cuts(s, t, comma, comma, comma)
        BY <1>0, <1>1, <1>2, <3>1 DEF Cuts
      <4> QED  BY <4>1, TrimIs
    <3>3. SubSeq(s, comma, comma - 1) = <<>>
      BY <1>1, SubSeqEmpty
    <3>4. Blank(s, t)
      BY <1>5, <3>2, <3>3 DEF Blank
    <3>5. tok_start >= tok_end
      BY <1>2, <1>4, <2>2
    <3> QED  BY <3>4, <3>5
  <2> QED  BY <2>1, <2>2
<1>7. ASSUME tok_start < tok_end PROVE Listed(s, t) = c
  <2> DEFINE cut == IF semi < tok_end THEN semi ELSE comma
  <2>1. /\ semi \in Int /\ tok_start <= semi /\ semi <= tok_end /\ (semi = tok_end \/ s[semi] = "SEMI")
        /\ \A k \in tok_start .. semi - 1 : s[k] # "SEMI"
    BY <1>2, <1>4 DEF CutAt, byte_find
  <2>2. /\ name_end \in Int /\ tok_start <= name_end /\ name_end <= semi
        /\ name_end = tok_start \/ s[name_end - 1] \notin Ows
        /\ \A k \in name_end .. semi - 1 : s[k] \in Ows
    BY <1>2, <2>1 DEF CutAt, ows_trim_trailing
  <2>3. /\ cut \in Int /\ semi <= cut /\ cut <= comma
        /\ cut = end \/ s[cut] \in {"COMMA", "SEMI"}
        /\ \A k \in semi .. cut - 1 : s[k] \in Ows
    BY <1>1, <1>4, <2>1
  <2>4. \A k \in t .. cut - 1 : s[k] \notin {"COMMA", "SEMI"}
    <3> TAKE k \in t .. cut - 1
    <3>1. s[k] # "COMMA"
      BY <1>1, <2>3
    <3>2. s[k] \in Ows \/ k \in tok_start .. semi - 1
      BY <1>2, <2>1, <2>3
    <3>3. "SEMI" \notin Ows
      BY DEF Ows
    <3> QED  BY <2>1, <3>1, <3>2, <3>3
  <2> HIDE DEF cut
  <2>5. EndOf(s, t, {"COMMA", "SEMI"}) = cut
    <3>1. cut \in t .. Len(s) + 1
      BY <1>0, <1>1, <1>2, <2>1, <2>3
    <3> QED  BY <2>3, <2>4, <3>1, EndIs
  <2>6. s[tok_start] \notin Ows
    BY <1>0, <1>1, <1>2, <1>4, <1>7
  <2>7. \A k \in name_end .. cut - 1 : s[k] \in Ows
    BY <2>1, <2>2, <2>3
  <2>8. Trimmed(SubSeq(s, t, cut - 1)) = SubSeq(s, tok_start, name_end - 1)
    <3>1. name_end <= cut /\ cut <= Len(s) + 1
      BY <1>1, <2>1, <2>2, <2>3
    <3>2. tok_start < name_end => s[tok_start] \notin Ows /\ s[name_end - 1] \notin Ows
      BY <1>2, <2>2, <2>6
    <3>3. \A k \in t .. tok_start - 1 : s[k] \in Ows
      BY <1>2
    <3>4. /\ t \in Int /\ tok_start \in Int /\ name_end \in Int /\ cut \in Int
          /\ 1 <= t /\ t <= tok_start /\ tok_start <= name_end
      BY <1>0, <1>2, <2>2, <2>3
    <3>5. Cuts(s, t, tok_start, name_end, cut)
      BY <2>7, <3>1, <3>2, <3>3, <3>4 DEF Cuts
    <3> QED  BY <3>5, TrimIs
  <2> QED  BY <2>5, <2>8 DEF Listed, Named
<1>8. ASSUME NEW d \in Codings(s), d.from < comma + 1, ~(d.from < t) PROVE d = Listed(s, t) /\ ~Blank(s, t)
  <2>1. d = Listed(s, d.from) /\ ~Blank(s, d.from) /\ d.from \in Int /\ 1 <= d.from /\ d.from <= Len(s)
        /\ (d.from = 1 \/ s[d.from - 1] = "COMMA")
    BY <1>8, CodingFacts DEF ListStarts
  <2>2. d.from - 1 \notin t .. comma - 1
    BY <1>0, <1>1, <2>1
  <2>3. d.from = t
    BY <1>0, <1>1, <1>8, <2>1, <2>2
  <2> QED  BY <2>1, <2>3
<1>9. \A d \in Codings(s) : d.from < t => d.from < comma + 1
  BY <1>0, <1>1, CodingFacts
<1>10. ASSUME tok_start < tok_end PROVE c \in Codings(s) /\ c.from < comma + 1
  <2>1. t \in {j \in ListStarts(s) : ~Blank(s, j)}
    <3>1. ~(tok_start >= tok_end)
      BY <1>2, <1>4, <1>10
    <3>2. t \in ListStarts(s)
      BY DEF ListStarts
    <3> QED  BY <1>6, <3>1, <3>2
  <2>2. Listed(s, t) \in Codings(s)
    BY <2>1, CodingsAre
  <2>3. c.from = t
    BY DEF Named
  <2> HIDE DEF c
  <2> QED  BY <1>0, <1>1, <1>7, <1>10, <2>2, <2>3
<1>11. tok_start >= tok_end => Upto(s, comma + 1) = Upto(s, t)
  BY <1>6, <1>8, <1>9 DEF Upto
<1>12. tok_start < tok_end => Upto(s, comma + 1) = Upto(s, t) \union {c} /\ c \in Codings(s)
  <2> SUFFICES ASSUME tok_start < tok_end PROVE Upto(s, comma + 1) = Upto(s, t) \union {c} /\ c \in Codings(s)
    OBVIOUS
  <2>1. c \in Codings(s) /\ c.from < comma + 1 /\ Listed(s, t) = c
    BY <1>7, <1>10
  <2> HIDE DEF c
  <2> QED  BY <1>8, <1>9, <2>1 DEF Upto
<1> QED  BY <1>0, <1>1, <1>11, <1>12

-----------------------------------------------------------------------------
(* What the comment says of a list *)

Chunked(c) == c.name = <<"chunked">>

LEMMA VerdictIs ==
  ASSUME NEW s
  PROVE  LET all == Codings(s)
             chunked == {c \in all : Chunked(c)}
         IN  DocumentedVerdict(s) =
               IF \/ all = {} \/ \E c \in all : ~is_token(c.name) \/ Cardinality(chunked) > 1
                  \/ \E c \in chunked, d \in all : d.from > c.from
               THEN "PARSE_BAD_REQUEST"
               ELSE IF all = chunked THEN "PARSE_OK" ELSE "PARSE_NOT_IMPLEMENTED"
BY DEF DocumentedVerdict, Chunked

LEMMA NoCodings ==
  ASSUME NEW s, Codings(s) = {}
  PROVE  DocumentedVerdict(s) = "PARSE_BAD_REQUEST"
BY VerdictIs

LEMMA NoToken ==
  ASSUME NEW s, NEW c \in Codings(s), ~is_token(c.name)
  PROVE  DocumentedVerdict(s) = "PARSE_BAD_REQUEST"
<1> DEFINE all == Codings(s)
           chunked == {x \in all : Chunked(x)}
<1>1. \E x \in all : ~is_token(x.name) \/ Cardinality(chunked) > 1
  OBVIOUS
<1> QED  BY <1>1, VerdictIs

LEMMA ChunkedNotLast ==
  ASSUME NEW s, NEW c \in Codings(s), NEW d \in Codings(s), Chunked(c), d.from > c.from
  PROVE  DocumentedVerdict(s) = "PARSE_BAD_REQUEST"
BY VerdictIs

LEMMA CodingsFinite ==
  ASSUME NEW s \in Seq(Bytes)
  PROVE  IsFiniteSet(Codings(s)) /\ IsFiniteSet({c \in Codings(s) : Chunked(c)})
<1> DEFINE f == [c \in Codings(s) |-> c.from]
<1>1. f \in [Codings(s) -> 1 .. Len(s)]
  BY CodingFacts
<1>2. ASSUME NEW c \in Codings(s), NEW d \in Codings(s), f[c] = f[d] PROVE c = d
  BY <1>2, CodingFacts
<1>3. f \in Injection(Codings(s), 1 .. Len(s))
  <2> HIDE DEF f
  <2> QED  BY <1>1, <1>2 DEF Injection, IsInjective
<1>4. IsFiniteSet(1 .. Len(s))
  BY FS_Interval
<1>5. IsFiniteSet(Codings(s))
  BY <1>3, <1>4, FS_Injection
<1> QED  BY <1>5, FS_Subset

LEMMA TwoChunked ==
  ASSUME NEW s \in Seq(Bytes), NEW c \in Codings(s), NEW d \in Codings(s), Chunked(c), Chunked(d), c # d
  PROVE  DocumentedVerdict(s) = "PARSE_BAD_REQUEST"
<1> DEFINE all == Codings(s)
           chunked == {x \in all : Chunked(x)}
<1>1. IsFiniteSet(chunked) /\ {c, d} \subseteq chunked
  BY CodingsFinite
<1>2. IsFiniteSet({c}) /\ Cardinality({c}) = 1
  BY FS_Singleton
<1>3. Cardinality({c} \union {d}) = 2
  <2>1. d \notin {c}
    OBVIOUS
  <2>2. Cardinality({c} \union {d}) = IF d \in {c} THEN Cardinality({c}) ELSE Cardinality({c}) + 1
    BY <1>2, FS_AddElement
  <2>3. Cardinality({c} \union {d}) = Cardinality({c}) + 1
    BY <2>1, <2>2, Zenon
  <2>4. PICK one : one = Cardinality({c}) /\ one = 1
    BY <1>2
  <2>5. one + 1 = 2
    BY <2>4
  <2>6. Cardinality({c} \union {d}) = one + 1
    BY <2>3, <2>4, Zenon
  <2> QED  BY <2>5, <2>6, Zenon
<1>4. {c, d} = {c} \union {d}
  OBVIOUS
<1> HIDE DEF chunked
<1>5. Cardinality({c, d}) <= Cardinality(chunked) /\ Cardinality(chunked) \in Nat
  BY <1>1, FS_Subset, FS_CardinalityType
<1>6. \E x \in all : ~is_token(x.name) \/ Cardinality(chunked) > 1
  <2>1. Cardinality({c, d}) = 2
    BY <1>3, <1>4, Zenon
  <2>2. PICK n \in Nat : n = Cardinality(chunked)
    BY <1>5
  <2>3. 2 <= n
    BY <1>5, <2>1, <2>2, Zenon
  <2>4. n > 1
    BY <2>2, <2>3
  <2> QED  BY <2>2, <2>4, Zenon
<1> QED  BY <1>6, VerdictIs DEF chunked

LEMMA GoodList ==
  ASSUME NEW s \in Seq(Bytes), Codings(s) # {}, \A c \in Codings(s) : is_token(c.name),
         \A c, d \in Codings(s) : Chunked(c) /\ Chunked(d) => c = d,
         \A c, d \in Codings(s) : Chunked(c) => d.from <= c.from
  PROVE  DocumentedVerdict(s) =
           IF \A c \in Codings(s) : Chunked(c) THEN "PARSE_OK" ELSE "PARSE_NOT_IMPLEMENTED"
<1> DEFINE all == Codings(s)
           chunked == {x \in all : Chunked(x)}
<1>1. Cardinality(chunked) <= 1
  <2>1. CASE chunked = {}
    <3>1. Cardinality({}) = 0
      BY FS_EmptySet
    <3> HIDE DEF chunked
    <3> QED  BY <2>1, <3>1
  <2>2. CASE chunked # {}
    <3>1. PICK c \in all : Chunked(c)
      BY <2>2
    <3>2. chunked = {c}
      BY <3>1
    <3> HIDE DEF chunked
    <3>3. Cardinality({c}) = 1
      BY FS_Singleton
    <3> QED  BY <3>2, <3>3
  <2> QED  BY <2>1, <2>2
<1>2. Cardinality(chunked) \in Nat
  BY CodingsFinite, FS_CardinalityType
<1>3. ~\E c \in all : ~is_token(c.name) \/ Cardinality(chunked) > 1
  <2> HIDE DEF chunked
  <2> QED  BY <1>1, <1>2
<1>4. ~\E c \in chunked, d \in all : d.from > c.from
  BY CodingFacts
<1>5. all = chunked <=> \A c \in all : Chunked(c)
  OBVIOUS
<1>6. DocumentedVerdict(s) = IF all = chunked THEN "PARSE_OK" ELSE "PARSE_NOT_IMPLEMENTED"
  BY <1>3, <1>4, VerdictIs
<1> QED  BY <1>5, <1>6

-----------------------------------------------------------------------------
(* The counters of transfer_encoding_parse say of the elements before the  *)
(* cursor what its verdict needs.                                          *)
ListRead(s) ==
  /\ tcur = 1 \/ tcur = Len(s) + 2 \/ s[tcur - 1] = "COMMA"
  /\ total_non_empty = 0 <=> Upto(s, tcur) = {}
  /\ \A c \in Upto(s, tcur) : is_token(c.name)
  /\ has_unsupported <=> \E c \in Upto(s, tcur) : ~Chunked(c)
  /\ chunked_position = -1 <=> \A c \in Upto(s, tcur) : ~Chunked(c)
  /\ \A c, d \in Upto(s, tcur) : Chunked(c) /\ Chunked(d) => c = d
  /\ \A c \in Upto(s, tcur) : Chunked(c) =>
       (chunked_position = total_non_empty - 1 <=> \A d \in Upto(s, tcur) : d.from <= c.from)

CodingInv ==
  /\ at \notin {"codings", "element", "done"} => field = 1
  /\ at = "element" => ListRead(headers[field].value)
  /\ CodingsAsDocumented

LEMMA ElementCounted ==
  ASSUME NEW s \in Seq(Bytes), NEW m \in Int, ListRead(s), NEW c \in Codings(s),
         tcur \in Nat, total_non_empty \in Nat, chunked_position \in -1 .. total_non_empty - 1, has_unsupported \in BOOLEAN,
         Upto(s, m) = Upto(s, tcur) \union {c}, c.from = tcur, m = Len(s) + 2 \/ s[m - 1] = "COMMA",
         is_token(c.name), ~(Chunked(c) /\ chunked_position # -1),
         tcur' = m, total_non_empty' = total_non_empty + 1,
         chunked_position' = (IF Chunked(c) THEN total_non_empty ELSE chunked_position),
         has_unsupported' = (has_unsupported \/ ~Chunked(c))
  PROVE  ListRead(s)'
<1> DEFINE old == Upto(s, tcur)
           new == Upto(s, m)
<1>0. new = old \union {c} /\ \A d \in old : d.from \in Int /\ d.from < tcur
  BY CodingFacts DEF Upto
<1>1. Upto(s, tcur)' = new
  BY DEF Upto
<1>2. /\ total_non_empty = 0 <=> old = {}
      /\ \A d \in old : is_token(d.name)
      /\ has_unsupported <=> \E d \in old : ~Chunked(d)
      /\ chunked_position = -1 <=> \A d \in old : ~Chunked(d)
      /\ \A d, e \in old : Chunked(d) /\ Chunked(e) => d = e
      /\ \A d \in old : Chunked(d) =>
           (chunked_position = total_non_empty - 1 <=> \A e \in old : e.from <= d.from)
  BY DEF ListRead
<1> HIDE DEF old, new
<1>3. total_non_empty' # 0 /\ new # {}
  BY <1>0
<1>4. \A d \in new : is_token(d.name)
  BY <1>0, <1>2
<1>5. has_unsupported' <=> \E d \in new : ~Chunked(d)
  <2>1. (has_unsupported \/ ~Chunked(c)) <=> \E d \in new : ~Chunked(d)
    BY <1>0, <1>2, Zenon
  <2> QED  BY <2>1, Zenon
<1>6. chunked_position' = -1 <=> \A d \in new : ~Chunked(d)
  BY <1>0, <1>2
<1>7. \A d, e \in new : Chunked(d) /\ Chunked(e) => d = e
  BY <1>0, <1>2
<1>8. ASSUME NEW d \in new, Chunked(d)
      PROVE  chunked_position' = total_non_empty' - 1 <=> \A e \in new : e.from <= d.from
  <2>1. CASE d = c
    BY <1>0, <1>8, <2>1
  <2>2. CASE d # c
    <3>1. d \in old /\ ~Chunked(c)
      BY <1>0, <1>2, <1>8, <2>2
    <3>2. chunked_position' # total_non_empty' - 1
      BY <3>1
    <3>3. ~(c.from <= d.from)
      BY <1>0, <3>1
    <3> QED  BY <1>0, <3>2, <3>3
  <2> QED  BY <2>1, <2>2
<1>9. tcur' = 1 \/ tcur' = Len(s) + 2 \/ s[tcur' - 1] = "COMMA"
  OBVIOUS
<1> QED  BY <1>1, <1>3, <1>4, <1>5, <1>6, <1>7, <1>8, <1>9 DEF ListRead

LEMMA EarlyCodings ==
  ASSUME CodingInv,
         \/ RecvBytes \/ RecvEnds \/ HeadReceived \/ TooLarge \/ method_parse \/ uri_start \/ UriByte \/ UriEnd
         \/ version_parse \/ LineEnd \/ HeadersEnd \/ header_line \/ KeyByte \/ value_start \/ ValueByte \/ ValueEnd
  PROVE  CodingInv'
<1>1. at' # "element" /\ field' = 1
  <2>1. CASE RecvBytes \/ RecvEnds \/ HeadReceived \/ TooLarge
    BY <2>1 DEF CodingInv, RecvBytes, RecvEnds, HeadReceived, TooLarge, Fail, teVars
  <2>2. CASE method_parse \/ uri_start \/ UriEnd \/ version_parse
    BY <2>2 DEF CodingInv, method_parse, uri_start, UriEnd, version_parse, Fail, teVars
  <2>3. CASE UriByte
    <3>1. at = "uri" /\ at' \in {"uri", "done"} /\ field' = field
      BY <2>3 DEF UriByte, Fail, teVars
    <3> QED  BY <3>1 DEF CodingInv
  <2>4. CASE LineEnd \/ HeadersEnd \/ header_line
    BY <2>4 DEF CodingInv, LineEnd, HeadersEnd, header_line, Fail, teVars
  <2>5. CASE KeyByte \/ value_start \/ ValueByte \/ ValueEnd
    BY <2>5 DEF CodingInv, KeyByte, value_start, ValueByte, ValueEnd, Fail, teVars
  <2> QED  BY <2>1, <2>2, <2>3, <2>4, <2>5
<1> QED  BY <1>1 DEF CodingInv, CodingsAsDocumented

LEMMA FieldsCodings ==
  ASSUME IInv, CodingInv, NextField \/ FieldsEnd
  PROVE  CodingInv'
<1>1. at = "codings" /\ headers' = headers
  BY DEF NextField, FieldsEnd
<1>2. CASE FieldsEnd
  BY <1>1, <1>2 DEF FieldsEnd, teVars, CodingInv, CodingsAsDocumented
<1>3. CASE NextField /\ headers[field].key # <<"TE">>
  <2>1. at' = "codings" /\ field' = field + 1 /\ field \in Int
    BY <1>1, <1>3 DEF NextField, IInv, TypeOK
  <2>2. field' - 1 = field
    BY <2>1
  <2> QED  BY <1>1, <1>3, <2>1, <2>2 DEF CodingInv, CodingsAsDocumented
<1>4. CASE NextField /\ headers[field].key = <<"TE">>
  <2>1. /\ at' = "element" /\ tcur' = 1 /\ field' = field
        /\ chunked_position' = -1 /\ total_non_empty' = 0 /\ has_unsupported' = FALSE
        /\ field \in 1 .. Len(headers)
    BY <1>1, <1>4 DEF NextField, IInv, TypeOK
  <2>2. PICK s : s = headers[field].value
    OBVIOUS
  <2>3. s \in Seq(Bytes)
    <3>1. headers[field] \in [key : Seq(Bytes), value : Seq(Bytes)]
      BY <2>1, Item DEF IInv, TypeOK
    <3> QED  BY <2>2, <3>1
  <2>4. Upto(s, 1) = {}
    BY <2>3, CodingFacts DEF Upto
  <2>5. ListRead(s)'
    <3>1. Upto(s, tcur)' = {}
      BY <2>1, <2>4 DEF Upto
    <3>2. has_unsupported' <=> \E c \in Upto(s, tcur)' : ~Chunked(c)
      BY <2>1, <3>1
    <3> QED  BY <2>1, <3>1, <3>2 DEF ListRead
  <2>6. ListRead(headers[field].value)'
    BY <1>1, <2>1, <2>2, <2>5 DEF ListRead
  <2> QED  BY <2>1, <2>6 DEF CodingInv, CodingsAsDocumented
<1> QED  BY <1>2, <1>3, <1>4

(* A verdict is given for the field that is read. *)
LEMMA VerdictGiven ==
  ASSUME IInv, CodingInv, at = "element", NEW why, NEW coding, Coding(why, coding), UNCHANGED headers,
         DocumentedVerdict(headers[field].value) = why
  PROVE  CodingInv'
<1>1. at' = "codings" /\ field' = field + 1 /\ te_status' = why /\ field \in Int
  BY DEF Coding, IInv, TypeOK
<1>2. PICK n, h : n = field /\ h = headers /\ n \in Int
  BY <1>1
<1>3. field' = n + 1 /\ headers' = h /\ (n + 1) - 1 = n
  BY <1>1, <1>2
<1>4. DocumentedVerdict(h[n].value) = why
  BY <1>2
<1>5. DocumentedVerdict(headers[field - 1].value)' = why
  <2>1. headers'[field' - 1].value = h[n].value
    BY <1>3
  <2>2. DocumentedVerdict(headers[field - 1].value)' = DocumentedVerdict(headers'[field' - 1].value)
    BY DEF DocumentedVerdict, Codings, Trimmed, is_token
  <2> QED  BY <1>4, <2>1, <2>2
<1> QED  BY <1>1, <1>5 DEF CodingInv, CodingsAsDocumented

(* What a pass of the loop makes of the element that starts at t. *)
Skipped(s, t, comma) ==
  /\ Upto(s, comma + 1) = Upto(s, t)
  /\ tcur' = comma + 1
  /\ UNCHANGED <<at, field, body_coding, te_status, chunked_position, total_non_empty, has_unsupported>>

Refused(c) ==
  /\ ~is_token(c.name) \/ (Chunked(c) /\ chunked_position # -1)
  /\ Coding("PARSE_BAD_REQUEST", "TE_NONE")

Counted(s, t, comma, c) ==
  /\ Upto(s, comma + 1) = Upto(s, t) \union {c}
  /\ is_token(c.name) /\ ~(Chunked(c) /\ chunked_position # -1)
  /\ chunked_position' = (IF Chunked(c) THEN total_non_empty ELSE chunked_position)
  /\ has_unsupported' = (has_unsupported \/ ~Chunked(c))
  /\ total_non_empty' = total_non_empty + 1 /\ tcur' = comma + 1
  /\ UNCHANGED <<at, field, body_coding, te_status>>

Passed(s, t, comma) ==
  /\ comma = Len(s) + 1 \/ s[comma] = "COMMA"
  /\ \/ Skipped(s, t, comma)
     \/ \E c \in Codings(s) : c.from = t /\ (Refused(c) \/ Counted(s, t, comma, c))

(* The alternatives of Element, for an element cut at these places. *)
Outcome(comma, tok_start, tok_end, name) ==
  \/ /\ tok_start >= tok_end /\ tcur' = comma + 1
     /\ UNCHANGED <<at, field, body_coding, te_status, chunked_position, total_non_empty, has_unsupported>>
  \/ /\ tok_start < tok_end /\ (~is_token(name) \/ (name = <<"chunked">> /\ chunked_position # -1))
     /\ Coding("PARSE_BAD_REQUEST", "TE_NONE")
  \/ /\ tok_start < tok_end /\ is_token(name) /\ ~(name = <<"chunked">> /\ chunked_position # -1)
     /\ chunked_position' = IF name = <<"chunked">> THEN total_non_empty ELSE chunked_position
     /\ has_unsupported' = (has_unsupported \/ name # <<"chunked">>)
     /\ total_non_empty' = total_non_empty + 1 /\ tcur' = comma + 1
     /\ UNCHANGED <<at, field, body_coding, te_status>>

LEMMA ElementPassed ==
  ASSUME NEW s \in Seq(Bytes), NEW t \in 1 .. Len(s), t = tcur, t = 1 \/ s[t - 1] = "COMMA", Element(s)
  PROVE  \E comma \in t .. Len(s) + 1 : Passed(s, t, comma)
<1>1. PICK tok_start, comma, tok_end, semi, name_end :
         /\ CutAt(s, t, tok_start, comma, tok_end, semi, name_end)
         /\ Outcome(comma, tok_start, tok_end, SubSeq(s, tok_start, name_end - 1))
  <2>1. \E tok_start \in ows_skip(s, tcur, Len(s) + 1) : \E comma \in byte_find(s, "COMMA", tcur, Len(s) + 1) :
        \E tok_end \in ows_trim_trailing(s, tok_start, comma) :
        \E semi \in byte_find(s, "SEMI", tok_start, tok_end) :
        \E name_end \in ows_trim_trailing(s, tok_start, semi) :
           Outcome(comma, tok_start, tok_end, SubSeq(s, tok_start, name_end - 1))
    BY Zenon DEF Element, Outcome
  <2> QED  BY <2>1, Zenon DEF CutAt
<1>2. PICK c : c = Named(s, t, tok_start, name_end)
  OBVIOUS
<1>3. /\ comma \in t .. Len(s) + 1 /\ (comma = Len(s) + 1 \/ s[comma] = "COMMA")
      /\ tok_start >= tok_end => Upto(s, comma + 1) = Upto(s, t)
      /\ tok_start < tok_end => Upto(s, comma + 1) = Upto(s, t) \union {c} /\ c \in Codings(s)
  BY <1>1, <1>2, ElementIs
<1>4. c.from = t /\ Outcome(comma, tok_start, tok_end, c.name)
  BY <1>1, <1>2 DEF Named
<1>5. CASE /\ tok_start >= tok_end /\ tcur' = comma + 1
           /\ UNCHANGED <<at, field, body_coding, te_status, chunked_position, total_non_empty, has_unsupported>>
  <2>1. Skipped(s, t, comma)
    BY <1>3, <1>5 DEF Skipped
  <2> QED  BY <1>3, <2>1 DEF Passed
<1>6. CASE /\ tok_start < tok_end /\ (~is_token(c.name) \/ (c.name = <<"chunked">> /\ chunked_position # -1))
           /\ Coding("PARSE_BAD_REQUEST", "TE_NONE")
  <2>1. Refused(c)
    BY <1>6 DEF Refused, Chunked
  <2> QED  BY <1>3, <1>4, <1>6, <2>1 DEF Passed
<1>7. CASE /\ tok_start < tok_end /\ is_token(c.name) /\ ~(c.name = <<"chunked">> /\ chunked_position # -1)
           /\ chunked_position' = IF c.name = <<"chunked">> THEN total_non_empty ELSE chunked_position
           /\ has_unsupported' = (has_unsupported \/ c.name # <<"chunked">>)
           /\ total_non_empty' = total_non_empty + 1 /\ tcur' = comma + 1
           /\ UNCHANGED <<at, field, body_coding, te_status>>
  <2>1. Counted(s, t, comma, c)
    BY <1>3, <1>7, Zenon DEF Counted, Chunked
  <2> QED  BY <1>3, <1>4, <1>7, <2>1 DEF Passed
<1> QED  BY <1>4, <1>5, <1>6, <1>7, Zenon DEF Outcome

LEMMA ElementCodings ==
  ASSUME IInv, IInv', CodingInv, CodingElement
  PROVE  CodingInv'
<1>1. at = "element" /\ headers' = headers /\ ListRead(headers[field].value)
  BY DEF CodingElement, CodingInv
<1>2. PICK s : s = headers[field].value
  OBVIOUS
<1>3. s \in Seq(Bytes)
  <2>1. field \in 1 .. Len(headers) /\ headers \in Seq([key : Seq(Bytes), value : Seq(Bytes)])
    BY <1>1 DEF IInv, TypeOK, InField
  <2>2. headers[field] \in [key : Seq(Bytes), value : Seq(Bytes)]
    BY <2>1, Item
  <2> QED  BY <1>2, <2>2
<1>4. /\ Element(s) /\ tcur \in 1 .. Len(s) /\ ListRead(s) /\ tcur \in Nat /\ Len(s) \in Nat
      /\ total_non_empty \in Nat /\ chunked_position \in -1 .. total_non_empty - 1 /\ has_unsupported \in BOOLEAN
  <2>1. Element(s) /\ tcur <= Len(s)
    BY <1>2, Zenon DEF CodingElement
  <2>2. ListRead(s)
    BY <1>1, <1>2
  <2>3. tcur \in Nat \ {0} /\ Len(s) \in Nat
    BY <1>3 DEF IInv, TypeOK
  <2>4. total_non_empty \in Nat /\ chunked_position \in -1 .. total_non_empty - 1 /\ has_unsupported \in BOOLEAN
    BY DEF IInv, TypeOK
  <2> QED  BY <2>1, <2>2, <2>3, <2>4
<1>5. PICK t \in 1 .. Len(s) : t = tcur
  BY <1>4
<1>6. PICK comma \in t .. Len(s) + 1 : Passed(s, t, comma)
  <2>1. t = 1 \/ s[t - 1] = "COMMA"
    BY <1>4, <1>5 DEF ListRead
  <2> QED  BY <1>3, <1>4, <1>5, <2>1, ElementPassed
<1>7. comma + 1 = Len(s) + 2 \/ s[(comma + 1) - 1] = "COMMA"
  BY <1>4, <1>6 DEF Passed
<1>8. ASSUME at' = "element", field' = field, ListRead(s)' PROVE CodingInv'
  <2>1. ListRead(headers[field].value)'
    BY <1>1, <1>2, <1>8 DEF ListRead, Upto
  <2> QED  BY <1>8, <2>1 DEF CodingInv, CodingsAsDocumented
<1>9. CASE Skipped(s, t, comma)
  <2>1. /\ tcur' = comma + 1 /\ Upto(s, comma + 1) = Upto(s, tcur)
        /\ UNCHANGED <<at, field, chunked_position, total_non_empty, has_unsupported>>
    BY <1>5, <1>9 DEF Skipped
  <2>2. Upto(s, tcur)' = Upto(s, tcur)
    BY <2>1 DEF Upto
  <2>3. ListRead(s)'
    <3>1. tcur' = 1 \/ tcur' = Len(s) + 2 \/ s[tcur' - 1] = "COMMA"
      BY <1>7, <2>1
    <3>2. has_unsupported' <=> \E c \in Upto(s, tcur)' : ~Chunked(c)
      BY <1>4, <2>1, <2>2, Zenon DEF ListRead
    <3> QED  BY <1>4, <2>1, <2>2, <3>1, <3>2 DEF ListRead
  <2> QED  BY <1>1, <1>8, <2>1, <2>3
<1>10. ASSUME NEW c \in Codings(s), c.from = t, Refused(c)
       PROVE  CodingInv'
  <2>1. Coding("PARSE_BAD_REQUEST", "TE_NONE")
    BY <1>10 DEF Refused
  <2>2. CASE ~is_token(c.name)
    <3>1. DocumentedVerdict(headers[field].value) = "PARSE_BAD_REQUEST"
      BY <1>2, <2>2, NoToken
    <3> QED  BY <1>1, <2>1, <3>1, VerdictGiven
  <2>3. CASE Chunked(c) /\ chunked_position # -1
    <3>1. PICK d \in Upto(s, tcur) : Chunked(d)
      BY <1>4, <2>3 DEF ListRead
    <3>2. d \in Codings(s) /\ d # c
      BY <1>5, <1>10, <3>1 DEF Upto
    <3>3. DocumentedVerdict(headers[field].value) = "PARSE_BAD_REQUEST"
      BY <1>2, <1>3, <2>3, <3>1, <3>2, TwoChunked
    <3> QED  BY <1>1, <2>1, <3>3, VerdictGiven
  <2> QED  BY <1>10, <2>2, <2>3 DEF Refused
<1>11. ASSUME NEW c \in Codings(s), c.from = t, Counted(s, t, comma, c)
       PROVE  CodingInv'
  <2> DEFINE m == comma + 1
  <2>1. m \in Int /\ Upto(s, m) = Upto(s, tcur) \union {c} /\ c.from = tcur /\ (m = Len(s) + 2 \/ s[m - 1] = "COMMA")
    BY <1>5, <1>7, <1>11 DEF Counted
  <2>2. /\ is_token(c.name) /\ ~(Chunked(c) /\ chunked_position # -1)
        /\ tcur' = m /\ total_non_empty' = total_non_empty + 1
        /\ chunked_position' = (IF Chunked(c) THEN total_non_empty ELSE chunked_position)
        /\ has_unsupported' = (has_unsupported \/ ~Chunked(c))
        /\ at' = at /\ field' = field
    BY <1>11, Zenon DEF Counted
  <2> HIDE DEF m
  <2>3. ListRead(s)'
    BY <1>3, <1>4, <2>1, <2>2, ElementCounted
  <2> QED  BY <1>1, <1>8, <2>2, <2>3
<1> QED  BY <1>6, <1>9, <1>10, <1>11 DEF Passed

LEMMA EndCodings ==
  ASSUME IInv, IInv', CodingInv, CodingsEnd
  PROVE  CodingInv'
<1>1. at = "element" /\ headers' = headers /\ ListRead(headers[field].value)
  BY DEF CodingsEnd, CodingInv
<1>2. PICK s : s = headers[field].value
  OBVIOUS
<1>3. s \in Seq(Bytes)
  <2>1. field \in 1 .. Len(headers) /\ headers \in Seq([key : Seq(Bytes), value : Seq(Bytes)])
    BY <1>1 DEF IInv, TypeOK, InField
  <2>2. headers[field] \in [key : Seq(Bytes), value : Seq(Bytes)]
    BY <2>1, Item
  <2> QED  BY <1>2, <2>2
<1>4. /\ tcur \in Int /\ tcur > Len(s) /\ Len(s) \in Int
      /\ total_non_empty \in Nat /\ chunked_position \in -1 .. total_non_empty - 1
  BY <1>2, <1>3 DEF CodingsEnd, IInv, TypeOK
<1>5. Upto(s, tcur) = Codings(s)
  BY <1>3, <1>4, CodingFacts DEF Upto
<1>6. /\ total_non_empty = 0 <=> Codings(s) = {}
      /\ \A c \in Codings(s) : is_token(c.name)
      /\ has_unsupported <=> \E c \in Codings(s) : ~Chunked(c)
      /\ chunked_position = -1 <=> \A c \in Codings(s) : ~Chunked(c)
      /\ \A c, d \in Codings(s) : Chunked(c) /\ Chunked(d) => c = d
      /\ \A c \in Codings(s) : Chunked(c) =>
           (chunked_position = total_non_empty - 1 <=> \A d \in Codings(s) : d.from <= c.from)
  BY <1>1, <1>2, <1>5 DEF ListRead
<1>7. IF total_non_empty = 0 \/ Misplaced THEN Coding("PARSE_BAD_REQUEST", "TE_NONE")
      ELSE IF has_unsupported THEN Coding("PARSE_NOT_IMPLEMENTED", "TE_UNSUPPORTED")
      ELSE Coding("PARSE_OK", "TE_CHUNKED")
  BY DEF CodingsEnd
<1>8. ASSUME NEW why, NEW coding, Coding(why, coding), DocumentedVerdict(s) = why PROVE CodingInv'
  BY <1>1, <1>2, <1>8, VerdictGiven
<1>9. CASE total_non_empty = 0
  BY <1>6, <1>7, <1>8, <1>9, NoCodings
<1>10. CASE Misplaced
  <2>1. PICK c \in Codings(s) : Chunked(c)
    BY <1>6, <1>10 DEF Misplaced
  <2>2. PICK d \in Codings(s) : ~(d.from <= c.from)
    BY <1>6, <1>10, <2>1 DEF Misplaced
  <2>3. d.from > c.from
    BY <1>3, <2>1, <2>2, CodingFacts
  <2> QED  BY <1>7, <1>8, <1>10, <2>1, <2>3, ChunkedNotLast
<1>11. CASE total_non_empty # 0 /\ ~Misplaced
  <2>1. ASSUME NEW c \in Codings(s), NEW d \in Codings(s), Chunked(c) PROVE d.from <= c.from
    <3>1. CASE has_unsupported
      <4>1. chunked_position = total_non_empty - 1
        BY <1>6, <1>11, <2>1, <3>1 DEF Misplaced
      <4> QED  BY <1>6, <2>1, <4>1
    <3>2. CASE ~has_unsupported
      <4>1. d = c
        BY <1>6, <2>1, <3>2
      <4> QED  BY <1>3, <4>1, CodingFacts
    <3> QED  BY <3>1, <3>2
  <2>2. DocumentedVerdict(s) = IF \A c \in Codings(s) : Chunked(c) THEN "PARSE_OK" ELSE "PARSE_NOT_IMPLEMENTED"
    BY <1>3, <1>6, <1>11, <2>1, GoodList
  <2>3. CASE has_unsupported
    BY <1>6, <1>7, <1>8, <1>11, <2>2, <2>3
  <2>4. CASE ~has_unsupported
    BY <1>6, <1>7, <1>8, <1>11, <2>2, <2>4
  <2> QED  BY <2>3, <2>4
<1> QED  BY <1>9, <1>10, <1>11

LEMMA CodingInvInit == Init => CodingInv
BY DEF Init, CodingInv, CodingsAsDocumented

LEMMA CodingInvNext == IInv /\ IInv' /\ CodingInv /\ [Next]_vars => CodingInv'
<1>1. ASSUME CodingInv, UNCHANGED vars PROVE CodingInv'
  BY <1>1 DEF CodingInv, CodingsAsDocumented, ListRead, Upto, vars, teVars
<1> QED
  BY <1>1, EarlyCodings, FieldsCodings, ElementCodings, EndCodings DEF Next, Parse

(* Whatever list of codings a Transfer-Encoding field holds, the loop of   *)
(* transfer_encoding_parse answers with the verdict of the table in the    *)
(* comment above it.                                                       *)
THEOREM CodingsDecided == Spec => []CodingsAsDocumented
<1>1. CodingInv => CodingsAsDocumented
  BY DEF CodingInv
<1>2. Spec => []CodingInv
  BY InitHolds, NextKeeps, CodingInvInit, CodingInvNext, PTL DEF Spec
<1> QED  BY <1>1, <1>2, PTL
==============================================================================
