----------------------------- MODULE HttpRequest -----------------------------
(***************************************************************************)
(* Reading and parsing one request head: conn_recv_header of Connection.c, *)
(* request_parse and the functions below it (HttpRequest.c,                *)
(* HttpRequestLine.c, HttpHeaders.c, the scanners of parser.c), and the    *)
(* Transfer-Encoding loop of step_header_read with                         *)
(* transfer_encoding_parse.  A step is one pass of one of their loops.     *)
(*                                                                         *)
(* Two scanners look for the end of the head and never compare notes:      *)
(* conn_recv_header looks for CR LF CR LF and says where the body starts,  *)
(* request_parse is given all that was received, body and pipelined        *)
(* requests included, and goes line by line until an empty one.            *)
(*                                                                         *)
(* A byte is a string that names its class: "CR", "LF", "SP", "HT",        *)
(* "COLON", "SLASH", "QUEST", "PCT", "HASH", "COMMA", "SEMI" are           *)
(* themselves, "h" is a hexadecimal digit, "g" a letter that is none, "P"  *)
(* a visible delimiter, "OBS" a byte above 7F, "CTL" a control byte.       *)
(* Words the code compares as a whole are one byte: a known method "GET",  *)
(* the versions "V1" (supported) and "V2" (well formed, not supported),    *)
(* the field name "TE" (transfer-encoding) and the coding "chunked".       *)
(* A pointer into the request is an index of `text`, an end is one past    *)
(* the last byte.                                                          *)
(***************************************************************************)
EXTENDS Integers, Sequences, FiniteSets

CONSTANTS
  Texts,                      \* what a client may send, as sequences of bytes
  HTTP_MAX_REQUEST_LEN,       \* capacity of the request buffer
  HTTP_MAX_PATH_LEN, HTTP_MAX_QUERY_LEN,                 \* arrays with their NUL
  HTTP_MAX_HEADER_KEY_LEN, HTTP_MAX_HEADER_VALUE_LEN,
  HTTP_MAX_HEADERS

(* An array of one byte has no room beside the NUL, and the query's first  *)
(* byte is stored without a look at its capacity.                          *)
ASSUME CapsAssumption ==
  /\ HTTP_MAX_REQUEST_LEN \in Nat /\ HTTP_MAX_HEADERS \in Nat
  /\ HTTP_MAX_PATH_LEN \in Nat \ {0} /\ HTTP_MAX_QUERY_LEN \in Nat \ {0, 1}
  /\ HTTP_MAX_HEADER_KEY_LEN \in Nat \ {0} /\ HTTP_MAX_HEADER_VALUE_LEN \in Nat \ {0}

Ows    == {"SP", "HT"}                                                \* is_ows
Hex    == {"h"}                                                       \* is_hex
Tchar  == {"h", "g", "PCT", "HASH", "GET", "TE", "chunked"}           \* is_tchar
Vchar  == Tchar \union {"COLON", "SLASH", "QUEST", "COMMA", "SEMI", "P", "V1", "V2"}
FieldContent == Ows \union Vchar \union {"OBS"}                       \* is_field_content_byte
Bytes  == FieldContent \union {"CR", "LF", "CTL"}

ASSUME TextsAssumption == Texts \subseteq Seq(Bytes)

Statuses == {"PARSE_OK", "PARSE_BAD_REQUEST", "PARSE_URI_TOO_LONG", "PARSE_HEADER_KEY_TOO_LONG",
             "PARSE_HEADER_VALUE_TOO_LONG", "PARSE_HEADER_TOO_LONG", "PARSE_VERSION_NOT_SUPPORTED",
             "PARSE_NOT_IMPLEMENTED"}

VARIABLES
  text,          \* the bytes the client sends before it closes or waits
  size,          \* req_buf.size: how many of them were received
  body_start,    \* index of the first byte after CR LF CR LF, 0 before it is found
  stop,          \* `end` of request_parse
  at,            \* which loop runs
  cur,           \* the cursor of that loop
  eol, limit,    \* the ends of the line, and of the token, that it reads
  path, query, into,     \* the request line's arrays, and the one `buf` points to
  key, value, headers,   \* the header being parsed, and those already kept
  status,        \* what request_parse returned, or what was answered instead of it
  field, tcur,   \* the header whose codings are read, and the cursor in its value
  chunked_position, total_non_empty, has_unsupported,    \* locals of transfer_encoding_parse
  body_coding, te_status

recvVars  == <<text, size, body_start>>
lineVars  == <<path, query, into>>
fieldVars == <<key, value>>
teVars    == <<field, tcur, chunked_position, total_non_empty, has_unsupported, body_coding, te_status>>
vars == <<recvVars, stop, at, cur, eol, limit, lineVars, fieldVars, headers, status, teVars>>

-----------------------------------------------------------------------------
(* The scanners of parser.c.  Each is a set with the one index the C       *)
(* function returns.                                                       *)

CrlfAt(i) == text[i] = "CR" /\ text[i + 1] = "LF"

crlf_find(from, end) ==
  {j \in from .. end : /\ j = end \/ (j + 1 < end /\ CrlfAt(j))
                       /\ \A k \in from .. j - 1 : ~(k + 1 < end /\ CrlfAt(k))}

(* memchr, colon_find (both give `end` here when nothing is found). *)
byte_find(s, b, from, end) ==
  {j \in from .. end : (j = end \/ s[j] = b) /\ \A k \in from .. j - 1 : s[k] # b}

ows_skip(s, from, end) ==
  {j \in from .. end : (j = end \/ s[j] \notin Ows) /\ \A k \in from .. j - 1 : s[k] \in Ows}

ows_trim_trailing(s, from, end) ==
  {j \in from .. end : (j = from \/ s[j - 1] \notin Ows) /\ \A k \in j .. end - 1 : s[k] \in Ows}

-----------------------------------------------------------------------------
Init ==
  /\ text \in Texts /\ size = 0 /\ body_start = 0 /\ stop = 1
  /\ at = "receive" /\ cur = 1 /\ eol = 1 /\ limit = 1
  /\ path = <<>> /\ query = <<>> /\ into = "path"
  /\ key = <<>> /\ value = <<>> /\ headers = <<>>
  /\ status = "none"
  /\ field = 1 /\ tcur = 1 /\ chunked_position = -1 /\ total_non_empty = 0
  /\ has_unsupported = FALSE /\ body_coding = "TE_NONE" /\ te_status = "PARSE_OK"

(* An early return of request_parse, or the answer to a head too large. *)
Fail(why) ==
  /\ at' = "done" /\ status' = why
  /\ UNCHANGED <<recvVars, stop, cur, eol, limit, lineVars, fieldVars, headers, teVars>>

-----------------------------------------------------------------------------
(* conn_recv_header *)

Terminators(n) == {i \in 1 .. n - 3 : CrlfAt(i) /\ CrlfAt(i + 2)}

(* recv hands over any number of the bytes the client sent, as far as the  *)
(* buffer has room.                                                        *)
RecvBytes ==
  /\ at = "receive" /\ Terminators(size) = {} /\ size < HTTP_MAX_REQUEST_LEN
  /\ size' \in {n \in size + 1 .. Len(text) : n <= HTTP_MAX_REQUEST_LEN}
  /\ UNCHANGED <<text, body_start, stop, at, cur, eol, limit, lineVars, fieldVars, headers, status, teVars>>

(* The client closes, or recv fails. *)
RecvEnds ==
  /\ at = "receive" /\ Terminators(size) = {} /\ size < HTTP_MAX_REQUEST_LEN
  /\ at' = "closed"
  /\ UNCHANGED <<recvVars, stop, cur, eol, limit, lineVars, fieldVars, headers, status, teVars>>

TooLarge ==
  /\ at = "receive" /\ Terminators(size) = {} /\ size >= HTTP_MAX_REQUEST_LEN
  /\ Fail("PARSE_HEADER_TOO_LONG")

(* Mistake: the end of the last request received is taken. *)
HeadReceived_last ==
  /\ at = "receive"
  /\ \E t \in Terminators(size) :
        /\ \A u \in Terminators(size) : t >= u
        /\ body_start' = t + 4
  /\ stop' \in ows_trim_trailing(text, 1, size + 1)
  /\ eol' \in crlf_find(1, stop')
  /\ at' = "method" /\ cur' = 1
  /\ UNCHANGED <<text, size, limit, lineVars, fieldVars, headers, status, teVars>>

(* request_parse is called with req_buf.size, not with body_start. *)
HeadReceived ==
  /\ at = "receive"
  /\ \E t \in Terminators(size) :
        /\ \A u \in Terminators(size) : t <= u
        /\ body_start' = t + 4
  /\ stop' \in ows_trim_trailing(text, 1, size + 1)
  /\ eol' \in crlf_find(1, stop')
  /\ at' = "method" /\ cur' = 1
  /\ UNCHANGED <<text, size, limit, lineVars, fieldVars, headers, status, teVars>>

-----------------------------------------------------------------------------
(* request_line_parse *)

(* The word before the first space; http_method_parse knows it by content  *)
(* and length.                                                             *)
method_parse ==
  /\ at = "method"
  /\ \E sp \in byte_find(text, "SP", cur, eol) :
        IF sp = cur + 1 /\ sp < eol /\ text[cur] = "GET"
        THEN /\ at' = "target" /\ cur' = sp + 1
             /\ UNCHANGED <<recvVars, stop, eol, limit, lineVars, fieldVars, headers, status, teVars>>
        ELSE Fail("PARSE_BAD_REQUEST")

uri_start ==
  /\ at = "target"
  /\ \E sp \in byte_find(text, "SP", cur, eol) :
        IF cur < eol /\ sp < eol /\ text[cur] = "SLASH"
        THEN /\ at' = "uri" /\ limit' = sp /\ path' = <<>> /\ query' = <<>> /\ into' = "path"
             /\ UNCHANGED <<recvVars, stop, cur, eol, fieldVars, headers, status, teVars>>
        ELSE Fail("PARSE_BAD_REQUEST")

(* *len_ptr and cap. *)
Stored == IF into = "path" THEN Len(path) ELSE Len(query)
Cap    == IF into = "path" THEN HTTP_MAX_PATH_LEN ELSE HTTP_MAX_QUERY_LEN

(* Mistake: the NUL is forgotten. *)
Full_no_nul(n) == Stored + n > Cap

(* Mistake: the last byte is never used. *)
Full_early(n) == Stored + n >= Cap - 1

Full(n) == Stored + n > Cap - 1

Store(s) ==
  IF into = "path" THEN path' = path \o s /\ query' = query ELSE query' = query \o s /\ path' = path

(* Mistake: an escape is stored without a look at its digits. *)
UriRefuses_any_escape(c) ==
  IF c \notin Vchar \/ c = "HASH" THEN "PARSE_BAD_REQUEST"
  ELSE IF c = "QUEST" /\ into = "path" THEN "none"
  ELSE IF Full(1) THEN "PARSE_URI_TOO_LONG"
  ELSE IF c # "PCT" THEN "none"
  ELSE IF cur + 3 > limit THEN "PARSE_BAD_REQUEST"
  ELSE IF Full(3) THEN "PARSE_URI_TOO_LONG" ELSE "none"

(* Whether uri_parse refuses the byte at cur, and how. *)
UriRefuses(c) ==
  IF c \notin Vchar \/ c = "HASH" THEN "PARSE_BAD_REQUEST"
  ELSE IF c = "QUEST" /\ into = "path" THEN "none"
  ELSE IF Full(1) THEN "PARSE_URI_TOO_LONG"
  ELSE IF c # "PCT" THEN "none"
  ELSE IF cur + 3 > limit THEN "PARSE_BAD_REQUEST"
  ELSE IF text[cur + 1] \notin Hex \/ text[cur + 2] \notin Hex THEN "PARSE_BAD_REQUEST"
  ELSE IF Full(3) THEN "PARSE_URI_TOO_LONG" ELSE "none"

(* One pass of uri_parse's loop: the '?' that starts the query, an escape  *)
(* of three bytes, or one byte.                                            *)
UriByte ==
  /\ at = "uri" /\ cur < limit
  /\ LET c == text[cur]
     IN  \/ /\ UriRefuses(c) # "none" /\ Fail(UriRefuses(c))
         \/ /\ UriRefuses(c) = "none"
            /\ \/ /\ c = "QUEST" /\ into = "path"
                  /\ into' = "query" /\ query' = <<c>> /\ path' = path /\ cur' = cur + 1
               \/ /\ c = "PCT" /\ into' = into
                  /\ Store(<<c, text[cur + 1], text[cur + 2]>>) /\ cur' = cur + 3
               \/ /\ c # "PCT" /\ ~(c = "QUEST" /\ into = "path") /\ into' = into
                  /\ Store(<<c>>) /\ cur' = cur + 1
            /\ UNCHANGED <<recvVars, stop, at, eol, limit, fieldVars, headers, status, teVars>>

UriEnd ==
  /\ at = "uri" /\ cur >= limit
  /\ at' = "version" /\ cur' = limit + 1
  /\ UNCHANGED <<recvVars, stop, eol, limit, lineVars, fieldVars, headers, status, teVars>>

(* The rest of the line is HTTP/d.d; then the CR LF is consumed. *)
version_parse ==
  /\ at = "version"
  /\ IF eol # cur + 1 \/ text[cur] \notin {"V1", "V2"} THEN Fail("PARSE_BAD_REQUEST")
     ELSE IF text[cur] = "V2" THEN Fail("PARSE_VERSION_NOT_SUPPORTED")
     ELSE /\ at' = "line_end" /\ cur' = eol
          /\ UNCHANGED <<recvVars, stop, eol, limit, lineVars, fieldVars, headers, status, teVars>>

-----------------------------------------------------------------------------
(* The header loop of request_parse *)

(* crlf_parse after the request line or a header line. *)
LineEnd ==
  /\ at = "line_end"
  /\ IF cur + 2 <= stop /\ CrlfAt(cur)
     THEN /\ at' = "header_line" /\ cur' = cur + 2
          /\ UNCHANGED <<recvVars, stop, eol, limit, lineVars, fieldVars, headers, status, teVars>>
     ELSE Fail("PARSE_BAD_REQUEST")

EmptyLine == cur + 2 <= stop /\ CrlfAt(cur)

HeadersEnd ==
  /\ at = "header_line" /\ EmptyLine
  /\ at' = "codings" /\ cur' = cur + 2 /\ status' = "PARSE_OK" /\ field' = 1
  /\ body_coding' = "TE_NONE" /\ te_status' = "PARSE_OK"
  /\ UNCHANGED <<recvVars, stop, eol, limit, lineVars, fieldVars, headers,
                 tcur, chunked_position, total_non_empty, has_unsupported>>

(* header_line_parse, and the checks header_key_parse starts with: the     *)
(* byte at the end of the key, which may be the end of the line, is read.  *)
header_line ==
  /\ at = "header_line" /\ ~EmptyLine
  /\ \E e \in crlf_find(cur, stop) : \E colon \in byte_find(text, "COLON", cur, e) :
        IF cur < e /\ cur < colon /\ text[colon] = "COLON"
        THEN /\ at' = "key" /\ eol' = e /\ limit' = colon /\ key' = <<>> /\ value' = <<>>
             /\ UNCHANGED <<recvVars, stop, cur, lineVars, headers, status, teVars>>
        ELSE Fail("PARSE_BAD_REQUEST")

KeyByte ==
  /\ at = "key" /\ cur < limit
  /\ IF text[cur] \notin Tchar THEN Fail("PARSE_BAD_REQUEST")
     ELSE IF Len(key) >= HTTP_MAX_HEADER_KEY_LEN - 1 THEN Fail("PARSE_HEADER_KEY_TOO_LONG")
     ELSE /\ key' = Append(key, text[cur]) /\ cur' = cur + 1
          /\ UNCHANGED <<recvVars, stop, at, eol, limit, lineVars, value, headers, status, teVars>>

(* Mistake: only the whitespace before a value is cut. *)
value_start_untrimmed ==
  /\ at = "key" /\ cur >= limit
  /\ LET first == cur + 1
     IN  IF eol - first > HTTP_MAX_HEADER_VALUE_LEN - 1 THEN Fail("PARSE_HEADER_VALUE_TOO_LONG")
         ELSE /\ at' = "value"
              /\ cur' \in ows_skip(text, first, eol) /\ limit' = eol
              /\ UNCHANGED <<recvVars, stop, eol, lineVars, fieldVars, headers, status, teVars>>

(* The length is checked before the whitespace around the value is cut. *)
value_start ==
  /\ at = "key" /\ cur >= limit
  /\ LET first == cur + 1
     IN  IF eol - first > HTTP_MAX_HEADER_VALUE_LEN - 1 THEN Fail("PARSE_HEADER_VALUE_TOO_LONG")
         ELSE /\ at' = "value"
              /\ cur' \in ows_skip(text, first, eol) /\ limit' \in ows_trim_trailing(text, cur', eol)
              /\ UNCHANGED <<recvVars, stop, eol, lineVars, fieldVars, headers, status, teVars>>

ValueByte ==
  /\ at = "value" /\ cur < limit
  /\ IF text[cur] \notin FieldContent THEN Fail("PARSE_BAD_REQUEST")
     ELSE /\ value' = Append(value, text[cur]) /\ cur' = cur + 1
          /\ UNCHANGED <<recvVars, stop, at, eol, limit, lineVars, key, headers, status, teVars>>

ValueEnd ==
  /\ at = "value" /\ cur >= limit
  /\ IF Len(headers) >= HTTP_MAX_HEADERS THEN Fail("PARSE_HEADER_TOO_LONG")
     ELSE /\ headers' = Append(headers, [key |-> key, value |-> value])
          /\ at' = "line_end" /\ cur' = eol
          /\ UNCHANGED <<recvVars, stop, eol, limit, lineVars, fieldVars, status, teVars>>

-----------------------------------------------------------------------------
(* The Transfer-Encoding loop of step_header_read *)

(* ascii_ieq(key, "transfer-encoding"): the last such field decides, unless *)
(* one before it was refused.                                              *)
NextField ==
  /\ at = "codings" /\ field <= Len(headers) /\ body_coding # "TE_UNSUPPORTED" /\ te_status = "PARSE_OK"
  /\ IF headers[field].key # <<"TE">>
     THEN field' = field + 1 /\ UNCHANGED <<at, tcur, chunked_position, total_non_empty, has_unsupported, body_coding>>
     ELSE /\ at' = "element" /\ body_coding' = "TE_NONE" /\ tcur' = 1 /\ field' = field
          /\ chunked_position' = -1 /\ total_non_empty' = 0 /\ has_unsupported' = FALSE
  /\ UNCHANGED <<recvVars, stop, cur, eol, limit, lineVars, fieldVars, headers, status, te_status>>

FieldsEnd ==
  /\ at = "codings"
  /\ field > Len(headers) \/ body_coding = "TE_UNSUPPORTED" \/ te_status # "PARSE_OK"
  /\ at' = "done"
  /\ UNCHANGED <<recvVars, stop, cur, eol, limit, lineVars, fieldVars, headers, status, teVars>>

(* A return of transfer_encoding_parse. *)
Coding(why, coding) ==
  /\ te_status' = why /\ body_coding' = coding /\ at' = "codings" /\ field' = field + 1
  /\ UNCHANGED <<tcur, chunked_position, total_non_empty, has_unsupported>>

is_token(s) == s # <<>> /\ \A i \in 1 .. Len(s) : s[i] \in Tchar

(* One element of the list: from the cursor to the comma, its parameters   *)
(* and the whitespace around its name cut off.                             *)
Element(val) ==
  LET end == Len(val) + 1
  IN  \E tok_start \in ows_skip(val, tcur, end) : \E comma \in byte_find(val, "COMMA", tcur, end) :
      \E tok_end \in ows_trim_trailing(val, tok_start, comma) :
      \E semi \in byte_find(val, "SEMI", tok_start, tok_end) :
      \E name_end \in ows_trim_trailing(val, tok_start, semi) :
        LET name == SubSeq(val, tok_start, name_end - 1)
        IN  \/ /\ tok_start >= tok_end /\ tcur' = comma + 1
               /\ UNCHANGED <<at, field, body_coding, te_status, chunked_position, total_non_empty, has_unsupported>>
            \/ /\ tok_start < tok_end /\ (~is_token(name) \/ (name = <<"chunked">> /\ chunked_position # -1))
               /\ Coding("PARSE_BAD_REQUEST", "TE_NONE")
            \/ /\ tok_start < tok_end /\ is_token(name) /\ ~(name = <<"chunked">> /\ chunked_position # -1)
               /\ chunked_position' = IF name = <<"chunked">> THEN total_non_empty ELSE chunked_position
               /\ has_unsupported' = (has_unsupported \/ name # <<"chunked">>)
               /\ total_non_empty' = total_non_empty + 1 /\ tcur' = comma + 1
               /\ UNCHANGED <<at, field, body_coding, te_status>>

(* Mistake: the comma after an empty element is not skipped. *)
CodingElement_stuck ==
  /\ at = "element" /\ tcur <= Len(headers[field].value)
  /\ IF headers[field].value[tcur] = "COMMA" THEN UNCHANGED teVars /\ UNCHANGED at
     ELSE Element(headers[field].value)
  /\ UNCHANGED <<recvVars, stop, cur, eol, limit, lineVars, fieldVars, headers, status>>

CodingElement ==
  /\ at = "element" /\ tcur <= Len(headers[field].value)
  /\ Element(headers[field].value)
  /\ UNCHANGED <<recvVars, stop, cur, eol, limit, lineVars, fieldVars, headers, status>>

(* Mistake: chunked has to come first. *)
Misplaced_first == chunked_position # -1 /\ has_unsupported /\ chunked_position # 0

(* chunked is in the list, not alone, and not last. *)
Misplaced == chunked_position # -1 /\ has_unsupported /\ chunked_position # total_non_empty - 1

CodingsEnd ==
  /\ at = "element" /\ tcur > Len(headers[field].value)
  /\ IF total_non_empty = 0 \/ Misplaced THEN Coding("PARSE_BAD_REQUEST", "TE_NONE")
     ELSE IF has_unsupported THEN Coding("PARSE_NOT_IMPLEMENTED", "TE_UNSUPPORTED")
     ELSE Coding("PARSE_OK", "TE_CHUNKED")
  /\ UNCHANGED <<recvVars, stop, cur, eol, limit, lineVars, fieldVars, headers, status>>

-----------------------------------------------------------------------------
Parse ==
  \/ HeadReceived \/ TooLarge \/ method_parse \/ uri_start \/ UriByte \/ UriEnd \/ version_parse
  \/ LineEnd \/ HeadersEnd \/ header_line \/ KeyByte \/ value_start \/ ValueByte \/ ValueEnd
  \/ NextField \/ FieldsEnd \/ CodingElement \/ CodingsEnd

Next == RecvBytes \/ RecvEnds \/ Parse

Spec == Init /\ [][Next]_vars

(* step_header_read does not return to poll in the middle of a head it     *)
(* has received: its loops run on.  The client is under no fairness.       *)
LiveSpec == Spec /\ WF_vars(Parse)

-----------------------------------------------------------------------------
(* What a head must look like, said of the bytes between its first and its *)
(* last line without a cursor.                                             *)

(* The bytes p .. e - 1 are a line of the head. *)
IsLine(p, e) == (p = 1 \/ (p > 2 /\ CrlfAt(p - 2))) /\ CrlfAt(e) /\ \A k \in p .. e - 1 : ~CrlfAt(k)

Places == 1 .. body_start - 4

HeaderLines == {l \in (Places \ {1}) \X Places : l[1] < l[2] /\ IsLine(l[1], l[2])}

(* Where the query of the target a .. b - 1 starts. *)
QueryAt(a, b) == CHOOSE q \in a .. b : (q = b \/ text[q] = "QUEST") /\ \A k \in a .. q - 1 : text[k] # "QUEST"

TargetFits(a, b) == QueryAt(a, b) - a < HTTP_MAX_PATH_LEN /\ b - QueryAt(a, b) < HTTP_MAX_QUERY_LEN

TargetWellFormed(a, b) ==
  /\ text[a] = "SLASH"
  /\ \A i \in a .. b - 1 :
        /\ text[i] \in Vchar \ {"HASH"}
        /\ text[i] = "PCT" => i + 2 < b /\ {text[i + 1], text[i + 2]} \subseteq Hex

(* The first line is a known method, a space, the target up to the space   *)
(* at b, and a version.                                                    *)
RequestLine(b, versions) ==
  /\ b > 3 /\ b + 2 \in Places /\ IsLine(1, b + 2)
  /\ text[1] = "GET" /\ text[2] = "SP" /\ text[b] = "SP" /\ text[b + 1] \in versions

HeaderWellFormed(l) ==
  \E c \in l[1] + 1 .. l[2] - 1 :
     /\ text[c] = "COLON" /\ \A i \in l[1] .. c - 1 : text[i] \in Tchar
     /\ \A i \in c + 1 .. l[2] - 1 : text[i] \in FieldContent
     /\ c - l[1] < HTTP_MAX_HEADER_KEY_LEN /\ l[2] - c - 1 < HTTP_MAX_HEADER_VALUE_LEN

WellFormed ==
  /\ \E b \in Places : RequestLine(b, {"V1"}) /\ TargetWellFormed(3, b) /\ TargetFits(3, b)
  /\ \A l \in HeaderLines : HeaderWellFormed(l)
  /\ Cardinality(HeaderLines) <= HTTP_MAX_HEADERS

(* The codings of a list: where each element that is not blank starts, and *)
(* its name.                                                               *)
Trimmed(s) ==
  LET kept == {i \in 1 .. Len(s) : s[i] \notin Ows}
  IN  IF kept = {} THEN <<>>
      ELSE SubSeq(s, CHOOSE i \in kept : \A j \in kept : i <= j, CHOOSE i \in kept : \A j \in kept : i >= j)

Codings(val) ==
  LET Ends(set) == {i \in 1 .. Len(val) : val[i] \in set} \union {Len(val) + 1}
      After(i, set) == CHOOSE e \in Ends(set) : e >= i /\ \A f \in Ends(set) : f >= i => e <= f
      Starts == {i \in 1 .. Len(val) : i = 1 \/ val[i - 1] = "COMMA"}
  IN  {[from |-> i, name |-> Trimmed(SubSeq(val, i, After(i, {"COMMA", "SEMI"}) - 1))] :
         i \in {j \in Starts : Trimmed(SubSeq(val, j, After(j, {"COMMA"}) - 1)) # <<>>}}

(* The table in the comment of transfer_encoding_parse. *)
DocumentedVerdict(val) ==
  LET all == Codings(val)
      chunked == {c \in all : c.name = <<"chunked">>}
  IN  IF \/ all = {} \/ \E c \in all : ~is_token(c.name) \/ Cardinality(chunked) > 1
         \/ \E c \in chunked, d \in all : d.from > c.from
      THEN "PARSE_BAD_REQUEST"
      ELSE IF all = chunked THEN "PARSE_OK" ELSE "PARSE_NOT_IMPLEMENTED"

-----------------------------------------------------------------------------
(* Properties *)

Parsing == at \notin {"receive", "closed"} /\ body_start > 0

(* Every cursor and end stays in the bytes received, and every array of    *)
(* the parsed request keeps a byte for its NUL (uri_parse, header_key_parse, *)
(* header_value_parse, header_line_parse).                                 *)
TypeOK ==
  /\ text \in Seq(Bytes) /\ size \in 0 .. Len(text) /\ size <= HTTP_MAX_REQUEST_LEN
  /\ body_start \in 0 .. size + 1
  /\ at \in {"receive", "closed", "method", "target", "uri", "version", "line_end", "header_line",
             "key", "value", "codings", "element", "done"}
  /\ stop \in 1 .. size + 1 /\ cur \in 1 .. size + 1 /\ eol \in 1 .. size + 1 /\ limit \in 1 .. size + 1
  /\ path \in Seq(Bytes) /\ Len(path) < HTTP_MAX_PATH_LEN
  /\ query \in Seq(Bytes) /\ Len(query) < HTTP_MAX_QUERY_LEN
  /\ into \in {"path", "query"}
  /\ key \in Seq(Bytes) /\ Len(key) < HTTP_MAX_HEADER_KEY_LEN
  /\ value \in Seq(Bytes) /\ Len(value) < HTTP_MAX_HEADER_VALUE_LEN
  /\ headers \in Seq([key : Seq(Bytes), value : Seq(Bytes)]) /\ Len(headers) <= HTTP_MAX_HEADERS
  /\ status \in Statuses \union {"none"}
  /\ field \in 1 .. Len(headers) + 1 /\ tcur \in Nat \ {0}
  /\ chunked_position \in -1 .. total_non_empty - 1 /\ total_non_empty \in Nat
  /\ has_unsupported \in BOOLEAN
  /\ body_coding \in {"TE_NONE", "TE_CHUNKED", "TE_UNSUPPORTED"} /\ te_status \in Statuses

(* request_parse, which sees everything received, stops exactly where      *)
(* conn_recv_header said that the body starts: no byte of the body is read *)
(* as a header, none of the head is left to be read as the body.           *)
ScansAgree == at \in {"codings", "element"} => cur = body_start

(* request_parse accepts exactly the well-formed heads that fit, whatever  *)
(* follows them in the buffer.                                             *)
OkIsWellFormed == (Parsing /\ status # "none") => (status = "PARSE_OK" <=> WellFormed)

(* What request_parse kept is what was sent: path and query put together   *)
(* are the target, and the headers are the header lines in their order,    *)
(* without the whitespace around a value (uri_parse, header_value_parse).  *)
RequestIsHead ==
  at \in {"codings", "element"} =>
    /\ \E b \in Places : RequestLine(b, {"V1"}) /\ path \o query = SubSeq(text, 3, b - 1)
    /\ Len(headers) = Cardinality(HeaderLines)
    /\ \A l \in HeaderLines :
          LET h == headers[Cardinality({m \in HeaderLines : m[1] <= l[1]})]
          IN  /\ h.key \o <<"COLON">> = SubSeq(text, l[1], l[1] + Len(h.key))
              /\ h.value = Trimmed(SubSeq(text, l[1] + Len(h.key) + 1, l[2] - 1))

(* A refusal names a limit only when that limit is exceeded, and a version *)
(* only when one was sent (the statuses of ParseResult.h, which become 414, *)
(* 431 and 505).                                                           *)
RefusalIsTrue ==
  /\ status = "PARSE_URI_TOO_LONG" =>
       \E b \in 4 .. body_start - 4 : /\ text[b] = "SP" /\ \A k \in 3 .. b - 1 : text[k] # "SP" /\ ~CrlfAt(k)
                                      /\ ~TargetFits(3, b)
  /\ status = "PARSE_HEADER_KEY_TOO_LONG" =>
       \E l \in HeaderLines : \E c \in l[1] + HTTP_MAX_HEADER_KEY_LEN .. l[2] - 1 :
          text[c] = "COLON" /\ \A k \in l[1] .. c - 1 : text[k] # "COLON"
  /\ status = "PARSE_HEADER_VALUE_TOO_LONG" =>
       \E l \in HeaderLines : \E c \in l[1] .. l[2] : text[c] = "COLON" /\ l[2] - c > HTTP_MAX_HEADER_VALUE_LEN
  /\ status = "PARSE_HEADER_TOO_LONG" =>
       IF body_start = 0 THEN size = HTTP_MAX_REQUEST_LEN ELSE Cardinality(HeaderLines) > HTTP_MAX_HEADERS
  /\ status = "PARSE_VERSION_NOT_SUPPORTED" => \E b \in Places : RequestLine(b, {"V2"})

(* transfer_encoding_parse says of a list what the comment above it says   *)
(* (HttpBody.c:249-260), in whichever order its checks meet the elements.  *)
CodingsAsDocumented ==
  (at \in {"codings", "done"} /\ field > 1 /\ field <= Len(headers) + 1 /\ headers[field - 1].key = <<"TE">>)
    => te_status = DocumentedVerdict(headers[field - 1].value)

(* A head that was received is answered or handed on: none of the loops    *)
(* over the request runs for ever (the while (1) of request_parse).        *)
ParseEnds == at = "method" ~> at = "done"
==============================================================================
