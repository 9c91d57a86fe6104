----------------------------- MODULE HttpHeadProofs -----------------------------
(***************************************************************************)
(* What request_parse makes of a head, for every text a client may send,   *)
(* every way the bytes arrive and every capacity: it accepts exactly the   *)
(* well-formed heads that fit, a refusal for a limit or the version is     *)
(* true, and an accepted request is what was sent.                         *)
(*                                                                         *)
(* HeadInv, beside the invariant of the cursors, says at every step what   *)
(* the passes so far have found out: of the request line as long as it is  *)
(* read (FirstLine), of it and of the header lines behind the cursor       *)
(* afterwards (TargetKept, LinesRead), and of the head once it is refused  *)
(* (Explained).  There is a lemma for each action, and for each refusal    *)
(* the fact that makes it true.                                            *)
(***************************************************************************)
EXTENDS HttpRequestProofs, WellFoundedInduction

-----------------------------------------------------------------------------
(* What the parser has found out about the head so far.  Ends of tokens    *)
(* are named by quantifiers here, not by CHOOSE as in the properties.      *)

Unbroken(p, e) == \A k \in p .. e - 1 : ~CrlfAt(k)

(* The bytes 3 .. n - 1 may stand in a target that goes on.                *)
Checked(n) ==
  \A i \in 3 .. n - 1 :
     /\ text[i] \in Vchar \ {"HASH"}
     /\ text[i] = "PCT" => i + 2 < n /\ {text[i + 1], text[i + 2]} \subseteq Hex

(* The first '?' of the target 3 .. b - 1 is at q, or there is none.       *)
QueryStart(q, b) == (q = b \/ text[q] = "QUEST") /\ \A k \in 3 .. q - 1 : text[k] # "QUEST"

(* path and query hold the bytes 3 .. n - 1.                               *)
PartsKept(n) ==
  IF into = "path"
  THEN path = SubSeq(text, 3, n - 1) /\ query = <<>> /\ \A k \in 3 .. n - 1 : text[k] # "QUEST"
  ELSE \E q \in 3 .. n - 1 : /\ text[q] = "QUEST" /\ \A k \in 3 .. q - 1 : text[k] # "QUEST"
                             /\ path = SubSeq(text, 3, q - 1) /\ query = SubSeq(text, q, n - 1)

FirstLine ==
  /\ at \in {"receive", "method", "target", "uri", "version"} => headers = <<>>
  /\ at \in {"method", "target", "uri", "version"} => Unbroken(1, eol)
  /\ at = "method" => cur = 1
  /\ at \in {"target", "uri", "version"} => text[1] = "GET" /\ text[2] = "SP"
  /\ at = "target" => cur = 3
  /\ at \in {"uri", "version"} => /\ 3 < limit /\ text[3] = "SLASH" /\ text[limit] = "SP"
                                  /\ \A k \in 3 .. limit - 1 : text[k] # "SP"
  /\ at = "uri" => 3 <= cur /\ Checked(cur) /\ PartsKept(cur)
  /\ at = "version" => cur = limit + 1 /\ Checked(limit) /\ PartsKept(limit)

Past == at \in {"line_end", "header_line", "key", "value", "codings", "element"} \/ status = "PARSE_OK"

TargetKept == \E b \in Places : RequestLine(b, {"V1"}) /\ TargetWellFormed(3, b) /\ PartsKept(b)

(* The header lines that end before p, and the number of a line.           *)
Before(p) == {l \in HeaderLines : l[2] < p}
Rank(l) == Cardinality({m \in HeaderLines : m[1] <= l[1]})

(* The value of a line that ends at e, behind the colon at c, is f .. g - 1. *)
ValueCut(c, f, g, e) ==
  /\ \A k \in c + 1 .. f - 1 : text[k] \in Ows
  /\ \A k \in g .. e - 1 : text[k] \in Ows
  /\ f < g => text[f] \notin Ows /\ text[g - 1] \notin Ows

KeyRead(k, p, n) == k = SubSeq(text, p, n - 1) /\ \A i \in p .. n - 1 : text[i] \in Tchar

ValueRead(v, f, n) == v = SubSeq(text, f, n - 1) /\ \A i \in f .. n - 1 : text[i] \in FieldContent

LineKept(h, l) ==
  \E c \in l[1] + 1 .. l[2] - 1 : \E f \in c + 1 .. l[2] : \E g \in f .. l[2] :
     /\ text[c] = "COLON" /\ KeyRead(h.key, l[1], c) /\ ValueRead(h.value, f, g) /\ ValueCut(c, f, g, l[2])
     /\ c - l[1] < HTTP_MAX_HEADER_KEY_LEN /\ l[2] - c - 1 < HTTP_MAX_HEADER_VALUE_LEN

LinesKept(lines) ==
  /\ Cardinality(lines) = Len(headers)
  /\ \A l \in lines : Rank(l) \in 1 .. Len(headers) /\ \E h \in {headers[Rank(l)]} : LineKept(h, l)

StartsAt(p) == 2 < p /\ CrlfAt(p - 2) /\ LinesKept(Before(p))

InKey(p) ==
  /\ p <= cur /\ p < limit /\ Unbroken(p, eol) /\ KeyRead(key, p, cur)
  /\ text[limit] = "COLON" /\ \A k \in p .. limit - 1 : text[k] # "COLON"

InValue(p, c, f) ==
  /\ p < c /\ c < f /\ f <= cur /\ Unbroken(p, eol) /\ text[c] = "COLON"
  /\ KeyRead(key, p, c) /\ ValueRead(value, f, cur) /\ ValueCut(c, f, limit, eol)
  /\ eol - c - 1 < HTTP_MAX_HEADER_VALUE_LEN

LinesRead ==
  /\ at = "line_end" => StartsAt(cur + 2)
  /\ at = "header_line" => StartsAt(cur)
  /\ at = "key" => \E p \in 3 .. cur : StartsAt(p) /\ InKey(p)
  /\ at = "value" => \E p, c, f \in 3 .. cur : StartsAt(p) /\ InValue(p, c, f)
  /\ at \in {"codings", "element"} \/ status = "PARSE_OK" => LinesKept(HeaderLines)

StatusSet ==
  /\ at \in {"receive", "closed", "method", "target", "uri", "version", "line_end", "header_line",
             "key", "value"} => status = "none"
  /\ at \in {"codings", "element"} => status = "PARSE_OK"
  /\ at = "done" => status # "none"

(* What a refusal says of the head.                                        *)
UriLong ==
  \E b \in 4 .. Term : /\ text[b] = "SP" /\ \A k \in 3 .. b - 1 : text[k] # "SP" /\ ~CrlfAt(k)
                       /\ \E q \in 3 .. b : /\ QueryStart(q, b)
                                            /\ q - 3 >= HTTP_MAX_PATH_LEN \/ b - q >= HTTP_MAX_QUERY_LEN

KeyLong ==
  \E l \in HeaderLines : \E c \in l[1] + HTTP_MAX_HEADER_KEY_LEN .. l[2] - 1 :
     text[c] = "COLON" /\ \A k \in l[1] .. c - 1 : text[k] # "COLON"

ValueLong ==
  \E l \in HeaderLines : \E c \in l[1] .. l[2] : text[c] = "COLON" /\ l[2] - c > HTTP_MAX_HEADER_VALUE_LEN

HeadLong ==
  IF body_start = 0 THEN size = HTTP_MAX_REQUEST_LEN ELSE Cardinality(HeaderLines) > HTTP_MAX_HEADERS

OtherVersion == \E b \in Places : RequestLine(b, {"V2"})

Malformed ==
  /\ body_start > 0
  /\ \/ \A b \in Places : ~(RequestLine(b, {"V1"}) /\ TargetWellFormed(3, b))
     \/ \E l \in HeaderLines : ~HeaderWellFormed(l)

Explained ==
  /\ status # "PARSE_NOT_IMPLEMENTED"
  /\ status = "PARSE_BAD_REQUEST" => Malformed
  /\ status = "PARSE_URI_TOO_LONG" => UriLong
  /\ status = "PARSE_HEADER_KEY_TOO_LONG" => KeyLong
  /\ status = "PARSE_HEADER_VALUE_TOO_LONG" => ValueLong
  /\ status = "PARSE_HEADER_TOO_LONG" => HeadLong
  /\ status = "PARSE_VERSION_NOT_SUPPORTED" => OtherVersion

HeadInv == FirstLine /\ (Past => TargetKept) /\ LinesRead /\ StatusSet /\ Explained

-----------------------------------------------------------------------------
(* Sequences *)

LEMMA Extend ==
  ASSUME NEW R, NEW s \in Seq(R), NEW p \in Int, NEW n \in Int, 1 <= p, p <= n, n <= Len(s)
  PROVE  Append(SubSeq(s, p, n - 1), s[n]) = SubSeq(s, p, n) /\ SubSeq(s, p, n - 1) \o <<s[n]>> = SubSeq(s, p, n)
<1>1. p \in 1 .. Len(s) /\ n \in p .. Len(s) /\ s[n] \in R /\ SubSeq(s, p, n - 1) \in Seq(R)
  OBVIOUS
<1>2. SubSeq(s, p, n - 1) \o <<s[n]>> = SubSeq(s, p, n)
  BY <1>1, SubSeqRecursiveSecond
<1>3. Append(SubSeq(s, p, n - 1), s[n]) = SubSeq(s, p, n - 1) \o <<s[n]>>
  BY <1>1, AppendIsConcat
<1> QED  BY <1>2, <1>3

LEMMA Few ==
  ASSUME NEW R, NEW s \in Seq(R), NEW n \in Int, 1 <= n
  PROVE  /\ n <= Len(s) => SubSeq(s, n, (n + 1) - 1) = <<s[n]>>
         /\ n + 2 <= Len(s) => SubSeq(s, n, (n + 3) - 1) = <<s[n], s[n + 1], s[n + 2]>>
<1>1. ASSUME n <= Len(s) PROVE SubSeq(s, n, (n + 1) - 1) = <<s[n]>>
  <2>1. (n + 1) - 1 = n
    OBVIOUS
  <2>2. n \in 1 .. Len(s) /\ n \in n .. Len(s) /\ <<s[n]>> \in Seq(R)
    BY <1>1
  <2>3. SubSeq(s, n, n) = SubSeq(s, n, n - 1) \o <<s[n]>>
    BY <2>2, SubSeqRecursiveSecond
  <2>4. SubSeq(s, n, n - 1) = <<>>
    BY SubSeqEmpty
  <2> QED  BY <2>1, <2>2, <2>3, <2>4, ConcatEmptySeq
<1>2. ASSUME n + 2 <= Len(s) PROVE SubSeq(s, n, (n + 3) - 1) = <<s[n], s[n + 1], s[n + 2]>>
  <2> DEFINE m == n + 3
             t == <<s[n], s[n + 1], s[n + 2]>>
  <2>1. m \in Int /\ m <= Len(s) + 1 /\ n + 2 < m /\ m - 3 = n /\ m - 2 = n + 1 /\ m - 1 = n + 2 /\ m - 4 = n - 1
    BY <1>2
  <2>2. t \in Seq(R)
    <3>1. s[n] \in R /\ s[n + 1] \in R /\ s[n + 2] \in R
      BY <1>2
    <3> QED  BY <3>1
  <2>3. SubSeq(s, n, n - 1) = <<>>
    BY SubSeqEmpty
  <2>4. SubSeq(s, n, m - 4) \o <<s[m - 3], s[m - 2], s[m - 1]>> = SubSeq(s, n, m - 1)
    <3> HIDE DEF m, t
    <3> QED  BY <2>1, Slice
  <2>5. <<>> \o t = SubSeq(s, n, m - 1)
    BY <2>1, <2>3, <2>4
  <2> HIDE DEF t
  <2> QED  BY <2>2, <2>5, ConcatEmptySeq DEF t
<1> QED  BY <1>1, <1>2

(* A non-empty set of integers between two bounds has a least element. *)
LEMMA LeastOf ==
  ASSUME NEW a \in Int, NEW b \in Int, NEW K, K \subseteq a .. b, K # {}
  PROVE  \E k \in K : \A j \in K : k <= j
<1> DEFINE S == a .. b
           T == {a .. k : k \in K}
           R == StrictSubsetOrdering(S)
<1>1. IsFiniteSet(S)
  BY FS_Interval
<1>2. IsWellFoundedOn(R, SUBSET S)
  <2>1. FiniteSubsetsOf(S) = SUBSET S
    BY <1>1, FS_FiniteSubsetsOfFinite
  <2>2. IsWellFoundedOn(R, FiniteSubsetsOf(S))
    BY FS_StrictSubsetOrderingWellFounded
  <2> QED  BY <2>1, <2>2
<1>3. T \subseteq SUBSET S /\ T # {}
  <2>1. \A k \in K : a .. k \in SUBSET S
    OBVIOUS
  <2>2. PICK k \in K : TRUE
    OBVIOUS
  <2>3. a .. k \in T
    BY <2>2
  <2> QED  BY <2>1, <2>3, Zenon
<1>4. PICK x \in T : \A y \in T : <<y, x>> \notin R
  <2> HIDE DEF T, R, S
  <2> QED  BY <1>2, <1>3, WFMin
<1>5. PICK k \in K : x = a .. k
  BY <1>4
<1>6. ASSUME NEW j \in K, j < k PROVE FALSE
  <2>1. a .. j \in T /\ a .. j \subseteq a .. k /\ k \notin a .. j /\ k \in a .. k
    BY <1>6
  <2>2. a .. j \in SUBSET S /\ a .. k \in SUBSET S
    BY <1>6
  <2>3. <<a .. j, a .. k>> \in R
    BY <2>1, <2>2 DEF StrictSubsetOrdering
  <2> QED  BY <1>4, <1>5, <2>1, <2>3
<1> QED
  <2>1. \A j \in K : j \in Int /\ k \in Int
    OBVIOUS
  <2> QED  BY <1>6, <2>1

-----------------------------------------------------------------------------
(* Lines *)

LEMMA NotAdjacent ==
  \A i : CrlfAt(i) => ~CrlfAt(i + 1)
BY DEF CrlfAt

(* A line has one end. *)
LEMMA SameEnd ==
  ASSUME NEW p \in Int, NEW e \in Int, NEW f \in Int, p <= e, p <= f,
         Unbroken(p, e), CrlfAt(e), Unbroken(p, f), CrlfAt(f)
  PROVE  e = f
BY DEF Unbroken

LEMMA LinesFinite ==
  ASSUME Term \in Int
  PROVE  IsFiniteSet(HeaderLines) /\ \A S \in SUBSET HeaderLines : IsFiniteSet(S)
<1> DEFINE T == 1 .. Term
<1>0. IsFiniteSet(T)
  BY FS_Interval
<1> HIDE DEF T
<1>1. IsFiniteSet(T \X T)
  BY <1>0, FS_Product
<1>2. HeaderLines \subseteq T \X T
  BY DEF HeaderLines, Places, Term, T
<1>3. IsFiniteSet(HeaderLines)
  BY <1>1, <1>2, FS_Subset
<1> QED  BY <1>3, FS_Subset

LEMMA LineFacts ==
  ASSUME Term \in Int, NEW m \in HeaderLines
  PROVE  /\ m = <<m[1], m[2]>> /\ m[1] \in Int /\ m[2] \in Int /\ 2 < m[1] /\ m[1] < m[2] /\ m[2] <= Term
         /\ CrlfAt(m[1] - 2) /\ CrlfAt(m[2]) /\ Unbroken(m[1], m[2])
BY DEF HeaderLines, Places, Term, IsLine, Unbroken

(* The line p .. e - 1 comes right behind the lines before p. *)
LEMMA LineAdded ==
  ASSUME Term \in Int, NEW p \in Int, NEW e \in Int, 2 < p, p < e, e <= Term,
         CrlfAt(p - 2), CrlfAt(e), Unbroken(p, e)
  PROVE  /\ <<p, e>> \in HeaderLines /\ <<p, e>> \notin Before(p)
         /\ Before(e + 2) = Before(p) \union {<<p, e>>}
         /\ {m \in HeaderLines : m[1] <= p} = Before(p) \union {<<p, e>>}
<1>1. <<p, e>> \in HeaderLines
  BY DEF HeaderLines, Places, Term, IsLine, Unbroken
<1>2. <<p, e>> \notin Before(p)
  BY DEF Before
<1>3. ASSUME NEW m \in HeaderLines
      PROVE  /\ m[2] < p => m[1] <= p /\ m[2] < e + 2
             /\ m[1] <= p \/ m[2] < e + 2 => m[2] < p \/ m = <<p, e>>
  <2>1. /\ m = <<m[1], m[2]>> /\ m[1] \in Int /\ m[2] \in Int /\ 2 < m[1] /\ m[1] < m[2] /\ m[2] <= Term
        /\ CrlfAt(m[1] - 2) /\ CrlfAt(m[2]) /\ Unbroken(m[1], m[2])
    BY <1>3, LineFacts
  <2>2. CASE m[1] = p
    BY <2>1, <2>2, SameEnd
  <2>3. CASE m[1] < p
    <3>1. m[1] - 1 # p - 2
      BY <2>1, NotAdjacent
    <3>2. ~(m[1] <= p - 2 /\ p - 2 < m[2])
      BY <2>1 DEF Unbroken
    <3> QED  BY <2>1, <2>3, <3>1, <3>2
  <2>4. CASE m[1] > p
    <3>1. m[2] # e + 1
      BY <2>1, NotAdjacent
    <3>2. m[1] - 2 # p - 1
      <4>1. (p - 2) + 1 = p - 1
        OBVIOUS
      <4> QED  BY <2>1, <4>1, NotAdjacent
    <3>3. ~(p <= m[1] - 2 /\ m[1] - 2 < e)
      BY <2>1 DEF Unbroken
    <3> QED  BY <2>1, <2>4, <3>1, <3>2, <3>3
  <2> QED  BY <2>1, <2>2, <2>3, <2>4
<1>4. Before(e + 2) = Before(p) \union {<<p, e>>}
  BY <1>1, <1>3 DEF Before
<1>5. {m \in HeaderLines : m[1] <= p} = Before(p) \union {<<p, e>>}
  BY <1>1, <1>3 DEF Before
<1> QED  BY <1>1, <1>2, <1>4, <1>5

(* Nothing is before the line behind the first one, and everything before  *)
(* the empty line.                                                         *)
LEMMA NothingBefore ==
  ASSUME Term \in Int, NEW e \in Int, 1 <= e, Unbroken(1, e), CrlfAt(e)
  PROVE  Before(e + 2) = {}
<1>1. ASSUME NEW m \in HeaderLines, m[2] < e + 2 PROVE FALSE
  <2>1. m[1] \in Int /\ m[2] \in Int /\ 2 < m[1] /\ m[1] < m[2] /\ CrlfAt(m[1] - 2)
    BY <1>1, LineFacts
  <2> QED  BY <1>1, <2>1 DEF Unbroken
<1> QED  BY <1>1 DEF Before

LEMMA AllBefore ==
  ASSUME Term \in Int
  PROVE  Before(Term + 2) = HeaderLines
<1>1. ASSUME NEW m \in HeaderLines PROVE m[2] < Term + 2
  BY <1>1, LineFacts
<1> QED  BY <1>1 DEF Before

-----------------------------------------------------------------------------
(* Nothing said of the head changes once it has been found. *)

LEMMA LinesStay ==
  ASSUME UNCHANGED <<text, body_start>>
  PROVE  /\ Term' = Term /\ Places' = Places /\ HeaderLines' = HeaderLines
         /\ \A b \in Places : \A v : RequestLine(b, v)' <=> RequestLine(b, v)
         /\ \A b \in Places : TargetWellFormed(3, b)' <=> TargetWellFormed(3, b)
         /\ \A l : HeaderWellFormed(l)' <=> HeaderWellFormed(l)
         /\ \A l : Rank(l)' = Rank(l)
<1>1. Term' = Term /\ Places' = Places
  BY DEF Term, Places
<1>2. HeaderLines' = HeaderLines
  BY <1>1 DEF HeaderLines, IsLine, CrlfAt
<1>3. \A b \in Places : \A v : RequestLine(b, v)' <=> RequestLine(b, v)
  BY <1>1 DEF RequestLine, IsLine, CrlfAt
<1>4. \A b \in Places : TargetWellFormed(3, b)' <=> TargetWellFormed(3, b)
  BY <1>1 DEF TargetWellFormed
<1>5. \A l : HeaderWellFormed(l)' <=> HeaderWellFormed(l)
  BY DEF HeaderWellFormed
<1>6. \A l : Rank(l)' = Rank(l)
  BY <1>2 DEF Rank
<1> QED  BY <1>1, <1>2, <1>3, <1>4, <1>5, <1>6

LEMMA ReasonsStay ==
  ASSUME UNCHANGED <<text, size, body_start>>
  PROVE  /\ UriLong => UriLong'
         /\ KeyLong => KeyLong'
         /\ ValueLong => ValueLong'
         /\ HeadLong => HeadLong'
         /\ OtherVersion => OtherVersion'
         /\ Malformed => Malformed'
<1>1. UriLong => UriLong'
  BY LinesStay DEF UriLong, QueryStart, CrlfAt
<1>2. KeyLong => KeyLong'
  BY LinesStay DEF KeyLong
<1>3. ValueLong => ValueLong'
  BY LinesStay DEF ValueLong
<1>4. HeadLong => HeadLong'
  BY LinesStay DEF HeadLong
<1>5. OtherVersion => OtherVersion'
  BY LinesStay DEF OtherVersion
<1>6. Malformed => Malformed'
  BY LinesStay DEF Malformed
<1> QED  BY <1>1, <1>2, <1>3, <1>4, <1>5, <1>6

LEMMA LineKeptStays ==
  ASSUME UNCHANGED text, NEW h, NEW l
  PROVE  LineKept(h, l)' <=> LineKept(h, l)
BY DEF LineKept, KeyRead, ValueRead, ValueCut

LEMMA KeptStays ==
  ASSUME UNCHANGED <<text, body_start>>
  PROVE  /\ UNCHANGED <<path, query, into>> /\ TargetKept => TargetKept'
         /\ UNCHANGED headers /\ LinesKept(HeaderLines) => LinesKept(HeaderLines)'
         /\ UNCHANGED headers => \A p \in Int : StartsAt(p) => StartsAt(p)'
<1>1. UNCHANGED <<path, query, into>> /\ TargetKept => TargetKept'
  BY LinesStay DEF TargetKept, PartsKept
<1>2. ASSUME UNCHANGED headers, NEW lines \in SUBSET HeaderLines
      PROVE  LinesKept(lines) <=> LinesKept(lines)'
  BY <1>2, LinesStay, LineKeptStays DEF LinesKept
<1>3. UNCHANGED headers /\ LinesKept(HeaderLines) => LinesKept(HeaderLines)'
  BY LinesStay, LineKeptStays DEF LinesKept
<1>4. ASSUME UNCHANGED headers, NEW p \in Int, StartsAt(p) PROVE StartsAt(p)'
  <2>1. Before(p)' = Before(p)
    BY LinesStay DEF Before
  <2>2. CrlfAt(p - 2)'
    BY <1>4 DEF StartsAt, CrlfAt
  <2>3. LinesKept(Before(p))'
    BY <1>4, <2>1, LinesStay, LineKeptStays DEF LinesKept, StartsAt
  <2> QED  BY <1>4, <2>2, <2>3 DEF StartsAt
<1> QED  BY <1>1, <1>3, <1>4

(* An early return keeps what was found out if its reason is true. *)
LEMMA FailExplained ==
  ASSUME HeadInv, NEW why \in Statuses, Fail(why),
         why \notin {"PARSE_OK", "PARSE_NOT_IMPLEMENTED"},
         why = "PARSE_BAD_REQUEST" => Malformed,
         why = "PARSE_URI_TOO_LONG" => UriLong,
         why = "PARSE_HEADER_KEY_TOO_LONG" => KeyLong,
         why = "PARSE_HEADER_VALUE_TOO_LONG" => ValueLong,
         why = "PARSE_HEADER_TOO_LONG" => HeadLong,
         why = "PARSE_VERSION_NOT_SUPPORTED" => OtherVersion
  PROVE  HeadInv'
<1>1. at' = "done" /\ status' = why /\ UNCHANGED <<text, size, body_start>>
  BY DEF Fail, recvVars
<1>2. Explained'
  BY <1>1, ReasonsStay DEF Explained
<1>3. FirstLine' /\ (Past => TargetKept)' /\ LinesRead' /\ StatusSet'
  BY <1>1 DEF FirstLine, Past, LinesRead, StatusSet, Statuses
<1> QED  BY <1>2, <1>3 DEF HeadInv

-----------------------------------------------------------------------------
(* One lemma per action.  The invariant of the cursors is at hand before   *)
(* and after the step.                                                     *)

LEMMA Types ==
  ASSUME IInv
  PROVE  /\ text \in Seq(Bytes) /\ Len(text) \in Nat /\ size \in Nat /\ size <= Len(text)
         /\ cur \in Int /\ 1 <= cur /\ eol \in Int /\ limit \in Int /\ stop \in Int /\ body_start \in Int /\ Term \in Int
         /\ headers \in Seq([key : Seq(Bytes), value : Seq(Bytes)]) /\ Len(headers) \in Nat
         /\ at \notin {"receive", "closed", "done"} =>
               /\ body_start > 0 /\ 1 <= Term /\ Term + 3 <= size /\ CrlfAt(Term) /\ CrlfAt(Term + 2) /\ Term + 4 <= stop
BY DEF IInv, TypeOK, Apart, HeadFound, Term

LEMMA RecvHead ==
  ASSUME HeadInv, RecvBytes \/ RecvEnds
  PROVE  HeadInv'
BY DEF HeadInv, FirstLine, Past, LinesRead, StatusSet, Explained, RecvBytes, RecvEnds, teVars

LEMMA TooLargeHead ==
  ASSUME IInv, HeadInv, TooLarge
  PROVE  HeadInv'
<1>1. HeadLong
  BY CapsAssumption DEF HeadLong, TooLarge, IInv, TypeOK, Apart
<1> QED  BY <1>1, FailExplained DEF TooLarge, Statuses

LEMMA HeadReceivedHead ==
  ASSUME IInv, IInv', HeadInv, HeadReceived
  PROVE  HeadInv'
<1>1. /\ at = "receive" /\ at' = "method" /\ cur' = 1 /\ status' = status /\ headers' = headers /\ text' = text
      /\ eol' \in crlf_find(1, stop')
  BY DEF HeadReceived
<1>2. eol' \in Int /\ eol' <= Term' /\ Term' \in Int /\ Term' + 4 <= stop' /\ stop' \in Int
  <2>1. body_start' > 0 /\ body_start' <= stop' /\ eol' <= Term' /\ stop' \in Int /\ eol' \in Int /\ body_start' \in Int
    BY <1>1 DEF IInv, TypeOK, InLine, Apart, HeadFound
  <2>2. Term' = body_start' - 4
    BY DEF Term
  <2>3. \A t, b, s \in Int : t = b - 4 /\ b <= s => t + 4 <= s
    OBVIOUS
  <2>4. Term' \in Int
    BY <2>1, <2>2
  <2> QED  BY <2>1, <2>2, <2>3, <2>4
<1>3. Unbroken(1, eol)'
  <2>1. \A k \in 1 .. eol' - 1 : ~(k + 1 < stop' /\ CrlfAt(k))
    BY <1>1 DEF crlf_find
  <2>2. \A k \in 1 .. eol' - 1 : k + 1 < stop'
    <3>1. \A e, t, s \in Int : e <= t /\ t + 4 <= s => \A k \in 1 .. e - 1 : k + 1 < s
      OBVIOUS
    <3> QED  BY <1>2, <3>1
  <2>3. \A k \in 1 .. eol' - 1 : ~CrlfAt(k)
    BY <2>1, <2>2
  <2> QED  BY <1>1, <2>3 DEF Unbroken, CrlfAt
<1> QED
  BY <1>1, <1>3 DEF HeadInv, FirstLine, Past, LinesRead, StatusSet, Explained

(* No request line: whatever the first line is, it is not well formed.     *)
LEMMA BadFirstLine ==
  ASSUME IInv, at \in {"method", "target", "uri", "version"}, Unbroken(1, eol),
         \A b \in Int : eol = b + 2 /\ RequestLine(b, {"V1"}) => ~TargetWellFormed(3, b)
  PROVE  Malformed
<1>1. /\ eol \in Int /\ 1 <= eol /\ CrlfAt(eol) /\ body_start > 0
  BY Types DEF IInv, InLine, Apart
<1>2. ASSUME NEW b \in Places, RequestLine(b, {"V1"}), TargetWellFormed(3, b) PROVE FALSE
  <2>1. b + 2 \in Int /\ 1 <= b + 2 /\ CrlfAt(b + 2) /\ Unbroken(1, b + 2) /\ b \in Int
    BY <1>2 DEF RequestLine, IsLine, Unbroken, Places
  <2>2. eol = b + 2
    BY <1>1, <2>1, SameEnd
  <2> QED  BY <1>2, <2>1, <2>2
<1> QED  BY <1>1, <1>2 DEF Malformed

LEMMA MethodHead ==
  ASSUME IInv, IInv', HeadInv, method_parse
  PROVE  HeadInv'
<1>0. at = "method" /\ cur = 1 /\ Unbroken(1, eol) /\ status = "none" /\ headers = <<>>
  BY DEF method_parse, HeadInv, FirstLine, StatusSet
<1>1. PICK sp \in byte_find(text, "SP", cur, eol) :
        IF sp = cur + 1 /\ sp < eol /\ text[cur] = "GET"
        THEN /\ at' = "target" /\ cur' = sp + 1
             /\ UNCHANGED <<recvVars, stop, eol, limit, lineVars, fieldVars, headers, status, teVars>>
        ELSE Fail("PARSE_BAD_REQUEST")
  BY DEF method_parse
<1>2. sp \in cur .. eol /\ (sp = eol \/ text[sp] = "SP") /\ \A k \in cur .. sp - 1 : text[k] # "SP"
  BY DEF byte_find
<1>3. CASE sp = cur + 1 /\ sp < eol /\ text[cur] = "GET"
  <2>1. /\ at' = "target" /\ cur' = 3 /\ UNCHANGED <<text, eol, headers, status>>
        /\ text[1] = "GET" /\ text[2] = "SP"
    BY <1>0, <1>1, <1>2, <1>3 DEF recvVars
  <2>2. Unbroken(1, eol)'
    BY <1>0, <2>1 DEF Unbroken, CrlfAt
  <2> QED
    BY <1>0, <2>1, <2>2 DEF HeadInv, FirstLine, Past, LinesRead, StatusSet, Explained
<1>4. CASE ~(sp = cur + 1 /\ sp < eol /\ text[cur] = "GET")
  <2>1. ASSUME NEW b \in Int, eol = b + 2, RequestLine(b, {"V1"}) PROVE FALSE
    <3>1. b > 3 /\ text[1] = "GET" /\ text[2] = "SP"
      BY <2>1 DEF RequestLine
    <3> QED  BY <1>0, <1>2, <1>4, <2>1, <3>1
  <2> QED  BY <1>0, <1>1, <1>4, <2>1, BadFirstLine, FailExplained DEF Statuses
<1> QED  BY <1>3, <1>4

LEMMA UriStartHead ==
  ASSUME IInv, IInv', HeadInv, uri_start
  PROVE  HeadInv'
<1>0. /\ at = "target" /\ cur = 3 /\ Unbroken(1, eol) /\ status = "none" /\ headers = <<>>
      /\ text[1] = "GET" /\ text[2] = "SP"
  BY DEF uri_start, HeadInv, FirstLine, StatusSet
<1>1. PICK sp \in byte_find(text, "SP", cur, eol) :
        IF cur < eol /\ sp < eol /\ text[cur] = "SLASH"
        THEN /\ at' = "uri" /\ limit' = sp /\ path' = <<>> /\ query' = <<>> /\ into' = "path"
             /\ UNCHANGED <<recvVars, stop, cur, eol, fieldVars, headers, status, teVars>>
        ELSE Fail("PARSE_BAD_REQUEST")
  BY DEF uri_start
<1>2. sp \in cur .. eol /\ (sp = eol \/ text[sp] = "SP") /\ \A k \in cur .. sp - 1 : text[k] # "SP"
  BY DEF byte_find
<1>3. CASE cur < eol /\ sp < eol /\ text[cur] = "SLASH"
  <2>1. /\ at' = "uri" /\ cur' = 3 /\ limit' = sp /\ path' = <<>> /\ query' = <<>> /\ into' = "path"
        /\ UNCHANGED <<text, eol, headers, status>>
        /\ text[sp] = "SP" /\ 3 < sp /\ text[3] = "SLASH"
    BY <1>0, <1>1, <1>2, <1>3 DEF recvVars
  <2>2. Unbroken(1, eol)'
    BY <1>0, <2>1 DEF Unbroken, CrlfAt
  <2>3. Checked(cur)' /\ PartsKept(cur)'
    <3>1. SubSeq(text, 3, 2) = <<>>
      BY Types, SubSeqEmpty
    <3> QED  BY <2>1, <3>1 DEF Checked, PartsKept
  <2> QED
    BY <1>0, <1>2, <2>1, <2>2, <2>3 DEF HeadInv, FirstLine, Past, LinesRead, StatusSet, Explained
<1>4. CASE ~(cur < eol /\ sp < eol /\ text[cur] = "SLASH")
  <2>1. ASSUME NEW b \in Int, eol = b + 2, RequestLine(b, {"V1"}), TargetWellFormed(3, b) PROVE FALSE
    <3>1. b > 3 /\ text[b] = "SP" /\ text[3] = "SLASH"
      BY <2>1 DEF RequestLine, TargetWellFormed
    <3> QED  BY <1>0, <1>2, <1>4, <2>1, <3>1
  <2> QED  BY <1>0, <1>1, <1>4, <2>1, BadFirstLine, FailExplained DEF Statuses
<1> QED  BY <1>3, <1>4

(* The target *)

(* The byte after a well-formed target is the first space behind it.       *)
LEMMA SpaceEnds ==
  ASSUME NEW b \in Int, NEW n \in Int, 3 < n, text[n] = "SP", \A k \in 3 .. n - 1 : text[k] # "SP",
         RequestLine(b, {"V1"}), TargetWellFormed(3, b)
  PROVE  b = n
<1>1. b > 3 /\ text[b] = "SP"
  BY DEF RequestLine
<1>2. \A i \in 3 .. b - 1 : text[i] # "SP"
  BY DEF TargetWellFormed, Vchar, Tchar
<1> QED  BY <1>1, <1>2

LEMMA QueryExists ==
  ASSUME NEW b \in Int, 3 <= b
  PROVE  \E q \in 3 .. b : QueryStart(q, b)
<1> DEFINE K == {q \in 3 .. b : q = b \/ text[q] = "QUEST"}
<1>1. K \subseteq 3 .. b /\ K # {} /\ 3 \in Int
  <2>1. b \in K
    OBVIOUS
  <2> QED  BY <2>1
<1>2. PICK q \in K : \A j \in K : q <= j
  <2> HIDE DEF K
  <2> QED  BY <1>1, LeastOf
<1>3. \A k \in 3 .. q - 1 : text[k] # "QUEST"
  <2> SUFFICES ASSUME NEW k \in 3 .. q - 1, text[k] = "QUEST" PROVE FALSE
    OBVIOUS
  <2>1. q \in 3 .. b
    OBVIOUS
  <2>2. k \in K /\ k < q
    BY <2>1
  <2> QED  BY <1>2, <2>1, <2>2
<1> QED  BY <1>2, <1>3 DEF QueryStart

(* What Store adds to what has been kept of the bytes before the cursor.   *)
LEMMA PartGrows ==
  ASSUME IInv, NEW m \in Int, 3 <= cur, cur < m, m <= Len(text) + 1, PartsKept(cur),
         Store(SubSeq(text, cur, m - 1)), UNCHANGED <<text, into>>,
         into = "path" => \A k \in cur .. m - 1 : text[k] # "QUEST"
  PROVE  PartsKept(m)'
<1> DEFINE s == SubSeq(text, cur, m - 1)
<1>0. text \in Seq(Bytes) /\ cur \in Int /\ Len(text) \in Nat
  BY Types
<1>1. \A p \in 1 .. cur : SubSeq(text, p, cur - 1) \o s = SubSeq(text, p, m - 1)
  <2> TAKE p \in 1 .. cur
  <2>1. p \in 1 .. Len(text) + 1 /\ cur - 1 \in p - 1 .. Len(text) /\ m - 1 \in cur - 1 .. Len(text)
    BY <1>0
  <2>2. SubSeq(text, p, cur - 1) \o SubSeq(text, (cur - 1) + 1, m - 1) = SubSeq(text, p, m - 1)
    BY <1>0, <2>1, ConcatAdjacentSubSeq
  <2>3. (cur - 1) + 1 = cur
    BY <1>0
  <2> QED  BY <2>2, <2>3
<1>2. Store(s)
  OBVIOUS
<1> HIDE DEF s
<1>3. CASE into = "path"
  <2>1. path' = path \o s /\ query' = query /\ into' = "path" /\ text' = text
    BY <1>2, <1>3 DEF Store
  <2>2. path = SubSeq(text, 3, cur - 1) /\ query = <<>> /\ \A k \in 3 .. cur - 1 : text[k] # "QUEST"
    BY <1>3 DEF PartsKept
  <2>3. path' = SubSeq(text, 3, m - 1)
    BY <1>0, <1>1, <2>1, <2>2
  <2>4. \A k \in 3 .. m - 1 : text[k] # "QUEST"
    BY <1>0, <1>3, <2>2
  <2> QED  BY <2>1, <2>2, <2>3, <2>4 DEF PartsKept
<1>4. CASE into # "path"
  <2>1. path' = path /\ query' = query \o s /\ into' # "path" /\ text' = text
    BY <1>2, <1>4 DEF Store
  <2>2. PICK q \in 3 .. cur - 1 : /\ text[q] = "QUEST" /\ \A k \in 3 .. q - 1 : text[k] # "QUEST"
                                  /\ path = SubSeq(text, 3, q - 1) /\ query = SubSeq(text, q, cur - 1)
    BY <1>4 DEF PartsKept
  <2>3. query' = SubSeq(text, q, m - 1) /\ q \in 3 .. m - 1
    BY <1>0, <1>1, <2>1, <2>2
  <2> QED  BY <2>1, <2>2, <2>3 DEF PartsKept
<1> QED  BY <1>3, <1>4

(* What is known while the target is read. *)
LEMMA UriFacts ==
  ASSUME IInv, HeadInv, at = "uri"
  PROVE  /\ 3 <= cur /\ cur <= limit /\ 3 < limit /\ limit < eol /\ eol <= Term /\ Term + 3 <= size /\ size <= Len(text)
         /\ cur \in Int /\ limit \in Int /\ eol \in Int /\ Term \in Int /\ text \in Seq(Bytes) /\ Len(text) \in Nat
         /\ text[1] = "GET" /\ text[2] = "SP" /\ text[3] = "SLASH" /\ text[limit] = "SP"
         /\ \A k \in 3 .. limit - 1 : text[k] # "SP"
         /\ Unbroken(1, eol) /\ Checked(cur) /\ PartsKept(cur) /\ status = "none" /\ headers = <<>>
BY Types DEF IInv, InLine, InToken, HeadInv, FirstLine, StatusSet

(* A byte that may not stand there, or an escape that is none. *)
LEMMA BadTarget ==
  ASSUME IInv, HeadInv, at = "uri", cur < limit,
         \/ text[cur] \notin Vchar \ {"HASH"}
         \/ text[cur] = "PCT" /\ ~(cur + 2 < limit /\ {text[cur + 1], text[cur + 2]} \subseteq Hex)
  PROVE  Malformed
<1>1. ASSUME NEW b \in Int, eol = b + 2, RequestLine(b, {"V1"}), TargetWellFormed(3, b) PROVE FALSE
  <2>1. b = limit
    BY <1>1, UriFacts, SpaceEnds
  <2>2. cur \in 3 .. b - 1
    BY <2>1, UriFacts
  <2> QED  BY <1>1, <2>1, <2>2 DEF TargetWellFormed
<1> QED  BY <1>1, UriFacts, BadFirstLine

(* A target with one more byte than its array holds. *)
LEMMA LongTarget ==
  ASSUME IInv, HeadInv, at = "uri", NEW n \in {1, 3}, cur + n <= limit, Full(n),
         into = "path" => \A k \in cur .. cur + n - 1 : text[k] # "QUEST"
  PROVE  UriLong
<1>0. /\ 3 <= cur /\ 3 < limit /\ limit < eol /\ eol <= Term /\ limit <= Len(text) /\ cur \in Int /\ limit \in Int
      /\ eol \in Int /\ Term \in Int /\ text \in Seq(Bytes) /\ Len(text) \in Nat /\ cur < limit
      /\ PartsKept(cur) /\ n \in Int /\ text[limit] = "SP" /\ Unbroken(1, eol)
      /\ \A k \in 3 .. limit - 1 : text[k] # "SP"
  <2>1. /\ 3 <= cur /\ 3 < limit /\ limit < eol /\ eol <= Term /\ Term + 3 <= size /\ size <= Len(text)
        /\ cur \in Int /\ limit \in Int /\ eol \in Int /\ Term \in Int /\ Len(text) \in Nat /\ size \in Int
    BY UriFacts, Types
  <2>2. limit <= Len(text)
    BY <2>1
  <2>3. n \in Int /\ cur < limit
    BY <2>1
  <2> QED  BY <2>1, <2>2, <2>3, UriFacts
<1>1. /\ limit \in 4 .. Term
      /\ \A k \in 3 .. limit - 1 : text[k] # "SP" /\ ~CrlfAt(k)
  BY <1>0 DEF Unbroken
<1>2. \E q \in 3 .. limit : /\ QueryStart(q, limit)
                            /\ q - 3 >= HTTP_MAX_PATH_LEN \/ limit - q >= HTTP_MAX_QUERY_LEN
  <2>1. HTTP_MAX_PATH_LEN \in Int /\ HTTP_MAX_QUERY_LEN \in Int
    BY CapsAssumption
  <2>2. CASE into = "path"
    <3>1. path = SubSeq(text, 3, cur - 1) /\ \A k \in 3 .. cur - 1 : text[k] # "QUEST"
      BY <1>0, <2>2 DEF PartsKept
    <3>2. Len(path) = cur - 3
      BY <1>0, <3>1, Slice
    <3>3. cur + n - 3 >= HTTP_MAX_PATH_LEN
      BY <1>0, <2>1, <2>2, <3>2 DEF Full, Stored, Cap
    <3>4. PICK q \in 3 .. limit : QueryStart(q, limit)
      BY <1>0, QueryExists
    <3>5. q >= cur + n
      BY <1>0, <2>2, <3>1, <3>4 DEF QueryStart
    <3> QED  BY <1>0, <2>1, <3>3, <3>4, <3>5
  <2>3. CASE into # "path"
    <3>1. PICK q \in 3 .. cur - 1 : /\ text[q] = "QUEST" /\ \A k \in 3 .. q - 1 : text[k] # "QUEST"
                                    /\ path = SubSeq(text, 3, q - 1) /\ query = SubSeq(text, q, cur - 1)
      BY <1>0, <2>3 DEF PartsKept
    <3>2. Len(query) = cur - q
      BY <1>0, <3>1, Slice
    <3>3. cur + n - q >= HTTP_MAX_QUERY_LEN
      BY <1>0, <2>1, <2>3, <3>1, <3>2 DEF Full, Stored, Cap
    <3>4. QueryStart(q, limit) /\ q \in 3 .. limit
      BY <1>0, <3>1 DEF QueryStart
    <3> QED  BY <1>0, <2>1, <3>1, <3>3, <3>4
  <2> QED  BY <2>2, <2>3
<1> QED  BY <1>0, <1>1, <1>2 DEF UriLong

LEMMA UriRefusalIsTrue ==
  ASSUME IInv, HeadInv, at = "uri", cur < limit, NEW why, why = UriRefuses(text[cur])
  PROVE  /\ why \in {"none", "PARSE_BAD_REQUEST", "PARSE_URI_TOO_LONG"}
         /\ why = "PARSE_BAD_REQUEST" => Malformed
         /\ why = "PARSE_URI_TOO_LONG" => UriLong
<1> DEFINE c == text[cur]
<1>0. /\ cur \in Int /\ limit \in Int
      /\ \A n \in {1, 3} : (cur < limit /\ ~(cur + 3 > limit)) \/ n = 1 => cur + n <= limit
  BY UriFacts
<1>1. CASE c \notin Vchar \/ c = "HASH"
  <2>1. why = "PARSE_BAD_REQUEST"
    BY <1>1 DEF UriRefuses
  <2> QED  BY <1>1, <2>1, BadTarget
<1>2. CASE c \in Vchar /\ c # "HASH" /\ c = "QUEST" /\ into = "path"
  <2>1. why = "none"
    BY <1>2 DEF UriRefuses
  <2> QED  BY <2>1
<1>3. CASE c \in Vchar /\ c # "HASH" /\ ~(c = "QUEST" /\ into = "path")
  <2>1. CASE Full(1)
    <3>1. why = "PARSE_URI_TOO_LONG"
      BY <1>3, <2>1 DEF UriRefuses
    <3>2. into = "path" => \A k \in cur .. cur + 1 - 1 : text[k] # "QUEST"
      BY <1>0, <1>3
    <3> QED  BY <1>0, <2>1, <3>1, <3>2, LongTarget
  <2>2. CASE ~Full(1) /\ c # "PCT"
    <3>1. why = "none"
      BY <1>3, <2>2 DEF UriRefuses
    <3> QED  BY <3>1
  <2>3. CASE ~Full(1) /\ c = "PCT" /\ (cur + 3 > limit \/ text[cur + 1] \notin Hex \/ text[cur + 2] \notin Hex)
    <3>1. why = "PARSE_BAD_REQUEST"
      BY <1>3, <2>3 DEF UriRefuses
    <3>2. ~(cur + 2 < limit /\ {text[cur + 1], text[cur + 2]} \subseteq Hex)
      BY <1>0, <2>3
    <3> QED  BY <2>3, <3>1, <3>2, BadTarget
  <2>4. CASE ~Full(1) /\ c = "PCT" /\ ~(cur + 3 > limit \/ text[cur + 1] \notin Hex \/ text[cur + 2] \notin Hex)
    <3>1. why = IF Full(3) THEN "PARSE_URI_TOO_LONG" ELSE "none"
      BY <1>3, <2>4 DEF UriRefuses
    <3>2. \A k \in cur .. cur + 3 - 1 : text[k] # "QUEST"
      <4>1. \A k \in cur .. cur + 3 - 1 : k = cur \/ k = cur + 1 \/ k = cur + 2
        BY <1>0
      <4> QED  BY <2>4, <4>1 DEF Hex
    <3>3. cur + 3 <= limit
      BY <1>0, <2>4
    <3>4. Full(3) => UriLong
      BY <3>2, <3>3, LongTarget
    <3> QED  BY <3>1, <3>4
  <2> QED  BY <2>1, <2>2, <2>3, <2>4
<1> QED  BY <1>1, <1>2, <1>3

(* The target as far as it has been looked at. *)
LEMMA CheckedGrows ==
  ASSUME IInv, NEW m \in Int, 3 <= cur, cur < m, Checked(cur), UNCHANGED text,
         \A i \in cur .. m - 1 :
           /\ text[i] \in Vchar \ {"HASH"}
           /\ text[i] = "PCT" => i + 2 < m /\ {text[i + 1], text[i + 2]} \subseteq Hex
  PROVE  Checked(m)'
<1>1. cur \in Int
  BY Types
<1>2. ASSUME NEW i \in 3 .. m - 1
      PROVE  /\ text[i] \in Vchar \ {"HASH"}
             /\ text[i] = "PCT" => i + 2 < m /\ {text[i + 1], text[i + 2]} \subseteq Hex
  <2>1. CASE i < cur
    <3>1. i \in 3 .. cur - 1
      BY <1>1, <2>1
    <3> QED  BY <1>1, <3>1 DEF Checked
  <2>2. CASE i >= cur
    BY <1>1, <2>2
  <2> QED  BY <1>1, <2>1, <2>2
<1> QED  BY <1>2 DEF Checked

LEMMA UriByteHead ==
  ASSUME IInv, IInv', HeadInv, UriByte
  PROVE  HeadInv'
<1> DEFINE c == text[cur]
<1>0. /\ at = "uri" /\ cur < limit /\ cur \in Int /\ limit \in Int /\ 3 <= cur /\ limit <= Len(text)
      /\ text \in Seq(Bytes) /\ Len(text) \in Nat /\ Checked(cur) /\ PartsKept(cur)
  <2>1. at = "uri" /\ cur < limit
    BY DEF UriByte
  <2>2. limit < eol /\ eol <= Term /\ Term + 3 <= size /\ size <= Len(text) /\ size \in Int
    BY <2>1, UriFacts, Types
  <2> QED  BY <2>1, <2>2, UriFacts
<1>1. CASE UriRefuses(c) # "none" /\ Fail(UriRefuses(c))
  <2>1. PICK why : why = UriRefuses(c)
    OBVIOUS
  <2>2. /\ why \in {"none", "PARSE_BAD_REQUEST", "PARSE_URI_TOO_LONG"}
        /\ why = "PARSE_BAD_REQUEST" => Malformed
        /\ why = "PARSE_URI_TOO_LONG" => UriLong
    BY <1>0, <2>1, UriRefusalIsTrue
  <2>3. Fail(why) /\ why # "none"
    BY <1>1, <2>1
  <2> QED  BY <2>2, <2>3, FailExplained DEF Statuses
<1>2. ASSUME UriRefuses(c) = "none",
             UNCHANGED <<recvVars, stop, at, eol, limit, fieldVars, headers, status, teVars>>,
             \/ /\ c = "QUEST" /\ into = "path"
                /\ into' = "query" /\ query' = <<c>> /\ path' = path /\ cur' = cur + 1
             \/ /\ c = "PCT" /\ into' = into
                /\ Store(<<c, text[cur + 1], text[cur + 2]>>) /\ cur' = cur + 3
             \/ /\ c # "PCT" /\ ~(c = "QUEST" /\ into = "path") /\ into' = into
                /\ Store(<<c>>) /\ cur' = cur + 1
      PROVE  HeadInv'
  <2>1. UNCHANGED <<text, at, eol, limit, headers, status>>
    BY <1>2 DEF recvVars
  <2>2. c \in Vchar \ {"HASH"}
    BY <1>2 DEF UriRefuses
  <2>3. \E m \in Int : m = cur' /\ cur < m /\ Checked(m)' /\ PartsKept(m)'
    <3>1. CASE /\ c = "QUEST" /\ into = "path"
               /\ into' = "query" /\ query' = <<c>> /\ path' = path /\ cur' = cur + 1
      <4>1. PICK m \in Int, q \in Int : m = cur + 1 /\ q = cur
        BY <1>0
      <4>2. Checked(m)'
        <5>1. cur < m /\ \A i \in cur .. m - 1 : i = cur
          BY <1>0, <4>1
        <5> QED  BY <1>0, <2>1, <2>2, <3>1, <5>1, CheckedGrows
      <4>3. path = SubSeq(text, 3, cur - 1) /\ \A k \in 3 .. cur - 1 : text[k] # "QUEST"
        BY <1>0, <3>1 DEF PartsKept
      <4>4. SubSeq(text, q, m - 1) = <<c>>
        BY <1>0, <4>1, Few
      <4>5. q \in 3 .. m - 1 /\ text[q] = "QUEST" /\ path' = SubSeq(text', 3, q - 1) /\ query' = SubSeq(text', q, m - 1)
        BY <1>0, <2>1, <3>1, <4>1, <4>3, <4>4
      <4>6. PartsKept(m)'
        BY <2>1, <3>1, <4>1, <4>3, <4>5 DEF PartsKept
      <4> QED  BY <1>0, <3>1, <4>1, <4>2, <4>6
    <3>2. CASE /\ c = "PCT" /\ into' = into
               /\ Store(<<c, text[cur + 1], text[cur + 2]>>) /\ cur' = cur + 3
      <4>1. PICK m \in Int : m = cur + 3
        BY <1>0
      <4>2. m <= limit /\ text[cur + 1] \in Hex /\ text[cur + 2] \in Hex
        BY <1>0, <1>2, <2>2, <3>2, <4>1 DEF UriRefuses
      <4>3. cur < m /\ m <= Len(text) + 1 /\ \A i \in cur .. m - 1 : i = cur \/ i = cur + 1 \/ i = cur + 2
        BY <1>0, <4>1, <4>2
      <4>4. Checked(m)'
        <5>1. \A i \in cur .. m - 1 :
                /\ text[i] \in Vchar \ {"HASH"}
                /\ text[i] = "PCT" => i + 2 < m /\ {text[i + 1], text[i + 2]} \subseteq Hex
          <6>1. \A b \in Hex : b \in Vchar \ {"HASH"} /\ b # "PCT"
            BY DEF Hex, Vchar, Tchar
          <6>2. cur + 2 < m
            BY <1>0, <4>1
          <6> QED  BY <2>2, <4>2, <4>3, <6>1, <6>2
        <5>2. cur < m /\ UNCHANGED text
          BY <2>1, <4>3
        <5> QED  BY <1>0, <5>1, <5>2, CheckedGrows
      <4>5. PartsKept(m)'
        <5>1. SubSeq(text, cur, m - 1) = <<c, text[cur + 1], text[cur + 2]>>
          BY <1>0, <4>1, <4>2, Few
        <5>2. \A k \in cur .. m - 1 : text[k] # "QUEST"
          BY <3>2, <4>2, <4>3 DEF Hex
        <5> QED  BY <1>0, <2>1, <3>2, <4>3, <5>1, <5>2, PartGrows
      <4> QED  BY <3>2, <4>1, <4>3, <4>4, <4>5
    <3>3. CASE /\ c # "PCT" /\ ~(c = "QUEST" /\ into = "path") /\ into' = into
               /\ Store(<<c>>) /\ cur' = cur + 1
      <4>1. PICK m \in Int : m = cur + 1
        BY <1>0
      <4>2. cur < m /\ m <= Len(text) + 1 /\ \A i \in cur .. m - 1 : i = cur
        BY <1>0, <4>1
      <4>3. Checked(m)'
        BY <1>0, <2>1, <2>2, <3>3, <4>2, CheckedGrows
      <4>4. PartsKept(m)'
        <5>1. SubSeq(text, cur, m - 1) = <<c>>
          BY <1>0, <4>1, Few
        <5>2. into = "path" => \A k \in cur .. m - 1 : text[k] # "QUEST"
          BY <3>3, <4>2
        <5> QED  BY <1>0, <2>1, <3>3, <4>2, <5>1, <5>2, PartGrows
      <4> QED  BY <3>3, <4>1, <4>2, <4>3, <4>4
    <3> QED  BY <1>2, <3>1, <3>2, <3>3
  <2>4. 3 <= cur' /\ Checked(cur)' /\ PartsKept(cur)'
    <3>1. PICK m \in Int : m = cur' /\ cur < m /\ Checked(m)' /\ PartsKept(m)'
      BY <2>3
    <3>2. Checked(cur)'
      BY <3>1 DEF Checked
    <3>3. PartsKept(cur)'
      BY <3>1 DEF PartsKept
    <3> QED  BY <1>0, <3>1, <3>2, <3>3
  <2>5. Unbroken(1, eol)' /\ 3 < limit' /\ text'[1] = "GET" /\ text'[2] = "SP" /\ text'[3] = "SLASH" /\ text'[limit'] = "SP"
    BY <1>0, <2>1, UriFacts DEF Unbroken, CrlfAt
  <2>6. (\A k \in 3 .. limit - 1 : text[k] # "SP")' /\ status' = "none" /\ headers' = <<>> /\ at' = "uri"
    BY <1>0, <2>1, UriFacts
  <2> QED
    BY <2>4, <2>5, <2>6 DEF HeadInv, FirstLine, Past, LinesRead, StatusSet, Explained
<1> QED  BY <1>1, <1>2 DEF UriByte

LEMMA UriEndHead ==
  ASSUME IInv, IInv', HeadInv, UriEnd
  PROVE  HeadInv'
<1>0. /\ at = "uri" /\ cur >= limit /\ at' = "version" /\ cur' = limit + 1
      /\ UNCHANGED <<text, eol, limit, path, query, into, headers, status>>
  BY DEF UriEnd, recvVars, lineVars
<1>1. cur = limit
  BY <1>0, UriFacts
<1>2. /\ 3 < limit /\ text[1] = "GET" /\ text[2] = "SP" /\ text[3] = "SLASH" /\ text[limit] = "SP"
      /\ \A k \in 3 .. limit - 1 : text[k] # "SP"
      /\ Unbroken(1, eol) /\ Checked(limit) /\ PartsKept(limit) /\ status = "none" /\ headers = <<>>
  BY <1>0, <1>1, UriFacts
<1>3. Checked(limit)' /\ PartsKept(limit)' /\ Unbroken(1, eol)'
  BY <1>0, <1>2 DEF Checked, PartsKept, Unbroken, CrlfAt
<1> QED
  BY <1>0, <1>2, <1>3 DEF HeadInv, FirstLine, Past, LinesRead, StatusSet, Explained

LEMMA VersionHead ==
  ASSUME IInv, IInv', HeadInv, version_parse
  PROVE  HeadInv'
<1>0. /\ at = "version" /\ cur = limit + 1 /\ 3 < limit /\ cur <= eol /\ eol <= Term /\ Term + 3 <= size
      /\ cur \in Int /\ limit \in Int /\ eol \in Int /\ Term \in Int /\ size \in Int /\ CrlfAt(eol)
      /\ text[1] = "GET" /\ text[2] = "SP" /\ text[3] = "SLASH" /\ text[limit] = "SP"
      /\ \A k \in 3 .. limit - 1 : text[k] # "SP"
      /\ Unbroken(1, eol) /\ Checked(limit) /\ PartsKept(limit) /\ status = "none" /\ headers = <<>>
  BY Types DEF version_parse, IInv, InLine, HeadInv, FirstLine, StatusSet
<1>1. limit \in Places /\ (eol = cur + 1 => limit + 2 = eol /\ limit + 1 = cur /\ limit + 2 \in Places)
  BY <1>0 DEF Places, Term
<1>2. eol = cur + 1 => \A v : RequestLine(limit, v) <=> text[cur] \in v
  <2>1. IsLine(1, eol)
    BY <1>0 DEF IsLine, Unbroken
  <2> QED  BY <1>0, <1>1, <2>1 DEF RequestLine
<1>3. CASE eol # cur + 1 \/ text[cur] \notin {"V1", "V2"}
  <2>1. ASSUME NEW b \in Int, eol = b + 2, RequestLine(b, {"V1"}), TargetWellFormed(3, b) PROVE FALSE
    <3>1. b = limit
      BY <1>0, <2>1, SpaceEnds
    <3>2. text[b + 1] = "V1"
      BY <2>1 DEF RequestLine
    <3> QED  BY <1>0, <1>3, <2>1, <3>1, <3>2
  <2>2. Malformed
    BY <1>0, <2>1, BadFirstLine
  <2> QED  BY <1>3, <2>2, FailExplained DEF version_parse, Statuses
<1>4. CASE eol = cur + 1 /\ text[cur] = "V2"
  <2>1. OtherVersion
    BY <1>1, <1>2, <1>4 DEF OtherVersion
  <2> QED  BY <1>4, <2>1, FailExplained DEF version_parse, Statuses
<1>5. CASE eol = cur + 1 /\ text[cur] = "V1"
  <2>1. /\ at' = "line_end" /\ cur' = eol
        /\ UNCHANGED <<text, size, body_start, path, query, into, headers, status>>
    BY <1>5 DEF version_parse, recvVars, lineVars
  <2>2. TargetKept
    <3>1. RequestLine(limit, {"V1"})
      BY <1>2, <1>5
    <3>2. TargetWellFormed(3, limit)
      BY <1>0 DEF Checked, TargetWellFormed
    <3> QED  BY <1>0, <1>1, <3>1, <3>2 DEF TargetKept
  <2>3. TargetKept'
    BY <2>1, <2>2, KeptStays
  <2>4. PICK p \in Int : p = eol + 2
    BY <1>0
  <2>5. StartsAt(p)
    <3>1. Before(p) = {}
      BY <1>0, <2>4, NothingBefore
    <3>2. Cardinality({}) = 0 /\ Len(headers) = 0
      BY <1>0, FS_EmptySet
    <3>3. LinesKept({})
      BY <3>2 DEF LinesKept
    <3>4. 2 < p /\ CrlfAt(p - 2)
      <4>1. p - 2 = eol
        BY <1>0, <2>4
      <4> QED  BY <1>0, <2>4, <4>1
    <3> QED  BY <3>1, <3>3, <3>4 DEF StartsAt
  <2>6. StartsAt(p)'
    BY <2>1, <2>5, KeptStays
  <2>7. StartsAt(cur + 2)'
    BY <2>1, <2>4, <2>6 DEF StartsAt, Before, LinesKept
  <2> QED
    BY <1>0, <2>1, <2>3, <2>7 DEF HeadInv, FirstLine, Past, LinesRead, StatusSet, Explained
<1> QED  BY <1>3, <1>4, <1>5

(* The header lines *)

(* What is known between lines and in a header line. *)
LEMMA LineEndHead ==
  ASSUME IInv, IInv', HeadInv, LineEnd
  PROVE  HeadInv'
<1>0. /\ at = "line_end" /\ cur <= Term /\ CrlfAt(cur) /\ Term + 4 <= stop /\ status = "none"
      /\ cur \in Int /\ Term \in Int /\ stop \in Int /\ TargetKept /\ StartsAt(cur + 2)
  BY Types DEF LineEnd, IInv, BetweenLines, HeadInv, StatusSet, Past, LinesRead
<1>1. cur + 2 <= stop
  BY <1>0
<1>2. /\ at' = "header_line" /\ cur' = cur + 2
      /\ UNCHANGED <<text, size, body_start, path, query, into, headers, status>>
  BY <1>0, <1>1 DEF LineEnd, recvVars, lineVars
<1>3. PICK p \in Int : p = cur + 2
  BY <1>0
<1>4. StartsAt(p)
  BY <1>0, <1>3
<1>5. StartsAt(p)' /\ TargetKept'
  BY <1>0, <1>2, <1>4, KeptStays
<1>6. StartsAt(cur)'
  BY <1>2, <1>3, <1>5 DEF StartsAt, Before, LinesKept
<1> QED
  BY <1>0, <1>2, <1>5, <1>6 DEF HeadInv, FirstLine, Past, LinesRead, StatusSet, Explained

LEMMA HeadersEndHead ==
  ASSUME IInv, IInv', HeadInv, HeadersEnd
  PROVE  HeadInv'
<1>0. /\ at = "header_line" /\ TargetKept /\ StartsAt(cur) /\ cur \in Int /\ body_start \in Int
      /\ at' = "codings" /\ cur' = cur + 2 /\ status' = "PARSE_OK"
      /\ UNCHANGED <<text, size, body_start, path, query, into, headers>>
  BY Types DEF HeadersEnd, HeadInv, Past, LinesRead, recvVars, lineVars
<1>1. cur = Term + 2 /\ Term \in Int
  <2>1. cur + 2 = body_start
    BY <1>0 DEF IInv, ScansAgree
  <2> QED  BY <1>0, <2>1 DEF Term
<1>2. Before(cur) = HeaderLines
  BY <1>1, AllBefore
<1>3. LinesKept(HeaderLines)' /\ TargetKept'
  BY <1>0, <1>2, KeptStays DEF StartsAt
<1> QED
  BY <1>0, <1>3 DEF HeadInv, FirstLine, Past, LinesRead, StatusSet, Explained

LEMMA LineFound ==
  ASSUME IInv, at = "header_line", ~EmptyLine, NEW e \in crlf_find(cur, stop)
  PROVE  /\ e \in Int /\ 2 < cur /\ cur < e /\ e <= Term /\ CrlfAt(e) /\ Unbroken(cur, e)
<1>0. /\ cur \in Int /\ Term \in Int /\ stop \in Int /\ 2 < cur /\ cur <= Term + 2 /\ CrlfAt(cur - 2)
      /\ CrlfAt(Term) /\ CrlfAt(Term + 2) /\ Term + 4 <= stop
  BY Types DEF IInv, BetweenLines
<1>1. ~CrlfAt(cur)
  <2>1. cur + 2 <= stop
    BY <1>0
  <2> QED  BY <2>1 DEF EmptyLine
<1>2. cur <= Term
  <2>1. cur # Term + 2
    BY <1>0, <1>1
  <2>2. cur # Term + 1
    <3>1. ASSUME cur = Term + 1 PROVE FALSE
      <4>1. (cur - 2) + 1 = Term
        BY <1>0, <3>1
      <4> QED  BY <1>0, <4>1, NotAdjacent
    <3> QED  BY <3>1
  <2> QED  BY <1>0, <2>1, <2>2
<1>3. e \in Int /\ cur <= e /\ e <= Term /\ CrlfAt(e)
  <2>1. Term + 1 < stop
    BY <1>0
  <2> QED  BY <1>0, <1>2, <2>1, LineEndsInHead
<1>4. Unbroken(cur, e)
  <2>1. \A k \in cur .. e - 1 : ~(k + 1 < stop /\ CrlfAt(k))
    BY DEF crlf_find
  <2>2. \A k \in cur .. e - 1 : k + 1 < stop
    BY <1>0, <1>3
  <2> QED  BY <2>1, <2>2 DEF Unbroken
<1>5. cur # e
  BY <1>1, <1>3
<1> QED  BY <1>0, <1>3, <1>4, <1>5

LEMMA HeaderLineHead ==
  ASSUME IInv, IInv', HeadInv, header_line
  PROVE  HeadInv'
<1>0. /\ at = "header_line" /\ ~EmptyLine /\ TargetKept /\ StartsAt(cur) /\ cur \in Int /\ Term \in Int /\ status = "none"
      /\ CrlfAt(cur - 2)
  BY Types DEF header_line, HeadInv, Past, LinesRead, StatusSet, StartsAt
<1>1. PICK e \in crlf_find(cur, stop) : \E colon \in byte_find(text, "COLON", cur, e) :
        IF cur < e /\ cur < colon /\ text[colon] = "COLON"
        THEN /\ at' = "key" /\ eol' = e /\ limit' = colon /\ key' = <<>> /\ value' = <<>>
             /\ UNCHANGED <<recvVars, stop, cur, lineVars, headers, status, teVars>>
        ELSE Fail("PARSE_BAD_REQUEST")
  BY DEF header_line
<1>2. PICK colon \in byte_find(text, "COLON", cur, e) :
        IF cur < e /\ cur < colon /\ text[colon] = "COLON"
        THEN /\ at' = "key" /\ eol' = e /\ limit' = colon /\ key' = <<>> /\ value' = <<>>
             /\ UNCHANGED <<recvVars, stop, cur, lineVars, headers, status, teVars>>
        ELSE Fail("PARSE_BAD_REQUEST")
  BY <1>1
<1>3. e \in Int /\ 2 < cur /\ cur < e /\ e <= Term /\ CrlfAt(e) /\ Unbroken(cur, e)
  BY <1>0, LineFound
<1>4. colon \in cur .. e /\ (colon = e \/ text[colon] = "COLON") /\ \A k \in cur .. colon - 1 : text[k] # "COLON"
  BY DEF byte_find
<1>5. CASE ~(cur < colon /\ text[colon] = "COLON")
  <2>1. <<cur, e>> \in HeaderLines
    BY <1>0, <1>3, LineAdded
  <2>2. ASSUME HeaderWellFormed(<<cur, e>>) PROVE FALSE
    <3>1. PICK c \in cur + 1 .. e - 1 : text[c] = "COLON" /\ \A i \in cur .. c - 1 : text[i] \in Tchar
      BY <2>2 DEF HeaderWellFormed
    <3>2. text[cur] # "COLON"
      BY <1>0, <3>1 DEF Tchar
    <3> QED  BY <1>0, <1>3, <1>4, <1>5, <3>1, <3>2
  <2>3. Malformed
    BY <1>0, <2>1, <2>2, Types DEF Malformed
  <2> QED  BY <1>2, <1>5, <2>3, FailExplained DEF Statuses
<1>6. CASE cur < colon /\ text[colon] = "COLON"
  <2>1. /\ at' = "key" /\ eol' = e /\ limit' = colon /\ key' = <<>> /\ cur' = cur
        /\ UNCHANGED <<text, size, body_start, path, query, into, headers, status>>
    BY <1>2, <1>3, <1>6 DEF recvVars, lineVars
  <2>2. PICK p \in 3 .. cur : p = cur
    BY <1>0, <1>3
  <2>3. StartsAt(p)' /\ TargetKept'
    BY <1>0, <2>1, <2>2, KeptStays
  <2>4. InKey(p)'
    <3>1. SubSeq(text, p, p - 1) = <<>>
      BY <1>0, SubSeqEmpty
    <3>2. KeyRead(key, p, cur)'
      BY <1>0, <2>1, <2>2, <3>1 DEF KeyRead
    <3>3. Unbroken(p, eol)'
      BY <1>3, <2>1, <2>2 DEF Unbroken, CrlfAt
    <3> QED  BY <1>0, <1>4, <1>6, <2>1, <2>2, <3>2, <3>3 DEF InKey
  <2> QED
    BY <1>0, <2>1, <2>2, <2>3, <2>4 DEF HeadInv, FirstLine, Past, LinesRead, StatusSet, Explained
<1> QED  BY <1>5, <1>6

(* What is known while a key is read. *)
LEMMA KeyFacts ==
  ASSUME IInv, HeadInv, at = "key"
  PROVE  /\ \E p \in 3 .. cur : StartsAt(p) /\ InKey(p)
         /\ cur \in Int /\ limit \in Int /\ eol \in Int /\ Term \in Int /\ text \in Seq(Bytes) /\ Len(text) \in Nat
         /\ cur <= limit /\ limit < eol /\ eol <= Term /\ limit <= Len(text) /\ CrlfAt(eol)
         /\ TargetKept /\ status = "none" /\ body_start > 0
<1>1. /\ cur \in Int /\ limit \in Int /\ eol \in Int /\ Term \in Int /\ text \in Seq(Bytes) /\ Len(text) \in Nat
      /\ cur <= limit /\ limit < eol /\ eol <= Term /\ Term + 3 <= size /\ size <= Len(text) /\ size \in Int
      /\ CrlfAt(eol) /\ body_start > 0
  BY Types DEF IInv, InLine, InToken
<1>2. limit <= Len(text)
  BY <1>1
<1>3. (\E p \in 3 .. cur : StartsAt(p) /\ InKey(p)) /\ TargetKept /\ status = "none"
  BY DEF HeadInv, LinesRead, Past, StatusSet
<1> QED  BY <1>1, <1>2, <1>3

LEMMA KeyByteHead ==
  ASSUME IInv, IInv', HeadInv, KeyByte
  PROVE  HeadInv'
<1>0. at = "key" /\ cur < limit
  BY DEF KeyByte
<1>1. /\ cur \in Int /\ limit \in Int /\ eol \in Int /\ Term \in Int /\ text \in Seq(Bytes) /\ Len(text) \in Nat
      /\ cur <= limit /\ limit < eol /\ eol <= Term /\ limit <= Len(text) /\ CrlfAt(eol)
      /\ TargetKept /\ status = "none" /\ body_start > 0
  BY <1>0, KeyFacts
<1>2. PICK p \in 3 .. cur : StartsAt(p) /\ InKey(p)
  BY <1>0, KeyFacts
<1>3. /\ Unbroken(p, eol) /\ key = SubSeq(text, p, cur - 1) /\ \A i \in p .. cur - 1 : text[i] \in Tchar
      /\ text[limit] = "COLON" /\ \A k \in p .. limit - 1 : text[k] # "COLON"
  BY <1>2 DEF InKey, KeyRead
<1>4. <<p, eol>> \in HeaderLines
  BY <1>1, <1>2, <1>3, LineAdded DEF StartsAt
<1>5. CASE text[cur] \notin Tchar
  <2>1. ASSUME HeaderWellFormed(<<p, eol>>) PROVE FALSE
    <3>1. PICK c \in p + 1 .. eol - 1 : text[c] = "COLON" /\ \A i \in p .. c - 1 : text[i] \in Tchar
      BY <2>1 DEF HeaderWellFormed
    <3>2. limit <= c
      BY <1>1, <1>3, <3>1
    <3> QED  BY <1>0, <1>1, <1>5, <3>1, <3>2
  <2>2. Malformed
    BY <1>1, <1>4, <2>1 DEF Malformed
  <2> QED  BY <1>5, <2>2, FailExplained DEF KeyByte, Statuses
<1>6. CASE text[cur] \in Tchar /\ Len(key) >= HTTP_MAX_HEADER_KEY_LEN - 1
  <2>1. Len(key) = cur - p
    BY <1>1, <1>2, <1>3, Slice
  <2>2. HTTP_MAX_HEADER_KEY_LEN \in Int
    BY CapsAssumption
  <2>3. limit \in p + HTTP_MAX_HEADER_KEY_LEN .. eol - 1
    BY <1>0, <1>1, <1>6, <2>1, <2>2
  <2>4. KeyLong
    <3> DEFINE l == <<p, eol>>
    <3>1. l[1] = p /\ l[2] = eol
      OBVIOUS
    <3> HIDE DEF l
    <3> QED  BY <1>3, <1>4, <2>3, <3>1 DEF KeyLong, l
  <2> QED  BY <1>6, <2>4, FailExplained DEF KeyByte, Statuses
<1>7. CASE text[cur] \in Tchar /\ ~(Len(key) >= HTTP_MAX_HEADER_KEY_LEN - 1)
  <2>1. /\ key' = Append(key, text[cur]) /\ cur' = cur + 1
        /\ UNCHANGED <<text, size, body_start, at, eol, limit, path, query, into, headers, status>>
    BY <1>7 DEF KeyByte, recvVars, lineVars
  <2>2. StartsAt(p)' /\ TargetKept'
    BY <1>1, <1>2, <2>1, KeptStays
  <2>3. KeyRead(key, p, cur)'
    <3>1. Append(SubSeq(text, p, cur - 1), text[cur]) = SubSeq(text, p, cur)
      BY <1>0, <1>1, Extend
    <3>2. key' = SubSeq(text', p, cur' - 1)
      BY <1>1, <1>3, <2>1, <3>1
    <3>3. \A i \in p .. cur' - 1 : text'[i] \in Tchar
      BY <1>1, <1>3, <1>7, <2>1
    <3> QED  BY <3>2, <3>3 DEF KeyRead
  <2>4. InKey(p)'
    <3>1. Unbroken(p, eol)'
      BY <1>3, <2>1 DEF Unbroken, CrlfAt
    <3> QED  BY <1>0, <1>1, <1>2, <1>3, <2>1, <2>3, <3>1 DEF InKey
  <2>5. p \in 3 .. cur'
    BY <1>1, <2>1
  <2>6. (\E q \in 3 .. cur : StartsAt(q) /\ InKey(q))'
    BY <2>2, <2>4, <2>5
  <2> QED
    BY <1>0, <1>1, <2>1, <2>2, <2>6 DEF HeadInv, FirstLine, Past, LinesRead, StatusSet, Explained
<1> QED  BY <1>5, <1>6, <1>7

LEMMA ValueStartHead ==
  ASSUME IInv, IInv', HeadInv, value_start
  PROVE  HeadInv'
<1>0. at = "key" /\ cur >= limit
  BY DEF value_start
<1>1. /\ cur \in Int /\ limit \in Int /\ eol \in Int /\ Term \in Int /\ text \in Seq(Bytes) /\ Len(text) \in Nat
      /\ cur = limit /\ cur < eol /\ eol <= Term /\ cur <= Len(text) /\ CrlfAt(eol)
      /\ TargetKept /\ status = "none" /\ body_start > 0
  BY <1>0, KeyFacts
<1>2. PICK p \in 3 .. cur : StartsAt(p) /\ InKey(p)
  BY <1>0, KeyFacts
<1>3. p < cur /\ Unbroken(p, eol) /\ KeyRead(key, p, cur) /\ text[cur] = "COLON"
  BY <1>1, <1>2 DEF InKey
<1>4. HTTP_MAX_HEADER_VALUE_LEN \in Int
  BY CapsAssumption
<1>5. CASE eol - (cur + 1) > HTTP_MAX_HEADER_VALUE_LEN - 1
  <2>1. <<p, eol>> \in HeaderLines
    BY <1>1, <1>2, <1>3, LineAdded DEF StartsAt
  <2>2. cur \in p .. eol /\ eol - cur > HTTP_MAX_HEADER_VALUE_LEN
    BY <1>1, <1>3, <1>4, <1>5
  <2>3. ValueLong
    <3> DEFINE l == <<p, eol>>
    <3>1. l[1] = p /\ l[2] = eol
      OBVIOUS
    <3> HIDE DEF l
    <3> QED  BY <1>3, <2>1, <2>2, <3>1 DEF ValueLong, l
  <2> QED  BY <1>5, <2>3, FailExplained DEF value_start, Statuses
<1>6. CASE ~(eol - (cur + 1) > HTTP_MAX_HEADER_VALUE_LEN - 1)
  <2>1. /\ at' = "value" /\ cur' \in ows_skip(text, cur + 1, eol) /\ limit' \in ows_trim_trailing(text, cur', eol)
        /\ UNCHANGED <<text, size, body_start, eol, path, query, into, key, value, headers, status>>
    BY <1>6 DEF value_start, recvVars, lineVars, fieldVars
  <2>2. /\ cur' \in cur + 1 .. eol /\ (cur' = eol \/ text[cur'] \notin Ows)
        /\ \A k \in cur + 1 .. cur' - 1 : text[k] \in Ows
    BY <2>1 DEF ows_skip
  <2>3. /\ limit' \in cur' .. eol /\ (limit' = cur' \/ text[limit' - 1] \notin Ows)
        /\ \A k \in limit' .. eol - 1 : text[k] \in Ows
    BY <2>1 DEF ows_trim_trailing
  <2>4. PICK c \in Int, f \in Int : c = cur /\ f = cur'
    BY <1>1, <2>2
  <2>5. p \in 3 .. cur' /\ c \in 3 .. cur' /\ f \in 3 .. cur'
    BY <1>1, <2>2, <2>4
  <2>6. StartsAt(p)' /\ TargetKept'
    BY <1>1, <1>2, <2>1, KeptStays
  <2>7. KeyRead(key, p, c)' /\ Unbroken(p, eol)' /\ text'[c] = "COLON"
    BY <1>3, <2>1, <2>4 DEF KeyRead, Unbroken, CrlfAt
  <2>8. ValueRead(value, f, cur)'
    <3>1. value' = <<>>
      BY <1>0, <2>1 DEF IInv, InToken
    <3>2. SubSeq(text, f, f - 1) = <<>>
      BY SubSeqEmpty
    <3>3. value' = SubSeq(text', f, cur' - 1) /\ \A i \in f .. cur' - 1 : text'[i] \in FieldContent
      <4>1. cur' - 1 = f - 1 /\ text' = text /\ \A i \in f .. cur' - 1 : FALSE
        <5>1. \A i \in f .. f - 1 : FALSE
          OBVIOUS
        <5>2. cur' = f /\ text' = text
          BY <2>1, <2>4
        <5> QED  BY <5>1, <5>2
      <4> QED  BY <2>4, <3>1, <3>2, <4>1
    <3> QED  BY <3>3 DEF ValueRead
  <2>9. ValueCut(c, f, limit, eol)'
    <3>1. PICK g \in Int, e \in Int : g = limit' /\ e = eol
      BY <1>1, <2>2, <2>3
    <3>2. /\ f \in c + 1 .. e /\ (f = e \/ text[f] \notin Ows) /\ \A k \in c + 1 .. f - 1 : text[k] \in Ows
      BY <2>2, <2>4, <3>1
    <3>3. /\ g \in f .. e /\ (g = f \/ text[g - 1] \notin Ows) /\ \A k \in g .. e - 1 : text[k] \in Ows
      BY <2>3, <2>4, <3>1
    <3>4. f < g => text[f] \notin Ows /\ text[g - 1] \notin Ows
      BY <3>2, <3>3
    <3>5. ValueCut(c, f, g, e)'
      BY <2>1, <3>2, <3>3, <3>4 DEF ValueCut
    <3> QED  BY <2>1, <3>1, <3>5 DEF ValueCut
  <2>10. p < c /\ c < f /\ f <= cur' /\ eol' - c - 1 < HTTP_MAX_HEADER_VALUE_LEN
    BY <1>1, <1>3, <1>4, <1>6, <2>1, <2>2, <2>4
  <2>11. InValue(p, c, f)'
    BY <2>7, <2>8, <2>9, <2>10 DEF InValue
  <2>12. (\E p_1, c_1, f_1 \in 3 .. cur : StartsAt(p_1) /\ InValue(p_1, c_1, f_1))'
    BY <2>5, <2>6, <2>11
  <2> QED
    BY <1>0, <1>1, <2>1, <2>6, <2>12 DEF HeadInv, FirstLine, Past, LinesRead, StatusSet, Explained
<1> QED  BY <1>5, <1>6

(* What is known while a value is read. *)
LEMMA ValueFacts ==
  ASSUME IInv, HeadInv, at = "value"
  PROVE  /\ \E p, c, f \in 3 .. cur : StartsAt(p) /\ InValue(p, c, f)
         /\ cur \in Int /\ limit \in Int /\ eol \in Int /\ Term \in Int /\ text \in Seq(Bytes) /\ Len(text) \in Nat
         /\ cur <= limit /\ limit <= eol /\ eol <= Term /\ limit <= Len(text) /\ CrlfAt(eol)
         /\ TargetKept /\ status = "none" /\ body_start > 0
<1>1. /\ cur \in Int /\ limit \in Int /\ eol \in Int /\ Term \in Int /\ text \in Seq(Bytes) /\ Len(text) \in Nat
      /\ cur <= limit /\ limit <= eol /\ eol <= Term /\ Term + 3 <= size /\ size <= Len(text) /\ size \in Int
      /\ CrlfAt(eol) /\ body_start > 0
  BY Types DEF IInv, InLine, InToken
<1>2. limit <= Len(text)
  BY <1>1
<1>3. (\E p, c, f \in 3 .. cur : StartsAt(p) /\ InValue(p, c, f)) /\ TargetKept /\ status = "none"
  BY DEF HeadInv, LinesRead, Past, StatusSet
<1> QED  BY <1>1, <1>2, <1>3

LEMMA ValueByteHead ==
  ASSUME IInv, IInv', HeadInv, ValueByte
  PROVE  HeadInv'
<1>0. at = "value" /\ cur < limit
  BY DEF ValueByte
<1>1. /\ cur \in Int /\ limit \in Int /\ eol \in Int /\ Term \in Int /\ text \in Seq(Bytes) /\ Len(text) \in Nat
      /\ cur <= limit /\ limit <= eol /\ eol <= Term /\ limit <= Len(text) /\ CrlfAt(eol)
      /\ TargetKept /\ status = "none" /\ body_start > 0
  BY <1>0, ValueFacts
<1>2. PICK p, c, f \in 3 .. cur : StartsAt(p) /\ InValue(p, c, f)
  BY <1>0, ValueFacts
<1>3. /\ p < c /\ c < f /\ f <= cur /\ Unbroken(p, eol) /\ text[c] = "COLON"
      /\ KeyRead(key, p, c) /\ ValueCut(c, f, limit, eol) /\ eol - c - 1 < HTTP_MAX_HEADER_VALUE_LEN
      /\ value = SubSeq(text, f, cur - 1) /\ \A i \in f .. cur - 1 : text[i] \in FieldContent
  BY <1>2 DEF InValue, ValueRead
<1>4. CASE text[cur] \notin FieldContent
  <2>1. <<p, eol>> \in HeaderLines
    BY <1>1, <1>2, <1>3, LineAdded DEF StartsAt
  <2>2. ASSUME HeaderWellFormed(<<p, eol>>) PROVE FALSE
    <3>1. PICK d \in p + 1 .. eol - 1 : /\ text[d] = "COLON" /\ \A i \in p .. d - 1 : text[i] \in Tchar
                                        /\ \A i \in d + 1 .. eol - 1 : text[i] \in FieldContent
      BY <2>2 DEF HeaderWellFormed
    <3>2. d <= c
      BY <1>1, <1>3, <3>1 DEF Tchar
    <3> QED  BY <1>0, <1>1, <1>3, <1>4, <3>1, <3>2
  <2>3. Malformed
    BY <1>1, <2>1, <2>2 DEF Malformed
  <2> QED  BY <1>4, <2>3, FailExplained DEF ValueByte, Statuses
<1>5. CASE text[cur] \in FieldContent
  <2>1. /\ value' = Append(value, text[cur]) /\ cur' = cur + 1
        /\ UNCHANGED <<text, size, body_start, at, eol, limit, path, query, into, key, headers, status>>
    BY <1>5 DEF ValueByte, recvVars, lineVars
  <2>2. StartsAt(p)' /\ TargetKept'
    BY <1>1, <1>2, <2>1, KeptStays
  <2>3. ValueRead(value, f, cur)'
    <3>1. Append(SubSeq(text, f, cur - 1), text[cur]) = SubSeq(text, f, cur)
      BY <1>0, <1>1, <1>3, Extend
    <3>2. value' = SubSeq(text', f, cur' - 1)
      BY <1>1, <1>3, <2>1, <3>1
    <3>3. \A i \in f .. cur' - 1 : text'[i] \in FieldContent
      BY <1>1, <1>3, <1>5, <2>1
    <3> QED  BY <3>2, <3>3 DEF ValueRead
  <2>4. KeyRead(key, p, c)' /\ ValueCut(c, f, limit, eol)' /\ Unbroken(p, eol)' /\ text'[c] = "COLON"
    BY <1>3, <2>1 DEF KeyRead, ValueCut, Unbroken, CrlfAt
  <2>5. p < c /\ c < f /\ f <= cur' /\ eol' - c - 1 < HTTP_MAX_HEADER_VALUE_LEN
    BY <1>1, <1>3, <2>1
  <2>6. InValue(p, c, f)'
    BY <2>3, <2>4, <2>5 DEF InValue
  <2>7. p \in 3 .. cur' /\ c \in 3 .. cur' /\ f \in 3 .. cur'
    BY <1>1, <2>1
  <2>8. (\E p_1, c_1, f_1 \in 3 .. cur : StartsAt(p_1) /\ InValue(p_1, c_1, f_1))'
    BY <2>2, <2>6, <2>7
  <2> QED
    BY <1>0, <1>1, <2>1, <2>2, <2>8 DEF HeadInv, FirstLine, Past, LinesRead, StatusSet, Explained
<1> QED  BY <1>4, <1>5

(* One more header for one more line. *)
LEMMA LinesGrow ==
  ASSUME IInv, Term \in Int, NEW p \in Int, NEW e \in Int, 2 < p, p < e, e <= Term,
         CrlfAt(p - 2), CrlfAt(e), Unbroken(p, e), LinesKept(Before(p)),
         NEW h, LineKept(h, <<p, e>>), headers' = Append(headers, h), UNCHANGED <<text, body_start>>
  PROVE  StartsAt(e + 2)'
<1> DEFINE l == <<p, e>>
           B == Before(p)
           n == Len(headers)
<1>1. /\ l \in HeaderLines /\ l \notin B /\ Before(e + 2) = B \union {l} /\ B \subseteq HeaderLines
      /\ {m \in HeaderLines : m[1] <= p} = B \union {l}
  BY LineAdded DEF Before
<1>2. IsFiniteSet(B)
  BY <1>1, LinesFinite
<1>3. Cardinality(B) = n /\ \A m \in B : Rank(m) \in 1 .. n /\ LineKept(headers[Rank(m)], m)
  BY DEF LinesKept
<1>4. Cardinality(B \union {l}) = n + 1
  <2> HIDE DEF B, l, n
  <2> QED  BY <1>1, <1>2, <1>3, FS_AddElement
<1>5. Rank(l) = n + 1
  <2>1. l[1] = p
    OBVIOUS
  <2> HIDE DEF l
  <2> QED  BY <1>1, <1>4, <2>1 DEF Rank
<1>6. /\ n \in Nat /\ Len(headers') = n + 1 /\ headers'[n + 1] = h
      /\ \A i \in 1 .. n : headers'[i] = headers[i]
  <2>1. headers \in Seq([key : Seq(Bytes), value : Seq(Bytes)])
    BY Types
  <2> QED  BY <2>1
<1>7. ASSUME NEW m \in B \union {l}
      PROVE  Rank(m) \in 1 .. n + 1 /\ LineKept(headers'[Rank(m)], m)
  <2>1. CASE m = l
    <3>1. Rank(m) = n + 1 /\ headers'[Rank(m)] = h /\ LineKept(h, m)
      BY <1>5, <1>6, <2>1
    <3> QED  BY <1>6, <3>1
  <2>2. CASE m \in B
    <3>1. Rank(m) \in 1 .. n /\ LineKept(headers[Rank(m)], m)
      BY <1>3, <2>2
    <3>2. headers'[Rank(m)] = headers[Rank(m)]
      BY <1>6, <3>1
    <3> QED  BY <1>6, <3>1, <3>2
  <2> QED  BY <1>7, <2>1, <2>2
<1>8. LinesKept(Before(e + 2))'
  <2>1. Before(e + 2)' = B \union {l}
    BY <1>1, LinesStay DEF Before
  <2>2. ASSUME NEW m \in B \union {l}
        PROVE  (Rank(m) \in 1 .. Len(headers) /\ \E g \in {headers[Rank(m)]} : LineKept(g, m))'
    <3>1. PICK g : g = headers'[Rank(m)]
      OBVIOUS
    <3>2. Rank(m)' = Rank(m) /\ Rank(m) \in 1 .. n + 1 /\ LineKept(g, m)
      BY <1>7, <2>2, <3>1, LinesStay
    <3>3. LineKept(g, m)'
      BY <3>2, LineKeptStays
    <3> QED  BY <1>6, <3>1, <3>2, <3>3
  <2>3. Cardinality(Before(e + 2)') = Len(headers')
    BY <1>4, <1>6, <2>1
  <2> HIDE DEF B, l, n
  <2> QED  BY <2>1, <2>2, <2>3 DEF LinesKept
<1>9. 2 < e + 2 /\ CrlfAt((e + 2) - 2)'
  <2>1. (e + 2) - 2 = e
    OBVIOUS
  <2> QED  BY <2>1 DEF CrlfAt
<1> QED  BY <1>8, <1>9 DEF StartsAt

LEMMA ValueEndHead ==
  ASSUME IInv, IInv', HeadInv, ValueEnd
  PROVE  HeadInv'
<1>0. at = "value" /\ cur >= limit
  BY DEF ValueEnd
<1>1. /\ cur \in Int /\ limit \in Int /\ eol \in Int /\ Term \in Int /\ text \in Seq(Bytes) /\ Len(text) \in Nat
      /\ cur = limit /\ limit <= eol /\ eol <= Term /\ limit <= Len(text) /\ CrlfAt(eol)
      /\ TargetKept /\ status = "none" /\ body_start > 0
  BY <1>0, ValueFacts
<1>2. PICK p, c, f \in 3 .. cur : StartsAt(p) /\ InValue(p, c, f)
  BY <1>0, ValueFacts
<1>3. /\ p < c /\ c < f /\ f <= cur /\ Unbroken(p, eol) /\ text[c] = "COLON"
      /\ KeyRead(key, p, c) /\ ValueCut(c, f, limit, eol) /\ eol - c - 1 < HTTP_MAX_HEADER_VALUE_LEN
      /\ ValueRead(value, f, cur)
  BY <1>2 DEF InValue
<1>4. PICK e \in Int : e = eol
  BY <1>1
<1>5. /\ p \in Int /\ 2 < p /\ p < e /\ e <= Term /\ CrlfAt(p - 2) /\ CrlfAt(e) /\ Unbroken(p, e)
      /\ LinesKept(Before(p))
  BY <1>1, <1>2, <1>3, <1>4 DEF StartsAt
<1>6. CASE Len(headers) >= HTTP_MAX_HEADERS
  <2>1. <<p, e>> \in HeaderLines /\ <<p, e>> \notin Before(p) /\ Before(p) \subseteq HeaderLines
    BY <1>1, <1>5, LineAdded DEF Before
  <2> DEFINE more == Before(p) \union {<<p, e>>}
  <2>2. more \in SUBSET HeaderLines /\ IsFiniteSet(HeaderLines) /\ IsFiniteSet(Before(p))
    BY <1>1, <2>1, LinesFinite
  <2>3. Cardinality(more) = Len(headers) + 1
    BY <1>5, <2>1, <2>2, FS_AddElement DEF LinesKept
  <2>4. Cardinality(more) <= Cardinality(HeaderLines) /\ Cardinality(HeaderLines) \in Nat
    <3> HIDE DEF more
    <3> QED  BY <2>2, FS_Subset, FS_CardinalityType
  <2>5. Len(headers) \in Nat /\ HTTP_MAX_HEADERS \in Nat
    BY Types, CapsAssumption
  <2>6. HeadLong
    <3> HIDE DEF more
    <3>1. Cardinality(HeaderLines) > HTTP_MAX_HEADERS
      BY <1>6, <2>3, <2>4, <2>5
    <3>2. body_start # 0
      BY <1>1, Types
    <3> QED  BY <3>1, <3>2 DEF HeadLong
  <2> QED  BY <1>6, <2>6, FailExplained DEF ValueEnd, Statuses
<1>7. CASE ~(Len(headers) >= HTTP_MAX_HEADERS)
  <2>1. PICK h : h = [key |-> key, value |-> value]
    OBVIOUS
  <2>2. /\ headers' = Append(headers, h) /\ at' = "line_end" /\ cur' = eol
        /\ UNCHANGED <<text, size, body_start, path, query, into, status>>
    BY <1>7, <2>1 DEF ValueEnd, recvVars, lineVars
  <2>3. LineKept(h, <<p, e>>)
    <3>1. h.key = key /\ h.value = value
      BY <2>1
    <3>2. c - p < HTTP_MAX_HEADER_KEY_LEN
      <4>1. Len(key) = c - p
        BY <1>1, <1>3, Slice DEF KeyRead
      <4> QED  BY <4>1 DEF IInv, TypeOK
    <3>3. c \in p + 1 .. e - 1 /\ f \in c + 1 .. e /\ cur \in f .. e
      BY <1>1, <1>3, <1>4
    <3>4. KeyRead(h.key, p, c) /\ ValueRead(h.value, f, cur) /\ ValueCut(c, f, cur, e) /\ e - c - 1 < HTTP_MAX_HEADER_VALUE_LEN
      BY <1>1, <1>3, <1>4, <3>1
    <3> DEFINE l == <<p, e>>
    <3>5. l[1] = p /\ l[2] = e
      OBVIOUS
    <3> HIDE DEF l
    <3>6. LineKept(h, l)
      BY <1>3, <3>2, <3>3, <3>4, <3>5 DEF LineKept
    <3> QED  BY <3>6 DEF l
  <2>4. StartsAt(e + 2)'
    BY <1>1, <1>5, <2>2, <2>3, LinesGrow
  <2>5. StartsAt(cur + 2)'
    BY <1>4, <2>2, <2>4 DEF StartsAt, Before, LinesKept
  <2>6. TargetKept'
    BY <1>1, <2>2, KeptStays
  <2> QED
    BY <1>0, <1>1, <2>2, <2>5, <2>6 DEF HeadInv, FirstLine, Past, LinesRead, StatusSet, Explained
<1> QED  BY <1>6, <1>7

-----------------------------------------------------------------------------
(* The whole of it *)

(* Steps that touch nothing of what was read. *)
LEMMA RestHead ==
  ASSUME IInv, HeadInv, NextField \/ FieldsEnd \/ CodingElement \/ CodingsEnd \/ UNCHANGED vars
  PROVE  HeadInv'
<1>1. CASE UNCHANGED vars
  <2>1. UNCHANGED <<text, size, body_start, at, cur, eol, limit, path, query, into, key, value, headers, status>>
    BY <1>1 DEF vars, recvVars, lineVars, fieldVars
  <2>2. /\ FirstLine' /\ StatusSet'
    BY <2>1 DEF HeadInv, FirstLine, StatusSet, Unbroken, CrlfAt, Checked, PartsKept
  <2>3. (Past => TargetKept)'
    BY <2>1, KeptStays DEF HeadInv, Past
  <2>4. Explained'
    BY <2>1, ReasonsStay DEF HeadInv, Explained
  <2>5. LinesRead'
    <3>1. ASSUME NEW p \in Int, StartsAt(p) PROVE StartsAt(p)'
      BY <2>1, <3>1, KeptStays
    <3>2. (at = "line_end" => StartsAt(cur + 2))' /\ (at = "header_line" => StartsAt(cur))'
      <4>1. cur \in Int
        BY Types
      <4>2. PICK p \in Int, q \in Int : p = cur + 2 /\ q = cur
        BY <4>1
      <4>3. (at = "line_end" => StartsAt(p)') /\ (at = "header_line" => StartsAt(q)')
        BY <3>1, <4>2 DEF HeadInv, LinesRead
      <4> QED  BY <2>1, <4>2, <4>3 DEF StartsAt, Before, LinesKept
    <3>3. (at = "key" => \E p \in 3 .. cur : StartsAt(p) /\ InKey(p))'
      <4>1. \A p \in 3 .. cur : InKey(p) => InKey(p)'
        BY <2>1 DEF InKey, KeyRead, Unbroken, CrlfAt
      <4>2. at = "key" => \E p \in 3 .. cur : StartsAt(p)' /\ InKey(p)'
        BY <3>1, <4>1 DEF HeadInv, LinesRead
      <4> QED  BY <2>1, <4>2
    <3>4. (at = "value" => \E p, c, f \in 3 .. cur : StartsAt(p) /\ InValue(p, c, f))'
      <4>1. \A p, c, f \in 3 .. cur : InValue(p, c, f) => InValue(p, c, f)'
        BY <2>1 DEF InValue, KeyRead, ValueRead, ValueCut, Unbroken, CrlfAt
      <4>2. at = "value" => \E p, c, f \in 3 .. cur : StartsAt(p)' /\ InValue(p, c, f)'
        BY <3>1, <4>1 DEF HeadInv, LinesRead
      <4> QED  BY <2>1, <4>2
    <3>5. (at \in {"codings", "element"} \/ status = "PARSE_OK" => LinesKept(HeaderLines))'
      BY <2>1, KeptStays DEF HeadInv, LinesRead
    <3> QED  BY <3>2, <3>3, <3>4, <3>5 DEF LinesRead
  <2> QED  BY <2>2, <2>3, <2>4, <2>5 DEF HeadInv
<1>2. CASE NextField \/ FieldsEnd \/ CodingElement \/ CodingsEnd
  <2>1. /\ at \in {"codings", "element"} /\ at' \in {"codings", "element", "done"}
        /\ UNCHANGED <<text, size, body_start, path, query, into, headers, status>>
    <3>1. CASE NextField
      BY <3>1 DEF NextField, recvVars, lineVars
    <3>2. CASE FieldsEnd
      BY <3>2 DEF FieldsEnd, recvVars, lineVars
    <3>3. CASE CodingElement
      <4>1. PICK val : val = headers[field].value
        OBVIOUS
      <4>2. at = "element" /\ Element(val) /\ UNCHANGED <<text, size, body_start, path, query, into, headers, status>>
        BY <3>3, <4>1 DEF CodingElement, recvVars, lineVars
      <4>3. at' \in {"codings", "element"}
        <5>1. val \in Seq(Bytes)
          <6>1. field \in 1 .. Len(headers) /\ headers \in Seq([key : Seq(Bytes), value : Seq(Bytes)])
            BY <4>2 DEF IInv, TypeOK, InField
          <6>2. headers[field] \in [key : Seq(Bytes), value : Seq(Bytes)]
            BY <6>1, Item
          <6> QED  BY <4>1, <6>2
        <5>2. \/ UNCHANGED at
              \/ Coding("PARSE_BAD_REQUEST", "TE_NONE")
          BY <4>2, <5>1, ElementSteps
        <5> QED  BY <4>2, <5>2 DEF Coding
      <4> QED  BY <4>2, <4>3
    <3>4. CASE CodingsEnd
      BY <3>4 DEF CodingsEnd, Coding, recvVars, lineVars
    <3> QED  BY <1>2, <3>1, <3>2, <3>3, <3>4
  <2>2. status = "PARSE_OK" /\ TargetKept /\ LinesKept(HeaderLines)
    BY <2>1 DEF HeadInv, StatusSet, Past, LinesRead
  <2>3. TargetKept' /\ LinesKept(HeaderLines)' /\ status' = "PARSE_OK"
    BY <2>1, <2>2, KeptStays
  <2> QED
    BY <2>1, <2>3 DEF HeadInv, FirstLine, Past, LinesRead, StatusSet, Explained
<1> QED  BY <1>1, <1>2

LEMMA HeadInvInit == Init => HeadInv
BY DEF Init, HeadInv, FirstLine, Past, LinesRead, StatusSet, Explained

LEMMA HeadInvNext == IInv /\ IInv' /\ HeadInv /\ [Next]_vars => HeadInv'
BY RecvHead, TooLargeHead, HeadReceivedHead, MethodHead, UriStartHead, UriByteHead, UriEndHead, VersionHead,
   LineEndHead, HeadersEndHead, HeaderLineHead, KeyByteHead, ValueStartHead, ValueByteHead, ValueEndHead, RestHead
   DEF Next, Parse

(* What the parser has found out of the head is true of it at every step.  *)
THEOREM HeadIsRead == Spec => []HeadInv
BY InitHolds, NextKeeps, HeadInvInit, HeadInvNext, PTL DEF Spec


-----------------------------------------------------------------------------
(* From what was found out to the properties *)

(* The query's start is unique, and the property's CHOOSE finds it. *)
LEMMA QueryIs ==
  ASSUME NEW b \in Int, NEW q \in 3 .. b, QueryStart(q, b)
  PROVE  QueryAt(3, b) = q
<1> DEFINE Starts(r) == (r = b \/ text[r] = "QUEST") /\ \A k \in 3 .. r - 1 : text[k] # "QUEST"
<1>1. Starts(q)
  BY DEF QueryStart
<1>2. \A r \in 3 .. b : Starts(r) => r = q
  <2> TAKE r \in 3 .. b
  <2>1. ASSUME Starts(r), r < q PROVE FALSE
    BY <1>1, <2>1
  <2>2. ASSUME Starts(r), q < r PROVE FALSE
    BY <1>1, <2>2
  <2> QED  BY <2>1, <2>2
<1>3. QueryAt(3, b) = CHOOSE r \in 3 .. b : Starts(r)
  BY DEF QueryAt
<1> HIDE DEF Starts
<1> QED  BY <1>1, <1>2, <1>3

LEMMA KeptFits ==
  ASSUME IInv, NEW b \in Int, 3 < b, b <= Len(text) + 1, PartsKept(b)
  PROVE  TargetFits(3, b)
<1>1. text \in Seq(Bytes) /\ Len(path) < HTTP_MAX_PATH_LEN /\ Len(query) < HTTP_MAX_QUERY_LEN /\ HTTP_MAX_QUERY_LEN > 0
  BY CapsAssumption DEF IInv, TypeOK
<1>2. CASE into = "path"
  <2>1. path = SubSeq(text, 3, b - 1) /\ QueryStart(b, b)
    BY <1>2 DEF PartsKept, QueryStart
  <2>2. QueryAt(3, b) = b /\ Len(path) = b - 3
    BY <1>1, <2>1, QueryIs, Slice
  <2> QED  BY <1>1, <2>2 DEF TargetFits
<1>3. CASE into # "path"
  <2>1. PICK q \in 3 .. b - 1 : /\ text[q] = "QUEST" /\ \A k \in 3 .. q - 1 : text[k] # "QUEST"
                                /\ path = SubSeq(text, 3, q - 1) /\ query = SubSeq(text, q, b - 1)
    BY <1>3 DEF PartsKept
  <2>2. q \in 3 .. b /\ QueryStart(q, b)
    BY <2>1 DEF QueryStart
  <2>3. QueryAt(3, b) = q
    BY <2>2, QueryIs
  <2>4. Len(path) = q - 3 /\ Len(query) = b - q
    BY <1>1, <2>1, Slice
  <2> QED  BY <1>1, <2>3, <2>4 DEF TargetFits
<1> QED  BY <1>2, <1>3

LEMMA LongDoesNotFit ==
  ASSUME NEW b \in Int, NEW q \in 3 .. b, QueryStart(q, b),
         q - 3 >= HTTP_MAX_PATH_LEN \/ b - q >= HTTP_MAX_QUERY_LEN
  PROVE  ~TargetFits(3, b)
BY QueryIs, CapsAssumption DEF TargetFits

LEMMA KeptIsWellFormed ==
  ASSUME Term \in Int, NEW l \in HeaderLines, NEW h, LineKept(h, l)
  PROVE  HeaderWellFormed(l)
<1>1. l[1] \in Int /\ l[2] \in Int
  BY LineFacts
<1>2. PICK c \in l[1] + 1 .. l[2] - 1 : \E f \in c + 1 .. l[2] : \E g \in f .. l[2] :
     /\ text[c] = "COLON" /\ KeyRead(h.key, l[1], c) /\ ValueRead(h.value, f, g) /\ ValueCut(c, f, g, l[2])
     /\ c - l[1] < HTTP_MAX_HEADER_KEY_LEN /\ l[2] - c - 1 < HTTP_MAX_HEADER_VALUE_LEN
  BY DEF LineKept
<1>3. PICK f \in c + 1 .. l[2], g \in c + 1 .. l[2] : ValueRead(h.value, f, g) /\ ValueCut(c, f, g, l[2])
  BY <1>1, <1>2
<1>4. ASSUME NEW i \in c + 1 .. l[2] - 1 PROVE text[i] \in FieldContent
  <2>1. i \in c + 1 .. f - 1 \/ i \in f .. g - 1 \/ i \in g .. l[2] - 1
    BY <1>1, <1>3
  <2> QED  BY <1>3, <2>1 DEF ValueRead, ValueCut, FieldContent
<1> QED  BY <1>2, <1>4 DEF HeaderWellFormed, KeyRead

-----------------------------------------------------------------------------
LEMMA Found ==
  ASSUME IInv, body_start > 0
  PROVE  Term \in Int /\ Term + 3 <= Len(text) /\ text \in Seq(Bytes) /\ Len(text) \in Nat
BY DEF IInv, TypeOK, HeadFound, Term

LEMMA OkIsTrue ==
  ASSUME IInv, HeadInv, body_start > 0, status = "PARSE_OK"
  PROVE  WellFormed
<1>0. Term \in Int /\ Term + 3 <= Len(text) /\ text \in Seq(Bytes) /\ Len(text) \in Nat
  BY Found
<1>1. TargetKept /\ LinesKept(HeaderLines)
  BY DEF HeadInv, Past, LinesRead
<1>2. \E b \in Places : RequestLine(b, {"V1"}) /\ TargetWellFormed(3, b) /\ TargetFits(3, b)
  <2>1. PICK b \in Places : RequestLine(b, {"V1"}) /\ TargetWellFormed(3, b) /\ PartsKept(b)
    BY <1>1 DEF TargetKept
  <2>2. b \in Int /\ 3 < b /\ b <= Len(text) + 1
    BY <1>0, <2>1 DEF Places, Term, RequestLine
  <2> QED  BY <2>1, <2>2, KeptFits
<1>3. \A l \in HeaderLines : HeaderWellFormed(l)
  BY <1>0, <1>1, KeptIsWellFormed DEF LinesKept
<1>4. Cardinality(HeaderLines) <= HTTP_MAX_HEADERS
  BY <1>1 DEF LinesKept, IInv, TypeOK
<1> QED  BY <1>2, <1>3, <1>4 DEF WellFormed

LEMMA RefusedIsIllFormed ==
  ASSUME IInv, HeadInv, body_start > 0, status \notin {"none", "PARSE_OK"}
  PROVE  ~WellFormed
<1> SUFFICES ASSUME WellFormed PROVE FALSE
  OBVIOUS
<1>0. Term \in Int /\ Term + 3 <= Len(text) /\ text \in Seq(Bytes) /\ Len(text) \in Nat
  BY Found
<1>1. PICK b \in Places : RequestLine(b, {"V1"}) /\ TargetWellFormed(3, b) /\ TargetFits(3, b)
  BY DEF WellFormed
<1>2. b \in Int
  BY <1>1 DEF Places
<1>3. status \in Statuses
  BY DEF IInv, TypeOK
<1>4. CASE status = "PARSE_BAD_REQUEST"
  BY <1>1, <1>4 DEF HeadInv, Explained, Malformed, WellFormed
<1>5. CASE status = "PARSE_URI_TOO_LONG"
  <2>1. PICK n \in 4 .. Term : /\ text[n] = "SP" /\ \A k \in 3 .. n - 1 : text[k] # "SP" /\ ~CrlfAt(k)
                               /\ \E q \in 3 .. n : /\ QueryStart(q, n)
                                                    /\ q - 3 >= HTTP_MAX_PATH_LEN \/ n - q >= HTTP_MAX_QUERY_LEN
    BY <1>5 DEF HeadInv, Explained, UriLong
  <2>2. b = n
    BY <1>0, <1>1, <1>2, <2>1, SpaceEnds
  <2> QED  BY <1>1, <1>2, <2>1, <2>2, LongDoesNotFit
<1>6. CASE status = "PARSE_HEADER_KEY_TOO_LONG"
  <2>1. PICK l \in HeaderLines : \E c \in l[1] + HTTP_MAX_HEADER_KEY_LEN .. l[2] - 1 :
           text[c] = "COLON" /\ \A k \in l[1] .. c - 1 : text[k] # "COLON"
    BY <1>6 DEF HeadInv, Explained, KeyLong
  <2>2. HeaderWellFormed(l) /\ l[1] \in Int /\ l[2] \in Int /\ HTTP_MAX_HEADER_KEY_LEN \in Int
    BY <1>0, <2>1, LineFacts, CapsAssumption DEF WellFormed
  <2>3. PICK d \in l[1] + 1 .. l[2] - 1 : text[d] = "COLON" /\ d - l[1] < HTTP_MAX_HEADER_KEY_LEN
    BY <2>2 DEF HeaderWellFormed
  <2> QED  BY <2>1, <2>2, <2>3
<1>7. CASE status = "PARSE_HEADER_VALUE_TOO_LONG"
  <2>1. PICK l \in HeaderLines : \E c \in l[1] .. l[2] : text[c] = "COLON" /\ l[2] - c > HTTP_MAX_HEADER_VALUE_LEN
    BY <1>7 DEF HeadInv, Explained, ValueLong
  <2>2. HeaderWellFormed(l) /\ l[1] \in Int /\ l[2] \in Int /\ HTTP_MAX_HEADER_VALUE_LEN \in Int
    BY <1>0, <2>1, LineFacts, CapsAssumption DEF WellFormed
  <2>3. PICK d \in l[1] + 1 .. l[2] - 1 : /\ \A i \in l[1] .. d - 1 : text[i] \in Tchar
                                          /\ l[2] - d - 1 < HTTP_MAX_HEADER_VALUE_LEN
    BY <2>2 DEF HeaderWellFormed
  <2>4. "COLON" \notin Tchar
    BY DEF Tchar
  <2> QED  BY <2>1, <2>2, <2>3, <2>4
<1>8. CASE status = "PARSE_HEADER_TOO_LONG"
  <2>1. Cardinality(HeaderLines) > HTTP_MAX_HEADERS
    BY <1>8 DEF HeadInv, Explained, HeadLong
  <2>2. Cardinality(HeaderLines) \in Nat /\ HTTP_MAX_HEADERS \in Nat
    BY <1>0, LinesFinite, FS_CardinalityType, CapsAssumption
  <2> QED  BY <2>1, <2>2 DEF WellFormed
<1>9. CASE status = "PARSE_VERSION_NOT_SUPPORTED"
  <2>1. PICK n \in Places : RequestLine(n, {"V2"})
    BY <1>9 DEF HeadInv, Explained, OtherVersion
  <2>2. n \in Int
    BY <2>1 DEF Places
  <2>3. CrlfAt(b + 2) /\ Unbroken(1, b + 2) /\ CrlfAt(n + 2) /\ Unbroken(1, n + 2) /\ b > 3 /\ n > 3
    BY <1>1, <2>1 DEF RequestLine, IsLine, Unbroken
  <2>4. b + 2 = n + 2
    BY <1>2, <2>2, <2>3, SameEnd
  <2>5. b = n
    BY <1>2, <2>2, <2>4
  <2> QED  BY <1>1, <2>1, <2>5 DEF RequestLine
<1> QED  BY <1>3, <1>4, <1>5, <1>6, <1>7, <1>8, <1>9 DEF Statuses, HeadInv, Explained

LEMMA RefusalHolds ==
  ASSUME IInv, HeadInv
  PROVE  RefusalIsTrue
<1>1. ASSUME status = "PARSE_URI_TOO_LONG"
      PROVE  \E b \in 4 .. body_start - 4 : /\ text[b] = "SP" /\ \A k \in 3 .. b - 1 : text[k] # "SP" /\ ~CrlfAt(k)
                                             /\ ~TargetFits(3, b)
  <2>1. PICK b \in 4 .. Term : /\ text[b] = "SP" /\ \A k \in 3 .. b - 1 : text[k] # "SP" /\ ~CrlfAt(k)
                               /\ \E q \in 3 .. b : /\ QueryStart(q, b)
                                                    /\ q - 3 >= HTTP_MAX_PATH_LEN \/ b - q >= HTTP_MAX_QUERY_LEN
    BY <1>1 DEF HeadInv, Explained, UriLong
  <2>2. ~TargetFits(3, b)
    BY <2>1, LongDoesNotFit
  <2> QED  BY <2>1, <2>2 DEF Term
<1> QED  BY <1>1 DEF RefusalIsTrue, HeadInv, Explained, KeyLong, ValueLong, HeadLong, OtherVersion

LEMMA HeadHolds ==
  ASSUME IInv, HeadInv, at \in {"codings", "element"}
  PROVE  /\ \E b \in Places : RequestLine(b, {"V1"}) /\ path \o query = SubSeq(text, 3, b - 1)
         /\ Len(headers) = Cardinality(HeaderLines)
         /\ \A l \in HeaderLines :
               /\ headers[Rank(l)].key \o <<"COLON">> = SubSeq(text, l[1], l[1] + Len(headers[Rank(l)].key))
               /\ headers[Rank(l)].value = Trimmed(SubSeq(text, l[1] + Len(headers[Rank(l)].key) + 1, l[2] - 1))
<1>0. Term \in Int /\ Term + 3 <= Len(text) /\ text \in Seq(Bytes) /\ Len(text) \in Nat
  BY Types, Found
<1>1. TargetKept /\ LinesKept(HeaderLines)
  BY DEF HeadInv, Past, LinesRead
<1>2. \E b \in Places : RequestLine(b, {"V1"}) /\ path \o query = SubSeq(text, 3, b - 1)
  <2>1. PICK b \in Places : RequestLine(b, {"V1"}) /\ PartsKept(b)
    BY <1>1 DEF TargetKept
  <2>2. b \in Int /\ 3 < b /\ b <= Len(text) + 1
    BY <1>0, <2>1 DEF Places, Term, RequestLine
  <2>3. CASE into = "path"
    <3>1. path = SubSeq(text, 3, b - 1) /\ query = <<>> /\ path \in Seq(Bytes)
      BY <2>1, <2>3 DEF PartsKept, IInv, TypeOK
    <3>2. path \o <<>> = path
      BY <3>1, ConcatEmptySeq
    <3> QED  BY <2>1, <3>1, <3>2
  <2>4. CASE into # "path"
    <3>1. PICK q \in 3 .. b - 1 : path = SubSeq(text, 3, q - 1) /\ query = SubSeq(text, q, b - 1)
      BY <2>1, <2>4 DEF PartsKept
    <3> DEFINE k == q - 1
               n == b - 1
    <3>2. 3 \in 1 .. Len(text) + 1 /\ k \in 3 - 1 .. Len(text) /\ n \in k .. Len(text) /\ k + 1 = q
      BY <1>0, <2>2, <3>1
    <3>3. SubSeq(text, 3, k) \o SubSeq(text, k + 1, n) = SubSeq(text, 3, n)
      <4> HIDE DEF k, n
      <4> QED  BY <1>0, <3>2, ConcatAdjacentSubSeq
    <3> QED  BY <2>1, <3>1, <3>2, <3>3
  <2> QED  BY <2>3, <2>4
<1>3. ASSUME NEW l \in HeaderLines, NEW h, h = headers[Rank(l)]
      PROVE  /\ h.key \o <<"COLON">> = SubSeq(text, l[1], l[1] + Len(h.key))
             /\ h.value = Trimmed(SubSeq(text, l[1] + Len(h.key) + 1, l[2] - 1))
  <2>1. LineKept(h, l)
    BY <1>1, <1>3 DEF LinesKept
  <2>2. l[1] \in Int /\ l[2] \in Int /\ 2 < l[1] /\ l[2] <= Len(text)
    BY <1>0, <1>3, LineFacts
  <2>3. PICK c \in l[1] + 1 .. l[2] - 1 : \E f \in c + 1 .. l[2] : \E g \in f .. l[2] :
           /\ text[c] = "COLON" /\ KeyRead(h.key, l[1], c) /\ ValueRead(h.value, f, g) /\ ValueCut(c, f, g, l[2])
    BY <2>1 DEF LineKept
  <2>4. PICK f \in c + 1 .. l[2] : \E g \in f .. l[2] : ValueRead(h.value, f, g) /\ ValueCut(c, f, g, l[2])
    BY <2>3
  <2>5. PICK g \in f .. l[2] : ValueRead(h.value, f, g) /\ ValueCut(c, f, g, l[2])
    BY <2>4
  <2>6. h.key = SubSeq(text, l[1], c - 1) /\ h.value = SubSeq(text, f, g - 1)
    BY <2>3, <2>5 DEF KeyRead, ValueRead
  <2>7. Len(h.key) = c - l[1] /\ h.key \o <<"COLON">> = SubSeq(text, l[1], c)
    <3>1. c \in Int /\ 1 <= l[1] /\ l[1] <= c /\ c <= Len(text)
      BY <2>2, <2>3
    <3>2. Len(SubSeq(text, l[1], c - 1)) = c - l[1]
      BY <1>0, <2>2, <3>1, Slice
    <3>3. SubSeq(text, l[1], c - 1) \o <<text[c]>> = SubSeq(text, l[1], c)
      BY <1>0, <2>2, <3>1, Extend
    <3> QED  BY <2>3, <2>6, <3>2, <3>3
  <2>8. Trimmed(SubSeq(text, c + 1, l[2] - 1)) = h.value
    <3>1. c \in Int /\ f \in Int /\ g \in Int /\ 1 <= c /\ c < f /\ f <= g /\ g <= l[2]
      BY <2>2, <2>3, <2>4, <2>5
    <3>2. PICK e \in Int : e = l[2]
      BY <2>2
    <3>3. Cuts(text, c + 1, f, g, e)
      <4>1. f <= e /\ e <= Len(text)
        BY <2>2, <3>1, <3>2
      <4>2. ValueCut(c, f, g, e)
        BY <2>5, <3>2, Zenon
      <4> QED  BY <3>1, <3>2, <4>1, <4>2 DEF ValueCut, Cuts
    <3>4. PICK i, j, m, n : i = c + 1 /\ j = f /\ m = g /\ n = e
      OBVIOUS
    <3>5. Trimmed(SubSeq(text, i, n - 1)) = SubSeq(text, j, m - 1)
      <4>1. Cuts(text, i, j, m, n)
        BY <3>3, <3>4, Zenon
      <4> QED  BY <1>0, <4>1, TrimIs
    <3> QED  BY <2>6, <3>2, <3>4, <3>5
  <2>9. l[1] + Len(h.key) = c
    BY <2>2, <2>3, <2>7
  <2> QED  BY <2>7, <2>8, <2>9
<1>4. Len(headers) = Cardinality(HeaderLines)
  BY <1>1 DEF LinesKept
<1> QED  BY <1>2, <1>3, <1>4

(* The head is accepted exactly if it is well formed and fits, for every   *)
(* text, every capacity, every way the bytes arrive and whatever follows   *)
(* the head in the buffer: the verdict of request_parse, reached line by   *)
(* line, is the one the bytes between the first and the last line deserve. *)
THEOREM VerdictIsTrue == Spec => []OkIsWellFormed
<1>1. IInv /\ HeadInv => OkIsWellFormed
  BY OkIsTrue, RefusedIsIllFormed DEF OkIsWellFormed, Parsing
<1> QED  BY Invariance, HeadIsRead, <1>1, PTL

(* A refusal for a limit or for the version (the statuses that become 414, *)
(* 431 and 505) is given only for the reason it names.                     *)
THEOREM ReasonIsTrue == Spec => []RefusalIsTrue
<1>1. IInv /\ HeadInv => RefusalIsTrue
  BY RefusalHolds
<1> QED  BY Invariance, HeadIsRead, <1>1, PTL

(* Path, query and headers of an accepted request are the target and the   *)
(* header lines that were sent, in their order, and nothing else.          *)
THEOREM RequestIsRead == Spec => []RequestIsHead
<1>1. IInv /\ HeadInv => RequestIsHead
  <2> SUFFICES ASSUME IInv, HeadInv, at \in {"codings", "element"}
               PROVE  RequestIsHead
    BY DEF RequestIsHead
  <2> QED  BY HeadHolds DEF RequestIsHead, Rank
<1> QED  BY Invariance, HeadIsRead, <1>1, PTL
=============================================================================
