----------------------------- MODULE FramingProofs -----------------------------
(***************************************************************************)
(* That a connection keeps its place in the stream of a well-framed        *)
(* client, for every size of the buffers, every catalogue of requests,     *)
(* every stream and every way it arrives in fragments; and what follows:   *)
(* req_buf begins with the next request, client and server never wait for  *)
(* each other, and Connection implements the promise of Session.           *)
(*                                                                         *)
(* The chunks of a body are a set of positions (Framing), so that a call   *)
(* of the decoder is related to the one chunk it is in, and nothing is     *)
(* proved by induction over the body.                                      *)
(***************************************************************************)
EXTENDS ConnectionProofs, Framing, FiniteSetTheorems

-----------------------------------------------------------------------------
(* What the scanners find in a window of a stream, which is what has been  *)
(* received, is what they would find in the stream.                        *)

(* What occurs in a prefix is what occurs in the whole and ends in it. *)
LEMMA PrefixOccurrences ==
  ASSUME NEW s \in Seq(STRING), NEW m \in 0 .. Len(s), NEW pat, Len(pat) \in Nat
  PROVE  Occurrences(SubSeq(s, 1, m), pat) = {i \in Occurrences(s, pat) : i + Len(pat) <= m}
<1>1. Len(s) \in Nat /\ m \in Nat /\ m <= Len(s)
  OBVIOUS
<1>2. Len(SubSeq(s, 1, m)) = m /\ \A k \in 1 .. m : SubSeq(s, 1, m)[k] = s[k]
  BY <1>1
<1>3. ASSUME NEW i PROVE i \in Occurrences(SubSeq(s, 1, m), pat) <=> i \in Occurrences(s, pat) /\ i + Len(pat) <= m
  <2>1. i \in 0 .. (m - Len(pat)) <=> i \in 0 .. (Len(s) - Len(pat)) /\ i + Len(pat) <= m
    BY <1>1
  <2>2. i \in 0 .. (m - Len(pat)) => \A k \in 1 .. Len(pat) : SubSeq(s, 1, m)[i + k] = s[i + k]
    BY <1>1, <1>2
  <2> QED
    BY <1>2, <2>1, <2>2 DEF Occurrences
<1> QED
  BY <1>3

(* The first of them is the same, if it is in the prefix at all. *)
Ending(S, n, m, T) == T = {i \in S : i + n <= m}

LEMMA PrefixLeast ==
  ASSUME NEW S \in SUBSET Nat, S # {}, NEW n \in Nat, NEW m \in Nat,
         NEW T, Ending(S, n, m, T)
  PROVE  /\ T # {} <=> Least(S) + n <= m
         /\ T # {} => Least(T) = Least(S)
<1> USE DEF Ending
<1>1. Least(S) \in S /\ \A i \in S : Least(S) <= i
  BY LeastIsMember
<1>2. T # {} => Least(T) \in T /\ \A i \in T : Least(T) <= i
  BY LeastIsMember
<1>3. PICK l \in S : l = Least(S)
  BY <1>1
<1>4. l + n <= m => l \in T
  OBVIOUS
<1>5. ASSUME T # {} PROVE l + n <= m /\ Least(T) = l
  <2>1. PICK t \in S : t = Least(T) /\ t + n <= m /\ \A i \in T : t <= i
    BY <1>2, <1>5
  <2>2. l <= t
    BY <1>1, <1>3
  <2>3. l + n <= m
    BY <2>1, <2>2
  <2> QED
    BY <1>4, <2>1, <2>2, <2>3
<1> QED
  BY <1>3, <1>4, <1>5

LEMMA OccurrencesAreNat ==
  ASSUME NEW s \in Seq(STRING), NEW pat, Len(pat) \in Nat
  PROVE  Occurrences(s, pat) \in SUBSET Nat
<1>1. Len(s) - Len(pat) \in Int
  OBVIOUS
<1> QED
  BY <1>1 DEF Occurrences

LEMMA PatternLengths == Len(CRLF) = 2 /\ Len(CRLF \o CRLF) = 4
BY DEF CRLF

(* What a window of the stream has of the rest of it. *)
LEMMA Windows ==
  ASSUME NEW b \in Seq(STRING), NEW x \in Nat, NEW w \in Nat, x <= w, w <= Len(b)
  PROVE  /\ From(b, x) \in Seq(STRING) /\ Len(From(b, x)) = Len(b) - x
         /\ SubSeq(b, x + 1, w) \in Seq(STRING) /\ Len(SubSeq(b, x + 1, w)) = w - x
         /\ SubSeq(b, x + 1, w) = SubSeq(From(b, x), 1, w - x)
         /\ \A k \in 1 .. w - x : SubSeq(b, x + 1, w)[k] = b[x + k] /\ From(b, x)[k] = b[x + k]
<1>1. Len(b) \in Nat /\ x <= Len(b) /\ w - x \in 0 .. (Len(b) - x)
  OBVIOUS
<1>2. /\ From(b, x) \in Seq(STRING) /\ Len(From(b, x)) = Len(b) - x
      /\ \A k \in 1 .. Len(b) - x : From(b, x)[k] = b[x + k]
  BY <1>1 DEF From
<1>3. /\ SubSeq(b, x + 1, w) \in Seq(STRING) /\ Len(SubSeq(b, x + 1, w)) = w - x
      /\ \A k \in 1 .. w - x : SubSeq(b, x + 1, w)[k] = b[x + k]
  BY <1>1
<1>4. /\ SubSeq(From(b, x), 1, w - x) \in Seq(STRING) /\ Len(SubSeq(From(b, x), 1, w - x)) = w - x
      /\ \A k \in 1 .. w - x : SubSeq(From(b, x), 1, w - x)[k] = From(b, x)[k]
  BY <1>1, <1>2
<1>5. SubSeq(b, x + 1, w) = SubSeq(From(b, x), 1, w - x)
  <2> DEFINE u == SubSeq(b, x + 1, w)  v == SubSeq(From(b, x), 1, w - x)
  <2>1. /\ u \in Seq(STRING) /\ v \in Seq(STRING) /\ Len(u) = Len(v)
        /\ \A k \in 1 .. Len(u) : u[k] = v[k]
    BY <1>1, <1>2, <1>3, <1>4
  <2> HIDE DEF u, v
  <2>2. u = v
    BY <2>1
  <2> QED
    BY <2>2 DEF u, v
<1> QED
  BY <1>1, <1>2, <1>3, <1>5

(* A window has the end of a head as soon as it reaches it. *)
LEMMA HeadInWindow ==
  ASSUME NEW b \in Seq(STRING), NEW x \in Nat, NEW w \in Nat, x <= w, w <= Len(b),
         Occurrences(From(b, x), CRLF \o CRLF) # {},
         NEW T, T = Occurrences(SubSeq(b, x + 1, w), CRLF \o CRLF)
  PROVE  /\ HeadEnd(b, x) \in Nat /\ x + 4 <= HeadEnd(b, x)
         /\ T # {} <=> HeadEnd(b, x) <= w
         /\ T # {} => x + (Least(T) + 4) = HeadEnd(b, x)
<1> DEFINE pat == CRLF \o CRLF
           F == From(b, x)
           S == Occurrences(F, pat)
<1>1. F \in Seq(STRING) /\ Len(F) = Len(b) - x /\ SubSeq(b, x + 1, w) = SubSeq(F, 1, w - x)
  BY Windows
<1>2. Len(pat) \in Nat /\ Len(pat) = 4 /\ S # {}
  BY PatternLengths
<1>3. HeadEnd(b, x) = x + Least(S) + 4 /\ T = Occurrences(SubSeq(F, 1, w - x), pat)
  BY <1>1 DEF HeadEnd
<1> HIDE DEF F, pat
<1>4. S \in SUBSET Nat
  BY <1>1, <1>2, OccurrencesAreNat
<1>5. PICK m \in Nat : m = w - x /\ m \in 0 .. Len(F)
  BY <1>1
<1>6. Occurrences(SubSeq(F, 1, m), pat) = {i \in S : i + Len(pat) <= m}
  BY <1>1, <1>2, <1>5, PrefixOccurrences
<1> HIDE DEF S
<1>7. Ending(S, 4, m, T)
  BY <1>2, <1>3, <1>5, <1>6 DEF Ending
<1>8. PICK l \in Nat : l = Least(S)
  BY <1>2, <1>4, LeastIsMember
<1>9. 4 \in Nat
  OBVIOUS
<1>10. (T # {} <=> Least(S) + 4 <= m) /\ (T # {} => Least(T) = Least(S))
  BY <1>2, <1>4, <1>5, <1>7, <1>9, PrefixLeast
<1> QED
  BY <1>3, <1>5, <1>8, <1>10

(* A size field ends before the line does. *)
LEMMA SizeFieldOfPrefix ==
  ASSUME NEW s \in Seq(STRING), NEW m \in 0 .. Len(s), NEW k \in 0 .. m
  PROVE  SizeField(SubSeq(s, 1, m), k) = SizeField(s, k)
<1> DEFINE u == SubSeq(s, 1, m)
           semis == {i \in 0 .. (k - 1) : s[i + 1] = ";"}
           last == IF semis = {} THEN k ELSE Least(semis)
<1>1. Len(s) \in Nat /\ m \in Nat /\ k \in Nat /\ k <= m /\ m <= Len(s)
  OBVIOUS
<1>2. u \in Seq(STRING) /\ Len(u) = m /\ \A j \in 1 .. m : u[j] = s[j]
  BY <1>1
<1> HIDE DEF u
<1>3. {i \in 0 .. (k - 1) : u[i + 1] = ";"} = semis
  <2>1. \A i \in 0 .. (k - 1) : u[i + 1] = s[i + 1]
    BY <1>1, <1>2
  <2> QED
    BY <2>1
<1>4. last \in 0 .. k
  <2>1. semis \in SUBSET Nat /\ \A i \in semis : i < k
    <3>1. semis \subseteq 0 .. (k - 1)
      OBVIOUS
    <3> HIDE DEF semis
    <3> QED
      BY <1>1, <3>1
  <2> HIDE DEF semis
  <2>2. semis # {} => Least(semis) \in Nat /\ Least(semis) < k
    BY <2>1, LeastIsMember
  <2> QED
    BY <1>1, <2>2
<1>5. SizeField(u, k) = SubSeq(u, 1, last) /\ SizeField(s, k) = SubSeq(s, 1, last)
  BY <1>3 DEF SizeField
<1> HIDE DEF last
<1>6. SubSeq(u, 1, last) = SubSeq(s, 1, last)
  <2> DEFINE a == SubSeq(u, 1, last)  z == SubSeq(s, 1, last)
  <2>1. last <= m /\ last <= Len(s) /\ last \in Nat
    BY <1>1, <1>4
  <2>2. a \in Seq(STRING) /\ z \in Seq(STRING) /\ Len(a) = Len(z) /\ \A j \in 1 .. Len(a) : a[j] = z[j]
    BY <1>1, <1>2, <2>1
  <2> HIDE DEF a, z
  <2>3. a = z
    BY <2>2
  <2> QED
    BY <2>3 DEF a, z
<1> QED
  BY <1>5, <1>6 DEF u

(* The bytes of the stream from x up to w. *)
Window(b, x, w, in) ==
  /\ x \in Nat /\ w \in Nat /\ x <= w /\ w <= Len(b) /\ in = SubSeq(b, x + 1, w)

(* The line that begins at x has k bytes before its CRLF. *)
Line(b, x, k) == k \in Nat /\ k = crlf_find(From(b, x)) /\ x + k + 2 <= Len(b)

(* And the line of a chunk size as soon as it reaches its end. *)
LEMMA LineInWindow ==
  ASSUME NEW b \in Seq(STRING), NEW x, NEW w, NEW in, Window(b, x, w, in), NEW k, Line(b, x, k)
  PROVE  /\ x + k + 2 <= w => crlf_find(in) = k /\ SizeField(in, k) = SizeField(From(b, x), k)
         /\ w < x + k + 2 => crlf_find(in) = Len(in)
<1> DEFINE F == From(b, x)
           S == Occurrences(F, CRLF)
           T == Occurrences(in, CRLF)
<1> USE DEF Window, Line
<1>1. F \in Seq(STRING) /\ Len(F) = Len(b) - x /\ in = SubSeq(F, 1, w - x) /\ Len(in) = w - x
  BY Windows
<1>2. k = (IF S = {} THEN Len(F) ELSE Least(S)) /\ crlf_find(in) = (IF T = {} THEN Len(in) ELSE Least(T))
  BY DEF crlf_find
<1>3. PICK m \in Nat : m = w - x /\ m \in 0 .. Len(F)
  BY <1>1
<1> HIDE DEF F
<1>4. Len(CRLF) \in Nat /\ Len(CRLF) = 2
  BY PatternLengths
<1>5. S \in SUBSET Nat
  BY <1>1, <1>4, OccurrencesAreNat
<1>6. Occurrences(SubSeq(F, 1, m), CRLF) = {i \in S : i + Len(CRLF) <= m}
  BY <1>1, <1>3, <1>4, PrefixOccurrences
<1> HIDE DEF S
<1>8. Ending(S, 2, m, T)
  BY <1>1, <1>3, <1>4, <1>6 DEF Ending
<1> HIDE DEF T
<1>9. S # {} /\ k = Least(S) /\ 2 \in Nat
  BY <1>1, <1>2
<1>10. (T # {} <=> Least(S) + 2 <= m) /\ (T # {} => Least(T) = Least(S))
  BY <1>3, <1>5, <1>8, <1>9, PrefixLeast
<1>11. (x + k + 2 <= w <=> k + 2 <= m) /\ (w < x + k + 2 <=> ~(k + 2 <= m))
  BY <1>3
<1>7. x + k + 2 <= w => SizeField(in, k) = SizeField(F, k)
  <2> SUFFICES ASSUME x + k + 2 <= w PROVE SizeField(in, k) = SizeField(F, k)
    OBVIOUS
  <2>1. k \in 0 .. m
    BY <1>3
  <2> QED
    BY <1>1, <1>3, <2>1, SizeFieldOfPrefix
<1> QED
  BY <1>2, <1>7, <1>9, <1>10, <1>11 DEF F

-----------------------------------------------------------------------------
(* A body in chunks. *)

Chunks(b, p, e, C) ==
  /\ b \in Seq(STRING) /\ e \in Nat /\ e <= Len(b)
  /\ C \in SUBSET (0 .. e) /\ ChunksFrom(b, p, e, C)

(* Where the parts of a chunk are. *)
LEMMA ChunkPlaces ==
  ASSUME NEW b, NEW p, NEW e, NEW C, Chunks(b, p, e, C), NEW q \in C
  PROVE  /\ q \in Nat /\ crlf_find(From(b, q)) \in Nat
         /\ DataAt(b, q) \in Nat /\ DataAt(b, q) = q + crlf_find(From(b, q)) + 2
         /\ ChunkLen(b, q).value \in Nat /\ ChunkLen(b, q).status = "PARSE_OK"
         /\ DataEnd(b, q) \in Nat /\ DataEnd(b, q) = DataAt(b, q) + ChunkLen(b, q).value
         /\ DataEnd(b, q) + 2 <= e
         /\ b[DataEnd(b, q) + 1] = "CR" /\ b[DataEnd(b, q) + 2] = "LF"
         /\ ChunkLen(b, q).value = 0 => DataEnd(b, q) + 2 = e
         /\ ChunkLen(b, q).value # 0 => DataEnd(b, q) + 2 \in C
<1>1. /\ b \in Seq(STRING) /\ e \in Nat /\ e <= Len(b) /\ q \in Nat /\ q <= e /\ Len(b) \in Nat
      /\ ChunkLen(b, q).status = "PARSE_OK"
      /\ DataEnd(b, q) + 2 <= e /\ b[DataEnd(b, q) + 1] = "CR" /\ b[DataEnd(b, q) + 2] = "LF"
      /\ ChunkLen(b, q).value = 0 => DataEnd(b, q) + 2 = e
      /\ ChunkLen(b, q).value # 0 => DataEnd(b, q) + 2 \in C
  BY DEF Chunks, ChunksFrom
<1> DEFINE F == From(b, q)
<1>2. F \in Seq(STRING)
  BY <1>1 DEF From
<1> HIDE DEF F
<1>3. crlf_find(F) \in Nat /\ crlf_find(F) \in 0 .. Len(F)
  BY <1>2, CrlfFindInBounds
<1>4. SizeField(F, crlf_find(F)) \in Seq(STRING)
  BY <1>2, <1>3, SizeFieldIsText
<1>5. uint_parse(SizeField(F, crlf_find(F)), 16, HTTP_MAX_BODY_LEN) = ChunkLen(b, q)
  BY DEF ChunkLen, F
<1>6. ChunkLen(b, q).value \in Nat
  <2>1. ChunkLen(b, q).value \in 0 .. HTTP_MAX_BODY_LEN
    BY <1>1, <1>4, <1>5, UintParseBounded, MaxBodyLenAssumption
  <2> QED
    BY <2>1, MaxBodyLenAssumption
<1>7. DataAt(b, q) = q + crlf_find(F) + 2 /\ DataEnd(b, q) = DataAt(b, q) + ChunkLen(b, q).value
  BY DEF DataAt, DataEnd, F
<1>8. DataAt(b, q) \in Nat /\ DataEnd(b, q) \in Nat
  BY <1>1, <1>3, <1>6, <1>7
<1> QED
  BY <1>1, <1>3, <1>6, <1>7, <1>8 DEF F

(* What a call of the decoder at x, with the bytes up to w, may come to.   *)
ChunkFollows(b, e, C, x, w, avail, cr) ==
  \/ /\ cr.status = "PARSE_PAYLOAD_TOO_LARGE"
     /\ \E n \in Nat : avail < n /\ x .. (x + n - 1) \subseteq Decoded(b, C)
  \/ cr.status = "PARSE_OK" /\ cr.dec.phase = "CHUNK_DONE" /\ x + cr.next = e
  \/ /\ cr.status \in {"PARSE_OK", "PARSE_INCOMPLETE"} /\ ChunkPos(b, C, cr.dec, x + cr.next)
     /\ cr.status = "PARSE_INCOMPLETE" => w < e
     /\ x .. (x + cr.bytes_written - 1) \subseteq Decoded(b, C)
     /\ cr.bytes_written \in 0 .. cr.next

(* The first bytes of an input. *)
LEMMA FirstBytes ==
  ASSUME NEW in \in Seq(STRING)
  PROVE  /\ Len(in) >= 1 => SubSeq(in, 1, 1) = <<in[1]>>
         /\ Len(in) >= 2 => SubSeq(in, 1, 2) = <<in[1], in[2]>>
<1>1. ASSUME Len(in) >= 1 PROVE SubSeq(in, 1, 1) = <<in[1]>>
  <2> DEFINE s == SubSeq(in, 1, 1)
             t == <<in[1]>>
  <2>1. DOMAIN s = {1} /\ s = [i \in {1} |-> s[i]] /\ s[1] = in[1]
    BY <1>1
  <2>2. DOMAIN t = {1} /\ t = [i \in {1} |-> t[i]] /\ t[1] = in[1]
    OBVIOUS
  <2> HIDE DEF s, t
  <2>3. s = t
    BY <2>1, <2>2
  <2> QED
    BY <2>3 DEF s, t
<1>2. ASSUME Len(in) >= 2 PROVE SubSeq(in, 1, 2) = <<in[1], in[2]>>
  <2> DEFINE s == SubSeq(in, 1, 2)
             t == <<in[1], in[2]>>
  <2>1. DOMAIN s = {1, 2} /\ s = [i \in {1, 2} |-> s[i]] /\ s[1] = in[1] /\ s[2] = in[2]
    BY <1>2
  <2>2. DOMAIN t = {1, 2} /\ t = [i \in {1, 2} |-> t[i]] /\ t[1] = in[1] /\ t[2] = in[2]
    OBVIOUS
  <2> HIDE DEF s, t
  <2>3. s = t
    BY <2>1, <2>2
  <2> QED
    BY <2>3 DEF s, t
<1> QED
  BY <1>1, <1>2

LEMMA EmptyInterval == ASSUME NEW x \in Nat PROVE x .. (x + 0 - 1) = {}
OBVIOUS

LEMMA SizeFollows ==
  ASSUME NEW b, NEW p, NEW e, NEW C, Chunks(b, p, e, C),
         NEW x, NEW w, NEW in, Window(b, x, w, in), NEW avail \in Nat,
         NEW dec, DecoderOK(dec), dec.phase = "CHUNK_SIZE", ChunkPos(b, C, dec, x)
  PROVE  ChunkFollows(b, e, C, x, w, avail, chunk_size(dec, in))
<1>1. x \in C /\ x \in Nat /\ w \in Nat /\ x <= w /\ w <= Len(b) /\ in = SubSeq(b, x + 1, w)
  BY DEF ChunkPos, Window
<1>2. PICK k, len, end : k = crlf_find(From(b, x)) /\ len = ChunkLen(b, x) /\ end = DataEnd(b, x)
  OBVIOUS
<1>3. /\ k \in Nat /\ DataAt(b, x) = x + k + 2 /\ len.value \in Nat /\ len.status = "PARSE_OK"
      /\ end \in Nat /\ end = DataAt(b, x) + len.value /\ end + 2 <= e
  BY <1>1, <1>2, ChunkPlaces
<1>4. b \in Seq(STRING) /\ e \in Nat /\ e <= Len(b) /\ Len(b) \in Nat
  BY DEF Chunks
<1>5. x + k + 2 <= Len(b)
  BY <1>1, <1>3, <1>4
<1>6. /\ x + k + 2 <= w => crlf_find(in) = k /\ SizeField(in, k) = SizeField(From(b, x), k)
      /\ w < x + k + 2 => crlf_find(in) = Len(in)
  <2>1. Line(b, x, k)
    BY <1>2, <1>3, <1>5 DEF Line
  <2> QED
    BY <1>4, <2>1, LineInWindow
<1>7. in \in Seq(STRING) /\ Len(in) = w - x
  BY <1>1, <1>4, Windows
<1>8. CASE w < x + k + 2
  <2>1. chunk_size(dec, in) = Stop(dec, "PARSE_INCOMPLETE")
    BY <1>6, <1>7, <1>8 DEF chunk_size
  <2>2. x + 0 = x /\ w < e
    BY <1>1, <1>3, <1>4, <1>8
  <2> QED
    BY <1>1, <2>1, <2>2, EmptyInterval DEF Stop, ChunkFollows
<1>9. CASE x + k + 2 <= w
  <2> DEFINE cr == chunk_size(dec, in)
  <2>1. Len(in) - k >= 2 /\ Len(in) - k \in Int
    BY <1>1, <1>3, <1>7, <1>9
  <2>2. uint_parse(SizeField(in, crlf_find(in)), 16, HTTP_MAX_BODY_LEN) = len
    BY <1>2, <1>6, <1>9 DEF ChunkLen
  <2>3. cr = IF len.value = 0 THEN Consume([dec EXCEPT !.phase = "CHUNK_TRAILER"], k + 2)
             ELSE Consume([phase |-> "CHUNK_DATA", remaining |-> len.value], k + 2)
    BY <1>3, <1>6, <1>9, <2>1, <2>2 DEF chunk_size
  <2> HIDE DEF cr
  <2>4. cr.status = "PARSE_OK" /\ cr.next = k + 2 /\ cr.bytes_written = 0
    BY <2>3 DEF Consume
  <2>5. x + (k + 2) = DataAt(b, x) /\ k + 2 \in Nat /\ 0 \in 0 .. (k + 2)
    BY <1>1, <1>3
  <2>6. ChunkPos(b, C, cr.dec, DataAt(b, x))
    <3>1. CASE len.value = 0
      <4>1. cr.dec.phase = "CHUNK_TRAILER"
        BY <2>3, <3>1 DEF Consume, DecoderOK, ChunkDecoder
      <4>2. DataAt(b, x) = end
        BY <1>1, <1>3, <2>5, <3>1
      <4> QED
        BY <1>1, <1>2, <3>1, <4>1, <4>2 DEF ChunkPos
    <3>2. CASE len.value # 0
      <4>1. cr.dec.phase = "CHUNK_DATA" /\ cr.dec.remaining = len.value
        BY <2>3, <3>2 DEF Consume
      <4>2. DataAt(b, x) <= DataAt(b, x) /\ DataAt(b, x) + len.value = DataEnd(b, x)
        BY <1>1, <1>2, <1>3
      <4> QED
        BY <1>1, <4>1, <4>2 DEF ChunkPos
    <3> QED
      BY <3>1, <3>2
  <2>7. x .. (x + cr.bytes_written - 1) \subseteq Decoded(b, C) /\ cr.bytes_written \in 0 .. cr.next
    BY <1>1, <2>4, <2>5, EmptyInterval
  <2> QED
    BY <2>4, <2>5, <2>6, <2>7 DEF ChunkFollows, cr
<1> QED
  BY <1>1, <1>3, <1>8, <1>9

LEMMA DataFollows ==
  ASSUME NEW b, NEW p, NEW e, NEW C, Chunks(b, p, e, C),
         NEW x, NEW w, NEW in, Window(b, x, w, in), NEW avail \in Nat,
         NEW dec, DecoderOK(dec), dec.phase = "CHUNK_DATA", ChunkPos(b, C, dec, x)
  PROVE  ChunkFollows(b, e, C, x, w, avail, chunk_data(dec, in, avail))
<1>1. b \in Seq(STRING) /\ e \in Nat /\ e <= Len(b) /\ Len(b) \in Nat
  BY DEF Chunks
<1>2. x \in Nat /\ w \in Nat /\ x <= w /\ in \in Seq(STRING) /\ Len(in) = w - x
  BY <1>1, Windows DEF Window
<1>3. PICK q \in C : DataAt(b, q) <= x /\ x + dec.remaining = DataEnd(b, q)
  BY DEF ChunkPos
<1>4. PICK from, end, rem : from = DataAt(b, q) /\ end = DataEnd(b, q) /\ rem = dec.remaining
  OBVIOUS
<1>5. /\ from \in Nat /\ end \in Nat /\ rem \in Nat /\ rem > 0 /\ from <= x /\ x + rem = end /\ end + 2 <= e
      /\ end = from + ChunkLen(b, q).value /\ ChunkLen(b, q).value \in Nat
  BY <1>3, <1>4, ChunkPlaces DEF DecoderOK, ChunkDecoder
<1>6. from .. (end - 1) \subseteq Decoded(b, C)
  BY <1>3, <1>4 DEF Decoded
<1> DEFINE take == IF rem < Len(in) THEN rem ELSE Len(in)
           left == rem - take
           cr   == chunk_data(dec, in, avail)
<1>7. /\ take \in Nat /\ left \in Nat /\ x + take <= end /\ x + take + left = end
      /\ left > 0 => x + take = w /\ w < end
  BY <1>2, <1>5
<1>8. cr = IF take > avail THEN Stop(dec, "PARSE_PAYLOAD_TOO_LARGE")
           ELSE [status |-> IF left = 0 THEN "PARSE_OK" ELSE "PARSE_INCOMPLETE",
                 next |-> take, bytes_written |-> take,
                 dec |-> [phase |-> IF left = 0 THEN "CHUNK_TRAIL_CR" ELSE "CHUNK_DATA", remaining |-> left]]
  BY <1>4 DEF chunk_data
<1> HIDE DEF take, left, cr
<1>9. x .. (x + take - 1) \subseteq Decoded(b, C)
  <2>1. PICK t \in Nat : t = take
    BY <1>7
  <2>2. x .. (x + t - 1) \subseteq from .. (end - 1)
    <3>1. x + t <= end
      BY <1>7, <2>1
    <3>2. /\ from \in Int /\ end - 1 \in Int /\ x \in Int /\ x + t - 1 \in Int
          /\ from <= x /\ x + t - 1 <= end - 1
      BY <1>2, <1>5, <2>1, <3>1
    <3>3. \A m, n, i, j \in Int : m <= i /\ j <= n => i .. j \subseteq m .. n
      OBVIOUS
    <3> QED
      BY <3>2, <3>3
  <2> QED
    BY <1>6, <2>1, <2>2
<1>10. CASE take > avail
  <2>1. cr.status = "PARSE_PAYLOAD_TOO_LARGE"
    BY <1>8, <1>10 DEF Stop
  <2>2. avail < take
    BY <1>7, <1>10
  <2> QED
    BY <1>7, <1>9, <2>1, <2>2 DEF ChunkFollows, cr
<1>11. CASE ~(take > avail)
  <2>1. /\ cr.status = (IF left = 0 THEN "PARSE_OK" ELSE "PARSE_INCOMPLETE")
        /\ cr.next = take /\ cr.bytes_written = take /\ cr.dec.remaining = left
        /\ cr.dec.phase = (IF left = 0 THEN "CHUNK_TRAIL_CR" ELSE "CHUNK_DATA")
    BY <1>8, <1>11
  <2>2. ChunkPos(b, C, cr.dec, x + take)
    <3>1. CASE left = 0
      <4>1. PICK v \in Nat : v = ChunkLen(b, q).value /\ end = from + v
        BY <1>5
      <4>2. v > 0
        BY <1>2, <1>5, <4>1
      <4>3. x + take = DataEnd(b, q) /\ ChunkLen(b, q).value > 0
        BY <1>2, <1>4, <1>7, <3>1, <4>1, <4>2
      <4> QED
        BY <1>3, <2>1, <3>1, <4>3 DEF ChunkPos
    <3>2. CASE left # 0
      <4>1. DataAt(b, q) <= x + take /\ x + take + left = DataEnd(b, q)
        BY <1>2, <1>4, <1>5, <1>7
      <4> QED
        BY <1>3, <2>1, <3>2, <4>1 DEF ChunkPos
    <3> QED
      BY <3>1, <3>2
  <2>3. cr.status = "PARSE_INCOMPLETE" => w < e
    <3>1. w < end => w < e
      BY <1>1, <1>2, <1>5
    <3>2. left # 0 => left > 0
      BY <1>7
    <3> QED
      BY <1>7, <2>1, <3>1, <3>2
  <2>4. take \in 0 .. take
    BY <1>7
  <2> QED
    BY <1>9, <2>1, <2>2, <2>3, <2>4 DEF ChunkFollows, cr
<1> QED
  BY <1>10, <1>11

(* The decoder expects the n bytes that come at x, and goes on to `after`. *)
LEMMA ExpectFollows ==
  ASSUME NEW b, NEW p, NEW e, NEW C, Chunks(b, p, e, C),
         NEW x, NEW w, NEW in, Window(b, x, w, in), NEW avail \in Nat,
         NEW dec, DecoderOK(dec), NEW want, NEW n \in {1, 2}, Len(want) = n, x + n <= e,
         x + n <= w => SubSeq(in, 1, n) = want,
         NEW after,
         \/ after = "CHUNK_DONE" /\ x + n = e
         \/ ChunkPos(b, C, [dec EXCEPT !.phase = after], x + n)
  PROVE  \/ w < x + n /\ chunk_expect(dec, in, want, after) = Stop(dec, "PARSE_INCOMPLETE")
         \/ ChunkFollows(b, e, C, x, w, avail, chunk_expect(dec, in, want, after))
<1>1. b \in Seq(STRING) /\ e \in Nat /\ e <= Len(b) /\ Len(b) \in Nat
  BY DEF Chunks
<1>2. x \in Nat /\ w \in Nat /\ x <= w /\ in \in Seq(STRING) /\ Len(in) = w - x
  BY <1>1, Windows DEF Window
<1> DEFINE next == [dec EXCEPT !.phase = after]
           cr == chunk_expect(dec, in, want, after)
<1>3. w < x + n => cr = Stop(dec, "PARSE_INCOMPLETE")
  BY <1>2 DEF chunk_expect
<1>4. x + n <= w => cr = Consume(next, n)
  BY <1>2 DEF chunk_expect
<1>5. next.phase = after
  BY DEF DecoderOK, ChunkDecoder
<1> HIDE DEF cr, next
<1>6. ASSUME x + n <= w PROVE ChunkFollows(b, e, C, x, w, avail, cr)
  <2>1. cr.status = "PARSE_OK" /\ cr.next = n /\ cr.bytes_written = 0 /\ cr.dec = next
    BY <1>4, <1>6 DEF Consume
  <2>2. x .. (x + cr.bytes_written - 1) \subseteq Decoded(b, C) /\ cr.bytes_written \in 0 .. cr.next
    BY <1>2, <2>1, EmptyInterval
  <2> QED
    BY <1>5, <2>1, <2>2 DEF ChunkFollows, next
<1> QED
  BY <1>2, <1>3, <1>6 DEF cr

LEMMA StopFollows ==
  ASSUME NEW b, NEW p, NEW e, NEW C, Chunks(b, p, e, C), NEW x \in Nat, NEW w, w < e, NEW avail,
         NEW dec, ChunkPos(b, C, dec, x)
  PROVE  ChunkFollows(b, e, C, x, w, avail, Stop(dec, "PARSE_INCOMPLETE"))
<1>1. x + 0 = x
  OBVIOUS
<1> QED
  BY <1>1, EmptyInterval DEF Stop, ChunkFollows

(* The decoder follows a well-formed body: it refuses nothing but what     *)
(* does not fit, it asks for more only before the end, and is done there.  *)
LEMMA DecoderFollows ==
  ASSUME NEW b, NEW p, NEW e, NEW C, Chunks(b, p, e, C),
         NEW x, NEW w, NEW in, Window(b, x, w, in), NEW avail \in Nat,
         NEW dec, DecoderOK(dec), ChunkPos(b, C, dec, x)
  PROVE  ChunkFollows(b, e, C, x, w, avail, chunk_advance(dec, in, avail))
<1>1. b \in Seq(STRING) /\ e \in Nat /\ e <= Len(b) /\ Len(b) \in Nat
  BY DEF Chunks
<1>2. /\ x \in Nat /\ w \in Nat /\ x <= w /\ in \in Seq(STRING) /\ Len(in) = w - x
      /\ \A k \in 1 .. w - x : in[k] = b[x + k]
  BY <1>1, Windows DEF Window
<1>3. CASE dec.phase = "CHUNK_SIZE"
  BY <1>3, SizeFollows DEF chunk_advance
<1>4. CASE dec.phase = "CHUNK_DATA"
  BY <1>4, DataFollows DEF chunk_advance
<1>5. CASE dec.phase = "CHUNK_TRAIL_CR"
  <2>1. PICK q \in C : ChunkLen(b, q).value > 0 /\ x = DataEnd(b, q)
    BY <1>5 DEF ChunkPos
  <2>2. x + 2 <= e /\ b[x + 1] = "CR"
    BY <2>1, ChunkPlaces
  <2>3. x + 1 <= w => SubSeq(in, 1, 1) = <<"CR">>
    BY <1>2, <2>2, FirstBytes
  <2>4. ChunkPos(b, C, [dec EXCEPT !.phase = "CHUNK_TRAIL_LF"], x + 1)
    BY <2>1 DEF ChunkPos, DecoderOK, ChunkDecoder
  <2> DEFINE cr == chunk_expect(dec, in, <<"CR">>, "CHUNK_TRAIL_LF")
  <2>5. Len(<<"CR">>) = 1 /\ 1 \in {1, 2} /\ x + 1 <= e
    BY <1>1, <1>2, <2>2
  <2>6. (w < x + 1 /\ cr = Stop(dec, "PARSE_INCOMPLETE")) \/ ChunkFollows(b, e, C, x, w, avail, cr)
    BY <2>3, <2>4, <2>5, ExpectFollows
  <2>7. w < x + 1 => w < e
    BY <1>1, <1>2, <2>2
  <2> QED
    BY <1>2, <1>5, <2>6, <2>7, StopFollows DEF chunk_advance
<1>6. CASE dec.phase = "CHUNK_TRAIL_LF"
  <2>1. PICK q \in C : ChunkLen(b, q).value > 0 /\ x = DataEnd(b, q) + 1
    BY <1>6 DEF ChunkPos
  <2>2. x + 1 <= e /\ b[x + 1] = "LF" /\ x + 1 \in C
    BY <2>1, ChunkPlaces
  <2>3. x + 1 <= w => SubSeq(in, 1, 1) = <<"LF">>
    BY <1>2, <2>2, FirstBytes
  <2>4. ChunkPos(b, C, [dec EXCEPT !.phase = "CHUNK_SIZE"], x + 1)
    BY <2>2 DEF ChunkPos, DecoderOK, ChunkDecoder
  <2> DEFINE cr == chunk_expect(dec, in, <<"LF">>, "CHUNK_SIZE")
  <2>5. Len(<<"LF">>) = 1 /\ 1 \in {1, 2}
    OBVIOUS
  <2>6. (w < x + 1 /\ cr = Stop(dec, "PARSE_INCOMPLETE")) \/ ChunkFollows(b, e, C, x, w, avail, cr)
    BY <2>2, <2>3, <2>4, <2>5, ExpectFollows
  <2>7. w < x + 1 => w < e
    BY <1>1, <1>2, <2>2
  <2> QED
    BY <1>2, <1>6, <2>6, <2>7, StopFollows DEF chunk_advance
<1>7. CASE dec.phase = "CHUNK_TRAILER"
  <2>1. PICK q \in C : ChunkLen(b, q).value = 0 /\ x = DataEnd(b, q)
    BY <1>7 DEF ChunkPos
  <2>2. x + 2 = e /\ b[x + 1] = "CR" /\ b[x + 2] = "LF"
    BY <2>1, ChunkPlaces
  <2>3. x + 2 <= w => SubSeq(in, 1, 2) = CRLF
    BY <1>2, <2>2, FirstBytes DEF CRLF
  <2> DEFINE cr == chunk_expect(dec, in, CRLF, "CHUNK_DONE")
  <2>4. Len(CRLF) = 2 /\ 2 \in {1, 2} /\ x + 2 <= e
    BY <1>1, <2>2, PatternLengths
  <2>5. (w < x + 2 /\ cr = Stop(dec, "PARSE_INCOMPLETE")) \/ ChunkFollows(b, e, C, x, w, avail, cr)
    BY <2>2, <2>3, <2>4, ExpectFollows
  <2>6. w < x + 2 => w < e
    BY <2>2
  <2> QED
    BY <1>2, <1>7, <2>5, <2>6, StopFollows DEF chunk_advance
<1> QED
  BY <1>3, <1>4, <1>5, <1>6, <1>7 DEF ChunkPos, DecoderOK, ChunkDecoder, ChunkPhases

LEMMA DecodedIsFinite ==
  ASSUME NEW b, NEW p, NEW e, NEW C, Chunks(b, p, e, C)
  PROVE  IsFiniteSet(Decoded(b, C)) /\ Decoded(b, C) \subseteq Nat
<1>1. e \in Nat /\ Decoded(b, C) \subseteq 0 .. e
  <2>1. e \in Nat
    BY DEF Chunks
  <2>2. ASSUME NEW q \in C, NEW y \in DataAt(b, q) .. (DataEnd(b, q) - 1) PROVE y \in 0 .. e
    <3>1. DataAt(b, q) \in Nat /\ DataEnd(b, q) \in Nat /\ DataEnd(b, q) + 2 <= e
      BY ChunkPlaces
    <3> QED
      BY <2>1, <3>1
  <2> QED
    BY <2>1, <2>2 DEF Decoded
<1>2. IsFiniteSet(0 .. e) /\ 0 .. e \subseteq Nat
  BY <1>1, FS_Interval
<1> QED
  BY <1>1, <1>2, FS_Subset

(* What is decoded of a body is counted once. *)
LEMMA DecodedGrows ==
  ASSUME NEW b, NEW p, NEW e, NEW C, Chunks(b, p, e, C),
         NEW x \in Nat, NEW t \in Nat, NEW n \in Nat, t <= n, x .. (x + t - 1) \subseteq Decoded(b, C),
         NEW d \in Nat, DecodedTo(b, C, d, x)
  PROVE  DecodedTo(b, C, d + t, x + n) /\ d + t <= Cardinality(Decoded(b, C))
<1> DEFINE D == Decoded(b, C)
           A == {y \in D : y < x}
           B == x .. (x + t - 1)
           E == {y \in D : y < x + n}
<1>1. D \subseteq Nat /\ IsFiniteSet(D)
  BY DecodedIsFinite
<1> HIDE DEF D
<1>3. \A y \in B : y \in Int /\ x <= y /\ y < x + n
  OBVIOUS
<1>4. B \subseteq E /\ A \subseteq E /\ E \subseteq D /\ A \cap B = {}
  <2>1. \A y \in D : y < x => y < x + n
    BY <1>1
  <2>2. \A y \in A : ~(x <= y)
    BY <1>1
  <2> QED
    BY <1>3, <2>1, <2>2 DEF D
<1>5. IsFiniteSet(B) /\ Cardinality(B) = t
  <2>1. x \in Int /\ x + t - 1 \in Int
    OBVIOUS
  <2>2. IsFiniteSet(B) /\ Cardinality(B) = IF x > x + t - 1 THEN 0 ELSE x + t - 1 - x + 1
    BY <2>1, FS_Interval
  <2> HIDE DEF B
  <2>3. (IF x > x + t - 1 THEN 0 ELSE x + t - 1 - x + 1) = t
    OBVIOUS
  <2> QED
    BY <2>2, <2>3
<1> HIDE DEF A, B, E
<1>6. IsFiniteSet(E) /\ IsFiniteSet(A)
  BY <1>1, <1>4, FS_Subset
<1>7. A \cup B \subseteq E /\ IsFiniteSet(A \cup B)
  BY <1>4, <1>6, FS_Subset
<1>8. PICK a, u, g, c \in Nat : a = Cardinality(A) /\ u = Cardinality(A \cup B) /\ g = Cardinality(E)
                              /\ c = Cardinality(D)
  BY <1>1, <1>6, <1>7, FS_CardinalityType
<1>9. u = a + t
  <2>1. Cardinality(A \cup B) = Cardinality(A) + Cardinality(B) - Cardinality(A \cap B)
    BY <1>5, <1>6, FS_Union
  <2>2. Cardinality(A \cap B) = 0
    BY <1>4, FS_EmptySet
  <2>3. u = a + t - 0
    BY <1>5, <1>8, <2>1, <2>2
  <2> QED
    BY <1>8, <2>3
<1>10. u <= g /\ g <= c
  <2>1. Cardinality(A \cup B) <= Cardinality(E)
    BY <1>6, <1>7, FS_Subset
  <2>2. Cardinality(E) <= Cardinality(D)
    BY <1>1, <1>4, FS_Subset
  <2> QED
    BY <1>8, <2>1, <2>2
<1>11. d <= a
  BY <1>8 DEF DecodedTo, A, D
<1>12. d + t <= g /\ d + t <= c
  BY <1>8, <1>9, <1>10, <1>11
<1> QED
  BY <1>8, <1>12 DEF DecodedTo, E, D

-----------------------------------------------------------------------------
(* The requests of a well-framed client, one behind the other. *)

LEMMA ClientIsTyped ==
  ASSUME IInv
  PROVE  client \in Client
<1>1. CASE client \in Clients
  BY <1>1, CatalogueAssumption
<1>2. CASE client = NoClient
  BY <1>2 DEF NoClient, Client
<1> QED
  BY <1>1, <1>2 DEF IInv, TypeOK

LEMMA ClientFields ==
  ASSUME NEW c \in Client
  PROVE  /\ c.bytes \in Seq(STRING) /\ Len(c.bytes) \in Nat
         /\ c.starts \in Seq(Nat) /\ DOMAIN c.starts = 1 .. Len(c.starts) /\ Len(c.starts) \in Nat
         /\ c.holds \in SUBSET Nat
BY DEF Client, Byte

LEMMA RequestPlaces ==
  ASSUME NEW c \in Client, WellFramed(c), NEW i \in DOMAIN c.starts
  PROVE  /\ Start(c, i) \in Nat /\ Start(c, i + 1) \in Nat /\ Start(c, i + 1) <= Len(c.bytes)
         /\ WellFormed(c.bytes, Start(c, i), Start(c, i + 1))
         /\ HeadEnd(c.bytes, Start(c, i)) \in Nat
         /\ Start(c, i) + 4 <= HeadEnd(c.bytes, Start(c, i))
         /\ HeadEnd(c.bytes, Start(c, i)) <= Start(c, i + 1)
<1>1. /\ c.bytes \in Seq(STRING) /\ Len(c.bytes) \in Nat
      /\ c.starts \in Seq(Nat) /\ DOMAIN c.starts = 1 .. Len(c.starts)
  BY ClientFields
<1>2. \A k : Start(c, k) \in Nat
  BY <1>1 DEF Start
<1>3. PICK b, a, e : b = c.bytes /\ a = Start(c, i) /\ e = Start(c, i + 1)
  OBVIOUS
<1>4. a \in Nat /\ e \in Nat /\ WellFormed(b, a, e)
  BY <1>2, <1>3 DEF WellFramed, Start
<1>5. Occurrences(From(b, a), CRLF \o CRLF) # {} /\ HeadEnd(b, a) <= e /\ e <= Len(b) /\ b \in Seq(STRING)
  BY <1>1, <1>3, <1>4 DEF WellFormed
<1>6. Len(b) \in Nat /\ a <= Len(b)
  <2>1. a + 4 <= Len(b) \/ a > Len(b) \/ a <= Len(b)
    BY <1>1, <1>3, <1>4
  <2>2. CASE a > Len(b)
    <3>1. Len(From(b, a)) = 0
      BY <1>4, <1>5, <2>2 DEF From
    <3> QED
      BY <1>5, <3>1, PatternLengths DEF Occurrences
  <2> QED
    BY <1>1, <1>3, <1>4, <2>2
<1>7. HeadEnd(b, a) \in Nat /\ a + 4 <= HeadEnd(b, a)
  BY <1>4, <1>5, <1>6, HeadInWindow
<1> QED
  BY <1>3, <1>4, <1>5, <1>7

(* A request begins where the one before it ends, or behind that.          *)
LEMMA RequestsBehind ==
  ASSUME NEW c \in Client, WellFramed(c), NEW j \in DOMAIN c.starts, NEW k \in Nat, j < k
  PROVE  Start(c, j + 1) <= Start(c, k) /\ Start(c, k) \in Nat
<1>1. DOMAIN c.starts = 1 .. Len(c.starts) /\ Len(c.starts) \in Nat
  BY ClientFields
<1>2. CASE k \in DOMAIN c.starts
  <2>1. j \in 1 .. k - 1
    BY <1>1
  <2> QED
    BY <1>2, <2>1, RequestPlaces DEF WellFramed, Start
<1>3. CASE k \notin DOMAIN c.starts
  BY <1>3, RequestPlaces, ClientFields DEF Start
<1> QED
  BY <1>2, <1>3

(* Where a client waits, seen from its k-th request. *)
LEMMA HoldPlaces ==
  ASSUME NEW c \in Client, WellFramed(c), NEW h \in c.holds, NEW k \in Nat \ {0}
  PROVE  \/ h < Start(c, k)
         \/ /\ k \in DOMAIN c.starts
            /\ \/ Start(c, k + 1) < h
               \/ /\ h = HeadEnd(c.bytes, Start(c, k))
                  /\ AsksToGoOn(c.bytes[Start(c, k) + 1], h, Start(c, k + 1))
<1>1. DOMAIN c.starts = 1 .. Len(c.starts) /\ Len(c.starts) \in Nat /\ h \in Nat
  BY ClientFields
<1>2. PICK j \in DOMAIN c.starts : /\ h = HeadEnd(c.bytes, Start(c, j))
                                   /\ AsksToGoOn(c.bytes[Start(c, j) + 1], h, Start(c, j + 1))
  BY DEF WellFramed, Start
<1>3. j \in Nat /\ j <= Len(c.starts)
  BY <1>1
<1>4. CASE j < k
  <2>1. h < Start(c, j + 1)
    BY <1>2 DEF AsksToGoOn
  <2>2. Start(c, j + 1) <= Start(c, k) /\ Start(c, k) \in Nat /\ Start(c, j + 1) \in Nat
    BY <1>4, RequestsBehind, RequestPlaces
  <2> QED
    BY <1>1, <2>1, <2>2
<1>5. CASE j = k
  BY <1>2, <1>5
<1>6. CASE k < j
  <2>1. k \in DOMAIN c.starts
    BY <1>1, <1>3, <1>6
  <2>2. Start(c, k + 1) <= Start(c, j) /\ Start(c, j) \in Nat /\ Start(c, k + 1) \in Nat
    BY <1>3, <1>6, <2>1, RequestsBehind, RequestPlaces
  <2>3. Start(c, j) + 4 <= h
    BY <1>2, RequestPlaces
  <2> QED
    BY <1>1, <2>1, <2>2, <2>3
<1> QED
  BY <1>3, <1>4, <1>5, <1>6

(* What the end of a parsed and accepted head says of its request.         *)
LEMMA AcceptedRequest ==
  ASSUME NEW c \in Client, WellFramed(c), NEW k \in DOMAIN c.starts,
         NEW name, name = c.bytes[Start(c, k) + 1], Parsed(name), ~BodyRefused(Requests[name])
  PROVE  /\ Framed(Requests[name], c.bytes, HeadEnd(c.bytes, Start(c, k)), Start(c, k + 1))
         /\ Kept(Requests[name]) /\ HeadEnd(c.bytes, Start(c, k)) < Start(c, k + 1)
              => Start(c, k + 1) - Start(c, k) <= HTTP_MAX_REQUEST_LEN
BY RequestPlaces DEF WellFormed

LEMMA ChunksOfBody ==
  ASSUME NEW b \in Seq(STRING), NEW p \in Nat, NEW e \in Nat, e <= Len(b), NEW C \in SUBSET LineStarts(b, p, e),
         ChunksFrom(b, p, e, C)
  PROVE  Chunks(b, p, e, C)
<1>1. C \subseteq 0 .. e
  BY DEF LineStarts
<1> QED
  BY <1>1 DEF Chunks

-----------------------------------------------------------------------------
(* The steps.  A connection follows the stream while the client, if it     *)
(* has stopped, has sent all of it, or is gone.                            *)

Hears == peer = "open" \/ peer = "gone" \/ arrived = Len(client.bytes)

Follows == IInv /\ WellFramed(client) /\ Following /\ Hears /\ slot = "stepping"

LEMMA Positions ==
  ASSUME IInv
  PROVE  /\ base \in Nat /\ size \in Nat /\ arrived \in Nat /\ released \in Nat /\ body_start \in Nat
         /\ body_len \in Nat /\ next_req_offset \in Nat /\ dechunked \in Nat
         /\ Len(client.bytes) \in Nat /\ HTTP_MAX_REQUEST_LEN \in Nat
         /\ size <= HTTP_MAX_REQUEST_LEN /\ base + size <= arrived /\ arrived <= Len(client.bytes)
         /\ client \in Client /\ Len(answers) \in Nat /\ keep_alive \in {0, 1}
<1>1. /\ base \in Nat /\ size \in Nat /\ arrived \in Nat /\ released \in Nat /\ body_start \in Nat
      /\ body_len \in Nat /\ next_req_offset \in Nat /\ dechunked \in Nat /\ HTTP_MAX_REQUEST_LEN \in Nat
      /\ size <= HTTP_MAX_REQUEST_LEN /\ keep_alive \in {0, 1}
  BY SizesAssumption, MaxBodyLenAssumption DEF IInv, TypeOK
<1>2. client \in Client /\ Len(client.bytes) \in Nat
  BY ClientIsTyped, ClientFields
<1>3. Len(answers) \in Nat
  BY PositionsAreNat
<1> QED
  BY <1>1, <1>2, <1>3 DEF IInv, OffsetsInBounds

(* A connection whose buffer reaches past the next request has one. *)
LEMMA RequestUnanswered ==
  ASSUME IInv, WellFramed(client), base = NextStart, size > 0
  PROVE  Len(answers) < Len(client.starts)
<1>1. base < Len(client.bytes)
  BY Positions
<1>2. Len(answers) + 1 \in DOMAIN client.starts
  BY <1>1, Positions DEF NextStart, Start
<1> QED
  BY <1>2, Positions, ClientFields

(* An error reply begins.  It ends the connection, or goes nowhere.        *)
LEMMA RefusalFollows ==
  ASSUME HoldsKept, Len(answers) < Len(client.starts), base = NextStart,
         NEW STATE status, ErrorReply(status), keep_alive' = 0 \/ peer = "gone",
         UNCHANGED <<clientVars, base, answers>>
  PROVE  Following'
<1>1. phase' = "CONN_SENDING_RESPONSE" /\ resp'.pos = base
  BY DEF ErrorReply, phase_send_begin, Advance, Reply
<1>2. UNCHANGED <<client, arrived, released, peer>> /\ NextStart' = NextStart
  BY DEF clientVars, NextStart
<1>3. HeadTaken' /\ BodyFollowed' /\ BetweenRequests'
  BY <1>1 DEF HeadTaken, HeadPhases, BodyFollowed, BetweenRequests
<1>4. Replying'
  BY <1>1, <1>2 DEF Replying
<1>5. HoldsKept'
  BY <1>1, <1>2 DEF HoldsKept
<1> QED
  BY <1>3, <1>4, <1>5 DEF Following

(* The next unanswered request, once its head is taken. *)
TakenFacts(r, p, e) ==
  /\ Len(answers) + 1 \in DOMAIN client.starts
  /\ p \in Nat /\ e \in Nat /\ base + 4 <= p /\ p <= e /\ e <= Len(client.bytes)
  /\ Framed(r, client.bytes, p, e)
  /\ Kept(r) /\ p < e => e - base <= HTTP_MAX_REQUEST_LEN

LEMMA HeadFacts ==
  ASSUME client \in Client, WellFramed(client), Len(answers) \in Nat,
         Len(answers) < Len(client.starts), base = NextStart,
         NEW name, name = client.bytes[base + 1], Parsed(name), ~BodyRefused(Requests[name]),
         NEW start, base + start = HeadEnd(client.bytes, base)
  PROVE  TakenFacts(Requests[name], base + start, NextEnd)
<1> DEFINE k == Len(answers) + 1
<1>1. k \in DOMAIN client.starts /\ base = Start(client, k) /\ NextEnd = Start(client, k + 1)
  <2>1. k + 1 = Len(answers) + 2
    OBVIOUS
  <2> QED
    BY <2>1, ClientFields DEF NextStart, NextEnd
<1> HIDE DEF k
<1>2. PICK p, e, c : p = base + start /\ e = NextEnd /\ c = client
  OBVIOUS
<1>3. /\ p = HeadEnd(c.bytes, Start(c, k)) /\ name = c.bytes[Start(c, k) + 1] /\ Parsed(name)
      /\ ~BodyRefused(Requests[name]) /\ c \in Client /\ WellFramed(c) /\ k \in DOMAIN c.starts
      /\ e = Start(c, k + 1)
  BY <1>1, <1>2
<1>4. /\ Framed(Requests[name], c.bytes, p, e)
      /\ Kept(Requests[name]) /\ p < e => e - Start(c, k) <= HTTP_MAX_REQUEST_LEN
  BY <1>3, AcceptedRequest
<1>5. p \in Nat /\ e \in Nat /\ Start(c, k) + 4 <= p /\ p <= e /\ e <= Len(c.bytes)
  BY <1>3, RequestPlaces
<1> QED
  BY <1>1, <1>2, <1>4, <1>5 DEF TakenFacts, k

LEMMA HeadFieldsFacts ==
  ASSUME IInv, WellFramed(client), HeadFields
  PROVE  TakenFacts(Requests[req], base + body_start, NextEnd)
BY Positions, HeadFacts DEF HeadFields

(* A decoder begins before the first byte of the body. *)
LEMMA ChunksBegin ==
  ASSUME NEW b \in Seq(STRING), NEW p \in Nat, NEW e \in Nat, e <= Len(b), NEW C \in SUBSET LineStarts(b, p, e),
         ChunksFrom(b, p, e, C)
  PROVE  ChunkPos(b, C, DecoderInit, p + 0) /\ DecodedTo(b, C, 0, p + 0)
<1>1. p + 0 = p /\ p \in C
  BY DEF ChunksFrom
<1>2. ChunkPos(b, C, DecoderInit, p)
  BY <1>1 DEF ChunkPos, DecoderInit
<1>3. DecodedTo(b, C, 0, p)
  <2>1. IsFiniteSet(Decoded(b, C))
    BY ChunksOfBody, DecodedIsFinite
  <2>2. IsFiniteSet({y \in Decoded(b, C) : y < p})
    BY <2>1, FS_Subset
  <2> QED
    BY <2>2, FS_CardinalityType DEF DecodedTo
<1> QED
  BY <1>1, <1>2, <1>3

(* phase_body_dispatch, after the head or after the interim response.      *)
LEMMA DispatchFollows ==
  ASSUME IInv, WellFramed(client), phase_body_dispatch(body_coding', body_len', body_start'), body_start' \in Nat,
         HeadFields',
         \A h \in client.holds : h <= released' \/ arrived <= h,
         \A h \in client.holds : h <= base + body_start' => h <= released',
         UNCHANGED <<client, arrived, peer, base, size, answers>>
  PROVE  Following'
<1> DEFINE p == base + body_start'
           r == Requests[req']
<1>1. NextEnd' = NextEnd /\ NextStart' = NextStart
  BY DEF NextEnd, NextStart
<1>2. TakenFacts(r, p, NextEnd)
  <2>1. /\ Len(answers) < Len(client.starts) /\ base = NextStart
        /\ req' = client.bytes[base + 1] /\ Parsed(req') /\ ~BodyRefused(Requests[req'])
        /\ base + body_start' = HeadEnd(client.bytes, base)
    BY <1>1 DEF HeadFields
  <2> QED
    BY <2>1, Positions, HeadFacts
<1>3. /\ p \in Nat /\ NextEnd \in Nat /\ NextEnd <= Len(client.bytes) /\ base + 4 <= p
      /\ Framed(r, client.bytes, p, NextEnd) /\ client.bytes \in Seq(STRING)
  BY <1>2, Positions, ClientFields DEF TakenFacts
<1>4. body_coding' = TransferCoding(r) /\ (body_coding' # "TE_CHUNKED" => body_len' = Announced(r))
  BY DEF HeadFields
<1>5. /\ phase' \in {"CONN_READING_BODY_CHUNKED", "CONN_BUILDING", "CONN_READING_BODY_CL"}
      /\ phase' = "CONN_READING_BODY_CHUNKED" =>
           body_coding' = "TE_CHUNKED" /\ st' = ChunkedArm(DecoderInit, 0) /\ dechunked' = 0
      /\ phase' = "CONN_BUILDING" =>
           body_coding' # "TE_CHUNKED" /\ body_len' = 0 /\ next_req_offset' = body_start'
      /\ phase' = "CONN_READING_BODY_CL" => body_coding' # "TE_CHUNKED"
  BY DEF phase_body_dispatch, Advance
<1>6. BodyFollowed'
  <2>1. CASE phase' = "CONN_READING_BODY_CHUNKED"
    <3>1. st'.dec = DecoderInit /\ st'.consumed = 0
      <4>1. DecoderInit \in ChunkDecoder /\ 0 \in Nat
        BY DEF DecoderInit, ChunkDecoder, ChunkPhases
      <4> QED
        BY <1>5, <2>1, <4>1, ChunkedArmOK
    <3>2. PICK C \in SUBSET LineStarts(client.bytes, p, NextEnd) : ChunkedBody(r, client.bytes, p, NextEnd, C)
      BY <1>3, <1>4, <1>5, <2>1 DEF Framed
    <3>3. ChunkPos(client.bytes, C, DecoderInit, p + 0) /\ DecodedTo(client.bytes, C, 0, p + 0)
      BY <1>3, <3>2, ChunksBegin DEF ChunkedBody
    <3>4. ChunksFollowed'
      BY <1>1, <1>5, <2>1, <3>1, <3>2, <3>3 DEF ChunksFollowed
    <3> QED
      BY <1>5, <2>1, <3>4 DEF BodyFollowed
  <2>2. CASE phase' = "CONN_BUILDING"
    <3>1. NextEnd = p + 0
      BY <1>3, <1>4, <1>5, <2>2 DEF Framed
    <3>2. next_req_offset' > 0 /\ NextEnd = base + next_req_offset'
      BY <1>3, <1>5, <2>2, <3>1, Positions
    <3> QED
      BY <1>1, <2>2, <3>2 DEF BodyFollowed
  <2>3. CASE phase' = "CONN_READING_BODY_CL"
    BY <1>5, <2>3 DEF BodyFollowed
  <2> QED
    BY <1>5, <2>1, <2>2, <2>3
<1>7. HeadTaken' /\ BetweenRequests' /\ Replying' /\ HoldsKept'
  BY <1>5 DEF HeadTaken, BetweenRequests, Replying, HoldsKept, Sending
<1> QED
  BY <1>6, <1>7 DEF Following

(* A client that waits before the body and has not been told to go on has  *)
(* sent no byte of it, and no other hold is left before it.                *)
LEMMA HoldsBeforeBody ==
  ASSUME IInv, WellFramed(client), HoldsKept, base = NextStart, Len(answers) + 1 \in DOMAIN client.starts,
         NEW p \in Nat, p = HeadEnd(client.bytes, base), p <= NextEnd, NextEnd \in Nat,
         AsksToGoOn(client.bytes[base + 1], p, NextEnd) => p < base + size,
         NEW h \in client.holds, h <= p
  PROVE  h <= released
<1>1. h \in Nat /\ base \in Nat /\ size \in Nat /\ arrived \in Nat /\ released \in Nat /\ base + size <= arrived
  BY Positions, ClientFields
<1>2. h <= released \/ arrived <= h
  BY DEF HoldsKept
<1>3. PICK k : k = Len(answers) + 1
  OBVIOUS
<1>4. k \in Nat \ {0} /\ base = Start(client, k) /\ NextEnd = Start(client, k + 1)
  <2>1. Len(answers) \in Nat /\ Len(answers) + 1 + 1 = Len(answers) + 2
    BY Positions
  <2> QED
    BY <1>3, <2>1 DEF NextStart, NextEnd
<1>5. \/ h < base \/ NextEnd < h
      \/ h = p /\ AsksToGoOn(client.bytes[base + 1], h, NextEnd)
  <2>1. client \in Client
    BY Positions
  <2>2. \/ h < Start(client, k)
        \/ /\ k \in DOMAIN client.starts
           /\ \/ Start(client, k + 1) < h
              \/ /\ h = HeadEnd(client.bytes, Start(client, k))
                 /\ AsksToGoOn(client.bytes[Start(client, k) + 1], h, Start(client, k + 1))
    BY <1>4, <2>1, HoldPlaces
  <2> QED
    BY <1>4, <2>2
<1> QED
  BY <1>1, <1>2, <1>5

(* The head in the buffer is that of the next request. *)
LEMMA HeadInBuffer ==
  ASSUME IInv, WellFramed(client), base = NextStart, Len(answers) + 1 \in DOMAIN client.starts
  PROVE  /\ WellFormed(client.bytes, base, NextEnd)
         /\ HeadEnd(client.bytes, base) \in Nat /\ base + 4 <= HeadEnd(client.bytes, base)
         /\ HeadEnd(client.bytes, base) <= NextEnd /\ NextEnd \in Nat /\ NextEnd <= Len(client.bytes)
         /\ Terminators # {} <=> HeadEnd(client.bytes, base) <= base + size
         /\ Terminators # {} => base + (Least(Terminators) + 4) = HeadEnd(client.bytes, base)
<1>1. /\ base \in Nat /\ base + size \in Nat /\ base <= base + size /\ base + size <= Len(client.bytes)
      /\ Len(answers) \in Nat /\ client \in Client
  BY Positions
<1>2. PICK k : k = Len(answers) + 1
  OBVIOUS
<1>3. k \in DOMAIN client.starts /\ base = Start(client, k) /\ NextEnd = Start(client, k + 1)
  <2>1. Len(answers) + 1 + 1 = Len(answers) + 2
    BY <1>1
  <2> QED
    BY <1>2, <2>1 DEF NextStart, NextEnd
<1>4. /\ WellFormed(client.bytes, base, NextEnd)
      /\ HeadEnd(client.bytes, base) \in Nat /\ base + 4 <= HeadEnd(client.bytes, base)
      /\ HeadEnd(client.bytes, base) <= NextEnd /\ NextEnd \in Nat /\ NextEnd <= Len(client.bytes)
  BY <1>1, <1>3, RequestPlaces
<1>5. Occurrences(From(client.bytes, base), CRLF \o CRLF) # {} /\ client.bytes \in Seq(STRING)
  BY <1>1, <1>4, ClientFields DEF WellFormed
<1>6. Terminators = Occurrences(SubSeq(client.bytes, base + 1, base + size), CRLF \o CRLF)
  BY DEF Terminators, ReqBuf
<1> HIDE DEF Terminators
<1> QED
  BY <1>1, <1>4, <1>5, <1>6, HeadInWindow

(* keep_alive and body_len are fresh when the head of a request is         *)
(* complete, so that its checks decide about both alone.                   *)
LEMMA HeaderFollows == Follows /\ HeaderComplete => Following'
<1> SUFFICES ASSUME Follows, HeaderComplete PROVE Following'
  OBVIOUS
<1> DEFINE name  == ReqBuf[1]
           r     == Requests[name]
           start == Least(Terminators) + 4
<1>1. /\ base = NextStart /\ ReadAfresh(client.bytes, base) /\ released <= base /\ HoldsKept /\ IInv
      /\ WellFramed(client) /\ Terminators # {}
  BY DEF Follows, Following, BetweenRequests, HeaderComplete
<1>2. /\ base \in Nat /\ size \in Nat /\ arrived \in Nat /\ released \in Nat /\ Len(answers) \in Nat
      /\ base + size <= arrived /\ client \in Client /\ client.bytes \in Seq(STRING)
      /\ arrived <= Len(client.bytes) /\ Len(client.bytes) \in Nat
  BY <1>1, Positions, ClientFields
<1>3. start \in Nat /\ start \in 4 .. size
  BY <1>1, TerminatorInBounds
<1>4. Len(answers) < Len(client.starts) /\ Len(answers) + 1 \in DOMAIN client.starts
  <2>1. size > 0
    BY <1>2, <1>3
  <2>2. Len(answers) < Len(client.starts)
    BY <1>1, <2>1, RequestUnanswered
  <2> QED
    BY <1>2, <2>2, ClientFields
<1>5. name = client.bytes[base + 1]
  <2>1. base + size \in Nat /\ base < base + size
    BY <1>2, <1>3
  <2> QED
    BY <1>2, <2>1 DEF ReqBuf
<1>6. /\ WellFormed(client.bytes, base, NextEnd) /\ base + start = HeadEnd(client.bytes, base)
      /\ base + start \in Nat /\ base + start <= NextEnd /\ NextEnd \in Nat
  BY <1>1, <1>4, HeadInBuffer
<1>7. UNCHANGED <<client, arrived, released, peer, base, size, answers>> /\ UNCHANGED clientVars /\ req' = name
  BY DEF HeaderComplete, clientVars, bufVars
<1>8. \/ ~Parsed(name) /\ \E status : ErrorReply(status) /\ keep_alive' = keep_alive
      \/ Parsed(name) /\ body_start' = start /\ HeaderChecked(r, start)
  BY DEF HeaderComplete, RefuseWith, Parsed
<1>11. /\ keep_alive # 0 => Parsed(name) /\ Kept(r)
       /\ body_len # 0 /\ Parsed(name) => BodyRefused(r) \/ r.cl.present \/ TransferCoding(r) = "TE_CHUNKED"
  BY <1>1, <1>5 DEF ReadAfresh
<1> HIDE DEF name, start
<1>9. ASSUME NEW status, ErrorReply(status), keep_alive' = 0 PROVE Following'
  BY <1>1, <1>4, <1>7, <1>9, RefusalFollows
<1>10. CASE Parsed(name) /\ body_start' = start /\ HeaderChecked(r, start)
  <2>1. keep_alive' = (IF Kept(r) THEN 1 ELSE 0) /\ body_coding' = TransferCoding(r)
    BY <1>10, <1>11 DEF HeaderChecked, Kept
  <2>2. BodyRefused(r) => ~Kept(r)
    BY <1>5, <1>6, <1>10 DEF WellFormed
  <2>3. r.method # "HEAD"
    BY <1>10 DEF Parsed, request_parse, http_method_parse
  <2> HIDE DEF r
  <2>4. \/ BodyRefused(r) /\ \E status : ErrorReply(status)
        \/ /\ ~BodyRefused(r)
           /\ \E len : HeaderAccepted(r, start, len) /\ (TransferCoding(r) # "TE_CHUNKED" => len = Announced(r))
    BY <1>10, <1>11 DEF HeaderChecked, RefuseWith, BodyRefused, Announced
  <2>5. CASE BodyRefused(r) /\ \E status : ErrorReply(status)
    BY <1>9, <2>1, <2>2, <2>5
  <2>6. ASSUME ~BodyRefused(r), NEW len, HeaderAccepted(r, start, len),
               TransferCoding(r) # "TE_CHUNKED" => len = Announced(r)
        PROVE  Following'
    <3>1. body_len' = len
      BY <2>6 DEF HeaderAccepted
    <3>2. HeadFields'
      <4>1. released <= base + start
        BY <1>1, <1>2, <1>3
      <4>2. NextStart' = NextStart
        BY <1>7 DEF NextStart
      <4> QED
        BY <1>1, <1>4, <1>5, <1>6, <1>7, <1>10, <2>1, <2>6, <3>1, <4>1, <4>2 DEF HeadFields, r
    <3>3. TakenFacts(r, base + start, NextEnd)
      BY <1>1, <1>2, <1>4, <1>5, <1>6, <1>10, <2>6, HeadFacts DEF r
    <3> DEFINE has_body == TransferCoding(r) = "TE_CHUNKED" \/ (r.cl.present /\ len > 0)
               wait100  == ExpectsContinue(r, has_body, start)
    <3>4. \/ ~wait100 /\ phase_body_dispatch(TransferCoding(r), len, start)
          \/ Advance("CONN_SENDING_100")
      BY <2>3, <2>6 DEF HeaderAccepted
    <3>5. CASE ~wait100 /\ phase_body_dispatch(TransferCoding(r), len, start)
      <4>1. ASSUME AsksToGoOn(name, base + start, NextEnd) PROVE base + start < base + size
        <5>1. ~is_http_1_0(r) /\ r.expect /\ base + start < NextEnd
          BY <4>1 DEF AsksToGoOn, r
        <5>2. has_body
          <6>1. CASE TransferCoding(r) = "TE_CHUNKED"
            BY <6>1
          <6>2. CASE TransferCoding(r) # "TE_CHUNKED"
            <7>1. NextEnd = base + start + Announced(r)
              BY <3>3, <6>2 DEF TakenFacts, Framed
            <7>2. r.cl.present
              BY <1>6, <5>1, <7>1 DEF Announced
            <7>3. len > 0
              <8>1. body_len' \in Nat /\ body_len' = len /\ len = Announced(r)
                BY <1>1, <2>6, <3>1, <6>2, HeaderCompletePreserves, MaxBodyLenAssumption DEF IInv, TypeOK
              <8> QED
                BY <1>6, <5>1, <7>1, <8>1
            <7> QED
              BY <7>2, <7>3
          <6> QED
            BY <6>1, <6>2
        <5>3. ~(size <= start)
          BY <3>5, <5>1, <5>2 DEF ExpectsContinue
        <5> QED
          BY <1>2, <1>3, <5>3
      <4>2. \A h \in client.holds : h <= base + start => h <= released
        BY <1>1, <1>4, <1>5, <1>6, <4>1, HoldsBeforeBody
      <4>3. \A h \in client.holds : h <= released \/ arrived <= h
        BY <1>1 DEF HoldsKept
      <4> HIDE DEF wait100
      <4> QED
        BY <1>1, <1>3, <1>7, <1>10, <2>1, <3>1, <3>2, <3>5, <4>2, <4>3, DispatchFollows
    <3>6. CASE Advance("CONN_SENDING_100")
      <4>1. phase' = "CONN_SENDING_100"
        BY <3>6 DEF Advance
      <4>2. \A h \in client'.holds : h <= released' \/ arrived' <= h
        BY <1>1, <1>7 DEF HoldsKept
      <4> QED
        BY <3>2, <4>1, <4>2 DEF Following, HeadTaken, BodyFollowed, BetweenRequests, Replying, Sending, HoldsKept
    <3> QED
      BY <3>4, <3>5, <3>6
  <2> QED
    BY <2>4, <2>5, <2>6
<1> QED
  BY <1>8, <1>9, <1>10, <1>11, Positions DEF Follows, IInv

(* What a step that ends neither the request nor the connection leaves.    *)
LEMMA StillFollows ==
  ASSUME Following, phase \notin {"CONN_BUILDING", "CONN_READING_BODY_CHUNKED"},
         UNCHANGED <<clientVars, answers, phase, req, base, headVars, resp>>
  PROVE  Following'
<1> USE DEF clientVars, headVars, NextStart, NextEnd
<1>1. HeadTaken' /\ BetweenRequests' /\ Replying' /\ HoldsKept'
  BY DEF Following, HeadTaken, HeadFields, BetweenRequests, ReadAfresh, Replying, HoldsKept
<1>2. BodyFollowed'
  BY DEF Following, BodyFollowed
<1> QED
  BY <1>1, <1>2 DEF Following

(* recv finds the end of all the client has to say. *)
LEMMA NothingMissing ==
  ASSUME IInv, Hears, RecvFails
  PROVE  peer = "gone" \/ base + size = Len(client.bytes)
BY Positions DEF Hears, RecvFails, Unread

LEMMA HeaderRecvFollows == Follows /\ HeaderRecv => slot' = "free" \/ Following'
<1> SUFFICES ASSUME Follows, HeaderRecv PROVE slot' = "free" \/ Following'
  OBVIOUS
<1>1. /\ base = NextStart /\ ReadAfresh(client.bytes, base) /\ HoldsKept /\ IInv /\ WellFramed(client) /\ Following
      /\ phase = "CONN_READING_REQUEST" /\ UNCHANGED <<clientVars, keep_alive, answers>>
  BY DEF Follows, Following, BetweenRequests, HeaderRecv
<1>2. CASE size >= HTTP_MAX_REQUEST_LEN /\ RefuseWith("PARSE_HEADER_TOO_LONG") /\ UNCHANGED bufVars
  <2>1. size > 0
    BY <1>1, <1>2, Positions, SizesAssumption
  <2>2. Len(answers) < Len(client.starts)
    BY <1>1, <2>1, RequestUnanswered
  <2> QED
    <3>1. Len(answers) + 1 \in DOMAIN client.starts
      BY <1>1, <2>2, Positions, ClientFields
    <3>2. ~(HeadEnd(client.bytes, base) <= base + size)
      BY <1>1, <3>1, HeadInBuffer DEF HeaderRecv
    <3>3. HeadEnd(client.bytes, base) \in Nat /\ base \in Nat /\ size \in Nat /\ HTTP_MAX_REQUEST_LEN \in Nat
      BY <1>1, <3>1, HeadInBuffer, Positions
    <3>4. keep_alive = 0
      BY <1>1, <1>2, <3>2, <3>3 DEF ReadAfresh
    <3> QED
      BY <1>1, <1>2, <2>2, <3>4, RefusalFollows DEF RefuseWith, bufVars
<1>3. CASE slot' # "free" /\ ~(size >= HTTP_MAX_REQUEST_LEN /\ RefuseWith("PARSE_HEADER_TOO_LONG") /\ UNCHANGED bufVars)
  <2>1. UNCHANGED <<phase, req, base, headVars, resp>>
    BY <1>3 DEF HeaderRecv, RecvBytes, Park, Close, bufVars, respVars, headVars
  <2> QED
    BY <1>1, <2>1, StillFollows
<1> QED
  BY <1>2, <1>3

LEMMA Send100Follows == Follows /\ Send100 => slot' = "free" \/ Following'
<1> SUFFICES ASSUME Follows, Send100 PROVE slot' = "free" \/ Following'
  OBVIOUS
<1>1. /\ IInv /\ WellFramed(client) /\ Following /\ HeadFields /\ HoldsKept /\ phase = "CONN_SENDING_100"
      /\ UNCHANGED <<client, arrived, peer, headVars, base, size, resp, req, answers>>
  BY DEF Follows, Following, HeadTaken, HeadPhases, Send100, bufVars
<1>2. CASE phase_body_dispatch(body_coding, body_len, body_start) /\ released' = base + body_start
  <2>1. released <= released' /\ released \in Nat /\ released' \in Nat /\ arrived \in Nat /\ body_start \in Nat
        /\ client.holds \in SUBSET Nat
    <3>1. released <= base + body_start
      BY <1>1 DEF HeadFields
    <3>2. /\ released \in Nat /\ base \in Nat /\ arrived \in Nat /\ body_start \in Nat /\ client \in Client
      BY <1>1, Positions
    <3>3. client.holds \in SUBSET Nat
      BY <3>2, ClientFields
    <3> QED
      BY <1>2, <3>1, <3>2, <3>3
  <2>2. HeadFields'
    BY <1>1, <1>2, <2>1 DEF HeadFields, headVars, NextStart
  <2>3. \A h \in client.holds : h <= released' \/ arrived <= h
    BY <1>1, <2>1 DEF HoldsKept
  <2>4. \A h \in client.holds : h <= base + body_start' => h <= released'
    BY <1>1, <1>2 DEF headVars
  <2>5. phase_body_dispatch(body_coding', body_len', body_start') /\ body_start' \in Nat
    BY <1>1, <1>2, <2>1 DEF headVars
  <2> QED
    BY <1>1, <2>2, <2>3, <2>4, <2>5, DispatchFollows
<1>3. CASE UNCHANGED <<released, phase>>
  BY <1>1, <1>3, StillFollows DEF clientVars
<1> QED
  BY <1>2, <1>3 DEF Send100, Park, Close

LEMMA BodyClCompleteFollows == Follows /\ BodyClComplete => Following'
<1> SUFFICES ASSUME Follows, BodyClComplete PROVE Following'
  OBVIOUS
<1>1. /\ IInv /\ WellFramed(client) /\ HeadFields /\ HoldsKept /\ phase = "CONN_READING_BODY_CL"
      /\ body_coding # "TE_CHUNKED" /\ phase' = "CONN_BUILDING"
      /\ UNCHANGED <<clientVars, headVars, base, size, resp, req, answers>>
  BY DEF Follows, Following, HeadTaken, HeadPhases, BodyFollowed, BodyClComplete, bufVars, respVars, Advance
<1>2. NextEnd = base + body_start + body_len
  <2>1. Framed(Requests[req], client.bytes, base + body_start, NextEnd)
    BY <1>1, HeadFieldsFacts DEF TakenFacts
  <2> QED
    BY <1>1, <2>1 DEF Framed, HeadFields
<1>3. st.received = size - body_start /\ body_len > 0 /\ body_start <= size
  BY <1>1 DEF IInv, OffsetsInBounds
<1>4. NextEnd = base + (IF next_req_offset' > 0 THEN next_req_offset' ELSE size)
  <2>1. base \in Nat /\ size \in Nat /\ body_start \in Nat /\ body_len \in Nat
    BY <1>1, Positions
  <2> QED
    BY <1>2, <1>3, <2>1 DEF BodyClComplete
<1>5. BodyFollowed'
  BY <1>1, <1>4 DEF BodyFollowed, NextEnd, clientVars
<1>6. HeadTaken' /\ BetweenRequests' /\ Replying' /\ HoldsKept'
  BY <1>1 DEF HeadTaken, HeadFields, NextStart, BetweenRequests, Replying, Sending, HoldsKept, clientVars, headVars
<1> QED
  BY <1>5, <1>6 DEF Following

(* A body that req_buf cannot hold, or that does not come, ends the        *)
(* connection.                                                             *)
LEMMA IncompleteBody ==
  ASSUME Follows, HeadFields, base + size < NextEnd, base + body_start < NextEnd,
         size >= HTTP_MAX_REQUEST_LEN \/ RecvFails
  PROVE  keep_alive = 0 \/ peer = "gone"
<1>1. TakenFacts(Requests[req], base + body_start, NextEnd)
  BY HeadFieldsFacts DEF Follows
<1>2. /\ NextEnd \in Nat /\ NextEnd <= Len(client.bytes)
      /\ Kept(Requests[req]) => NextEnd - base <= HTTP_MAX_REQUEST_LEN
  BY <1>1 DEF TakenFacts
<1>3. base \in Nat /\ size \in Nat /\ HTTP_MAX_REQUEST_LEN \in Nat /\ Len(client.bytes) \in Nat
  BY Positions DEF Follows
<1>4. CASE RecvFails
  BY <1>2, <1>3, <1>4, NothingMissing DEF Follows
<1>5. CASE size >= HTTP_MAX_REQUEST_LEN
  BY <1>2, <1>3, <1>5 DEF HeadFields
<1> QED
  BY <1>4, <1>5

LEMMA BodyClRecvFollows == Follows /\ BodyClRecv => Following'
<1> SUFFICES ASSUME Follows, BodyClRecv PROVE Following'
  OBVIOUS
<1>1. /\ IInv /\ WellFramed(client) /\ Following /\ HeadFields /\ HoldsKept /\ phase = "CONN_READING_BODY_CL"
      /\ body_coding # "TE_CHUNKED" /\ st.received < body_len
      /\ UNCHANGED <<clientVars, headVars, base, req, answers>>
  BY DEF Follows, Following, HeadTaken, HeadPhases, BodyFollowed, BodyClRecv, bufVars, RecvBytes
<1>2. base + size < NextEnd /\ base + body_start < NextEnd
  <2>1. Framed(Requests[req], client.bytes, base + body_start, NextEnd)
    BY <1>1, HeadFieldsFacts DEF TakenFacts
  <2>2. NextEnd = base + body_start + body_len
    BY <1>1, <2>1 DEF Framed, HeadFields
  <2>3. st.received = size - body_start /\ body_len > 0
    BY <1>1 DEF IInv, OffsetsInBounds
  <2>4. base \in Nat /\ size \in Nat /\ body_start \in Nat /\ body_len \in Nat
    BY <1>1, Positions
  <2> QED
    BY <1>1, <2>2, <2>3, <2>4
<1>3. CASE (size >= HTTP_MAX_REQUEST_LEN \/ RecvFails) /\ ErrorReply("PARSE_BAD_REQUEST")
  <2>1. keep_alive' = 0 \/ peer = "gone"
    BY <1>1, <1>2, <1>3, IncompleteBody DEF headVars
  <2> QED
    BY <1>1, <1>3, <2>1, RefusalFollows DEF HeadFields
<1>4. CASE UNCHANGED <<phase, resp>>
  BY <1>1, <1>4, StillFollows
<1> QED
  BY <1>3, <1>4 DEF BodyClRecv, Park, respVars

LEMMA SubWindow ==
  ASSUME NEW b \in Seq(STRING), NEW x \in Nat, NEW n \in Nat, NEW f \in Nat, f <= n, x + n <= Len(b)
  PROVE  SubSeq(SubSeq(b, x + 1, x + n), f + 1, n) = SubSeq(b, x + f + 1, x + n)
<1> DEFINE u == SubSeq(b, x + 1, x + n)
           v == SubSeq(u, f + 1, n)
           z == SubSeq(b, x + f + 1, x + n)
<1>1. Len(b) \in Nat
  OBVIOUS
<1>2. u \in Seq(STRING) /\ Len(u) = n /\ \A k \in 1 .. n : u[k] = b[x + k]
  BY <1>1
<1> HIDE DEF u
<1>3. v \in Seq(STRING) /\ Len(v) = n - f /\ \A k \in 1 .. n - f : v[k] = u[f + k]
  BY <1>2
<1>4. z \in Seq(STRING) /\ Len(z) = n - f /\ \A k \in 1 .. n - f : z[k] = b[x + f + k]
  BY <1>1
<1> HIDE DEF v, z
<1>5. \A k \in 1 .. n - f : v[k] = z[k]
  <2> TAKE k \in 1 .. n - f
  <2>1. f + k \in 1 .. n /\ x + (f + k) = x + f + k
    OBVIOUS
  <2> QED
    BY <1>2, <1>3, <1>4, <2>1
<1>6. v = z
  <2>1. Len(v) = Len(z) /\ \A k \in 1 .. Len(v) : v[k] = z[k]
    BY <1>3, <1>4, <1>5
  <2>2. v \in Seq(STRING) /\ z \in Seq(STRING)
    BY <1>3, <1>4
  <2> QED
    BY <2>1, <2>2
<1> QED
  BY <1>6 DEF u, v, z

(* Where the decoder of a body stands in the stream. *)
LEMMA DecoderInStream ==
  ASSUME IInv, WellFramed(client), Following, phase = "CONN_READING_BODY_CHUNKED"
  PROVE  \E C \in SUBSET LineStarts(client.bytes, base + body_start, NextEnd) :
           /\ Chunks(client.bytes, base + body_start, NextEnd, C)
           /\ ChunkedBody(Requests[req], client.bytes, base + body_start, NextEnd, C)
           /\ DecodedTo(client.bytes, C, dechunked, base + body_start + st.consumed)
           /\ ChunkFollows(client.bytes, NextEnd, C, base + body_start + st.consumed, base + size,
                           HTTP_MAX_DECHUNK_SIZE - dechunked,
                           chunk_advance(st.dec, Undecoded, HTTP_MAX_DECHUNK_SIZE - dechunked))
<1>1. HeadFields /\ ChunksFollowed
  BY DEF Following, HeadTaken, HeadPhases, BodyFollowed
<1>2. PICK p, e, b, x, w : p = base + body_start /\ e = NextEnd /\ b = client.bytes /\ w = base + size
                           /\ x = base + body_start + st.consumed
  OBVIOUS
<1>3. p \in Nat /\ e \in Nat /\ e <= Len(b) /\ b \in Seq(STRING)
  BY <1>1, <1>2, HeadFieldsFacts, Positions, ClientFields DEF TakenFacts
<1>4. PICK C \in SUBSET LineStarts(b, p, e) :
        ChunkedBody(Requests[req], b, p, e, C) /\ ChunkPos(b, C, st.dec, x) /\ DecodedTo(b, C, dechunked, x)
  BY <1>1, <1>2 DEF ChunksFollowed
<1>5. Chunks(b, p, e, C)
  BY <1>3, <1>4, ChunksOfBody DEF ChunkedBody
<1>6. /\ DecoderOK(st.dec) /\ st.consumed \in Nat /\ body_start \in Nat /\ size \in Nat
      /\ body_start + st.consumed <= size
  BY <1>1, UndecodedIsText
<1>7. PICK avail \in Nat : avail = HTTP_MAX_DECHUNK_SIZE - dechunked
  BY <1>1, UndecodedIsText
<1>8. Window(b, x, w, Undecoded)
  <2>1. base \in Nat /\ w \in Nat /\ w <= Len(b) /\ Len(b) \in Nat
    BY <1>1, <1>2, Positions
  <2>2. PICK f \in Nat : f = body_start + st.consumed /\ f <= size
    BY <1>6
  <2>3. x = base + f /\ x \in Nat /\ x <= w
    BY <1>2, <1>6, <2>1, <2>2
  <2>4. Undecoded = SubSeq(SubSeq(b, base + 1, base + size), f + 1, size)
    BY <1>2, <2>2 DEF Undecoded, ReqBuf
  <2>5. SubSeq(SubSeq(b, base + 1, base + size), f + 1, size) = SubSeq(b, base + f + 1, base + size)
    <3>1. PICK a \in Nat, n \in Nat : a = base /\ n = size
      BY <1>6, <2>1
    <3>2. f <= n /\ a + n <= Len(b)
      BY <1>2, <2>1, <2>2, <3>1
    <3>3. SubSeq(SubSeq(b, a + 1, a + n), f + 1, n) = SubSeq(b, a + f + 1, a + n)
      BY <1>3, <3>2, SubWindow
    <3> QED
      BY <3>1, <3>3
  <2>6. Undecoded = SubSeq(b, x + 1, w)
    BY <1>2, <2>3, <2>4, <2>5
  <2> QED
    BY <2>1, <2>3, <2>6 DEF Window
<1>9. ChunkFollows(b, e, C, x, w, avail, chunk_advance(st.dec, Undecoded, avail))
  BY <1>4, <1>5, <1>6, <1>8, DecoderFollows
<1> QED
  BY <1>2, <1>4, <1>5, <1>7, <1>9

LEMMA BodyChunkedFollows == Follows /\ BodyChunked => Following'
<1> SUFFICES ASSUME Follows, BodyChunked PROVE Following'
  OBVIOUS
<1> DEFINE cr == chunk_advance(st.dec, Undecoded, HTTP_MAX_DECHUNK_SIZE - dechunked)
<1>1. /\ IInv /\ WellFramed(client) /\ HeadFields /\ HoldsKept /\ phase = "CONN_READING_BODY_CHUNKED"
      /\ body_coding = "TE_CHUNKED" /\ slot = "stepping"
      /\ UNCHANGED <<clientVars, headVars, base, req, answers>>
  BY DEF Follows, Following, HeadTaken, HeadPhases, BodyFollowed, BodyChunked, bufVars, RecvBytes
<1>2. PICK p, e, b, x, w, r, max :
        /\ p = base + body_start /\ e = NextEnd /\ b = client.bytes /\ w = base + size
        /\ x = base + body_start + st.consumed /\ r = Requests[req] /\ max = HTTP_MAX_DECHUNK_SIZE
  OBVIOUS
<1>3. PICK C \in SUBSET LineStarts(b, p, e) :
        /\ Chunks(b, p, e, C) /\ ChunkedBody(r, b, p, e, C) /\ DecodedTo(b, C, dechunked, x)
        /\ ChunkFollows(b, e, C, x, w, max - dechunked, cr)
  BY <1>2, DecoderInStream DEF Follows, BodyChunked
<1>4. /\ DecoderOK(st.dec) /\ st.consumed \in Nat /\ body_start \in Nat /\ size \in Nat
      /\ dechunked \in Nat /\ max - dechunked \in Nat /\ max \in Nat
      /\ body_start + st.consumed <= size /\ Undecoded \in Seq(STRING)
  BY <1>1, <1>2, UndecodedIsText, SizesAssumption
<1>5. ChunkStepOK(st.dec, Undecoded, HTTP_MAX_DECHUNK_SIZE - dechunked, cr)
  BY <1>2, <1>4, ChunkAdvanceOK
<1>6. /\ base \in Nat /\ p \in Nat /\ x \in Nat /\ w \in Nat /\ e \in Nat
      /\ base + 4 <= p /\ p <= x /\ x <= w
  <2>1. TakenFacts(r, p, e) /\ base \in Nat
    BY <1>1, <1>2, HeadFieldsFacts, Positions
  <2>2. p \in Nat /\ e \in Nat /\ base + 4 <= p
    BY <2>1 DEF TakenFacts
  <2>3. PICK m, n, k, l : m = base /\ n = body_start /\ k = st.consumed /\ l = size
    OBVIOUS
  <2>4. /\ m \in Nat /\ n \in Nat /\ k \in Nat /\ l \in Nat /\ n + k <= l
        /\ p = m + n /\ x = m + n + k /\ w = m + l
    BY <1>2, <1>4, <2>1, <2>3
  <2>5. x \in Nat /\ w \in Nat /\ p <= x /\ x <= w
    BY <2>4
  <2> QED
    BY <2>1, <2>2, <2>5
<1>7. PICK d, next, written, status : d = cr.dec /\ next = cr.next /\ written = cr.bytes_written /\ status = cr.status
  OBVIOUS
<1>8. next \in Nat /\ written \in Nat /\ d \in ChunkDecoder /\ st.consumed + next \in Nat
  BY <1>4, <1>5, <1>7 DEF ChunkStepOK, DecoderOK
<1>9. /\ dechunked' = dechunked + written
      /\ \/ status \notin {"PARSE_OK", "PARSE_INCOMPLETE"} /\ ErrorReply(status)
         \/ /\ status = "PARSE_OK" /\ d.phase = "CHUNK_DONE"
            /\ next_req_offset' = body_start + (st.consumed + next) /\ phase' = "CONN_BUILDING"
         \/ /\ status = "PARSE_INCOMPLETE"
            /\ \/ size >= HTTP_MAX_REQUEST_LEN /\ ErrorReply("PARSE_PAYLOAD_TOO_LARGE")
               \/ RecvFails /\ ErrorReply("PARSE_BAD_REQUEST")
         \/ /\ status \in {"PARSE_OK", "PARSE_INCOMPLETE"} /\ phase' = phase
            /\ status = "PARSE_OK" => d.phase # "CHUNK_DONE"
            /\ st' = ChunkedArm(d, st.consumed + next)
  <2> HIDE DEF cr
  <2> QED
    BY <1>7 DEF BodyChunked, cr, Undecoded, Advance, Park, slotVars
<1> HIDE DEF cr
<1>10. NextEnd' = e /\ NextStart' = NextStart /\ Len(answers) < Len(client.starts) /\ base = NextStart
  BY <1>1, <1>2 DEF NextEnd, NextStart, HeadFields, clientVars
<1>11. ASSUME NEW s, ErrorReply(s), keep_alive = 0 \/ peer = "gone" PROVE Following'
  <2>1. keep_alive' = 0 \/ peer = "gone"
    BY <1>1, <1>11 DEF headVars
  <2> QED
    BY <1>1, <1>10, <1>11, <2>1, RefusalFollows
<1>12. CASE status = "PARSE_PAYLOAD_TOO_LARGE" /\ \E n \in Nat : max - dechunked < n /\ x .. (x + n - 1) \subseteq Decoded(b, C)
  <2>1. PICK n \in Nat : max - dechunked < n /\ x .. (x + n - 1) \subseteq Decoded(b, C)
    BY <1>12
  <2>2. n <= n
    OBVIOUS
  <2>3. dechunked + n <= Cardinality(Decoded(b, C))
    BY <1>3, <1>4, <1>6, <2>1, <2>2, DecodedGrows
  <2>4. PICK k \in Nat : k = Cardinality(Decoded(b, C))
    BY <1>3, DecodedIsFinite, FS_CardinalityType
  <2>5. ~(k <= max)
    BY <1>4, <2>1, <2>3, <2>4
  <2>6. keep_alive = 0
    BY <1>1, <1>2, <1>3, <2>4, <2>5 DEF ChunkedBody, HeadFields
  <2> QED
    BY <1>9, <1>11, <1>12, <2>6
<1>13. CASE status = "PARSE_OK" /\ d.phase = "CHUNK_DONE" /\ x + next = e
  <2>1. next_req_offset' = body_start + (st.consumed + next) /\ phase' = "CONN_BUILDING"
    BY <1>9, <1>13
  <2>2. next_req_offset' > 0 /\ e = base + next_req_offset'
    <3>1. body_start > 0
      BY <1>2, <1>4, <1>6
    <3>2. PICK m, n, k : m = base /\ n = body_start /\ k = st.consumed
      OBVIOUS
    <3>3. /\ m \in Nat /\ n \in Nat /\ k \in Nat /\ n > 0 /\ x = m + n + k
          /\ next_req_offset' = n + (k + next)
      BY <1>2, <1>4, <1>6, <2>1, <3>1, <3>2
    <3>4. next_req_offset' > 0 /\ x + next = m + next_req_offset'
      BY <1>8, <3>3
    <3> QED
      BY <1>13, <3>2, <3>4
  <2>3. BodyFollowed'
    BY <1>1, <1>10, <2>1, <2>2 DEF BodyFollowed
  <2>4. HeadTaken' /\ BetweenRequests' /\ Replying' /\ HoldsKept'
    BY <1>1, <1>10, <2>1 DEF HeadTaken, HeadFields, BetweenRequests, Replying, Sending, HoldsKept, clientVars, headVars
  <2> QED
    BY <2>3, <2>4 DEF Following
<1>14. CASE /\ status \in {"PARSE_OK", "PARSE_INCOMPLETE"} /\ ChunkPos(b, C, d, x + next)
            /\ status = "PARSE_INCOMPLETE" => w < e
            /\ x .. (x + written - 1) \subseteq Decoded(b, C) /\ written \in 0 .. next
  <2>1. CASE status = "PARSE_INCOMPLETE" /\ \E s : ErrorReply(s) /\ (size >= HTTP_MAX_REQUEST_LEN \/ RecvFails)
    <3>1. base + size < NextEnd /\ base + body_start < NextEnd
      BY <1>2, <1>6, <1>14, <2>1
    <3>2. keep_alive = 0 \/ peer = "gone"
      BY <1>1, <2>1, <3>1, IncompleteBody
    <3> QED
      BY <1>11, <2>1, <3>2
  <2>2. CASE phase' = phase /\ st' = ChunkedArm(d, st.consumed + next)
    <3>1. st'.dec = d /\ st'.consumed = st.consumed + next
      BY <1>8, <2>2, ChunkedArmOK
    <3>2. base' + body_start' + st'.consumed = x + next
      BY <1>1, <1>2, <1>4, <1>6, <1>8, <3>1 DEF headVars
    <3>3. DecodedTo(b, C, dechunked + written, x + next)
      <4>1. written <= next /\ x .. (x + written - 1) \subseteq Decoded(b, C)
        BY <1>8, <1>14
      <4> QED
        BY <1>3, <1>4, <1>6, <1>8, <4>1, DecodedGrows
    <3>4. ChunksFollowed'
      <4>1. /\ Requests[req'] = r /\ client'.bytes = b /\ base' + body_start' = p /\ NextEnd' = e
        BY <1>1, <1>2, <1>10 DEF clientVars, headVars
      <4>2. ChunkPos(b, C, st'.dec, x + next) /\ DecodedTo(b, C, dechunked', x + next)
        BY <1>9, <1>14, <3>1, <3>3
      <4> QED
        BY <1>3, <3>2, <4>1, <4>2 DEF ChunksFollowed
    <3>5. BodyFollowed'
      BY <1>1, <2>2, <3>4 DEF BodyFollowed, headVars
    <3>6. HeadTaken' /\ BetweenRequests' /\ Replying' /\ HoldsKept'
      BY <1>1, <1>10, <2>2 DEF Follows, Following, HeadTaken, HeadFields, BetweenRequests, Replying, Sending,
                               HoldsKept, clientVars, headVars
    <3> QED
      BY <3>5, <3>6 DEF Following
  <2>3. status = "PARSE_OK" => d.phase # "CHUNK_DONE"
    BY <1>14 DEF ChunkPos
  <2> QED
    BY <1>9, <1>14, <2>1, <2>2, <2>3
<1> QED
  <2>1. \/ status = "PARSE_PAYLOAD_TOO_LARGE" /\ \E n \in Nat : max - dechunked < n /\ x .. (x + n - 1) \subseteq Decoded(b, C)
        \/ status = "PARSE_OK" /\ d.phase = "CHUNK_DONE" /\ x + next = e
        \/ /\ status \in {"PARSE_OK", "PARSE_INCOMPLETE"} /\ ChunkPos(b, C, d, x + next)
           /\ status = "PARSE_INCOMPLETE" => w < e
           /\ x .. (x + written - 1) \subseteq Decoded(b, C) /\ written \in 0 .. next
    BY <1>3, <1>7 DEF ChunkFollows
  <2> QED
    BY <1>12, <1>13, <1>14, <2>1

(* request_consume leaves the buffer at the request after this one.        *)
LEMMA ResponseBuildFollows == Follows /\ ResponseBuild => Following'
<1> SUFFICES ASSUME Follows, ResponseBuild PROVE Following'
  OBVIOUS
<1>1. /\ IInv /\ WellFramed(client) /\ HeadFields /\ HoldsKept /\ phase = "CONN_BUILDING"
      /\ NextEnd = base + (IF next_req_offset > 0 THEN next_req_offset ELSE size)
      /\ UNCHANGED <<clientVars, headVars, answers>>
  BY DEF Follows, Following, HeadTaken, HeadPhases, BodyFollowed, ResponseBuild
<1>2. phase' \in Sending /\ resp'.pos = base /\ resp'.connection = (IF keep_alive = 1 THEN "keep-alive" ELSE "close")
  BY DEF ResponseBuild, Serialised, Reply, phase_send_begin, Advance, Sending
<1>3. base' = NextEnd
  BY <1>1 DEF ResponseBuild, request_consume
<1>4. released <= NextEnd /\ keep_alive \in {0, 1}
  <2>1. base + body_start \in Nat /\ NextEnd \in Nat /\ base + body_start <= NextEnd
    BY <1>1, HeadFieldsFacts DEF TakenFacts
  <2>2. released \in Nat /\ released <= base + body_start /\ keep_alive \in {0, 1}
    BY <1>1, Positions DEF HeadFields
  <2> QED
    BY <2>1, <2>2
<1>5. NextStart' = NextStart /\ NextEnd' = NextEnd /\ base = NextStart /\ Len(answers) < Len(client.starts)
  BY <1>1 DEF NextStart, NextEnd, HeadFields, clientVars
<1>6. Replying'
  BY <1>1, <1>2, <1>3, <1>4, <1>5 DEF Replying, clientVars, headVars
<1>7. HeadTaken' /\ BodyFollowed' /\ BetweenRequests' /\ HoldsKept'
  BY <1>1, <1>2 DEF HeadTaken, HeadPhases, BodyFollowed, BetweenRequests, HoldsKept, Sending, clientVars
<1> QED
  BY <1>6, <1>7 DEF Following

(* And the next one becomes the one that is awaited when this is answered. *)
LEMMA AnswerSentFollows ==
  ASSUME Follows, AnswerSent, phase \in Sending, phase = "CONN_SENDING_RESPONSE" => peer # "gone",
         UNCHANGED <<clientVars, base>>
  PROVE  slot' = "free" \/ Following'
<1>1. CASE Close
  BY <1>1 DEF Close
<1>2. CASE keep_alive = 1 /\ connection_reset /\ Advance("CONN_READING_REQUEST")
  <2>1. base = NextEnd /\ released <= base /\ HoldsKept
    BY <1>2 DEF Follows, Following, Replying
  <2>2. /\ phase' = "CONN_READING_REQUEST" /\ keep_alive' = 0 /\ body_len' = 0
        /\ UNCHANGED <<client, arrived, released, peer, base>>
    BY <1>2 DEF connection_reset, Advance, clientVars
  <2>3. NextStart' = NextEnd
    <3>1. Len(answers') = Len(answers) + 1 /\ Len(answers) \in Nat
      BY PositionsAreNat DEF AnswerSent, Follows
    <3>2. Len(answers') + 1 = Len(answers) + 2
      BY <3>1
    <3> QED
      BY <2>2, <3>2 DEF NextStart, NextEnd
  <2>4. BetweenRequests'
    BY <2>1, <2>2, <2>3 DEF BetweenRequests, ReadAfresh
  <2>5. HeadTaken' /\ BodyFollowed' /\ Replying' /\ HoldsKept'
    BY <2>1, <2>2 DEF HeadTaken, HeadPhases, BodyFollowed, Replying, Sending, HoldsKept
  <2> QED
    BY <2>4, <2>5 DEF Following
<1> QED
  BY <1>1, <1>2 DEF AnswerSent

LEMMA SendingFollows ==
  Follows /\ (ResponseSend \/ StreamSend \/ StreamPull \/ StreamDone) => slot' = "free" \/ Following'
<1> SUFFICES ASSUME Follows, ResponseSend \/ StreamSend \/ StreamPull \/ StreamDone, slot' # "free"
             PROVE  Following'
  OBVIOUS
<1>1. /\ phase \in Sending /\ UNCHANGED <<clientVars, base>> /\ Replying /\ HoldsKept
  BY DEF Follows, Following, ResponseSend, StreamSend, StreamPull, StreamDone, StreamUntouched, bufVars, Sending
<1>2. CASE AnswerSent
  <2>1. phase = "CONN_SENDING_RESPONSE" => peer # "gone"
    BY <1>2 DEF ResponseSend, StreamSend, StreamPull, StreamDone, SendAll, SendSome, SendFails, Close, Park, AnswerSent,
                Follows, IInv, TypeOK
  <2> QED
    BY <1>1, <1>2, <2>1, AnswerSentFollows
<1>3. CASE ~AnswerSent
  <2>1. UNCHANGED <<answers, phase, keep_alive>> /\ resp'.pos = resp.pos /\ resp'.connection = resp.connection
    BY <1>3 DEF ResponseSend, StreamSend, StreamPull, StreamDone, StreamUntouched, Park, Close, stream_abort, Frame,
                headVars, Follows, IInv, TypeOK, Responses
  <2>2. Replying'
    BY <1>1, <2>1 DEF Replying, NextStart, NextEnd, clientVars
  <2>3. HeadTaken' /\ BodyFollowed' /\ BetweenRequests' /\ HoldsKept'
    BY <1>1, <2>1 DEF HeadTaken, HeadPhases, BodyFollowed, BetweenRequests, HoldsKept, Sending, clientVars
  <2> QED
    BY <2>2, <2>3 DEF Following
<1> QED
  BY <1>2, <1>3

(* Every step of a connection that hears its client. *)
LEMMA StepFollows == Follows /\ Step => slot' = "free" \/ Following'
BY HeaderFollows, HeaderRecvFollows, Send100Follows, BodyClCompleteFollows, BodyClRecvFollows, BodyChunkedFollows,
   ResponseBuildFollows, SendingFollows DEF Step

-----------------------------------------------------------------------------
(* The invariant. *)

LEMMA AcceptFollows ==
  ASSUME Accept, ReadAfresh(client.bytes, 0)'
  PROVE  WellFramed(client') => Following'
<1> SUFFICES ASSUME WellFramed(client') PROVE Following'
  OBVIOUS
<1>1. /\ phase' = "CONN_READING_REQUEST" /\ base' = 0 /\ answers' = <<>> /\ released' = 0 /\ arrived' = 0
      /\ client' \in Client
  BY CatalogueAssumption DEF Accept, connection_init, headVars
<1>2. NextStart' = 0 /\ ReadAfresh(client.bytes, base)'
  BY <1>1 DEF NextStart, WellFramed
<1>3. HoldsKept'
  <2>1. \A h \in client'.holds : 0 <= h
    BY <1>1, ClientFields
  <2> QED
    BY <1>1, <2>1 DEF HoldsKept
<1>4. HeadTaken' /\ BodyFollowed' /\ BetweenRequests' /\ Replying'
  BY <1>1, <1>2 DEF HeadTaken, HeadPhases, BodyFollowed, BetweenRequests, Replying, Sending
<1> QED
  BY <1>3, <1>4 DEF Following

LEMMA ArriveFollows == IInv /\ Following /\ Arrive => Following'
<1> SUFFICES ASSUME IInv, Following, Arrive PROVE Following'
  OBVIOUS
<1>1. UNCHANGED <<client, released, peer, serverVars>>
  BY DEF Arrive
<1>2. HoldsKept'
  BY <1>1 DEF Arrive, Following, HoldsKept, serverVars, bufVars, headVars
<1>3. HeadTaken' /\ BodyFollowed' /\ BetweenRequests' /\ Replying'
  BY <1>1 DEF Following, HeadTaken, HeadFields, BodyFollowed, ChunksFollowed, BetweenRequests,
              ReadAfresh, Replying, NextStart,
              NextEnd, serverVars, bufVars, headVars, bodyVars, respVars
<1> QED
  BY <1>2, <1>3 DEF Following

(* What else may happen while a step does not run. *)
LEMMA WaitingFollows ==
  ASSUME Following, peer # "gone" \/ peer' = peer,
         UNCHANGED <<client, arrived, released, answers, phase, req, headVars, bodyVars, bufVars, respVars, st>>
  PROVE  Following'
<1> USE DEF NextStart, NextEnd, bufVars, headVars, bodyVars, respVars
<1>1. HeadTaken' /\ BetweenRequests' /\ Replying' /\ HoldsKept'
  BY DEF Following, HeadTaken, HeadFields, BetweenRequests, ReadAfresh, Replying, HoldsKept
<1>2. BodyFollowed'
  BY DEF Following, BodyFollowed, ChunksFollowed
<1> QED
  BY <1>1, <1>2 DEF Following

(* A connection that has not been cut short hears its client. *)
LEMMA FollowedHears ==
  ASSUME IInv, FramingInv, slot # "free", ~CutShort
  PROVE  Hears
BY Positions DEF FramingInv, CutShort, Hears, IInv, TypeOK

(* A step that went wrong because its client gave up has not parked to     *)
(* read: its recv would have found the end.                                *)
LEMMA FramingKeptByStep ==
  ASSUME IInv, FramingInv, Step
  PROVE  FramingInv'
<1>1. StepEnds /\ slot = "stepping"
  BY EveryStepEnds DEF StepEnds
<1>2. UNCHANGED <<client, arrived, peer>>
  BY DEF Step, HeaderComplete, HeaderRecv, Send100, BodyClComplete, BodyClRecv, BodyChunked, ResponseBuild,
         ResponseSend, StreamSend, StreamPull, StreamDone, StreamUntouched, clientVars
<1>3. (peer = "shut" /\ slot # "free" => arrived = Len(client.bytes) \/ "shut" \in Faults)'
  BY <1>1, <1>2 DEF FramingInv
<1>4. ASSUME WellFramed(client)', slot' # "free", (CutShort => Parked /\ phase \in Reading)' PROVE Following'
  <2>1. CutShort' <=> CutShort
    BY <1>2 DEF CutShort
  <2>2. ~CutShort
    <3> SUFFICES ASSUME CutShort PROVE FALSE
      OBVIOUS
    <3>1. slot' = "parked" /\ phase' \in Reading
      BY <1>4, <2>1 DEF Parked
    <3>2. Park /\ phase' = phase /\ (phase \in Reading => RecvWouldBlock)
      BY <1>1, <3>1 DEF StepEnds, ParksBlocked, Park
    <3>3. peer = "open"
      BY <3>1, <3>2 DEF RecvWouldBlock
    <3> QED
      BY <3>3 DEF CutShort
  <2>3. Hears
    BY <1>1, <2>2, FollowedHears
  <2>4. WellFramed(client)
    BY <1>2, <1>4
  <2>5. Following
    BY <1>1, <2>2, <2>4 DEF FramingInv
  <2> QED
    BY <1>1, <1>4, <2>3, <2>4, <2>5, StepFollows DEF Follows
<1> QED
  BY <1>3, <1>4 DEF FramingInv

LEMMA FramingKeptByAccept ==
  ASSUME Accept, ReadAfresh(client.bytes, 0)'
  PROVE  FramingInv'
<1>1. peer' = "open"
  BY DEF Accept
<1>2. WellFramed(client') => Following'
  BY AcceptFollows
<1> QED
  BY <1>1, <1>2 DEF FramingInv

(* The client's own doing, and waking up: bytes arrive, it shuts its side  *)
(* or resets.                                                              *)
LEMMA FramingKeptByWaiting ==
  ASSUME IInv, FramingInv, Arrive \/ Shut \/ Reset \/ PollWake \/ Halted \/ UNCHANGED vars
  PROVE  FramingInv'
<1>1. CASE Arrive
  <2>1. peer = "open" /\ UNCHANGED <<client, peer, slot>> /\ slot # "free"
    BY <1>1 DEF Arrive, serverVars, slotVars, Connected
  <2>2. ASSUME WellFramed(client) PROVE Following'
    BY <1>1, <2>1, <2>2, ArriveFollows DEF FramingInv, CutShort
  <2> QED
    BY <2>1, <2>2 DEF FramingInv
<1>2. CASE Shut \/ Reset
  <2>1. UNCHANGED <<client, arrived, released, serverVars>> /\ peer # "gone" /\ slot # "free" /\ slot' = slot
        /\ phase' = phase
    BY <1>2 DEF Shut, Reset, serverVars, slotVars, Connected
  <2>2. peer' = "shut" => arrived' = Len(client'.bytes) \/ "shut" \in Faults
    BY <1>2, <2>1 DEF Shut, Reset
  <2>3. CutShort => CutShort'
    BY <1>2, <2>1 DEF CutShort, Shut, Reset
  <2>4. ASSUME WellFramed(client)', (CutShort => Parked /\ phase \in Reading)' PROVE Following'
    <3>1. CutShort => Parked /\ phase \in Reading
      BY <2>1, <2>3, <2>4 DEF Parked
    <3>2. Following
      BY <2>1, <2>4, <3>1 DEF FramingInv
    <3> QED
      BY <2>1, <3>2, WaitingFollows DEF serverVars
  <2> QED
    BY <2>1, <2>2, <2>4 DEF FramingInv
<1>3. CASE PollWake
  <2>1. UNCHANGED <<clientVars, uses, phase, headVars, bodyVars, bufVars, respVars, requests, req, producer, st, answers>>
        /\ slot = "parked" /\ slot' = "stepping"
    BY <1>3 DEF PollWake
  <2>2. UNCHANGED <<client, arrived, released, peer>>
    BY <2>1 DEF clientVars
  <2>3. ASSUME WellFramed(client)', (CutShort => Parked /\ phase \in Reading)' PROVE Following'
    <3>1. ~CutShort
      BY <2>1, <2>2, <2>3 DEF CutShort, Parked
    <3>2. Following
      BY <2>1, <2>2, <2>3, <3>1 DEF FramingInv
    <3> QED
      BY <2>1, <2>2, <3>2, WaitingFollows
  <2> QED
    BY <2>1, <2>2, <2>3 DEF FramingInv
<1>4. CASE Halted \/ UNCHANGED vars
  <2>1. UNCHANGED vars
    BY <1>4 DEF Halted
  <2>2. UNCHANGED <<client, arrived, released, peer, slot, answers, phase, req, headVars, bodyVars, bufVars, respVars, st>>
    BY <2>1 DEF vars, clientVars, slotVars
  <2>3. Following => Following'
    BY <2>2, WaitingFollows
  <2> QED
    BY <2>2, <2>3 DEF FramingInv, CutShort, Parked
<1> QED
  BY <1>1, <1>2, <1>3, <1>4

LEMMA NextKeepsFraming == IInv /\ FramingInv /\ [Next]_vars /\ CleanHandOver => FramingInv'
<1> SUFFICES ASSUME IInv, FramingInv, [Next]_vars, CleanHandOver PROVE FramingInv'
  OBVIOUS
<1>1. CASE Accept
  BY <1>1, FramingKeptByAccept DEF CleanHandOver
<1>2. CASE Step
  BY <1>2, FramingKeptByStep
<1>3. CASE Arrive \/ Shut \/ Reset \/ PollWake \/ Halted \/ UNCHANGED vars
  BY <1>3, FramingKeptByWaiting
<1> QED
  BY <1>1, <1>2, <1>3 DEF Next, Environment

(* A step serves the client it was woken for. *)
LEMMA StepKeepsUses == IInv /\ Step => uses' = uses
<1> SUFFICES ASSUME IInv, Step PROVE uses' = uses
  OBVIOUS
<1> QED
  BY DEF Step, HeaderComplete, HeaderChecked, HeaderAccepted, HeaderRecv, Send100, BodyClComplete, BodyClRecv,
         BodyChunked, ResponseBuild, ResponseSend, StreamSend, StreamPull, StreamDone, AnswerSent, RefuseWith,
         ErrorReply, phase_send_begin, phase_body_dispatch, Frame, stream_abort, Park, Close, Advance, slotVars

(* Until a second client is accepted, nothing has been left behind.        *)
Unused == uses = 0 => slot = "free" /\ keep_alive = 0 /\ body_len = 0

LEMMA NextKeepsUnused == IInv /\ Unused /\ [Next]_vars => Unused'
<1> SUFFICES ASSUME IInv, Unused, [Next]_vars PROVE Unused'
  OBVIOUS
<1>1. uses \in Nat
  BY SizesAssumption DEF IInv, TypeOK
<1>2. CASE Accept
  BY <1>1, <1>2 DEF Accept, Unused
<1>3. CASE Step
  <2>1. slot = "stepping" /\ uses' = uses
    <3>1. slot = "stepping"
      BY <1>3, EveryStepEnds DEF StepEnds
    <3>2. uses' = uses
      BY <1>3, StepKeepsUses
    <3> QED
      BY <3>1, <3>2
  <2> QED
    BY <2>1 DEF Unused
<1>4. CASE PollWake \/ Arrive \/ Shut \/ Reset \/ Halted \/ UNCHANGED vars
  <2>1. UNCHANGED <<uses, keep_alive, body_len>> /\ (slot' = slot \/ slot = "parked")
    BY <1>4 DEF PollWake, Arrive, Shut, Reset, Halted, serverVars, vars, slotVars, headVars
  <2> QED
    BY <2>1 DEF Unused
<1> QED
  BY <1>2, <1>3, <1>4 DEF Next, Environment

(* A connection keeps its place in the stream of a well-framed client: the *)
(* offsets of step_header_read, conn_recv_body_cl, conn_recv_body_chunked  *)
(* and request_consume are where the client's heads, bodies and chunks     *)
(* are, as long as no slot is handed over with a keep_alive or a body_len  *)
(* that connection_init should have cleared and the first request reads.   *)
THEOREM StreamFollowed == Spec /\ [][CleanHandOver]_vars => []FramingInv
<1>1. Init => FramingInv
  BY DEF Init, FramingInv
<1>2. IInv /\ FramingInv /\ [Next]_vars /\ [CleanHandOver]_vars => FramingInv'
  <2>1. CASE UNCHANGED vars
    BY <2>1, FramingKeptByWaiting
  <2> QED
    BY <2>1, NextKeepsFraming
<1> QED
  BY Invariance, <1>1, <1>2, PTL DEF Spec

(* For the first client of a slot nothing has to be assumed of that: the   *)
(* fields are zero from the start.                                         *)
THEOREM FirstStreamFollowed == Spec => [](uses <= 1 => FramingInv)
<1> DEFINE First == uses <= 1 => FramingInv
<1>1. Init => First /\ Unused
  BY DEF Init, FramingInv, Unused
<1>2. IInv /\ Unused /\ First /\ [Next]_vars => First' /\ Unused'
  <2> SUFFICES ASSUME IInv, Unused, First, [Next]_vars PROVE First'
    BY NextKeepsUnused
  <2>1. uses \in Nat
    BY SizesAssumption DEF IInv, TypeOK
  <2>2. CASE Accept
    <3>1. uses' = uses + 1
      BY <2>2 DEF Accept
    <3>2. CASE uses = 0
      <4>1. keep_alive' = 0 /\ body_len' = 0
        BY <2>2, <3>2 DEF Unused, Accept, connection_init, headVars
      <4> QED
        BY <2>2, <4>1, FramingKeptByAccept DEF ReadAfresh
    <3>3. CASE uses # 0
      BY <2>1, <3>1, <3>3
    <3> QED
      BY <3>2, <3>3
  <2>3. CASE Step
    <3>1. uses' = uses
      BY <2>3, StepKeepsUses
    <3>2. FramingInv => FramingInv'
      BY <2>3, FramingKeptByStep
    <3> QED
      BY <3>1, <3>2
  <2>4. CASE PollWake \/ Arrive \/ Shut \/ Reset \/ Halted \/ UNCHANGED vars
    <3>1. uses' = uses
      BY <2>4 DEF PollWake, Arrive, Shut, Reset, Halted, serverVars, vars, slotVars
    <3>2. FramingInv => FramingInv'
      BY <2>4, FramingKeptByWaiting
    <3> QED
      BY <3>1, <3>2
  <2> QED
    BY <2>2, <2>3, <2>4 DEF Next, Environment
<1> QED
  BY Invariance, <1>1, <1>2, PTL DEF Spec

-----------------------------------------------------------------------------
(* Waiting for each other. *)

(* Only a hold that the buffer reaches can keep client and server waiting, *)
(* and a connection that has reached one has the request it belongs to.    *)
LEMMA FollowedNeverWaits ==
  ASSUME IInv, ParkedOnlyWhenBlocked, FramingInv, WellFramed(client)
  PROVE  NoMutualWait
<1> SUFFICES ASSUME Parked, phase \in Reading, Unread = 0, NEW h \in client.holds, released < h, arrived = h
             PROVE  FALSE
  BY DEF NoMutualWait
<1>1. Following /\ HoldsKept
  BY DEF FramingInv, Following, Parked
<1>2. /\ base \in Nat /\ size \in Nat /\ h \in Nat /\ released \in Nat /\ body_start \in Nat /\ body_len \in Nat
      /\ Len(answers) \in Nat /\ client \in Client /\ h = base + size
  BY Positions DEF Unread
<1>3. PICK k \in Nat \ {0} : k = Len(answers) + 1 /\ k + 1 = Len(answers) + 2
  BY <1>2
<1>4. NextStart = Start(client, k) /\ NextEnd = Start(client, k + 1)
  BY <1>3 DEF NextStart, NextEnd
<1>5. \/ h < NextStart
      \/ /\ k \in DOMAIN client.starts
         /\ NextEnd < h \/ h = HeadEnd(client.bytes, NextStart)
  BY <1>2, <1>4, HoldPlaces
<1>6. CASE phase = "CONN_READING_REQUEST"
  <2>1. base = NextStart /\ Terminators = {}
    BY <1>1, <1>6 DEF Following, BetweenRequests, ParkedOnlyWhenBlocked
  <2>2. k \in DOMAIN client.starts /\ (NextEnd < h \/ h = HeadEnd(client.bytes, base))
    BY <1>2, <1>5, <2>1
  <2>3. /\ HeadEnd(client.bytes, base) \in Nat /\ HeadEnd(client.bytes, base) <= NextEnd /\ NextEnd \in Nat
        /\ HeadEnd(client.bytes, base) <= base + size => Terminators # {}
    BY <1>3, <2>1, <2>2, HeadInBuffer
  <2> QED
    BY <1>2, <2>1, <2>2, <2>3
<1>7. CASE phase \in {"CONN_READING_BODY_CL", "CONN_READING_BODY_CHUNKED"}
  <2>1. HeadFields
    BY <1>1, <1>7 DEF Following, HeadTaken, HeadPhases
  <2>2. ~(h <= base + body_start)
    BY <1>1, <1>2, <1>7 DEF HoldsKept
  <2>3. base = NextStart /\ base + body_start = HeadEnd(client.bytes, base)
    BY <2>1 DEF HeadFields
  <2>4. NextEnd < h
    BY <1>2, <1>5, <2>2, <2>3
  <2>5. CASE phase = "CONN_READING_BODY_CL"
    <3>1. st.received = size - body_start /\ st.received < body_len
      BY <2>5 DEF IInv, OffsetsInBounds, ParkedOnlyWhenBlocked
    <3>2. TransferCoding(Requests[req]) # "TE_CHUNKED" /\ body_len = Announced(Requests[req])
      BY <1>1, <2>1, <2>5 DEF Following, BodyFollowed, HeadFields
    <3>3. NextEnd = base + body_start + body_len
      BY <2>1, <3>2, HeadFieldsFacts DEF TakenFacts, Framed
    <3> QED
      BY <1>2, <2>4, <3>1, <3>3
  <2>6. CASE phase = "CONN_READING_BODY_CHUNKED"
    <3> DEFINE cr == chunk_advance(st.dec, Undecoded, HTTP_MAX_DECHUNK_SIZE - dechunked)
    <3>1. cr.status = "PARSE_INCOMPLETE"
      BY <2>6 DEF ParkedOnlyWhenBlocked, Undecoded
    <3>2. PICK C : ChunkFollows(client.bytes, NextEnd, C, base + body_start + st.consumed, base + size,
                                HTTP_MAX_DECHUNK_SIZE - dechunked, cr)
      BY <1>1, <2>6, DecoderInStream
    <3>3. base + size < NextEnd
      <4> HIDE DEF cr
      <4> QED
        BY <3>1, <3>2 DEF ChunkFollows
    <3>4. NextEnd \in Nat
      BY <2>1, HeadFieldsFacts DEF TakenFacts
    <3> QED
      BY <1>2, <2>4, <3>3, <3>4
  <2> QED
    BY <1>7, <2>5, <2>6
<1> QED
  BY <1>6, <1>7 DEF Reading

(* A client that waits for its 100 Continue and a server that waits for    *)
(* the body never wait for each other: with a head in req_buf that asks    *)
(* for it, step_header_read either finds some of the body there as well or *)
(* sends the interim response, and no reader waits past the end of what    *)
(* the client may send.                                                    *)
THEOREM NeverWaitForEachOther ==
  /\ Spec /\ [][CleanHandOver]_vars => [](WellFramed(client) => NoMutualWait)
  /\ Spec => [](uses <= 1 /\ WellFramed(client) => NoMutualWait)
<1>1. IInv /\ ParkedOnlyWhenBlocked /\ FramingInv => (WellFramed(client) => NoMutualWait)
  BY FollowedNeverWaits
<1>2. IInv /\ ParkedOnlyWhenBlocked /\ (uses <= 1 => FramingInv) => (uses <= 1 /\ WellFramed(client) => NoMutualWait)
  BY FollowedNeverWaits
<1>3. Spec /\ [][CleanHandOver]_vars => [](WellFramed(client) => NoMutualWait)
  BY Invariance, NoLostWakeUp, StreamFollowed, <1>1, PTL
<1>4. Spec => [](uses <= 1 /\ WellFramed(client) => NoMutualWait)
  BY Invariance, NoLostWakeUp, FirstStreamFollowed, <1>2, PTL
<1> QED
  BY <1>3, <1>4

-----------------------------------------------------------------------------
(* Where the next request begins. *)

LEMMA FollowedBegins ==
  ASSUME FramingInv, WellFramed(client), ~CutShort
  PROVE  BufferStartsAtNextRequest
BY DEF FramingInv, Following, BetweenRequests, BufferStartsAtNextRequest, Connected

(* Between requests req_buf begins with the first byte of the next one:    *)
(* next_req_offset is where the body ends, whether a Content-Length or the *)
(* decoder says so, and request_consume moves exactly what lies behind it. *)
THEOREM NextRequestFirst ==
  /\ Spec /\ [][CleanHandOver]_vars => [](WellFramed(client) /\ ~CutShort => BufferStartsAtNextRequest)
  /\ Spec => [](uses <= 1 /\ WellFramed(client) /\ ~CutShort => BufferStartsAtNextRequest)
<1>1. FramingInv => (WellFramed(client) /\ ~CutShort => BufferStartsAtNextRequest)
  BY FollowedBegins
<1>2. (uses <= 1 => FramingInv) => (uses <= 1 /\ WellFramed(client) /\ ~CutShort => BufferStartsAtNextRequest)
  BY FollowedBegins
<1>3. Spec /\ [][CleanHandOver]_vars => [](WellFramed(client) /\ ~CutShort => BufferStartsAtNextRequest)
  BY StreamFollowed, <1>1, PTL
<1>4. Spec => [](uses <= 1 /\ WellFramed(client) /\ ~CutShort => BufferStartsAtNextRequest)
  BY FirstStreamFollowed, <1>2, PTL
<1> QED
  BY <1>3, <1>4

-----------------------------------------------------------------------------
(* The promise to the client. *)

(* The answers, as a client that only looks for the close sees them.       *)
Told(s) == [i \in DOMAIN s |-> [pos |-> s[i].pos, close |-> s[i].connection = "close"]]

LEMMA ToldAppend ==
  ASSUME NEW s \in Seq(Answers), NEW a \in Answers
  PROVE  /\ Told(Append(s, a)) = Append(Told(s), [pos |-> a.pos, close |-> a.connection = "close"])
         /\ Len(Told(s)) = Len(s) /\ Len(Append(s, a)) = Len(s) + 1
<1> DEFINE item(x) == [pos |-> x.pos, close |-> x.connection = "close"]
           V == [pos : Nat, close : BOOLEAN]
<1>1. /\ Len(s) \in Nat /\ DOMAIN s = 1 .. Len(s) /\ \A i \in DOMAIN s : s[i] \in Answers
      /\ Append(s, a) \in Seq(Answers) /\ Len(Append(s, a)) = Len(s) + 1
      /\ \A i \in 1 .. Len(s) : Append(s, a)[i] = s[i]
      /\ Append(s, a)[Len(s) + 1] = a
  OBVIOUS
<1>2. \A x \in Answers : item(x) \in V
  BY DEF Answers
<1>3. Told(s) = [i \in 1 .. Len(s) |-> item(s[i])] /\ Told(Append(s, a)) = [i \in 1 .. Len(s) + 1 |-> item(Append(s, a)[i])]
  BY <1>1 DEF Told
<1> HIDE DEF item, V
<1>4. Told(s) \in Seq(V) /\ Len(Told(s)) = Len(s)
  BY <1>1, <1>2, <1>3
<1>5. Told(Append(s, a)) \in Seq(V) /\ Len(Told(Append(s, a))) = Len(s) + 1
  <2>1. \A i \in 1 .. Len(s) + 1 : Append(s, a)[i] \in Answers
    BY <1>1
  <2> QED
    BY <1>1, <1>2, <1>3, <2>1
<1>6. item(a) \in V
  BY <1>2
<1>7. Append(Told(s), item(a)) \in Seq(V) /\ Len(Append(Told(s), item(a))) = Len(s) + 1
  BY <1>4, <1>6
<1>8. ASSUME NEW i \in 1 .. Len(s) + 1 PROVE Told(Append(s, a))[i] = Append(Told(s), item(a))[i]
  <2>1. CASE i = Len(s) + 1
    BY <1>1, <1>3, <1>4, <1>6, <2>1
  <2>2. CASE i \in 1 .. Len(s)
    BY <1>1, <1>3, <1>4, <1>6, <2>2
  <2>3. i = Len(s) + 1 \/ i \in 1 .. Len(s)
    BY <1>1
  <2> QED
    BY <2>1, <2>2, <2>3
<1>9. Told(Append(s, a)) = Append(Told(s), item(a))
  BY <1>1, <1>5, <1>7, <1>8
<1> QED
  BY <1>1, <1>4, <1>9 DEF item

(* The requests are well framed, no client gives up half way, and the      *)
(* connection follows.                                                     *)
InSession == IInv /\ FramingInv /\ (slot # "free" => WellFramed(client)) /\ "shut" \notin Faults

LEMMA SessionFollowed ==
  ASSUME InSession, slot # "free"
  PROVE  Following
BY DEF InSession, FramingInv, CutShort

LEMMA ConnectMaps == Accept => Promise!Connect
<1> SUFFICES ASSUME Accept PROVE Promise!Connect
  OBVIOUS
<1>1. slot = "free" /\ slot' = "parked" /\ client' \in Clients /\ answers' = <<>>
  BY DEF Accept
<1>2. client.starts' \in {c.starts : c \in Clients}
  BY <1>1
<1>3. Told(answers)' = <<>>
  BY <1>1 DEF Told
<1> QED
  BY <1>1, <1>2, <1>3 DEF Promise!Connect, Told

(* The end of a response: AnswerSent closes if the answer announced it.    *)
LEMMA AnswerMaps ==
  ASSUME InSession, AnswerSent, slot = "stepping", phase \in Sending,
         phase = "CONN_SENDING_RESPONSE" => peer # "gone", client' = client
  PROVE  Promise!Answer
<1> DEFINE last == [pos |-> resp.pos, connection |-> resp.connection, status |-> resp.status]
           n == Len(answers)
<1>1. answers' = Append(answers, last) /\ resp \in Responses /\ answers \in Seq(Answers) /\ n \in Nat
  BY PositionsAreNat DEF AnswerSent, InSession, IInv, TypeOK
<1>2. last \in Answers
  BY <1>1 DEF Responses, Answers
<1>3. Replying
  BY SessionFollowed DEF Following
<1>4. n = requests /\ requests < HTTP_MAX_REQUESTS /\ requests \in Nat /\ HTTP_MAX_REQUESTS \in Nat
  BY SizesAssumption DEF InSession, IInv, ControlOK, Connected, TypeOK
<1>5. n < Len(client.starts) /\ resp.pos = NextStart /\ NextStart = client.starts[n + 1]
  <2>1. n < Len(client.starts) /\ resp.pos = NextStart
    BY <1>3 DEF Replying
  <2>2. client \in Client
    BY ClientIsTyped DEF InSession
  <2>3. n + 1 \in DOMAIN client.starts
    BY <1>1, <2>1, <2>2, ClientFields
  <2> QED
    BY <2>1, <2>3 DEF NextStart, Start
<1>6. resp.connection = "close" => slot' = "free"
  <2>1. keep_alive = 0 \/ resp.connection = "keep-alive"
    BY <1>3 DEF Replying
  <2> QED
    BY <2>1 DEF AnswerSent, Close
<1>7. n + 1 = HTTP_MAX_REQUESTS => slot' = "free"
  BY <1>4 DEF AnswerSent, Close
<1>8. /\ Told(answers') = Append(Told(answers), [pos |-> client.starts[n + 1], close |-> resp.connection = "close"])
      /\ Len(Told(answers)) = n /\ Len(Told(answers')) = n + 1
  <2>1. last.pos = client.starts[n + 1] /\ last.connection = resp.connection
    BY <1>5
  <2>2. answers' \in Seq(Answers) /\ Len(answers') = n + 1
    BY <1>1, <1>2
  <2> HIDE DEF last
  <2> QED
    BY <1>1, <1>2, <2>1, <2>2, ToldAppend
<1> HIDE DEF last
<1>9. Told(answers') = Told(answers)'
  BY DEF Told
<1>10. (resp.connection = "close") \in BOOLEAN /\ (slot # "free")' \in BOOLEAN
  OBVIOUS
<1>11. client.starts' = client.starts
  OBVIOUS
<1>12. /\ slot # "free" /\ Len(Told(answers)) < Len(client.starts) /\ Len(Told(answers)) < HTTP_MAX_REQUESTS
       /\ \E close \in BOOLEAN :
            /\ Told(answers)' = Append(Told(answers), [pos |-> client.starts[Len(Told(answers)) + 1], close |-> close])
            /\ close => ~(slot # "free")'
       /\ Len(Told(answers)') = HTTP_MAX_REQUESTS => ~(slot # "free")'
       /\ (slot # "free")' \in BOOLEAN
       /\ client.starts' = client.starts
  <2>1. slot # "free" /\ Len(Told(answers)) < Len(client.starts) /\ Len(Told(answers)) < HTTP_MAX_REQUESTS
    BY <1>4, <1>5, <1>8
  <2>2. Told(answers)' = Append(Told(answers), [pos |-> client.starts[Len(Told(answers)) + 1], close |-> (resp.connection = "close")])
    BY <1>8, <1>9
  <2>3. Len(Told(answers)') = HTTP_MAX_REQUESTS => ~(slot # "free")'
    BY <1>7, <1>8, <1>9
  <2> QED
    BY <1>6, <1>10, <1>11, <2>1, <2>2, <2>3
<1> QED
  BY <1>12 DEF Promise!Answer, Told

LEMMA SessionStepMaps ==
  ASSUME InSession, Step
  PROVE  Promise!Answer \/ Promise!Disconnect \/ UNCHANGED Promise!session
<1>1. slot = "stepping" /\ client' = client
  <2>1. slot = "stepping"
    BY EveryStepEnds DEF StepEnds, InSession
  <2>2. client' = client
    BY DEF Step, HeaderComplete, HeaderRecv, Send100, BodyClComplete, BodyClRecv, BodyChunked, ResponseBuild,
         ResponseSend, StreamSend, StreamPull, StreamDone, StreamUntouched, clientVars
  <2> QED
    BY <2>1, <2>2
<1>2. CASE AnswerSent /\ (ResponseSend \/ StreamDone)
  <2>1. phase \in Sending
    BY <1>2 DEF ResponseSend, StreamDone, Sending
  <2>2. phase = "CONN_SENDING_RESPONSE" => peer # "gone"
    BY <1>2 DEF ResponseSend, StreamDone, SendAll, SendSome, SendFails, Close, Park, AnswerSent,
                InSession, IInv, TypeOK
  <2> QED
    BY <1>1, <1>2, <2>1, <2>2, AnswerMaps
<1>3. CASE ~(AnswerSent /\ (ResponseSend \/ StreamDone))
  <2>1. answers' = answers
    BY <1>3 DEF Step, HeaderComplete, HeaderRecv, Send100, BodyClComplete, BodyClRecv, BodyChunked, ResponseBuild,
         ResponseSend, StreamSend, StreamPull, StreamDone, StreamUntouched
  <2>2. CASE slot' = "free"
    BY <1>1, <2>1, <2>2 DEF Promise!Disconnect
  <2>3. CASE slot' # "free"
    BY <1>1, <2>1, <2>3 DEF Promise!session
  <2> QED
    BY <2>2, <2>3
<1> QED
  BY <1>2, <1>3

LEMMA SessionMaps ==
  ASSUME InSession, [Next]_vars
  PROVE  [Promise!Connect \/ Promise!Answer \/ Promise!Disconnect]_(Promise!session)
<1>1. CASE Step
  BY <1>1, SessionStepMaps
<1>2. CASE Accept
  BY <1>2, ConnectMaps
<1>3. CASE Arrive \/ Shut \/ Reset \/ PollWake \/ Halted \/ UNCHANGED vars
  <2>1. UNCHANGED <<client, answers>> /\ (slot' = slot \/ (slot = "parked" /\ slot' = "stepping"))
    BY <1>3 DEF PollWake, Arrive, Shut, Reset, Halted, vars, clientVars, serverVars, slotVars
  <2>2. (slot' # "free") <=> (slot # "free")
    BY <2>1
  <2> QED
    BY <2>1, <2>2 DEF Promise!session
<1> QED
  BY <1>1, <1>2, <1>3 DEF Next, Environment

(* The empty stream of a slot without a client. *)
LEMMA NobodyIsWellFramed == WellFramed(NoClient)
<1>1. Len(<<>>) = 0 /\ DOMAIN <<>> = {}
  OBVIOUS
<1>2. NoClient.bytes = <<>> /\ NoClient.starts = <<>> /\ NoClient.holds = {}
  BY DEF NoClient
<1> QED
  BY <1>1, <1>2 DEF WellFramed, Start

LEMMA SessionBegins == Init => Promise!Init
<1> SUFFICES ASSUME Init PROVE Promise!Init
  OBVIOUS
<1>1. client.starts = <<>> /\ slot = "free" /\ answers = <<>>
  BY DEF Init, NoClient
<1>2. Told(answers) = <<>>
  BY <1>1 DEF Told
<1> QED
  BY <1>1, <1>2 DEF Promise!Init, Told

(* Connection implements Session: the requests of well-framed clients that *)
(* do not give up half way are answered in order, once each, at the places *)
(* where they begin, up to and including the first answer that announces   *)
(* the close (step_response_send, step_response_send_stream).              *)
THEOREM SessionImplemented ==
  ASSUME "shut" \notin Faults, \A c \in Clients : WellFramed(c)
  PROVE  /\ Spec /\ [][CleanHandOver]_vars => ImplementsSession
         /\ MaxUses <= 1 => (Spec => ImplementsSession)
<1>1. IInv => WellFramed(client) /\ (MaxUses <= 1 => uses <= 1)
  BY NobodyIsWellFramed, SizesAssumption DEF IInv, TypeOK
<1>2. IInv /\ FramingInv => InSession
  BY <1>1 DEF InSession
<1>3. InSession /\ [Next]_vars => [Promise!Connect \/ Promise!Answer \/ Promise!Disconnect]_(Promise!session)
  BY SessionMaps
<1>4. Spec /\ [][CleanHandOver]_vars => ImplementsSession
  BY Invariance, StreamFollowed, SessionBegins, <1>2, <1>3, PTL DEF Spec, ImplementsSession, Promise!Spec
<1>5. ASSUME MaxUses <= 1 PROVE Spec => ImplementsSession
  <2>1. IInv /\ (uses <= 1 => FramingInv) => InSession
    BY <1>1, <1>2, <1>5
  <2> QED
    BY Invariance, FirstStreamFollowed, SessionBegins, <2>1, <1>3, PTL DEF Spec, ImplementsSession, Promise!Spec
<1> QED
  BY <1>4, <1>5
=============================================================================
