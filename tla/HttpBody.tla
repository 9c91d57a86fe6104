------------------------------- MODULE HttpBody -------------------------------
(***************************************************************************)
(* The pure part of request-body framing: the byte scanners of parser.c,   *)
(* uint_parse of ParseResult.c and chunk_advance of HttpBody.c, the        *)
(* chunked-transfer decoder.                                               *)
(*                                                                         *)
(* A byte is a string: "CR", "LF", ";" and the digits are the bytes the    *)
(* code looks at, any other string is a byte it does not.  A pointer into  *)
(* the input is its offset from the start of the input, so that `next` is  *)
(* the number of bytes a call consumed (0 when the code leaves it NULL).   *)
(*                                                                         *)
(* No operator of this module is RECURSIVE, so that ConnectionProofs can   *)
(* state theorems about them.                                              *)
(***************************************************************************)
EXTENDS Integers, Sequences

CONSTANT HTTP_MAX_BODY_LEN      \* Config.h: the largest Content-Length or chunk size

(* uint_parse computes (max - digit) / base on size_t: with a bound below  *)
(* the largest hexadecimal digit the subtraction would wrap.  Every value  *)
(* of Config.h is far above.                                               *)
ASSUME MaxBodyLenAssumption == HTTP_MAX_BODY_LEN \in Nat /\ HTTP_MAX_BODY_LEN >= 15

-----------------------------------------------------------------------------
(* Scanners.  The least member of a non-empty set of naturals. *)

Least(S) == CHOOSE m \in S : \A n \in S : m <= n

(* Offsets at which the bytes `pat` occur in `in`. *)
Occurrences(in, pat) ==
  {i \in 0 .. (Len(in) - Len(pat)) : \A k \in 1 .. Len(pat) : in[i + k] = pat[k]}

CRLF == <<"CR", "LF">>

(* crlf_find returns the end of the input when there is no CRLF in it. *)
crlf_find(in) ==
  LET hits == Occurrences(in, CRLF) IN IF hits = {} THEN Len(in) ELSE Least(hits)

-----------------------------------------------------------------------------
(* Numbers.  A hexadecimal digit of either case is its lower-case string.  *)

Digits == <<"0", "1", "2", "3", "4", "5", "6", "7", "8", "9", "a", "b", "c", "d", "e", "f">>

digit_value(c, base) ==
  IF \E d \in 1 .. base : Digits[d] = c THEN (CHOOSE d \in 1 .. base : Digits[d] = c) - 1 ELSE -1

(* The running `result` of uint_parse after i bytes. *)
Accumulated(s, base) ==
  LET result[i \in 0 .. Len(s)] ==
        IF i = 0 THEN 0 ELSE result[i - 1] * base + digit_value(s[i], base)
  IN  result

(* The first byte that is no digit, or whose digit takes the result above  *)
(* max, decides the error.  `result > (max - digit) / base` is exactly     *)
(* `result * base + digit > max`.                                          *)
uint_parse(s, base, max) ==
  LET result == Accumulated(s, base)
      fails  == {i \in 1 .. Len(s) : digit_value(s[i], base) = -1 \/ result[i] \notin 0 .. max}
  IN  IF s = <<>>
      THEN [status |-> "PARSE_BAD_REQUEST", value |-> 0]
      ELSE IF fails = {}
      THEN [status |-> "PARSE_OK", value |-> result[Len(s)]]
      ELSE IF digit_value(s[Least(fails)], base) = -1
      THEN [status |-> "PARSE_BAD_REQUEST", value |-> 0]
      ELSE [status |-> "PARSE_PAYLOAD_TOO_LARGE", value |-> 0]

-----------------------------------------------------------------------------
(* The chunk decoder *)

ChunkPhases == {"CHUNK_SIZE", "CHUNK_DATA", "CHUNK_TRAIL_CR", "CHUNK_TRAIL_LF",
                "CHUNK_TRAILER", "CHUNK_DONE"}

ChunkDecoder == [phase : ChunkPhases, remaining : Nat]

DecoderInit == [phase |-> "CHUNK_SIZE", remaining |-> 0]

ChunkStatuses == {"PARSE_OK", "PARSE_INCOMPLETE", "PARSE_BAD_REQUEST", "PARSE_PAYLOAD_TOO_LARGE"}

Stop(dec, status) == [status |-> status, next |-> 0, bytes_written |-> 0, dec |-> dec]

(* A step that consumes n bytes without writing any. *)
Consume(dec, n) == [status |-> "PARSE_OK", next |-> n, bytes_written |-> 0, dec |-> dec]

(* The size line: everything up to an extension's semicolon, or the CRLF. *)
SizeField(in, crlf) ==
  LET semis == {i \in 0 .. (crlf - 1) : in[i + 1] = ";"}
  IN  SubSeq(in, 1, IF semis = {} THEN crlf ELSE Least(semis))

chunk_size(dec, in) ==
  LET crlf == crlf_find(in)
      size == SizeField(in, crlf)
      len  == uint_parse(size, 16, HTTP_MAX_BODY_LEN)
  IN  IF Len(in) - crlf < 2 THEN Stop(dec, "PARSE_INCOMPLETE")
      ELSE IF len.status # "PARSE_OK" THEN Stop(dec, len.status)
      ELSE IF len.value = 0 THEN Consume([dec EXCEPT !.phase = "CHUNK_TRAILER"], crlf + 2)
      ELSE Consume([phase |-> "CHUNK_DATA", remaining |-> len.value], crlf + 2)

(* Mistake: the room left in body_dechunked is not checked. *)
chunk_data_unchecked(dec, in, out_avail) ==
  LET take == IF dec.remaining < Len(in) THEN dec.remaining ELSE Len(in)
      left == dec.remaining - take
  IN  [status |-> IF left = 0 THEN "PARSE_OK" ELSE "PARSE_INCOMPLETE",
       next |-> take, bytes_written |-> take,
       dec |-> [phase |-> IF left = 0 THEN "CHUNK_TRAIL_CR" ELSE "CHUNK_DATA", remaining |-> left]]

chunk_data(dec, in, out_avail) ==
  LET take == IF dec.remaining < Len(in) THEN dec.remaining ELSE Len(in)
      left == dec.remaining - take
  IN  IF take > out_avail THEN Stop(dec, "PARSE_PAYLOAD_TOO_LARGE")
      ELSE [status |-> IF left = 0 THEN "PARSE_OK" ELSE "PARSE_INCOMPLETE",
            next |-> take, bytes_written |-> take,
            dec |-> [phase |-> IF left = 0 THEN "CHUNK_TRAIL_CR" ELSE "CHUNK_DATA",
                     remaining |-> left]]

(* The phases that expect fixed bytes: `want` or nothing but `want`. *)
chunk_expect(dec, in, want, after) ==
  IF Len(in) < Len(want) THEN Stop(dec, "PARSE_INCOMPLETE")
  ELSE IF SubSeq(in, 1, Len(want)) # want THEN Stop(dec, "PARSE_BAD_REQUEST")
  ELSE Consume([dec EXCEPT !.phase = after], Len(want))

chunk_advance(dec, in, out_avail) ==
  CASE dec.phase = "CHUNK_SIZE"     -> chunk_size(dec, in)
    [] dec.phase = "CHUNK_DATA"     -> chunk_data(dec, in, out_avail)
    [] dec.phase = "CHUNK_TRAIL_CR" -> chunk_expect(dec, in, <<"CR">>, "CHUNK_TRAIL_LF")
    [] dec.phase = "CHUNK_TRAIL_LF" -> chunk_expect(dec, in, <<"LF">>, "CHUNK_SIZE")
    [] dec.phase = "CHUNK_TRAILER"  -> chunk_expect(dec, in, CRLF, "CHUNK_DONE")
    [] dec.phase = "CHUNK_DONE"     -> Consume(dec, 0)
=============================================================================
