--------------------------------- MODULE Arena ---------------------------------
(***************************************************************************)
(* The arena of one slot through the life of its connections: the buffers  *)
(* connection_init takes from it, the scratch a handler takes for one      *)
(* request, the context of a streamed file, and the rewind to req_mark     *)
(* between requests.  One action is one call that changes the arena, or    *)
(* the end of a phase in which it may be used.                             *)
(*                                                                         *)
(* Offsets and sizes are numbers of size_t, which wrap.  Blocks are kept   *)
(* as the places they occupy, so that two which overlap can be seen to.    *)
(***************************************************************************)
EXTENDS Integers

CONSTANTS
  HTTP_MAX_REQUEST_LEN, HTTP_RESPONSE_BUFFER_SIZE, HTTP_MAX_DECHUNK_SIZE, HTTP_ARENA_SLACK,
  SIZE_MAX,         \* of size_t
  Aligns,           \* alignments asked for: powers of two
  FileCtx,          \* [len, align] of the struct of that name
  Bases             \* addresses arena_backing[i - 1] may have

Cap == HTTP_MAX_REQUEST_LEN + HTTP_RESPONSE_BUFFER_SIZE + HTTP_MAX_DECHUNK_SIZE + HTTP_ARENA_SLACK
Sizes == 0 .. SIZE_MAX

(* An object takes up at most half of what size_t counts, and an alignment *)
(* is a power of two below that.                                           *)
ASSUME ArenaAssumption ==
  /\ SIZE_MAX \in Nat
  /\ HTTP_MAX_REQUEST_LEN \in Nat \ {0} /\ HTTP_RESPONSE_BUFFER_SIZE \in Nat \ {0}
  /\ HTTP_MAX_DECHUNK_SIZE \in Nat \ {0} /\ HTTP_ARENA_SLACK \in Nat
  /\ Cap + Cap <= SIZE_MAX + 1
  /\ \A a \in Aligns : a \in Nat /\ 1 <= a /\ a + a <= SIZE_MAX + 1
  /\ 1 \in Aligns
  /\ FileCtx \in [len : Sizes, align : Aligns]
  /\ Bases \subseteq Nat

VARIABLES
  base,    \* Arena.base
  used,    \* Arena.used
  mark,    \* ConnMem.req_mark
  live,    \* the blocks handed out and not taken back
  ctx,     \* the block producer.ctx points to, or NoBlock
  life     \* what the connection is at, or "dead" after a failed assert

vars == <<base, used, mark, live, ctx, life>>

NoBlock == [at |-> 0, len |-> 0, align |-> 0]
Block == [at : Nat, len : Nat, align : Aligns]
Lives == {"free", "reading", "building", "sending", "streaming", "dead"}

-----------------------------------------------------------------------------
(* arena_alloc *)

Wrapped(x) == x % (SIZE_MAX + 1)

(* Mistake: the offset is rounded down. *)
RoundedDown(from, align) == from - (from % align)

(* Mistake: the offset is taken as it is. *)
Unrounded(from, align) == from

(* (used + (align - 1)) & ~(align - 1) *)
Rounded(from, align) == LET x == Wrapped(from + align - 1) IN x - (x % align)

(* Mistake: the end of the block is computed before it is compared.        *)
FitsBySum(at, n) == Wrapped(at + n) <= Cap

Fits(at, n) == at <= Cap /\ n <= Cap - at

(* What is handed out when the cursor is at `from`, or NULL. *)
arena_alloc(from, n, align) ==
  LET at == Rounded(from, align)
  IN  [ok |-> Fits(at, n), block |-> [at |-> at, len |-> n, align |-> align]]

End(block) == block.at + block.len

(* The assert on the pointer. *)
Aligned(block) == (base + block.at) % block.align = 0

(* A block for the request: NULL leaves the arena as it is. *)
Allocate(n, align) ==
  LET a == arena_alloc(used, n, align)
  IN  IF a.ok
      THEN used' = End(a.block) /\ live' = live \cup {a.block}
      ELSE UNCHANGED <<used, live>>

Asserts(n, align) ==
  LET a == arena_alloc(used, n, align) IN a.ok /\ ~Aligned(a.block)

-----------------------------------------------------------------------------
(* connection_init: three buffers, each of which must be there. *)

ReqBuf == arena_alloc(0, HTTP_MAX_REQUEST_LEN, 1)
RespBuf == arena_alloc(End(ReqBuf.block), HTTP_RESPONSE_BUFFER_SIZE, 1)
BodyDechunked == arena_alloc(End(RespBuf.block), HTTP_MAX_DECHUNK_SIZE, 1)
Buffers == {ReqBuf.block, RespBuf.block, BodyDechunked.block}

connection_init ==
  /\ life = "free"
  /\ life' = IF ReqBuf.ok /\ RespBuf.ok /\ BodyDechunked.ok THEN "reading" ELSE "dead"
  /\ used' = End(BodyDechunked.block)
  /\ mark' = used'
  /\ live' = Buffers
  /\ UNCHANGED <<base, ctx>>

-----------------------------------------------------------------------------
(* One request *)

(* A complete request goes to step_response_build, a bad one is answered   *)
(* at once, and one whose peer is gone is dropped.                         *)
RequestEnds ==
  /\ life = "reading"
  /\ life' \in {"building", "sending", "free"}
  /\ UNCHANGED <<base, used, mark, live, ctx>>

(* A handler takes scratch. *)
HandlerAllocates ==
  /\ life = "building"
  /\ \E n \in Sizes, align \in Aligns :
       IF Asserts(n, align)
       THEN life' = "dead" /\ UNCHANGED <<used, live>>
       ELSE Allocate(n, align) /\ UNCHANGED life
  /\ UNCHANGED <<base, mark, ctx>>

(* Mistake: what the handler took is given back with the request. *)
ScratchBuilt == used' = mark /\ live' = Buffers

(* Whether it is streamed or not, building a response leaves the scratch   *)
(* alone. *)
ScratchKept == UNCHANGED <<used, live>>

(* file_stream_open: no room for the context is answered by a 500. *)
OpensFile ==
  /\ life = "building"
  /\ IF Asserts(FileCtx.len, FileCtx.align)
     THEN life' = "dead" /\ UNCHANGED <<used, live, ctx>>
     ELSE LET a == arena_alloc(used, FileCtx.len, FileCtx.align)
          IN  /\ Allocate(FileCtx.len, FileCtx.align)
              /\ life' = IF a.ok THEN "streaming" ELSE "sending"
              /\ ctx' = IF a.ok THEN a.block ELSE NoBlock
  /\ UNCHANGED <<base, mark>>

(* A handler's response, or a source of its own, whose context may be one  *)
(* of the blocks it took.                                                  *)
Responds ==
  /\ life = "building"
  /\ \/ life' = "sending" /\ UNCHANGED ctx
     \/ life' = "streaming" /\ ctx' \in {NoBlock} \cup (live \ Buffers)
  /\ ScratchKept
  /\ UNCHANGED <<base, mark>>

(* Mistake: connection_reset leaves the arena alone. *)
connection_reset_buffers == UNCHANGED <<used, live>>

(* arena_reset_to(req_mark) takes back what lies behind the mark.          *)
connection_reset ==
  /\ used' = mark
  /\ live' = {b \in live : b.at < mark}

(* The response is sent: the connection closes, or reads on. *)
Sent ==
  /\ life = "sending"
  /\ \/ life' = "free" /\ UNCHANGED <<used, live>>
     \/ life' = "reading" /\ connection_reset
  /\ UNCHANGED <<base, mark, ctx>>

(* stream_release, after the last frame or on the way out.                 *)
StreamEnds ==
  /\ life = "streaming"
  /\ ctx' = NoBlock
  /\ \/ life' = "free" /\ UNCHANGED <<used, live>>
     \/ life' = "reading" /\ connection_reset
  /\ UNCHANGED <<base, mark>>

(* The process is gone. *)
Dead == life = "dead" /\ UNCHANGED vars

-----------------------------------------------------------------------------
Init ==
  /\ base \in Bases
  /\ used = 0 /\ mark = 0 /\ live = {}
  /\ ctx = NoBlock
  /\ life = "free"

Next ==
  \/ connection_init \/ RequestEnds \/ HandlerAllocates \/ OpensFile \/ Responds
  \/ Sent \/ StreamEnds \/ Dead

Spec == Init /\ [][Next]_vars

-----------------------------------------------------------------------------
(* Properties *)

(* The asserts on cursor and mark: neither leaves the backing, and the     *)
(* rewind is never forward.                                                *)
TypeOK ==
  /\ base \in Bases
  /\ used \in 0 .. Cap /\ mark \in 0 .. used
  /\ live \subseteq Block
  /\ ctx \in Block \cup {NoBlock}
  /\ life \in Lives

Apart(a, b) == End(a) <= b.at \/ End(b) <= a.at

(* No two blocks share a byte, and none leaves the backing, whatever sizes *)
(* and alignments are asked for: a request near SIZE_MAX is refused.       *)
BlocksDisjoint ==
  /\ \A b \in live : End(b) <= Cap
  /\ \A a, b \in live : a # b => Apart(a, b)

(* Each request starts with the arena connection_init left: the scratch of *)
(* the last one is gone, the buffers are still there.                      *)
ScratchIsRewound == life = "reading" => used = mark /\ live = Buffers

(* The context of a stream is not given back while it is pulled.           *)
ContextIsAlive == ctx # NoBlock => life = "streaming" /\ ctx \in live

(* A backing as aligned as anything asked for never fails the assert on    *)
(* the pointer.                                                            *)
AlignedBaseIsSafe == (\A a \in Aligns : base % a = 0) => life # "dead"
=============================================================================
