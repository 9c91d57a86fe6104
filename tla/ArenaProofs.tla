------------------------------ MODULE ArenaProofs ------------------------------
(***************************************************************************)
(* The arena for every size of the buffers, of the slack and of size_t:    *)
(* blocks never overlap, whatever is asked for, a request never sees the   *)
(* scratch of the one before, and an aligned backing fails no assert.      *)
(***************************************************************************)
EXTENDS Arena, TLAPS

-----------------------------------------------------------------------------
(* The inductive invariant *)

Taken == HTTP_MAX_REQUEST_LEN + HTTP_RESPONSE_BUFFER_SIZE + HTTP_MAX_DECHUNK_SIZE

(* What is handed out lies below the cursor; an open connection has its    *)
(* buffers below the mark and its scratch above.                           *)
BelowCursor == \A b \in live : End(b) <= used

InUse == life \in {"reading", "building", "sending", "streaming"}

Layout ==
  InUse =>
    /\ mark = Taken /\ Buffers \subseteq live
    /\ \A b \in live \ Buffers : mark <= b.at

IInv ==
  /\ TypeOK /\ BlocksDisjoint /\ ScratchIsRewound /\ ContextIsAlive
  /\ BelowCursor /\ Layout

-----------------------------------------------------------------------------
(* Arithmetic *)

LEMMA Sizable ==
  /\ SIZE_MAX \in Nat /\ Cap \in Nat /\ Taken \in Nat /\ Taken <= Cap /\ Cap + Cap <= SIZE_MAX + 1
  /\ HTTP_MAX_REQUEST_LEN \in Nat /\ 1 <= HTTP_MAX_REQUEST_LEN
  /\ HTTP_RESPONSE_BUFFER_SIZE \in Nat /\ 1 <= HTTP_RESPONSE_BUFFER_SIZE
  /\ HTTP_MAX_DECHUNK_SIZE \in Nat /\ 1 <= HTTP_MAX_DECHUNK_SIZE
BY ArenaAssumption DEF Cap, Taken

LEMMA Remainder ==
  ASSUME NEW x \in Nat, NEW a \in Nat, 1 <= a
  PROVE  x % a \in Nat /\ x % a <= a - 1 /\ x % a <= x /\ (x < a => x % a = x)
OBVIOUS

(* Rounding moves the cursor up, never back: the sum cannot wrap, because  *)
(* the arena and the alignment are both at most half of what size_t counts. *)
LEMMA RoundedUp ==
  ASSUME NEW from \in 0 .. Cap, NEW align \in Aligns
  PROVE  Rounded(from, align) \in Nat /\ from <= Rounded(from, align)
<1> DEFINE x == from + align - 1
<1>1. align \in Nat /\ 1 <= align /\ align + align <= SIZE_MAX + 1 /\ from \in Nat /\ from <= Cap
  BY Sizable, ArenaAssumption
<1>2. x \in Nat /\ x < SIZE_MAX + 1 /\ SIZE_MAX + 1 \in Nat /\ 1 <= SIZE_MAX + 1
  BY <1>1, Sizable
<1> HIDE DEF x
<1>3. Wrapped(x) = x
  BY <1>2, Remainder DEF Wrapped
<1>4. x % align \in Nat /\ x % align <= align - 1 /\ x % align <= x
  BY <1>1, <1>2, Remainder
<1>5. Rounded(from, align) = x - (x % align)
  BY <1>3 DEF Rounded, x
<1> HIDE DEF Rounded
<1>6. x - (x % align) \in Nat /\ from <= x - (x % align)
  BY <1>1, <1>2, <1>4 DEF x
<1> QED
  BY <1>5, <1>6

(* A block that fits is behind the cursor and inside the backing.          *)
LEMMA AllocOK ==
  ASSUME NEW from \in 0 .. Cap, NEW n \in Sizes, NEW align \in Aligns, arena_alloc(from, n, align).ok
  PROVE  LET b == arena_alloc(from, n, align).block
         IN  b \in Block /\ from <= b.at /\ b.at <= End(b) /\ End(b) \in 0 .. Cap
<1>1. Rounded(from, align) \in Nat /\ from <= Rounded(from, align)
  BY RoundedUp
<1>2. n \in Nat /\ Cap \in Nat
  BY Sizable DEF Sizes
<1>3. Rounded(from, align) <= Cap /\ n <= Cap - Rounded(from, align)
  BY DEF arena_alloc, Fits
<1> HIDE DEF Rounded
<1> QED
  BY <1>1, <1>2, <1>3 DEF arena_alloc, Block, End

(* With alignment 1 the cursor is taken as it is. *)
LEMMA Unaligned ==
  ASSUME NEW from \in 0 .. Cap
  PROVE  Rounded(from, 1) = from
<1>1. from \in Nat /\ from < SIZE_MAX + 1 /\ from % 1 = 0
  BY Sizable
<1>2. Wrapped(from + 1 - 1) = from
  BY <1>1, Remainder, Sizable DEF Wrapped
<1> QED
  BY <1>1, <1>2 DEF Rounded

(* The three buffers of connection_init lie one behind the other.          *)
LEMMA BuffersAre ==
  /\ ReqBuf.ok /\ RespBuf.ok /\ BodyDechunked.ok
  /\ ReqBuf.block = [at |-> 0, len |-> HTTP_MAX_REQUEST_LEN, align |-> 1]
  /\ RespBuf.block = [at |-> HTTP_MAX_REQUEST_LEN, len |-> HTTP_RESPONSE_BUFFER_SIZE, align |-> 1]
  /\ BodyDechunked.block = [at |-> HTTP_MAX_REQUEST_LEN + HTTP_RESPONSE_BUFFER_SIZE,
                            len |-> HTTP_MAX_DECHUNK_SIZE, align |-> 1]
<1>1. /\ 0 \in 0 .. Cap /\ HTTP_MAX_REQUEST_LEN \in 0 .. Cap
      /\ HTTP_MAX_REQUEST_LEN + HTTP_RESPONSE_BUFFER_SIZE \in 0 .. Cap
  BY Sizable DEF Taken
<1>2. /\ Rounded(0, 1) = 0 /\ Rounded(HTTP_MAX_REQUEST_LEN, 1) = HTTP_MAX_REQUEST_LEN
      /\ Rounded(HTTP_MAX_REQUEST_LEN + HTTP_RESPONSE_BUFFER_SIZE, 1) = HTTP_MAX_REQUEST_LEN + HTTP_RESPONSE_BUFFER_SIZE
  BY <1>1, Unaligned
<1>3. ReqBuf.ok /\ ReqBuf.block = [at |-> 0, len |-> HTTP_MAX_REQUEST_LEN, align |-> 1]
  <2>1. ReqBuf.block = [at |-> 0, len |-> HTTP_MAX_REQUEST_LEN, align |-> 1]
    BY <1>2 DEF ReqBuf, arena_alloc
  <2>2. Fits(Rounded(0, 1), HTTP_MAX_REQUEST_LEN)
    BY <1>2, Sizable DEF Fits, Taken
  <2>3. arena_alloc(0, HTTP_MAX_REQUEST_LEN, 1).ok <=> Fits(Rounded(0, 1), HTTP_MAX_REQUEST_LEN)
    BY Zenon DEF arena_alloc
  <2> QED
    BY <2>1, <2>2, <2>3 DEF ReqBuf
<1>4. End(ReqBuf.block) = HTTP_MAX_REQUEST_LEN
  BY <1>3, Sizable DEF End
<1>5. RespBuf.ok /\ RespBuf.block = [at |-> HTTP_MAX_REQUEST_LEN, len |-> HTTP_RESPONSE_BUFFER_SIZE, align |-> 1]
  <2>1. RespBuf.block = [at |-> HTTP_MAX_REQUEST_LEN, len |-> HTTP_RESPONSE_BUFFER_SIZE, align |-> 1]
    BY <1>2, <1>4 DEF RespBuf, arena_alloc
  <2>2. Fits(Rounded(End(ReqBuf.block), 1), HTTP_RESPONSE_BUFFER_SIZE)
    BY <1>2, <1>4, Sizable DEF Fits, Taken
  <2>3. arena_alloc(End(ReqBuf.block), HTTP_RESPONSE_BUFFER_SIZE, 1).ok <=> Fits(Rounded(End(ReqBuf.block), 1), HTTP_RESPONSE_BUFFER_SIZE)
    BY Zenon DEF arena_alloc
  <2> QED
    BY <2>1, <2>2, <2>3 DEF RespBuf
<1>6. End(RespBuf.block) = HTTP_MAX_REQUEST_LEN + HTTP_RESPONSE_BUFFER_SIZE
  BY <1>5, Sizable DEF End
<1>7. BodyDechunked.ok /\ BodyDechunked.block = [at |-> HTTP_MAX_REQUEST_LEN + HTTP_RESPONSE_BUFFER_SIZE,
                            len |-> HTTP_MAX_DECHUNK_SIZE, align |-> 1]
  <2>1. BodyDechunked.block = [at |-> HTTP_MAX_REQUEST_LEN + HTTP_RESPONSE_BUFFER_SIZE, len |-> HTTP_MAX_DECHUNK_SIZE, align |-> 1]
    BY <1>2, <1>6 DEF BodyDechunked, arena_alloc
  <2>2. Fits(Rounded(End(RespBuf.block), 1), HTTP_MAX_DECHUNK_SIZE)
    BY <1>2, <1>6, Sizable DEF Fits, Taken
  <2>3. arena_alloc(End(RespBuf.block), HTTP_MAX_DECHUNK_SIZE, 1).ok <=> Fits(Rounded(End(RespBuf.block), 1), HTTP_MAX_DECHUNK_SIZE)
    BY Zenon DEF arena_alloc
  <2> QED
    BY <2>1, <2>2, <2>3 DEF BodyDechunked
<1> QED
  BY <1>3, <1>5, <1>7

LEMMA BuffersLaidOut ==
  /\ Buffers \subseteq Block
  /\ End(BodyDechunked.block) = Taken
  /\ \A b \in Buffers : b.at < Taken /\ End(b) <= Taken
  /\ \A a, b \in Buffers : a # b => Apart(a, b)
BY BuffersAre, Sizable, ArenaAssumption DEF Buffers, Block, End, Taken, Apart

-----------------------------------------------------------------------------
(* The steps *)

LEMMA InitOK == Init => IInv
BY Sizable DEF Init, IInv, TypeOK, Lives, BlocksDisjoint, ScratchIsRewound, ContextIsAlive,
   BelowCursor, Layout, InUse, NoBlock

LEMMA ConnectionInitOK == IInv /\ connection_init => IInv'
<1> SUFFICES ASSUME IInv, connection_init PROVE IInv'
  OBVIOUS
<1>1. life = "free" /\ life' = "reading" /\ used' = Taken /\ mark' = Taken /\ live' = Buffers
      /\ UNCHANGED <<base, ctx>>
  BY BuffersAre, BuffersLaidOut DEF connection_init
<1>2. ctx = NoBlock
  BY <1>1 DEF IInv, ContextIsAlive
<1>3. TypeOK'
  BY <1>1, BuffersLaidOut, Sizable DEF IInv, TypeOK, Lives
<1>4. \A b \in Buffers : End(b) <= Cap
  BY BuffersLaidOut, Sizable, BuffersAre DEF Block, End
<1>5. BlocksDisjoint' /\ BelowCursor'
  BY <1>1, <1>4, BuffersLaidOut DEF BlocksDisjoint, BelowCursor
<1>6. ScratchIsRewound' /\ ContextIsAlive' /\ Layout'
  BY <1>1, <1>2 DEF ScratchIsRewound, ContextIsAlive, Layout
<1> QED
  BY <1>3, <1>5, <1>6 DEF IInv

(* A block that is handed out lies behind all others. *)
LEMMA AllocateOK ==
  ASSUME IInv, InUse, NEW n \in Sizes, NEW align \in Aligns, Allocate(n, align), UNCHANGED <<base, mark>>
  PROVE  /\ used' \in 0 .. Cap /\ mark' \in 0 .. used' /\ live' \subseteq Block /\ live \subseteq live'
         /\ BlocksDisjoint' /\ BelowCursor'
         /\ \A b \in live' \ Buffers : mark <= b.at
         /\ arena_alloc(used, n, align).ok => arena_alloc(used, n, align).block \in live'
<1> DEFINE ok == arena_alloc(used, n, align).ok
           c == arena_alloc(used, n, align).block
<1>1. /\ used \in 0 .. Cap /\ mark \in 0 .. used /\ live \subseteq Block /\ BlocksDisjoint /\ BelowCursor
      /\ mark' = mark /\ \A b \in live \ Buffers : mark <= b.at
  BY DEF IInv, TypeOK, Layout
<1>2. /\ ok  => used' = End(c) /\ live' = live \cup {c}
      /\ ~ok => used' = used /\ live' = live
  BY DEF Allocate
<1>3. ok => c \in Block /\ used <= c.at /\ c.at <= End(c) /\ End(c) \in 0 .. Cap
  BY <1>1, AllocOK
<1> HIDE DEF ok, c
<1>4. CASE ~ok
  BY <1>1, <1>2, <1>4 DEF BlocksDisjoint, BelowCursor, ok
<1>5. CASE ok
  <2>1. live' = live \cup {c} /\ used' = End(c) /\ c \in Block /\ used <= c.at /\ c.at <= End(c) /\ End(c) \in 0 .. Cap
    BY <1>2, <1>3, <1>5
  <2>2. \A b \in Block : b.at \in Nat /\ End(b) \in Nat
    BY DEF Block, End
  <2>3. used \in Nat /\ mark \in Nat /\ Cap \in Nat /\ mark <= used
    BY <1>1, Sizable
  <2>4. \A b \in live : End(b) <= used /\ Apart(b, c) /\ Apart(c, b)
    BY <1>1, <2>1, <2>2, <2>3 DEF BelowCursor, Apart
  <2>5. BelowCursor'
    BY <1>1, <2>1, <2>2, <2>3, <2>4 DEF BelowCursor
  <2>6. BlocksDisjoint'
    BY <1>1, <2>1, <2>4 DEF BlocksDisjoint
  <2>7. used' \in 0 .. Cap /\ mark' \in 0 .. used'
    BY <1>1, <2>1, <2>2, <2>3
  <2>8. \A b \in live' \ Buffers : mark <= b.at
    BY <1>1, <2>1, <2>2, <2>3
  <2> QED
    BY <1>1, <2>1, <2>5, <2>6, <2>7, <2>8 DEF c
<1> QED
  BY <1>4, <1>5

(* Nothing is handed out or taken back. *)
LEMMA BlocksKept ==
  ASSUME IInv, UNCHANGED <<base, used, mark, live>>, life' \in Lives, life' # "reading",
         life = "free" => life' \in {"free", "dead"}, life # "dead" \/ life' = "dead",
         ctx' \in Block \cup {NoBlock}, ContextIsAlive'
  PROVE  IInv'
<1>1. TypeOK'
  BY DEF IInv, TypeOK
<1>2. BlocksDisjoint' /\ BelowCursor' /\ ScratchIsRewound'
  BY DEF IInv, BlocksDisjoint, BelowCursor, ScratchIsRewound
<1>3. Layout'
  BY DEF IInv, TypeOK, Layout, InUse, Lives
<1> QED
  BY <1>1, <1>2, <1>3 DEF IInv

LEMMA RequestEndsOK == IInv /\ RequestEnds => IInv'
<1> SUFFICES ASSUME IInv, RequestEnds PROVE IInv'
  OBVIOUS
<1>1. /\ life = "reading" /\ life' \in {"building", "sending", "free"}
      /\ UNCHANGED <<base, used, mark, live, ctx>>
  BY DEF RequestEnds
<1>2. ctx = NoBlock /\ ctx' = NoBlock
  BY <1>1 DEF IInv, ContextIsAlive
<1>3. ContextIsAlive'
  BY <1>2 DEF ContextIsAlive
<1> QED
  BY <1>1, <1>2, <1>3, BlocksKept DEF Lives

LEMMA HandlerAllocatesOK == IInv /\ HandlerAllocates => IInv'
<1> SUFFICES ASSUME IInv, HandlerAllocates PROVE IInv'
  OBVIOUS
<1>1. life = "building" /\ UNCHANGED <<base, mark, ctx>>
  BY DEF HandlerAllocates
<1>2. ctx = NoBlock /\ ctx' = NoBlock
  BY <1>1 DEF IInv, ContextIsAlive
<1>3. ContextIsAlive'
  BY <1>2 DEF ContextIsAlive
<1>4. PICK n \in Sizes, align \in Aligns :
        IF Asserts(n, align)
        THEN life' = "dead" /\ UNCHANGED <<used, live>>
        ELSE Allocate(n, align) /\ UNCHANGED life
  BY DEF HandlerAllocates
<1>5. CASE life' = "dead" /\ UNCHANGED <<used, live>>
  BY <1>1, <1>2, <1>3, <1>5, BlocksKept DEF Lives
<1>6. CASE Allocate(n, align) /\ UNCHANGED life
  <2>1. /\ used' \in 0 .. Cap /\ mark' \in 0 .. used' /\ live' \subseteq Block /\ live \subseteq live'
        /\ BlocksDisjoint' /\ BelowCursor' /\ \A b \in live' \ Buffers : mark <= b.at
    BY <1>1, <1>6, AllocateOK DEF InUse
  <2>2. TypeOK'
    BY <1>1, <1>2, <1>6, <2>1 DEF IInv, TypeOK
  <2>3. Layout' /\ ScratchIsRewound'
    BY <1>1, <1>6, <2>1 DEF IInv, Layout, InUse, ScratchIsRewound
  <2> QED
    BY <1>3, <2>1, <2>2, <2>3 DEF IInv
<1> QED
  BY <1>4, <1>5, <1>6

LEMMA OpensFileOK == IInv /\ OpensFile => IInv'
<1> SUFFICES ASSUME IInv, OpensFile PROVE IInv'
  OBVIOUS
<1> DEFINE a == arena_alloc(used, FileCtx.len, FileCtx.align)
<1>1. life = "building" /\ UNCHANGED <<base, mark>> /\ FileCtx.len \in Sizes /\ FileCtx.align \in Aligns
  BY ArenaAssumption DEF OpensFile
<1>2. ctx = NoBlock
  BY <1>1 DEF IInv, ContextIsAlive
<1>3. CASE life' = "dead" /\ UNCHANGED <<used, live, ctx>>
  <2>1. ContextIsAlive'
    BY <1>2, <1>3 DEF ContextIsAlive
  <2> QED
    BY <1>1, <1>2, <1>3, <2>1, BlocksKept DEF Lives
<1>4. CASE /\ Allocate(FileCtx.len, FileCtx.align)
           /\ life' = IF a.ok THEN "streaming" ELSE "sending"
           /\ ctx' = IF a.ok THEN a.block ELSE NoBlock
  <2>1. /\ used' \in 0 .. Cap /\ mark' \in 0 .. used' /\ live' \subseteq Block /\ live \subseteq live'
        /\ BlocksDisjoint' /\ BelowCursor' /\ \A b \in live' \ Buffers : mark <= b.at
        /\ a.ok => a.block \in live'
    BY <1>1, <1>4, AllocateOK DEF InUse
  <2> HIDE DEF a
  <2>2. ContextIsAlive' /\ ctx' \in Block \cup {NoBlock}
    BY <1>4, <2>1 DEF ContextIsAlive
  <2>3. life' \in {"streaming", "sending"}
    BY <1>4
  <2>4. TypeOK'
    BY <1>1, <2>1, <2>2, <2>3 DEF IInv, TypeOK, Lives
  <2>5. Layout' /\ ScratchIsRewound'
    BY <1>1, <2>1, <2>3 DEF IInv, Layout, InUse, ScratchIsRewound
  <2> QED
    BY <2>1, <2>2, <2>4, <2>5 DEF IInv
<1> QED
  BY <1>3, <1>4 DEF OpensFile

LEMMA RespondsOK == IInv /\ Responds => IInv'
<1> SUFFICES ASSUME IInv, Responds PROVE IInv'
  OBVIOUS
<1>1. life = "building" /\ UNCHANGED <<base, used, mark, live>>
  BY DEF Responds, ScratchKept
<1>2. ctx = NoBlock /\ live \subseteq Block
  BY <1>1 DEF IInv, TypeOK, ContextIsAlive
<1>3. CASE life' = "sending" /\ UNCHANGED ctx
  BY <1>1, <1>2, <1>3, BlocksKept DEF ContextIsAlive, Lives
<1>4. CASE life' = "streaming" /\ ctx' \in {NoBlock} \cup (live \ Buffers)
  <2>1. ContextIsAlive'
    BY <1>1, <1>4 DEF ContextIsAlive
  <2> QED
    BY <1>1, <1>2, <1>4, <2>1, BlocksKept DEF Lives
<1> QED
  BY <1>3, <1>4 DEF Responds

(* The rewind keeps the buffers, and nothing else. *)
LEMMA ResetOK ==
  ASSUME IInv, InUse, connection_reset, UNCHANGED <<base, mark>>, life' = "reading", ctx' = NoBlock
  PROVE  IInv'
<1>1. /\ used' = mark /\ mark = Taken /\ mark' = mark /\ Buffers \subseteq live
      /\ live' = {b \in live : b.at < mark} /\ \A b \in live \ Buffers : mark <= b.at
  BY DEF connection_reset, IInv, Layout
<1>2. live \subseteq Block /\ mark \in Nat /\ used \in 0 .. Cap /\ mark <= used
  BY Sizable DEF IInv, TypeOK
<1>3. \A b \in live : b.at \in Nat
  BY <1>2 DEF Block
<1>4. live' = Buffers
  BY <1>1, <1>2, <1>3, BuffersLaidOut
<1>5. TypeOK'
  BY <1>1, <1>2, <1>4, BuffersLaidOut, Sizable DEF IInv, TypeOK, Lives
<1>6. BlocksDisjoint' /\ BelowCursor'
  BY <1>1, <1>2, <1>4, BuffersLaidOut DEF IInv, BlocksDisjoint, BelowCursor
<1>7. ScratchIsRewound' /\ ContextIsAlive' /\ Layout'
  BY <1>1, <1>4 DEF ScratchIsRewound, ContextIsAlive, Layout
<1> QED
  BY <1>5, <1>6, <1>7 DEF IInv

LEMMA ResponseEndsOK == IInv /\ (Sent \/ StreamEnds) => IInv'
<1> SUFFICES ASSUME IInv, Sent \/ StreamEnds PROVE IInv'
  OBVIOUS
<1>1. /\ life \in {"sending", "streaming"} /\ UNCHANGED <<base, mark>>
      /\ \/ life' = "free" /\ UNCHANGED <<used, live>>
         \/ life' = "reading" /\ connection_reset
  BY DEF Sent, StreamEnds
<1>2. ctx' = NoBlock
  BY DEF Sent, StreamEnds, IInv, ContextIsAlive
<1>3. ContextIsAlive'
  BY <1>2 DEF ContextIsAlive
<1>4. CASE life' = "free" /\ UNCHANGED <<used, live>>
  BY <1>1, <1>2, <1>3, <1>4, BlocksKept DEF Lives
<1>5. CASE life' = "reading" /\ connection_reset
  BY <1>1, <1>2, <1>5, ResetOK DEF InUse
<1> QED
  BY <1>1, <1>4, <1>5

LEMMA StutterOK == IInv /\ UNCHANGED vars => IInv'
BY DEF vars, IInv, TypeOK, BlocksDisjoint, ScratchIsRewound, ContextIsAlive, BelowCursor, Layout, InUse

-----------------------------------------------------------------------------
(* Alignment *)

LEMMA Quotient ==
  ASSUME NEW x \in Nat, NEW a \in Nat, 1 <= a
  PROVE  x \div a \in Nat /\ x % a \in Nat /\ x = (a * (x \div a)) + (x % a)
OBVIOUS

LEMMA MultipleOf ==
  ASSUME NEW q \in Nat, NEW a \in Nat, 1 <= a
  PROVE  (a * q) % a = 0
OBVIOUS

LEMMA Factor ==
  ASSUME NEW p \in Nat, NEW q \in Nat, NEW a \in Nat
  PROVE  (a * p) + (a * q) = a * (p + q) /\ a * p \in Nat /\ a * q \in Nat /\ p + q \in Nat
OBVIOUS

LEMMA RoundedIsMultiple ==
  ASSUME NEW b \in Nat, NEW x \in Nat, NEW a \in Nat, 1 <= a, b % a = 0
  PROVE  (b + (x - (x % a))) % a = 0
<1> DEFINE p == b \div a
           q == x \div a
           ap == a * p
           aq == a * q
<1>1. p \in Nat /\ b = ap + 0
  BY Quotient
<1>2. q \in Nat /\ x % a \in Nat /\ x = aq + (x % a)
  BY Quotient
<1> HIDE DEF p, q
<1>3. ap + aq = a * (p + q) /\ ap \in Nat /\ aq \in Nat /\ p + q \in Nat
  BY <1>1, <1>2, Factor
<1>4. (a * (p + q)) % a = 0
  BY <1>3, MultipleOf
<1> HIDE DEF ap, aq
<1>5. b + (x - (x % a)) = ap + aq
  BY <1>1, <1>2, <1>3
<1> QED
  BY <1>3, <1>4, <1>5

(* Behind an aligned base every block starts at a multiple of what it was  *)
(* asked to be aligned to.                                                 *)
LEMMA AllocAligned ==
  ASSUME NEW from \in 0 .. Cap, NEW n \in Sizes, NEW align \in Aligns, base \in Nat, base % align = 0
  PROVE  Aligned(arena_alloc(from, n, align).block)
<1> DEFINE x == Wrapped(from + align - 1)
<1>1. align \in Nat /\ 1 <= align /\ from \in Nat /\ SIZE_MAX + 1 \in Nat /\ 1 <= SIZE_MAX + 1
  BY Sizable, ArenaAssumption
<1>2. from + align - 1 \in Nat
  BY <1>1
<1>3. x \in Nat
  BY <1>1, <1>2, Remainder DEF Wrapped
<1>4. arena_alloc(from, n, align).block.align = align
      /\ arena_alloc(from, n, align).block.at = x - (x % align)
  <2>1. Rounded(from, align) = x - (x % align)
    BY DEF Rounded
  <2>2. arena_alloc(from, n, align).block = [at |-> Rounded(from, align), len |-> n, align |-> align]
    BY DEF arena_alloc
  <2> QED
    BY <2>1, <2>2
<1> HIDE DEF x
<1>5. (base + (x - (x % align))) % align = 0
  BY <1>1, <1>3, RoundedIsMultiple
<1> QED
  BY <1>4, <1>5 DEF Aligned

LEMMA AlignedKept == IInv /\ AlignedBaseIsSafe /\ [Next]_vars => AlignedBaseIsSafe'
<1> SUFFICES ASSUME IInv, AlignedBaseIsSafe, [Next]_vars, \A a \in Aligns : base % a = 0 PROVE life' # "dead"
  BY DEF Next, connection_init, RequestEnds, HandlerAllocates, OpensFile, Responds, Sent, StreamEnds, Dead,
     vars, AlignedBaseIsSafe
<1>1. life # "dead" /\ used \in 0 .. Cap /\ base \in Nat
  BY ArenaAssumption DEF AlignedBaseIsSafe, IInv, TypeOK
<1>2. \A n \in Sizes, align \in Aligns : ~Asserts(n, align)
  BY <1>1, AllocAligned DEF Asserts
<1>3. CASE connection_init
  BY <1>3, BuffersAre DEF connection_init
<1>4. CASE HandlerAllocates
  BY <1>1, <1>2, <1>4 DEF HandlerAllocates
<1>5. CASE OpensFile
  <2>1. ~Asserts(FileCtx.len, FileCtx.align)
    BY <1>2, ArenaAssumption
  <2> QED
    BY <1>5, <2>1 DEF OpensFile
<1>6. CASE RequestEnds \/ Responds \/ Sent \/ StreamEnds \/ Dead \/ UNCHANGED vars
  BY <1>1, <1>6 DEF RequestEnds, Responds, Sent, StreamEnds, Dead, vars
<1> QED
  BY <1>3, <1>4, <1>5, <1>6 DEF Next

-----------------------------------------------------------------------------
(* Theorems *)

(* The inductive invariant of the arena. *)
THEOREM Invariance == Spec => []IInv
<1>1. IInv /\ [Next]_vars => IInv'
  BY ConnectionInitOK, RequestEndsOK, HandlerAllocatesOK, OpensFileOK, RespondsOK, ResponseEndsOK, StutterOK
     DEF Next, Dead
<1> QED
  BY InitOK, <1>1, PTL DEF Spec

(* Cursor and mark stay inside the backing, the mark behind the cursor.    *)
THEOREM TypeCorrect == Spec => []TypeOK
<1>1. IInv => TypeOK
  BY DEF IInv
<1> QED
  BY Invariance, <1>1, PTL

(* arena_alloc never hands out a byte twice, nor one outside the backing.  *)
THEOREM NoOverlap == Spec => []BlocksDisjoint
<1>1. IInv => BlocksDisjoint
  BY DEF IInv
<1> QED
  BY Invariance, <1>1, PTL

(* connection_reset takes back what the request took, and no buffer.       *)
THEOREM Rewound == Spec => []ScratchIsRewound
<1>1. IInv => ScratchIsRewound
  BY DEF IInv
<1> QED
  BY Invariance, <1>1, PTL

(* A stream's context lives as long as the stream. *)
THEOREM ContextLives == Spec => []ContextIsAlive
<1>1. IInv => ContextIsAlive
  BY DEF IInv
<1> QED
  BY Invariance, <1>1, PTL

(* With a backing as aligned as anything asked for, the assert arena_alloc *)
(* makes on the pointer never ends the process, and connection_init always *)
(* finds room for its buffers.                                             *)
THEOREM AlignedBase == Spec => []AlignedBaseIsSafe
<1>1. Init => AlignedBaseIsSafe
  BY DEF Init, AlignedBaseIsSafe
<1>2. Spec => []IInv
  BY Invariance
<1> QED
  BY <1>1, <1>2, AlignedKept, PTL DEF Spec
===============================================================================
