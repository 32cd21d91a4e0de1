----------------------------- MODULE ByteBuffer -----------------------------
(***************************************************************************)
(* byte_buffer (src/src/byte_buffer.cpp) over reference counted blocks     *)
(* (src/src/block.cpp): copies of a buffer share its block, each with read *)
(* and write positions of its own, and nothing is copied on write.  What   *)
(* keeps a copy's bytes is the callers' habit, channel::read's and         *)
(* size_filter's, to reserve() before they write: the model writes only    *)
(* into buffers that reserved, or allocated, after they were last shared.  *)
(***************************************************************************)
EXTENDS Naturals, Sequences, FiniteSets, FiniteSetsExt, Functions

CONSTANTS
  Buffer,   \* byte_buffer objects
  Block,    \* blocks
  NoBlock,  \* nullptr
  Byte,     \* values of a byte
  Garbage,  \* a byte nobody wrote
  Table,    \* alloc_size_table
  MaxSize   \* bound: sizes and counts given to operations

ASSUME ByteBufferAssumption ==
  /\ IsFiniteSet(Buffer) /\ NoBlock \notin Block /\ Garbage \notin Byte
  /\ Table \subseteq Nat /\ MaxSize \in Nat

VARIABLES
  refcount,  \* per block; 0: the block is with the allocator
  data,      \* per block: its bytes, as many as its capacity
  buf,       \* per buffer: _block and _pos
  own        \* per buffer: it reserved or allocated since it was last shared

byteVars == <<refcount, data, buf, own>>

Null == [block |-> NoBlock, read |-> 0, write |-> 0]

ByteInit ==
  /\ refcount = [k \in Block |-> 0] /\ data = [k \in Block |-> <<>>]
  /\ buf = [b \in Buffer |-> Null] /\ own = [b \in Buffer |-> FALSE]

capacity(b) == IF buf[b].block = NoBlock THEN 0 ELSE Len(data[buf[b].block])
length(b)   == buf[b].write - buf[b].read
space(b)    == capacity(b) - buf[b].write
Bytes(b)    == IF buf[b].block = NoBlock THEN <<>>
               ELSE SubSeq(data[buf[b].block], buf[b].read + 1, buf[b].write)

-----------------------------------------------------------------------------
(* Blocks. *)

\* The size class a block of sz bytes comes from.
Class(sz) == IF \E c \in Table : c >= sz THEN Min({c \in Table : c >= sz}) ELSE sz

\* Blocks sz bytes large, s at their start.
Filled(sz, s) == [i \in 1..Class(sz) |-> IF i <= Len(s) THEN s[i] ELSE Garbage]

\* Mutant: the count stays.
Drop_never(r, k) == r

\* block::free: the last reference gives the block back.
Drop(r, k) == IF k = NoBlock THEN r ELSE [r EXCEPT ![k] = @ - 1]

\* block::duplicate
Share(r, k) == IF k = NoBlock THEN r ELSE [r EXCEPT ![k] = @ + 1]

\* Nobody reads what a block held before it went back.
Given(d, r) == [k \in Block |-> IF r[k] = 0 THEN <<>> ELSE d[k]]

\* c becomes a buffer of a new block with s in it, in place of what it was.
Allocate(c, sz, s) ==
  \E k \in Block :
    /\ refcount[k] = 0
    /\ refcount' = Drop([refcount EXCEPT ![k] = 1], buf[c].block)
    /\ data' = Given([data EXCEPT ![k] = Filled(sz, s)], refcount')
    /\ buf' = [buf EXCEPT ![c] = [block |-> k, read |-> 0, write |-> Len(s)]]
    /\ own' = [own EXCEPT ![c] = TRUE]

-----------------------------------------------------------------------------
(* Construction, assignment and destruction. *)

construct(c, sz) == Allocate(c, sz, <<>>)

destroy(c) ==
  /\ refcount' = Drop(refcount, buf[c].block)
  /\ buf' = [buf EXCEPT ![c] = Null] /\ own' = [own EXCEPT ![c] = FALSE]
  /\ data' = Given(data, refcount')

\* c = b, a copy constructor or duplicate()
assign(c, b) ==
  /\ refcount' = Drop(Share(refcount, buf[b].block), buf[c].block)
  /\ buf' = [buf EXCEPT ![c] = buf[b]]
  /\ own' = [own EXCEPT ![b] = FALSE, ![c] = FALSE]
  /\ data' = Given(data, refcount')

\* c = std::move( b )
move(c, b) ==
  /\ c # b
  /\ refcount' = Drop(Drop(Share(refcount, buf[b].block), buf[c].block), buf[b].block)
  /\ buf' = [buf EXCEPT ![c] = buf[b], ![b] = Null]
  /\ own' = [own EXCEPT ![c] = own[b], ![b] = FALSE]
  /\ data' = Given(data, refcount')

swap(c, b) ==
  /\ buf' = [buf EXCEPT ![c] = buf[b], ![b] = buf[c]]
  /\ own' = [own EXCEPT ![c] = own[b], ![b] = own[c]]
  /\ UNCHANGED <<refcount, data>>

\* c = b.copy(): all of the block, and the positions.
copy(c, b) ==
  /\ c # b /\ buf[b].block # NoBlock
  /\ \E k \in Block :
       /\ refcount[k] = 0
       /\ refcount' = Drop([refcount EXCEPT ![k] = 1], buf[c].block)
       /\ data' = Given([data EXCEPT ![k] = data[buf[b].block]], refcount')
       /\ buf' = [buf EXCEPT ![c] = [buf[b] EXCEPT !.block = k]]
       /\ own' = [own EXCEPT ![c] = TRUE]

\* c = b.sub_buffer( start , len ), of bytes that b has.
sub_buffer(c, b, start, len) ==
  /\ buf[b].block # NoBlock /\ start + len <= length(b)
  /\ Allocate(c, len, SubSeq(Bytes(b), start + 1, start + len))

-----------------------------------------------------------------------------
(* Reading and writing. *)

Moved(b, r, w) ==
  /\ buf' = [buf EXCEPT ![b].read = r, ![b].write = w]
  /\ UNCHANGED <<refcount, own>>

\* write(), or a socket that fills wr_ptr() and wr_ptr( n ): what fits.
write(b, s) ==
  /\ buf[b].block # NoBlock /\ own[b]
  /\ LET w == buf[b].write
         n == Min({Len(s), space(b)})
     IN  /\ data' = [data EXCEPT ![buf[b].block] =
                       [i \in DOMAIN @ |-> IF i \in (w + 1)..(w + n) THEN s[i - w] ELSE @[i]]]
         /\ Moved(b, buf[b].read, w + n)

\* wr_ptr( -n )
unwrite(b, n) == Moved(b, buf[b].read, buf[b].write - Min({n, length(b)})) /\ UNCHANGED data

\* read( n ) or rd_ptr( n ), and rd_ptr( -n )
read(b, n) == Moved(b, buf[b].read + Min({n, length(b)}), buf[b].write) /\ UNCHANGED data

unread(b, n) == Moved(b, buf[b].read - Min({n, buf[b].read}), buf[b].write) /\ UNCHANGED data

clear(b) == Moved(b, 0, 0) /\ UNCHANGED data

\* The bytes move to the front of the block, whoever shares it.
fit(b) ==
  /\ buf[b].block # NoBlock /\ own[b]
  /\ data' = [data EXCEPT ![buf[b].block] =
                [i \in DOMAIN @ |-> IF i <= length(b) THEN Bytes(b)[i] ELSE @[i]]]
  /\ Moved(b, 0, length(b))

shrink_to_fit(b) == buf[b].block # NoBlock /\ Allocate(b, length(b), Bytes(b))

\* Mutant: a block that is large enough is kept, shared or not.
Keeps_shared(b, sz) == refcount[buf[b].block] >= 1 /\ sz < capacity(b)

\* reserve() keeps a block that is its own and larger than sz.
Keeps(b, sz) == refcount[buf[b].block] = 1 /\ sz < capacity(b)

\* Otherwise what fits into a block of sz bytes moves to a new one.
reserve(b, sz) ==
  IF buf[b].block # NoBlock /\ Keeps(b, sz)
  THEN own' = [own EXCEPT ![b] = TRUE] /\ UNCHANGED <<refcount, data, buf>>
  ELSE Allocate(b, sz, SubSeq(Bytes(b), 1, Min({length(b), Class(sz)})))

ByteNext ==
  \/ \E b \in Buffer, n \in 0..MaxSize : construct(b, n)
  \/ \E b \in Buffer : destroy(b)
  \/ \E c, b \in Buffer : assign(c, b)
  \/ \E c, b \in Buffer : move(c, b)
  \/ \E c, b \in Buffer : swap(c, b)
  \/ \E c, b \in Buffer : copy(c, b)
  \/ \E c, b \in Buffer, m, n \in 0..MaxSize : sub_buffer(c, b, m, n)
  \/ \E b \in Buffer, n \in 1..MaxSize : \E s \in [1..n -> Byte] : write(b, s)
  \/ \E b \in Buffer, n \in 1..MaxSize : unwrite(b, n)
  \/ \E b \in Buffer, n \in 1..MaxSize : read(b, n)
  \/ \E b \in Buffer, n \in 1..MaxSize : unread(b, n)
  \/ \E b \in Buffer : clear(b)
  \/ \E b \in Buffer : fit(b)
  \/ \E b \in Buffer : shrink_to_fit(b)
  \/ \E b \in Buffer, n \in 0..MaxSize : reserve(b, n)

ByteSpec == ByteInit /\ [][ByteNext]_byteVars

-----------------------------------------------------------------------------
\* A block's count is the number of buffers that have it, so that it goes back
\* to the allocator with the last of them and no sooner; and a buffer's
\* positions stay inside its block.
BlocksCounted ==
  /\ \A k \in Block : refcount[k] = Cardinality({b \in Buffer : buf[b].block = k})
  /\ \A b \in Buffer : buf[b].read <= buf[b].write /\ buf[b].write <= capacity(b)

\* What one buffer does changes no byte that another one holds, although the
\* two may share a block: the bytes of a buffer change only with its own block
\* or positions.
BytesKept == [][\A b \in Buffer : buf'[b] = buf[b] => Bytes(b)' = Bytes(b)]_byteVars
=============================================================================
