------------------------------ MODULE Channel ------------------------------
(***************************************************************************)
(* One tcp::channel (src/src/io/ip/tcp/pipeline/channel.cpp): the close    *)
(* and error bits and the reference count it keeps in one atomic integer,  *)
(* its write queue, its outstanding read and writes, and the closures it   *)
(* posts to the engine.                                                    *)
(*                                                                         *)
(* Of the pipeline only the calls into its filters appear: at a callback   *)
(* the loop thread may call the channel and give references to other       *)
(* threads, which call it at any time.  The engine is a FIFO queue of      *)
(* closures, and the socket completes what was started on it.  An access   *)
(* to the atomic, or a stretch of the loop thread that looks at it at most *)
(* once, is one step.                                                      *)
(***************************************************************************)
EXTENDS Integers, Sequences, FiniteSets, SequencesExt

CONSTANTS
  Threads,    \* threads other than the engine's
  Loop,       \* the engine's thread
  Openers,    \* threads that call fire_on_open
  Lens,       \* lengths of the buffers callers write
  MaxWrites,  \* bound: buffers given to do_write
  MaxReads    \* bound: reads that bring data

Caller == Threads \cup {Loop}

ASSUME ChannelAssumption ==
  /\ IsFiniteSet(Threads) /\ Loop \notin Threads /\ Openers \subseteq Caller
  /\ Lens \subseteq Nat /\ MaxWrites \in Nat /\ MaxReads \in Nat

VARIABLES
  st,       \* the channel object: "built", "live" (opened), "freed"
  flag,     \* _flag: the two bits and the count
  q,        \* closures posted to the engine, oldest first
  fd,       \* whether _fd still has its descriptor
  rd,       \* whether a read is outstanding
  wr,       \* the outstanding writes, oldest first: the buffers of each
  bufs,     \* _write_buffers: the length left in each
  lpc,      \* the filter callback the loop thread is in, or "idle"
  flush,    \* handle_write's local
  hold,     \* references handed out: which threads own one
  pc,       \* per thread: what it does next, or "idle"
  opens,    \* history: references taken by fire_on_open
  calls,    \* history: how often filters were told of an error and a close
  acc,      \* history: bytes that entered _write_buffers
  sent,     \* history: bytes filters were told are written
  writes,   \* history: calls of do_write
  reads     \* history: reads that brought data

ioVars   == <<fd, rd, wr>>
loopVars == <<lpc, flush>>
history  == <<opens, calls, acc, sent, writes, reads>>
vars == <<st, flag, q, ioVars, bufs, loopVars, hold, pc, history>>

-----------------------------------------------------------------------------
\* The bytes in the first k buffers of s, and in all of them.
Upto(s)  == LET f[k \in 0..Len(s)] == IF k = 0 THEN 0 ELSE f[k - 1] + s[k] IN f
Bytes(s) == Upto(s)[Len(s)]

Closure == [k: {"open", "close", "end"}, len: {0}] \cup [k: {"write"}, len: Lens]
C(k) == [k |-> k, len |-> 0]

Init ==
  /\ st = "built" /\ flag = [error |-> TRUE, close |-> TRUE, cnt |-> 0]
  /\ q = <<>> /\ fd = TRUE /\ rd = FALSE /\ wr = <<>> /\ bufs = <<>>
  /\ lpc = "idle" /\ flush = FALSE
  /\ hold = [t \in Caller |-> FALSE] /\ pc = [t \in Caller |-> "idle"]
  /\ opens = 0 /\ calls = [error |-> 0, close |-> 0]
  /\ acc = 0 /\ sent = 0 /\ writes = 0 /\ reads = 0

-----------------------------------------------------------------------------
(* The atomic integer f. *)

AddRef(f)  == [f EXCEPT !.cnt = @ + 1]
Release(f) == [f EXCEPT !.cnt = @ - 1]
IsZero(f)  == f.cnt = 0 /\ ~f.error /\ ~f.close

\* Mutant: the bit is not looked at.
contains_close_always(f) == TRUE
\* check_if_val_contains_bit( _flag , close_flag )
contains_close(f) == f.close

\* Mutant: the error bit stays.
reset_error_never(f) == f
reset_error(f) == [f EXCEPT !.error = FALSE]

\* release() on the loop thread, c being the closures so far: the call that
\* reaches zero posts the end.
ReleaseOn(f, c) ==
  /\ flag' = Release(f)
  /\ q' = IF IsZero(Release(f)) THEN Append(c, C("end")) ELSE c

LoopAt(l) == lpc = l /\ pc[Loop] = "idle"
Runs(k)   == LoopAt("idle") /\ q # <<>> /\ Head(q).k = k

-----------------------------------------------------------------------------
(* Opening.  The acceptor and the connector open on the loop thread, or    *)
(* drop the channel when build fails.                                      *)

discard ==
  /\ st = "built"
  /\ st' = "freed" /\ fd' = FALSE
  /\ UNCHANGED <<flag, q, rd, wr, bufs, loopVars, hold, pc, history>>

fire_on_open(t) ==
  /\ st = "built" /\ t \in Openers
  /\ st' = "live" /\ opens' = 1 /\ flag' = AddRef(flag)
  /\ \/ t = Loop /\ lpc' = "open_cb" /\ UNCHANGED q
     \/ t # Loop /\ q' = Append(q, C("open")) /\ UNCHANGED lpc
  /\ UNCHANGED <<ioVars, bufs, flush, hold, pc, calls, acc, sent, writes, reads>>

\* The posted call takes its own reference on top of the caller's.
run_open ==
  /\ Runs("open")
  /\ q' = Tail(q) /\ opens' = opens + 1 /\ flag' = AddRef(flag) /\ lpc' = "open_cb"
  /\ UNCHANGED <<st, ioVars, bufs, flush, hold, pc, calls, acc, sent, writes, reads>>

\* Mutant: the outstanding read holds no reference.
read_no_ref(f) == rd' = contains_close(f) /\ flag' = f

\* channel::read
read(f) ==
  /\ rd' = contains_close(f)
  /\ flag' = IF contains_close(f) THEN AddRef(f) ELSE f

open_return ==
  /\ LoopAt("open_cb") /\ lpc' = "idle"
  /\ read(flag)
  /\ UNCHANGED <<st, q, fd, wr, bufs, flush, hold, pc, history>>

-----------------------------------------------------------------------------
(* Calls by filters, in a callback, and by whoever owns a reference.       *)

MayCall(t) ==
  /\ pc[t] = "idle"
  /\ hold[t] \/ (t = Loop /\ lpc # "idle")

\* A filter's add_ref on behalf of t: another thread, or a timer's callback.
add_ref(t) ==
  /\ lpc # "idle" /\ pc[Loop] = "idle" /\ ~hold[t] /\ pc[t] = "idle"
  /\ hold' = [hold EXCEPT ![t] = TRUE] /\ flag' = AddRef(flag)
  /\ UNCHANGED <<st, q, ioVars, bufs, loopVars, pc, history>>

\* fetch_sub, then the closure, if it was the last.
release(t) ==
  /\ hold[t] /\ pc[t] = "idle"
  /\ hold' = [hold EXCEPT ![t] = FALSE]
  /\ flag' = Release(flag)
  /\ pc' = [pc EXCEPT ![t] = IF IsZero(Release(flag)) THEN "end" ELSE "idle"]
  /\ UNCHANGED <<st, q, ioVars, bufs, loopVars, history>>

\* Mutant: the caller that finds the bit reset posts as well.
reset_close_twice(t) ==
  /\ flag' = [flag EXCEPT !.close = FALSE]
  /\ pc' = [pc EXCEPT ![t] = "close"]

\* reset_if_val_contains_bit: of several callers one resets the bit.
reset_close(t) ==
  /\ flag.close /\ flag' = [flag EXCEPT !.close = FALSE]
  /\ pc' = [pc EXCEPT ![t] = "close"]

close(t) ==
  /\ MayCall(t) /\ reset_close(t)
  /\ UNCHANGED <<st, q, ioVars, bufs, loopVars, hold, history>>

\* do_write looks at the bit.  On the loop thread the buffer is then queued,
\* and the first of an empty queue starts a write.
push(len, next) ==
  /\ bufs' = Append(bufs, len) /\ acc' = acc + len
  /\ pc' = [pc EXCEPT ![Loop] = next]

\* Mutant: every buffer starts a write.
after_push_write == "remains"
after_push == IF bufs = <<>> THEN "remains" ELSE "idle"

do_write(len) ==
  /\ MayCall(Loop) /\ contains_close(flag) /\ writes < MaxWrites
  /\ writes' = writes + 1
  /\ push(len, after_push)
  /\ UNCHANGED <<st, flag, q, ioVars, loopVars, hold, opens, calls, sent, reads>>

\* Elsewhere it takes a reference and posts.
do_write_off(t) ==
  /\ t # Loop /\ MayCall(t) /\ contains_close(flag) /\ writes < MaxWrites
  /\ writes' = writes + 1
  /\ pc' = [pc EXCEPT ![t] = "write"]
  /\ UNCHANGED <<st, flag, q, ioVars, bufs, loopVars, hold, opens, calls, acc, sent, reads>>

\* Mutant: the closure holds no reference.
post_write_no_ref(len) ==
  /\ q' = Append(q, [k |-> "write", len |-> len])
  /\ UNCHANGED flag

post_write(len) ==
  /\ q' = Append(q, [k |-> "write", len |-> len])
  /\ flag' = AddRef(flag)

execute_write(t) ==
  /\ pc[t] = "write" /\ \E len \in Lens : post_write(len)
  /\ pc' = [pc EXCEPT ![t] = "idle"]
  /\ UNCHANGED <<st, ioVars, bufs, loopVars, hold, history>>

\* The closure of close, or of the last release.
execute(t) ==
  /\ pc[t] \in {"close", "end"}
  /\ q' = Append(q, C(pc[t]))
  /\ pc' = [pc EXCEPT ![t] = "idle"]
  /\ UNCHANGED <<st, flag, ioVars, bufs, loopVars, hold, history>>

-----------------------------------------------------------------------------
(* Writing, on the loop thread. *)

\* The posted do_write: its release comes last.
run_write ==
  /\ Runs("write")
  /\ \/ /\ contains_close(flag) /\ bufs = <<>>
        /\ push(Head(q).len, "remains_release")
        /\ q' = Tail(q) /\ UNCHANGED flag
     \/ /\ contains_close(flag) /\ bufs # <<>>
        /\ push(Head(q).len, "idle")
        /\ ReleaseOn(flag, Tail(q))
     \/ /\ ~contains_close(flag)
        /\ ReleaseOn(flag, Tail(q))
        /\ UNCHANGED <<bufs, acc, pc>>
  /\ UNCHANGED <<st, ioVars, loopVars, hold, opens, calls, sent, writes, reads>>

\* write_remains: all of _write_buffers in one write.
Remains(f)      == IF contains_close(f) THEN AddRef(f) ELSE f
start_remains   == wr' = IF contains_close(flag) THEN Append(wr, bufs) ELSE wr

write_remains ==
  /\ start_remains
  /\ \/ pc[Loop] = "remains" /\ flag' = Remains(flag) /\ UNCHANGED q
     \/ pc[Loop] = "remains_release" /\ ReleaseOn(Remains(flag), q)
  /\ pc' = [pc EXCEPT ![Loop] = "idle"]
  /\ UNCHANGED <<st, fd, rd, bufs, loopVars, hold, history>>

\* One turn of handle_write's loop: rd_ptr takes what is left to take, or all
\* of a buffer of length len; one that is then empty will be erased.
Take(p, len) ==
  LET took == IF p.bytes < len THEN p.bytes ELSE len
  IN  [bytes |-> p.bytes - took,
       kept  |-> IF took < len THEN Append(p.kept, len - took) ELSE p.kept]

\* The first k turns over the buffers b, for n bytes.
Turns(b, n) ==
  LET f[k \in 0..Len(b)] == IF k = 0 THEN [bytes |-> n, kept |-> <<>>] ELSE Take(f[k - 1], b[k])
  IN  f

\* Mutant: everything is erased.
consume_all(b, n) == <<>>

\* handle_write's loop, and the erase of the buffers that are empty.
consume(b, n) == Turns(b, n)[Len(b)].kept

-----------------------------------------------------------------------------
(* Completions: handle_read and handle_write, then the lambda's release.   *)

\* An error: close( ec ), then release.
CloseAndRelease ==
  /\ flag' = Release([flag EXCEPT !.close = FALSE])
  /\ q' = Append(q, C("close"))

read_error ==
  /\ LoopAt("idle") /\ rd /\ rd' = FALSE
  /\ \/ contains_close(flag) /\ CloseAndRelease
     \/ ~contains_close(flag) /\ ReleaseOn(flag, q)
  /\ UNCHANGED <<st, fd, wr, bufs, loopVars, hold, pc, history>>

read_data ==
  /\ LoopAt("idle") /\ rd /\ rd' = FALSE /\ reads < MaxReads
  /\ reads' = reads + 1
  /\ \/ contains_close(flag) /\ lpc' = "read_cb" /\ UNCHANGED <<flag, q>>
     \/ ~contains_close(flag) /\ ReleaseOn(flag, q) /\ UNCHANGED lpc
  /\ UNCHANGED <<st, fd, wr, bufs, flush, hold, pc, opens, calls, acc, sent, writes>>

\* handle_read reads again; then the lambda releases.
read_return ==
  /\ LoopAt("read_cb") /\ lpc' = "idle"
  /\ \/ contains_close(flag) /\ read(Release(flag)) /\ UNCHANGED q
     \/ ~contains_close(flag) /\ ReleaseOn(flag, q) /\ UNCHANGED rd
  /\ UNCHANGED <<st, fd, wr, bufs, flush, hold, pc, history>>

write_error ==
  /\ LoopAt("idle") /\ wr # <<>> /\ wr' = Tail(wr)
  /\ \/ contains_close(flag) /\ CloseAndRelease
     \/ ~contains_close(flag) /\ ReleaseOn(flag, q)
  /\ UNCHANGED <<st, fd, rd, bufs, loopVars, hold, pc, history>>

\* An operation completes when all its bytes are written.
write_done ==
  /\ LoopAt("idle") /\ wr # <<>> /\ wr' = Tail(wr)
  /\ \/ /\ contains_close(flag)
        /\ bufs' = consume(bufs, Bytes(Head(wr)))
        /\ sent' = sent + Bytes(Head(wr))
        /\ flush' = (bufs' = <<>>)
        /\ lpc' = "write_cb" /\ UNCHANGED <<flag, q>>
     \/ /\ ~contains_close(flag) /\ ReleaseOn(flag, q)
        /\ UNCHANGED <<bufs, sent, flush, lpc>>
  /\ UNCHANGED <<st, fd, rd, hold, pc, opens, calls, acc, writes, reads>>

write_return ==
  /\ LoopAt("write_cb") /\ lpc' = "idle" /\ flush' = FALSE
  /\ \/ ~flush /\ start_remains /\ ReleaseOn(Remains(flag), q)
     \/ flush /\ ReleaseOn(flag, q) /\ UNCHANGED wr
  /\ UNCHANGED <<st, fd, rd, bufs, hold, pc, history>>

-----------------------------------------------------------------------------
(* fire_on_close and fire_on_end_reference. *)

run_close ==
  /\ Runs("close")
  /\ q' = Tail(q) /\ fd' = FALSE
  /\ flag' = reset_error(flag)
  /\ lpc' = IF flag.error THEN "error_cb" ELSE "close_cb"
  /\ calls' = [calls EXCEPT !.error = @ + (IF flag.error THEN 1 ELSE 0),
                            !.close = @ + (IF flag.error THEN 0 ELSE 1)]
  /\ UNCHANGED <<st, rd, wr, bufs, flush, hold, pc, opens, acc, sent, writes, reads>>

error_return ==
  /\ LoopAt("error_cb") /\ lpc' = "close_cb"
  /\ calls' = [calls EXCEPT !.close = @ + 1]
  /\ UNCHANGED <<st, flag, q, ioVars, bufs, flush, hold, pc, opens, acc, sent, writes, reads>>

close_return ==
  /\ LoopAt("close_cb") /\ lpc' = "idle"
  /\ ReleaseOn(flag, q)
  /\ UNCHANGED <<st, ioVars, bufs, flush, hold, pc, history>>

run_end ==
  /\ Runs("end")
  /\ q' = Tail(q) /\ st' = "freed" /\ fd' = FALSE
  /\ UNCHANGED <<flag, rd, wr, bufs, loopVars, hold, pc, history>>

-----------------------------------------------------------------------------
Call(t) == fire_on_open(t) \/ add_ref(t) \/ release(t) \/ close(t) \/ do_write_off(t)

Post(t) == execute_write(t) \/ execute(t)

LoopStep ==
  \/ run_open \/ run_write \/ run_close \/ run_end \/ write_remains
  \/ open_return \/ read_return \/ write_return \/ error_return \/ close_return

Complete == read_error \/ read_data \/ write_error \/ write_done

Next ==
  \/ discard \/ LoopStep \/ Complete
  \/ \E t \in Caller : Call(t) \/ Post(t)
  \/ \E len \in Lens : do_write(len)

Spec == Init /\ [][Next]_vars

\* The loop thread runs its closures and callbacks return; a thread that has
\* something to post posts it; what was started on a closed socket completes.
FairSpec ==
  /\ Spec /\ WF_vars(LoopStep) /\ WF_vars(~fd /\ (read_error \/ write_error))
  /\ \A t \in Caller : WF_vars(Post(t))

-----------------------------------------------------------------------------
(* Properties. *)

\* The types of the variables; the count never drops below zero.
TypeOK ==
  /\ st \in {"built", "live", "freed"}
  /\ flag \in [error: BOOLEAN, close: BOOLEAN, cnt: Nat]
  /\ q \in Seq(Closure) /\ fd \in BOOLEAN /\ rd \in BOOLEAN
  /\ wr \in Seq(Seq(Nat)) /\ bufs \in Seq(Nat)
  /\ lpc \in {"idle", "open_cb", "read_cb", "write_cb", "error_cb", "close_cb"}
  /\ flush \in BOOLEAN /\ hold \in [Caller -> BOOLEAN]
  /\ pc \in [Caller -> {"idle", "close", "end", "write", "remains", "remains_release"}]
  /\ opens \in 0..2 /\ calls \in [error: Nat, close: Nat]
  /\ acc \in Nat /\ sent \in Nat /\ writes \in 0..MaxWrites /\ reads \in 0..MaxReads

\* The count is the references that exist: the one fire_on_open took for the
\* close, outstanding operations, posted writes, and those handed out.
One(b) == IF b THEN 1 ELSE 0
ClosedDone == calls.close = 1 /\ lpc # "close_cb"
ChannelRefcount ==
  flag.cnt = (opens - One(ClosedDone)) + One(rd) + Len(wr)
               + Cardinality({n \in DOMAIN q : q[n].k = "write"})
               + One(pc[Loop] = "remains_release") + One(lpc \in {"read_cb", "write_cb"})
               + Cardinality({t \in Caller : hold[t]})

\* A deleted channel is not reachable: no closure, operation, callback or
\* thread is left that would call it.
NothingAfterFree ==
  st = "freed" =>
    /\ q = <<>> /\ ~rd /\ wr = <<>> /\ lpc = "idle"
    /\ \A t \in Caller : ~hold[t] /\ pc[t] = "idle"

\* The memory an outstanding write points into stays at the front of
\* _write_buffers until the write completes, whatever callbacks and other
\* threads write meanwhile.
WritesInPlace == \A n \in DOMAIN wr : IsPrefix(wr[n], bufs)

\* No byte is lost or reported twice: what was accepted has been reported
\* as written or is still queued.
BytesConserved == acc = sent + Bytes(bufs)

\* Filters hear of one error and one close, in this order, and of nothing
\* else afterwards, however many threads close and whatever fails meanwhile.
ClosedOnce ==
  /\ calls.close <= 1 /\ calls.error = calls.close + One(lpc = "error_cb")
  /\ calls.close = 1 => lpc \in {"idle", "close_cb"}

\* The channel starts operations on an open socket only: what Epoll's read
\* and write, which do not test the descriptor, rely on.
IoOnOpenSocket == [][(rd' /\ ~rd) \/ Len(wr') > Len(wr) => fd]_vars

\* A closed channel is deleted once nobody owns a reference any more.  One
\* that was opened off the loop keeps the second reference and is not.
ClosedIsFreed ==
  st = "live" /\ ~flag.close ~> st = "freed" \/ opens = 2 \/ \E t \in Caller : hold[t]
=============================================================================
