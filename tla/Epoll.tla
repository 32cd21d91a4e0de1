------------------------------- MODULE Epoll -------------------------------
(***************************************************************************)
(* The epoll multiplexer (src/src/io/epoll.cpp) driven by engine::run      *)
(* (src/src/io/engine.cpp): the operation queue other threads post to, the *)
(* wake-up pipe, the engine's reference count, the reference-counted       *)
(* descriptors with their per-direction operation queues, and the kernel   *)
(* sockets behind them as far as edge-triggered readiness goes.            *)
(*                                                                         *)
(* A step is atomic when no other thread can see inside it: a critical     *)
(* section of _lock, one atomic counter update, or a stretch of the loop   *)
(* thread that touches only what that thread owns.  The write to the       *)
(* wake-up pipe after a critical section is a step of its own.             *)
(***************************************************************************)
EXTENDS Integers, Sequences, FiniteSets

CONSTANTS
  Threads,   \* threads other than the one inside engine::run
  Loop,      \* the thread that calls engine::run
  Sock,      \* socket and acceptor objects, each with a _descriptor member
  Desc,      \* epoll::_descriptor objects, each created at most once
  Op,        \* operation objects, each allocated at most once
  Kinds,     \* kinds of operation the application starts
  Null,
  PipeCap,   \* bytes the wake-up pipe holds before a write blocks
  ReadMax,   \* bytes one read of the wake-up pipe takes (pipe_r[256])
  BufLen,    \* bytes of each read or write operation's buffer
  RxMax,     \* bytes (or connections) that may wait in a socket
  TxMax      \* room in a socket's send buffer

ASSUME ThreadAssumption == Loop \notin Threads
ASSUME FiniteAssumption == IsFiniteSet(Desc) /\ IsFiniteSet(Sock)
ASSUME BoundAssumption ==
  /\ PipeCap \in Nat \ {0}
  /\ ReadMax \in Nat \ {0}
  /\ BufLen \in Nat \ {0}
  /\ RxMax \in Nat \ {0}
  /\ TxMax \in Nat \ {0}

Caller == Threads \cup {Loop}

\* ev_read (also ev_accept) and ev_write (also ev_connect).  The third
\* queue, ev_pri, is never given an operation.
Ev == {"read", "write"}

\* A descriptor_dispatch: its descriptor, the directions still to serve,
\* and whether it holds a reference (a dispatch closure) or not (an event).
CurType == [desc: Desc, evs: SUBSET Ev, release: BOOLEAN]

\* The null pointer is nothing else.
ASSUME NullAssumption == Null \notin Desc \cup Op \cup Sock \cup CurType

VARIABLES
  opq,       \* _op_queue: closures waiting for the loop
  pipe,      \* bytes in the wake-up pipe
  pc,        \* per thread: "wake" between leaving _lock and writing the pipe
  refcount,  \* engine::_refcount
  lpc,       \* where the loop thread is in engine::run / epoll::run
  evs,       \* events[]: what epoll_wait returned and is not yet dispatched
  wk,        \* the pipe's entry of events[], then execute_op
  ops,       \* the batch moved out of _op_queue
  cur,       \* the descriptor_dispatch in progress
  handle,    \* the _descriptor member of each socket object
  desc,      \* the descriptor objects
  sock,      \* the kernel socket behind each descriptor
  op         \* the operation objects

muxVars  == <<opq, pipe, pc, refcount>>
loopVars == <<lpc, evs, wk, ops, cur>>
userVars == <<op, handle>>
vars     == <<muxVars, loopVars, userVars, desc, sock>>

-----------------------------------------------------------------------------
(* Operations and closures. *)

UserKind == {"task", "connect", "accept", "read", "readn", "write", "recv", "send"}
ASSUME KindAssumption == Kinds \subseteq UserKind

Err  == {"none", "error", "aborted", "invalid", "disconnected"}

EvOf(k) == IF k \in {"write", "connect", "send"} THEN "write" ELSE "read"

OpType == [kind: UserKind \cup {"none", "dropped"}, desc: Desc \cup {Null}, to: Sock \cup {Null},
           remain: 0..BufLen, err: Err, calls: Nat]

\* A plain completion (*op)(), the descriptor_dispatch_* closure of a read,
\* write or accept, and the closure unbind posts.
Closure ==
  [k: {"run"}, op: Op, desc: {Null}] \cup
  [k: {"dispatch"}, op: Op, desc: Desc] \cup
  [k: {"unbind"}, op: {Null}, desc: Desc]
RunC(o) == [k |-> "run", op |-> o, desc |-> Null]
DispC(d, o) == [k |-> "dispatch", op |-> o, desc |-> d]
UnbindC(d) == [k |-> "unbind", op |-> Null, desc |-> d]

Fresh == {o \in Op : op[o].kind = "none"}
StartOp(o, k, d, s, e) ==
  op' = [op EXCEPT ![o] = [kind |-> k, desc |-> d, to |-> s,
                           remain |-> BufLen, err |-> e, calls |-> 0]]

-----------------------------------------------------------------------------
(* Descriptors and the kernel sockets behind them. *)

QType    == [Ev -> Seq(Op)]
DescType == [st: {"new", "live", "freed"}, fd: BOOLEAN, ref: Int, q: QType]
SockType == [st: {"none", "connecting", "up", "listening", "reset", "dgram", "blocking"},
             rx: 0..RxMax, tx: 0..TxMax, fin: BOOLEAN, armed: BOOLEAN]

NoQ    == [e \in Ev |-> <<>>]
NoDesc == [st |-> "new", fd |-> FALSE, ref |-> 0, q |-> NoQ]
NoSock == [st |-> "none", rx |-> 0, tx |-> 0, fin |-> FALSE, armed |-> FALSE]

NewDesc == {d \in Desc : desc[d].st = "new"}
Live    == {d \in Desc : desc[d].st = "live"}

descriptor_create(wq) ==
  [st |-> "live", fd |-> TRUE, ref |-> 1, q |-> [NoQ EXCEPT !["write"] = wq]]

\* A datagram socket is "blocking" when write created it: the one place
\* that does not set non_blocking.
Datagram == {"dgram", "blocking"}

OpenSock(st) ==
  [st |-> st, rx |-> 0, tx |-> TxMax, fin |-> FALSE, armed |-> st \in {"up"} \cup Datagram]

Least(a, b) == IF a <= b THEN a ELSE b

\* The mask epoll_wait reports for a socket.  EPOLLERR and EPOLLHUP come
\* with EPOLLIN and EPOLLOUT on a reset socket.
Mask(k) ==
  (IF k.st = "reset" \/ (k.st \notin {"none", "connecting"} /\ (k.rx > 0 \/ k.fin))
     THEN {"read"} ELSE {}) \cup
  (IF k.st = "reset" \/ (k.st \in {"up"} \cup Datagram /\ k.tx > 0)
     THEN {"write"} ELSE {})

Ready == {d \in Live : desc[d].fd /\ sock[d].armed /\ Mask(sock[d]) # {}}

-----------------------------------------------------------------------------
Init ==
  /\ opq = <<>> /\ pipe = 0 /\ refcount = 0
  /\ pc = [t \in Caller |-> "idle"]
  /\ lpc = "out" /\ wk = "no" /\ ops = <<>> /\ cur = Null
  /\ evs = [d \in Desc |-> {}]
  /\ handle = [s \in Sock |-> Null]
  /\ desc = [d \in Desc |-> NoDesc]
  /\ sock = [d \in Desc |-> NoSock]
  /\ op = [o \in Op |-> [kind |-> "none", desc |-> Null, to |-> Null,
                         remain |-> 0, err |-> "none", calls |-> 0]]

-----------------------------------------------------------------------------
(* Calls into the multiplexer.  The loop thread calls it before run() and  *)
(* from inside a handler; every other thread calls it at any time.         *)

MayCall(t) == pc[t] = "idle" /\ (t = Loop => lpc \in {"out", "callback"})

\* op_add inside _lock; wake_up follows.
op_add(t, c) ==
  /\ opq' = Append(opq, c)
  /\ pc' = [pc EXCEPT ![t] = "wake"]
  /\ pipe' = pipe

wake_up(t) ==
  /\ pc[t] = "wake"
  /\ pipe < PipeCap
  /\ pipe' = pipe + 1
  /\ pc' = [pc EXCEPT ![t] = "idle"]
  /\ UNCHANGED <<opq, refcount, loopVars, userVars, desc, sock>>

execute(t, o) ==
  /\ "task" \in Kinds
  /\ MayCall(t) /\ o \in Fresh
  /\ StartOp(o, "task", Null, Null, "none")
  /\ op_add(t, RunC(o))
  /\ refcount' = refcount + 1
  /\ UNCHANGED <<loopVars, handle, desc, sock>>

\* Two threads may close the same socket: the member is cleared in _lock.
unbind(t, s) ==
  /\ MayCall(t) /\ handle[s] # Null
  /\ handle' = [handle EXCEPT ![s] = Null]
  /\ op_add(t, UnbindC(handle[s]))
  /\ refcount' = refcount + 1
  /\ UNCHANGED <<loopVars, op, desc, sock>>

\* A socket object with nothing in it and no accept about to fill it: what
\* callers hand to connect, listen and accept.
Unused(s) ==
  handle[s] = Null /\ \A o \in Op : op[o].kind = "accept" /\ op[o].to = s => op[o].calls = 1

connect(t, s, o) ==
  /\ "connect" \in Kinds
  /\ MayCall(t) /\ Unused(s) /\ o \in Fresh
  /\ \E d \in NewDesc :
       /\ desc' = [desc EXCEPT ![d] = descriptor_create(<<o>>)]
       /\ sock' = [sock EXCEPT ![d] = OpenSock("connecting")]
       /\ handle' = [handle EXCEPT ![s] = d]
       /\ StartOp(o, "connect", d, Null, "none")
  /\ refcount' = refcount + 1
  /\ UNCHANGED <<opq, pipe, pc, loopVars>>

\* The operation is completed, with an error, through the queue.
fail_op(t, o, k, e) ==
  /\ o \in Fresh /\ k \in Kinds
  /\ StartOp(o, k, Null, Null, e)
  /\ op_add(t, RunC(o))
  /\ refcount' = refcount + 1
  /\ UNCHANGED <<loopVars, handle, desc, sock>>

\* socket(), connect() or epoll_ctl() fails.  A descriptor made for the
\* operation is gone when the call returns, so only the operation is left.
connect_fail(t, s, o) == MayCall(t) /\ Unused(s) /\ fail_op(t, o, "connect", "error")

\* A descriptor with no operation yet.  When a system call fails the call
\* returns false and leaves nothing behind.
open_fd(t, s, st) ==
  /\ MayCall(t) /\ Unused(s)
  /\ \E d \in NewDesc :
       /\ desc' = [desc EXCEPT ![d] = descriptor_create(<<>>)]
       /\ sock' = [sock EXCEPT ![d] = OpenSock(st)]
       /\ handle' = [handle EXCEPT ![s] = d]
  /\ refcount' = refcount + 1
  /\ UNCHANGED <<opq, pipe, pc, loopVars, op>>

listen(t, s)   == "accept" \in Kinds /\ open_fd(t, s, "listening")
udp_bind(t, s) == "recv" \in Kinds /\ open_fd(t, s, "dgram")

\* Mutant: the closure holds no reference.
post_io_no_ref(d, o, k, s) ==
  /\ o \in Fresh /\ k \in Kinds
  /\ StartOp(o, k, d, s, "none")
  /\ op_add(Loop, DispC(d, o))
  /\ refcount' = refcount + 1
  /\ UNCHANGED <<loopVars, handle, desc, sock>>

\* The common part of read, write and accept: the closure holds a reference.
post_io(d, o, k, s) ==
  /\ o \in Fresh /\ k \in Kinds
  /\ desc' = [desc EXCEPT ![d].ref = @ + 1]
  /\ StartOp(o, k, d, s, "none")
  /\ op_add(Loop, DispC(d, o))
  /\ refcount' = refcount + 1
  /\ UNCHANGED <<loopVars, handle, sock>>

\* read and write take the descriptor by value and do not test it for null:
\* channel, their only caller, calls them on the loop thread with the
\* socket open, after the connect handler or the accept handler ran.
Connected(s) == handle[s] # Null /\ sock[handle[s]].st \in {"up", "reset"}
read(s, o, k) ==
  /\ MayCall(Loop) /\ Connected(s)
  /\ post_io(handle[s], o, k, Null)

write(s, o) ==
  /\ MayCall(Loop) /\ Connected(s)
  /\ post_io(handle[s], o, "write", Null)

accept(s, o, to) ==
  /\ MayCall(Loop) /\ Unused(to)
  /\ handle[s] # Null /\ sock[handle[s]].st = "listening"
  /\ post_io(handle[s], o, "accept", to)

udp_read(s, o) ==
  /\ MayCall(Loop) /\ handle[s] # Null /\ sock[handle[s]].st \in Datagram
  /\ post_io(handle[s], o, "recv", Null)

udp_read_closed(s, o) == MayCall(Loop) /\ handle[s] = Null /\ fail_op(Loop, o, "recv", "invalid")

udp_write(s, o) ==
  /\ MayCall(Loop) /\ handle[s] # Null /\ sock[handle[s]].st \in Datagram
  /\ post_io(handle[s], o, "send", Null)

\* The first write on a socket without a descriptor creates one, for the
\* socket object and for the closure.
udp_write_open(s, o) ==
  /\ "send" \in Kinds
  /\ MayCall(Loop) /\ Unused(s) /\ o \in Fresh
  /\ \E d \in NewDesc :
       /\ desc' = [desc EXCEPT ![d] = [descriptor_create(<<>>) EXCEPT !.ref = 2]]
       /\ sock' = [sock EXCEPT ![d] = OpenSock("blocking")]
       /\ handle' = [handle EXCEPT ![s] = d]
       /\ StartOp(o, "send", d, Null, "none")
       /\ op_add(Loop, DispC(d, o))
  /\ refcount' = refcount + 2
  /\ UNCHANGED loopVars

udp_write_fail(s, o) == MayCall(Loop) /\ Unused(s) /\ fail_op(Loop, o, "send", "error")

\* The acceptor is closed: the call returns and forgets the operation.
accept_closed(s, o) ==
  /\ "accept" \in Kinds
  /\ MayCall(Loop) /\ handle[s] = Null /\ o \in Fresh
  /\ StartOp(o, "dropped", Null, s, "none")
  /\ UNCHANGED <<muxVars, loopVars, handle, desc, sock>>

-----------------------------------------------------------------------------
(* The loop: engine::run around epoll::run. *)

At(l) == lpc = l /\ pc[Loop] = "idle"

run ==
  /\ At("out") /\ lpc' = "check"
  /\ UNCHANGED <<muxVars, evs, wk, ops, cur, userVars, desc, sock>>

run_check ==
  /\ At("check")
  /\ lpc' = IF refcount = 0 THEN "out" ELSE "wait"
  /\ UNCHANGED <<muxVars, evs, wk, ops, cur, userVars, desc, sock>>

\* epoll_wait with something ready.  The sockets are edge triggered, the
\* pipe is level triggered.
epoll_wait ==
  /\ At("wait") /\ (pipe > 0 \/ Ready # {})
  /\ evs' = [d \in Desc |-> IF d \in Ready THEN Mask(sock[d]) ELSE {}]
  /\ sock' = [d \in Desc |-> [sock[d] EXCEPT !.armed = FALSE]]
  /\ wk' = IF pipe > 0 THEN "event" ELSE "no"
  /\ lpc' = "events"
  /\ UNCHANGED <<muxVars, ops, cur, userVars, desc>>

epoll_wait_timeout ==
  /\ At("wait") /\ pipe = 0 /\ Ready = {}
  /\ lpc' = "check"
  /\ UNCHANGED <<muxVars, evs, wk, ops, cur, userVars, desc, sock>>

\* The loop over events[], in whatever order epoll_wait listed them.
run_event(d) ==
  /\ At("events") /\ evs[d] # {}
  /\ cur' = [desc |-> d, evs |-> evs[d], release |-> FALSE]
  /\ evs' = [evs EXCEPT ![d] = {}]
  /\ lpc' = "dispatch"
  /\ UNCHANGED <<muxVars, wk, ops, userVars, desc, sock>>

\* Mutant: every read of the pipe is taken to return 256 bytes.
pipe_read_full(n) == n - ReadMax

\* Bytes left after ::read(rd_pipe, pipe_r, 256).
pipe_read(n) == n - Least(n, ReadMax)

run_pipe ==
  /\ At("events") /\ wk = "event"
  /\ pipe' = pipe_read(pipe)
  /\ wk' = "execute"
  /\ UNCHANGED <<opq, pc, refcount, lpc, evs, ops, cur, userVars, desc, sock>>

EventsDone == \A d \in Desc : evs[d] = {}

run_take ==
  /\ At("events") /\ EventsDone /\ wk = "execute"
  /\ ops' = opq /\ opq' = <<>>
  /\ wk' = "no" /\ lpc' = "drain"
  /\ UNCHANGED <<pipe, pc, refcount, evs, cur, userVars, desc, sock>>

run_no_take ==
  /\ At("events") /\ EventsDone /\ wk = "no"
  /\ lpc' = "check"
  /\ UNCHANGED <<muxVars, evs, wk, ops, cur, userVars, desc, sock>>

run_drained ==
  /\ At("drain") /\ ops = <<>>
  /\ lpc' = "check"
  /\ UNCHANGED <<muxVars, evs, wk, ops, cur, userVars, desc, sock>>

-----------------------------------------------------------------------------
(* descriptor_release: the last reference aborts what is still queued.     *)

Orphans(d) == desc[d].q["read"] \o desc[d].q["write"]

\* Mutant: no wake_up after the operations are queued.
abort_ops_no_wake_up(orphans, count) ==
  /\ refcount' = count + Len(orphans)
  /\ opq' = opq \o [i \in 1..Len(orphans) |-> RunC(orphans[i])]
  /\ op' = [o \in Op |->
              IF \E i \in 1..Len(orphans) : orphans[i] = o
              THEN [op[o] EXCEPT !.err = "aborted"] ELSE op[o]]
  /\ pc' = pc

\* Mutant: the operations are spliced into _op_queue without op_add.
abort_ops_splice(orphans, count) ==
  /\ refcount' = count
  /\ opq' = opq \o [i \in 1..Len(orphans) |-> RunC(orphans[i])]
  /\ pc' = IF orphans = <<>> THEN pc ELSE [pc EXCEPT ![Loop] = "wake"]
  /\ op' = op

\* Mutant: the descriptor is deleted with the operations still in it.
abort_ops_forget(orphans, count) ==
  /\ refcount' = count
  /\ UNCHANGED <<opq, pc, op>>

\* The operations left in a descriptor go back to the engine's queue with
\* error_aborted; count is the engine's count before op_add adds to it.
abort_ops(orphans, count) ==
  /\ refcount' = count + Len(orphans)
  /\ opq' = opq \o [i \in 1..Len(orphans) |-> RunC(orphans[i])]
  /\ pc' = IF orphans = <<>> THEN pc ELSE [pc EXCEPT ![Loop] = "wake"]
  /\ op' = [o \in Op |->
              IF op[o].err = "none" /\ \E i \in 1..Len(orphans) : orphans[i] = o
              THEN [op[o] EXCEPT !.err = "aborted"] ELSE op[o]]

\* ds is the descriptors as the caller left them; taken is what the caller
\* itself takes off the engine's count.
descriptor_release(ds, d, taken) ==
  \/ /\ desc[d].ref # 1
     /\ desc' = [ds EXCEPT ![d].ref = @ - 1]
     /\ refcount' = refcount - taken
     /\ UNCHANGED <<opq, pc, op>>
  \/ /\ desc[d].ref = 1
     /\ desc' = [desc EXCEPT ![d] = [NoDesc EXCEPT !.st = "freed"]]
     /\ abort_ops(Orphans(d), refcount - taken - 1)

Complete(o, e) == [op EXCEPT ![o].err = e, ![o].calls = @ + 1]

\* op_run of a completion: the handler runs.
op_run_handler ==
  /\ At("drain") /\ ops # <<>> /\ Head(ops).k = "run"
  /\ ops' = Tail(ops) /\ refcount' = refcount - 1
  /\ op' = Complete(Head(ops).op, op[Head(ops).op].err)
  /\ lpc' = "callback"
  /\ UNCHANGED <<opq, pipe, pc, evs, wk, cur, handle, desc, sock>>

\* op_run of the closure unbind posted: close the fd, drop the reference the
\* socket object held.
op_run_unbind ==
  /\ At("drain") /\ ops # <<>> /\ Head(ops).k = "unbind"
  /\ ops' = Tail(ops)
  /\ LET d == Head(ops).desc IN
       /\ sock' = [sock EXCEPT ![d] = NoSock]
       /\ descriptor_release([desc EXCEPT ![d].fd = FALSE], d, 1)
  /\ UNCHANGED <<pipe, lpc, evs, wk, cur, handle>>

\* Mutants: the operation waits for the next edge without being tried; it
\* overtakes the ones already waiting.
enqueue_untried(d, o, e) ==
  /\ desc' = [desc EXCEPT ![d].q[e] = Append(@, o)]
  /\ cur' = [desc |-> d, evs |-> {}, release |-> TRUE]
enqueue_front(d, o, e) ==
  /\ desc' = [desc EXCEPT ![d].q[e] = <<o>> \o @]
  /\ cur' = [desc |-> d, evs |-> {e}, release |-> TRUE]

\* descriptor_dispatch_read and descriptor_dispatch_write up to the call of
\* descriptor_dispatch: the operation is queued and tried at once.
enqueue(d, o, e) ==
  /\ desc' = [desc EXCEPT ![d].q[e] = Append(@, o)]
  /\ cur' = [desc |-> d, evs |-> {e}, release |-> TRUE]

\* op_run of a dispatch closure.
op_run_dispatch ==
  /\ At("drain") /\ ops # <<>> /\ Head(ops).k = "dispatch"
  /\ ops' = Tail(ops) /\ refcount' = refcount - 1
  /\ LET o == Head(ops).op IN enqueue(Head(ops).desc, o, EvOf(op[o].kind))
  /\ lpc' = "dispatch"
  /\ UNCHANGED <<opq, pipe, pc, evs, wk, userVars, sock>>

-----------------------------------------------------------------------------
(* descriptor_dispatch: read queue first, then write queue; an operation   *)
(* whose post_proc succeeds is popped and its handler runs.                *)

CurEv == IF "read" \in cur.evs THEN "read" ELSE "write"
Dispatching(e) == At("dispatch") /\ cur.evs # {} /\ e = CurEv
Front(e) == Head(desc[cur.desc].q[e])
Pop(e) == [desc EXCEPT ![cur.desc].q[e] = Tail(@)]

\* The queue of this direction is empty: on to the next direction.
dispatch_empty(e) ==
  /\ Dispatching(e) /\ desc[cur.desc].q[e] = <<>>
  /\ cur' = [cur EXCEPT !.evs = @ \ {e}]
  /\ UNCHANGED <<muxVars, lpc, evs, wk, ops, userVars, desc, sock>>

\* The system calls behind a descriptor, as the multiplexer reports them:
\* what moved (bytes, connections or datagrams) and the error; -1 with no
\* error is EAGAIN.
Answer(n, e) == [n |-> n, err |-> e]

readv(d, len) ==
  IF ~desc[d].fd THEN Answer(-1, "invalid")
  ELSE IF sock[d].rx > 0 THEN Answer(Least(len, sock[d].rx), "none")
  ELSE IF sock[d].st = "reset" THEN Answer(-1, "error")
  ELSE Answer(-1, IF sock[d].fin THEN "disconnected" ELSE "none")

writev(d, len) ==
  IF ~desc[d].fd THEN Answer(-1, "invalid")
  ELSE IF sock[d].st = "reset" THEN Answer(-1, "error")
  ELSE Answer(IF sock[d].tx > 0 THEN Least(len, sock[d].tx) ELSE -1, "none")

accept_fd(d) ==
  IF ~desc[d].fd THEN Answer(-1, "invalid")
  ELSE IF sock[d].rx > 0 /\ NewDesc = {} THEN Answer(-1, "error")
  ELSE Answer(IF sock[d].rx > 0 THEN 1 ELSE -1, "none")

recvfrom(d) ==
  IF ~desc[d].fd THEN Answer(-1, "invalid")
  ELSE Answer(IF sock[d].rx > 0 THEN 1 ELSE -1, "none")

sendto(d) ==
  IF ~desc[d].fd THEN Answer(-1, "invalid")
  ELSE Answer(IF sock[d].tx > 0 THEN 1 ELSE -1, "none")

\* The post_proc of each operation: complete on an error; otherwise as soon
\* as anything moved, or when nothing remains of the buffers.
Skip(o, n)  == op[o].remain - Least(op[o].remain, n)
Post(a, ok) == [n |-> IF a.n > 0 THEN a.n ELSE 0, err |-> a.err, done |-> a.err # "none" \/ ok]

post_connect      == Post(Answer(0, "none"), TRUE)
post_accept(d)    == LET a == accept_fd(d) IN Post(a, a.n >= 0)
post_read(o, d)   == LET a == readv(d, op[o].remain) IN Post(a, a.n >= 0)
post_read_fixed_len(o, d) ==
  LET a == readv(d, op[o].remain) IN Post(a, a.n >= 0 /\ Skip(o, a.n) = 0)
post_write(o, d) ==
  LET a == writev(d, op[o].remain) IN Post(a, a.n >= 0 /\ Skip(o, a.n) = 0)
udp_post_read(d)  == LET a == recvfrom(d) IN Post(a, a.n >= 0)
udp_post_write(d) == LET a == sendto(d) IN Post(a, a.n >= 0)

post_proc(o, d) ==
  CASE op[o].kind = "connect" -> post_connect
    [] op[o].kind = "accept"  -> post_accept(d)
    [] op[o].kind = "read"    -> post_read(o, d)
    [] op[o].kind = "readn"   -> post_read_fixed_len(o, d)
    [] op[o].kind = "write"   -> post_write(o, d)
    [] op[o].kind = "send"    -> udp_post_write(d)
    [] OTHER                  -> udp_post_read(d)

Transfer(o, k, n) ==
  IF op[o].kind \in {"write", "send"} THEN [k EXCEPT !.tx = @ - n] ELSE [k EXCEPT !.rx = @ - n]

\* post_proc says done: pop the operation, run its handler.
dispatch_done(e) ==
  /\ Dispatching(e) /\ desc[cur.desc].q[e] # <<>>
  /\ LET o == Front(e)
         d == cur.desc
         p == post_proc(o, d)
         new == op[o].kind = "accept" /\ p.err = "none"
     IN /\ p.done
        /\ op' = [Complete(o, p.err) EXCEPT ![o].remain = Skip(o, p.n)]
        /\ IF new
           THEN \E a \in NewDesc :
                  /\ desc' = [Pop(e) EXCEPT ![a] = descriptor_create(<<>>)]
                  /\ sock' = [sock EXCEPT ![d] = Transfer(o, @, p.n), ![a] = OpenSock("up")]
                  /\ handle' = [handle EXCEPT ![op[o].to] = a]
                  /\ refcount' = refcount + 1
           ELSE /\ desc' = Pop(e)
                /\ sock' = [sock EXCEPT ![d] = Transfer(o, @, p.n)]
                /\ UNCHANGED <<handle, refcount>>
  /\ lpc' = "callback"
  /\ UNCHANGED <<opq, pipe, pc, evs, wk, ops, cur>>

\* post_proc says not yet: the operation stays at the front, with what it
\* transferred, until the next edge.  On a blocking socket the system call
\* does not return until it can succeed.
dispatch_wait(e) ==
  /\ Dispatching(e) /\ desc[cur.desc].q[e] # <<>>
  /\ sock[cur.desc].st # "blocking"
  /\ LET o == Front(e)
         p == post_proc(o, cur.desc)
     IN /\ ~p.done
        /\ op' = [op EXCEPT ![o].remain = Skip(o, p.n)]
        /\ sock' = [sock EXCEPT ![cur.desc] = Transfer(o, @, p.n)]
  /\ cur' = [cur EXCEPT !.evs = @ \ {e}]
  /\ UNCHANGED <<muxVars, lpc, evs, wk, ops, handle, desc>>

dispatch_end ==
  /\ At("dispatch") /\ cur.evs = {} /\ ~cur.release
  /\ cur' = Null /\ lpc' = "events"
  /\ UNCHANGED <<muxVars, evs, wk, ops, userVars, desc, sock>>

dispatch_end_release ==
  /\ At("dispatch") /\ cur.evs = {} /\ cur.release
  /\ descriptor_release(desc, cur.desc, 0)
  /\ cur' = Null /\ lpc' = "drain"
  /\ UNCHANGED <<pipe, evs, wk, ops, handle, sock>>

\* The handler returns to op_run or to descriptor_dispatch.
handler_return ==
  /\ At("callback")
  /\ lpc' = IF cur = Null THEN "drain" ELSE "dispatch"
  /\ UNCHANGED <<muxVars, evs, wk, ops, cur, userVars, desc, sock>>

-----------------------------------------------------------------------------
(* The kernel and the peer. *)

Kernel(d, k) ==
  /\ desc[d].st = "live" /\ desc[d].fd
  /\ sock' = [sock EXCEPT ![d] = k]
  /\ UNCHANGED <<muxVars, loopVars, userVars, desc>>

connected(d) ==
  /\ sock[d].st = "connecting"
  /\ Kernel(d, [sock[d] EXCEPT !.st = "up", !.armed = TRUE])

arrive(d) ==
  /\ sock[d].st \in {"up", "listening"} \cup Datagram /\ ~sock[d].fin /\ sock[d].rx < RxMax
  /\ Kernel(d, [sock[d] EXCEPT !.rx = @ + 1, !.armed = TRUE])

drain_tx(d) ==
  /\ sock[d].st \in {"up"} \cup Datagram /\ sock[d].tx < TxMax
  /\ Kernel(d, [sock[d] EXCEPT !.tx = @ + 1, !.armed = @ \/ sock[d].tx = 0])

peer_fin(d) ==
  /\ sock[d].st = "up" /\ ~sock[d].fin
  /\ Kernel(d, [sock[d] EXCEPT !.fin = TRUE, !.armed = TRUE])

peer_reset(d) ==
  /\ sock[d].st \in {"connecting", "up"}
  /\ Kernel(d, [sock[d] EXCEPT !.st = "reset", !.rx = 0, !.armed = TRUE])

-----------------------------------------------------------------------------
Call ==
  \E t \in Caller :
    \/ wake_up(t)
    \/ \E o \in Op : execute(t, o)
    \/ \E s \in Sock : unbind(t, s)
    \/ \E s \in Sock, o \in Op : connect(t, s, o)
    \/ \E s \in Sock, o \in Op : connect_fail(t, s, o)
    \/ \E s \in Sock : listen(t, s)
    \/ \E s \in Sock : udp_bind(t, s)

LoopCall ==
  \/ \E s \in Sock, o \in Op, k \in {"read", "readn"} : read(s, o, k)
  \/ \E s \in Sock, o \in Op : write(s, o)
  \/ \E s, to \in Sock, o \in Op : accept(s, o, to)
  \/ \E s \in Sock, o \in Op : accept_closed(s, o)
  \/ \E s \in Sock, o \in Op : udp_read(s, o)
  \/ \E s \in Sock, o \in Op : udp_read_closed(s, o)
  \/ \E s \in Sock, o \in Op : udp_write(s, o)
  \/ \E s \in Sock, o \in Op : udp_write_open(s, o)
  \/ \E s \in Sock, o \in Op : udp_write_fail(s, o)

LoopStep ==
  \/ run_check
  \/ epoll_wait
  \/ epoll_wait_timeout
  \/ \E d \in Desc : run_event(d)
  \/ run_pipe
  \/ run_take
  \/ run_no_take
  \/ run_drained
  \/ op_run_handler
  \/ op_run_unbind
  \/ op_run_dispatch
  \/ \E e \in Ev : dispatch_empty(e)
  \/ \E e \in Ev : dispatch_done(e)
  \/ \E e \in Ev : dispatch_wait(e)
  \/ dispatch_end
  \/ dispatch_end_release
  \/ handler_return

KernelStep ==
  \E d \in Desc :
    \/ connected(d)
    \/ arrive(d)
    \/ drain_tx(d)
    \/ peer_fin(d)
    \/ peer_reset(d)

Next == Call \/ LoopCall \/ run \/ LoopStep \/ KernelStep

Spec == Init /\ [][Next]_vars

-----------------------------------------------------------------------------
(* Safety. *)

\* Types of everything the engine, the multiplexer and the sockets keep;
\* in particular the pipe and the sockets never hold a negative number of
\* bytes and a read or write never transfers more than its buffer.
TypeOK ==
  /\ opq \in Seq(Closure) /\ ops \in Seq(Closure)
  /\ pipe \in 0..PipeCap
  /\ refcount \in Int
  /\ pc \in [Caller -> {"idle", "wake"}]
  /\ lpc \in {"out", "check", "wait", "events", "dispatch", "drain", "callback"}
  /\ evs \in [Desc -> SUBSET Ev]
  /\ wk \in {"no", "event", "execute"}
  /\ cur \in CurType \cup {Null}
  /\ handle \in [Sock -> Desc \cup {Null}]
  /\ desc \in [Desc -> DescType]
  /\ sock \in [Desc -> SockType]
  /\ op \in [Op -> OpType]

\* The self-pipe protocol of execute / unbind / descriptor_release against
\* epoll::run: whenever something is queued, a byte is in the pipe, or a
\* thread is about to write one, or the loop has read the pipe and has yet to
\* take the queue.  Reading the pipe never blocks the loop.
NoLostWakeup ==
  /\ opq # <<>> => pipe > 0 \/ (\E t \in Caller : pc[t] = "wake") \/ wk = "execute"
  /\ wk = "event" => pipe > 0

\* engine::_refcount counts the live descriptors, the queued closures and
\* the closures of the batch being run, through every path that creates,
\* queues, aborts or runs one.
EngineRefcount == refcount = Len(opq) + Len(ops) + Cardinality(Live)

Holds(q, d) == Cardinality({i \in 1..Len(q) : q[i].desc = d})
RefsTo(d) ==
  Cardinality({s \in Sock : handle[s] = d}) + Holds(opq, d) + Holds(ops, d)
    + (IF cur # Null /\ cur.desc = d /\ cur.release THEN 1 ELSE 0)

\* A descriptor's refcount is the number of references to it: the socket
\* object or the unbind closure it was handed to, each dispatch closure, the
\* dispatch in progress.  A deleted descriptor is referred to by nothing, not
\* even by an event epoll_wait has already returned.
DescriptorRefcount ==
  \A d \in Desc :
    IF desc[d].st = "live" THEN desc[d].ref = RefsTo(d)
    ELSE RefsTo(d) = 0 /\ evs[d] = {} /\ (cur # Null => cur.desc # d)

Times(q, o) == Cardinality({i \in 1..Len(q) : q[i] = o})
ClosureCount(q, o) == Cardinality({i \in 1..Len(q) : q[i].op = o})
QueuedIn(o, d) == Times(desc[d].q["read"], o) + Times(desc[d].q["write"], o)

\* An operation that was started is in exactly one queue, of the engine or
\* of its own descriptor, until its handler has run, and then in none: no
\* handler is lost and none runs twice, whatever mixture of completion,
\* error, close and abort it meets.
CompletedOnce ==
  \A o \in Op : op[o].kind \notin {"none", "dropped"} =>
    /\ 1 = op[o].calls + ClosureCount(opq, o) + ClosureCount(ops, o)
             + (IF op[o].desc = Null THEN 0 ELSE QueuedIn(o, op[o].desc))
    /\ \A d \in Desc \ {op[o].desc} : QueuedIn(o, d) = 0

\* Where the operations of one direction are, oldest first: handed back to
\* the engine by descriptor_release, in the descriptor's queue, or in
\* closures that have yet to reach it.
ClosureOps(k, d, e) ==
  LET mine == SelectSeq(ops \o opq, LAMBDA c : c.k = k /\ op[c.op].desc = d /\ EvOf(op[c.op].kind) = e)
  IN  [i \in DOMAIN mine |-> mine[i].op]

Promise == INSTANCE Completion WITH
  st    <- [d \in Desc |-> IF desc[d].st = "new" THEN "none"
                           ELSE IF \E s \in Sock : handle[s] = d THEN "open" ELSE "closed"],
  pend  <- [d \in Desc |-> [e \in Ev |->
              ClosureOps("run", d, e) \o desc[d].q[e] \o ClosureOps("dispatch", d, e)]],
  calls <- [o \in Op |-> op[o].calls]

\* epoll.cpp keeps the promise of module Completion: operations are answered
\* once and in order through three queues and the abort path.
KeepsPromise == Promise!Spec

Waiting(d, e) == desc[d].q[e] # <<>> /\ desc[d].fd /\ e \in Mask(sock[d])
Noticed(d, e) ==
  \/ sock[d].armed
  \/ e \in evs[d]
  \/ cur # Null /\ cur.desc = d /\ e \in cur.evs

\* Edge-triggered readiness is not lost: if a queued operation's direction
\* is ready, an edge is pending, or was returned and is not yet dispatched,
\* or is being dispatched.  (Fixed-length reads are the exception that
\* FixedReadNoticed states.)
EdgeNoticed ==
  \A d \in Live, e \in Ev :
    Waiting(d, e) /\ op[Head(desc[d].q[e])].kind # "readn" => Noticed(d, e)

\* The same for fixed-length reads (post_read_impl_fixed_len).
FixedReadNoticed ==
  \A d \in Live :
    Waiting(d, "read") /\ op[Head(desc[d].q["read"])].kind = "readn" => Noticed(d, "read")

\* engine::run returns only when there is nothing left to do: no closure is
\* queued, no descriptor exists and every operation's handler has run.
RunReturnsIdle ==
  [][lpc = "check" /\ lpc' = "out" =>
       /\ opq = <<>> /\ Live = {}
       /\ \A o \in Op : op[o].kind \notin {"none", "dropped"} => op[o].calls = 1]_vars

\* include/tcode/io/pipe.hpp: "nonblock".  A thread that has queued a closure
\* can always write its wake-up byte.
PipeNonblock == \A t \in Caller : pc[t] = "wake" => pipe < PipeCap

-----------------------------------------------------------------------------
(* Liveness.  The scheduler keeps the loop thread running, handlers return *)
(* (LoopStep includes handler_return) and a thread that can write its      *)
(* wake-up byte does.  Nothing is assumed of the application, the peer or  *)
(* the network; run() may be called or not.                                *)

FairSpec == Spec /\ WF_vars(LoopStep) /\ \A t \in Caller : WF_vars(wake_up(t))

Pending(o) == op[o].kind \notin {"none", "dropped"} /\ op[o].calls = 0
Unowned(o) == op[o].desc = Null \/ \A s \in Sock : handle[s] # op[o].desc

\* Inside run(), the handler of an executed task, of a failed connect and of
\* every operation whose socket was closed eventually runs.
CloseCompletes ==
  \A o \in Op : Pending(o) /\ Unowned(o) ~> op[o].calls = 1 \/ lpc = "out"

AtFront(o, e) ==
  \E d \in Live : desc[d].q[e] # <<>> /\ Head(desc[d].q[e]) = o /\ Waiting(d, e)

\* Inside run(), an operation at the front of its queue whose direction is
\* ready eventually completes although readiness is edge triggered: a read or
\* accept with something to take, a connect that was answered, a datagram.
ReadyCompletes ==
  \A o \in Op :
    (\/ op[o].kind \in {"read", "accept", "recv"} /\ AtFront(o, "read")
     \/ op[o].kind \in {"connect", "send"} /\ AtFront(o, "write"))
      ~> op[o].calls = 1 \/ lpc = "out"

=============================================================================
