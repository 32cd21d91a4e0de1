-------------------------------- MODULE Mux --------------------------------
(***************************************************************************)
(* What the level-triggered multiplexers (poll.cpp, select.cpp,            *)
(* kqueue.cpp) share: the operation queue, reference-counted descriptors   *)
(* with one queue of operations per direction, and the dispatch loop.      *)
(* Modules Poll, Select and Kqueue add what each of them tells the kernel. *)
(*                                                                         *)
(* A call is one step, and so is its byte in the wake-up pipe: a non-empty *)
(* queue ends the wait.  Module Epoll takes that protocol apart.  Reads    *)
(* and writes move one unit; partial transfers are also in Epoll.          *)
(***************************************************************************)
EXTENDS Integers, Sequences, FiniteSets, Carrying

CONSTANTS
  Sock,      \* socket and acceptor objects, each with a _descriptor member
  Desc,      \* _descriptor objects, each created at most once
  Op,        \* operation objects, each allocated at most once
  Apps,      \* applications: the kinds of operation they start, and how
             \* many sockets they open at once, by multiplexer
  Null,
  MaxReady   \* units that may wait in a socket, or be sent without waiting

Ev == {"read", "write"}

\* A dispatch in progress: the descriptor, the directions left, and whether it
\* is a closure's, which drops a reference when it ends.
CurType == [desc: Desc, evs: SUBSET Ev, release: BOOLEAN]

ASSUME MuxAssumption ==
  /\ IsFiniteSet(Desc) /\ IsFiniteSet(Sock) /\ MaxReady \in Nat
  /\ Null \notin Desc \cup Op \cup Sock \cup CurType

VARIABLES
  mux,     \* the multiplexer of the build: "poll", "kqueue" or "select"
  app,     \* the application
  opq,     \* _op_queue
  ops,     \* the batch run() moved out of _op_queue
  lpc,     \* where the loop thread is
  wk,      \* the wake-up pipe was readable: execute_op
  evs,     \* directions the kernel reported, not yet dispatched
  cur,     \* the dispatch in progress
  handle,  \* the _descriptor member of each socket object
  desc,    \* the descriptor objects
  sock,    \* the kernel socket behind each descriptor
  op,      \* the operation objects
  active   \* engine: descriptors and queued operations

buildVars == <<mux, app>>
queueVars == <<opq, active>>
loopVars  == <<lpc, wk, evs, cur>>
muxVars   == <<queueVars, ops, loopVars, handle, desc, sock, op>>

NoQ  == [e \in Ev |-> <<>>]
NoEv == [d \in Desc |-> {}]

EvOf(k) == IF k \in {"write", "connect", "send"} THEN "write" ELSE "read"

RunC(o)     == [k |-> "run", op |-> o, desc |-> Null]
DispC(d, o) == [k |-> "dispatch", op |-> o, desc |-> d]
BindC(d)    == [k |-> "bind", op |-> Null, desc |-> d]
UnbindC(d)  == [k |-> "unbind", op |-> Null, desc |-> d]

NoDesc == [st |-> "new", fd |-> FALSE, ref |-> 0, q |-> NoQ]
NoSock == [st |-> "none", rx |-> 0, tx |-> 0]

MuxInit ==
  /\ app \in Apps[mux]
  /\ opq = <<>> /\ ops = <<>> /\ active = 0
  /\ wk = FALSE /\ evs = NoEv /\ cur = Null
  /\ handle = [s \in Sock |-> Null]
  /\ desc = [d \in Desc |-> NoDesc]
  /\ sock = [d \in Desc |-> NoSock]
  /\ op = [o \in Op |-> [kind |-> "none", desc |-> Null, to |-> Null, err |-> "none", calls |-> 0]]

-----------------------------------------------------------------------------
(* Calls.  bound is what bind() posts for a new descriptor.                *)

Fresh   == {o \in Op : op[o].kind = "none"}
NewDesc == {d \in Desc : desc[d].st = "new"}
Live    == {d \in Desc : desc[d].st = "live"}

\* A socket object with nothing in it and no accept about to fill it.
Unused(s) ==
  handle[s] = Null /\ \A o \in Op : op[o].kind = "accept" /\ op[o].to = s => op[o].calls = 1

StartOp(o, k, d, s, e) ==
  /\ o \in Fresh /\ k \in app.kinds
  /\ op' = [op EXCEPT ![o] = [kind |-> k, desc |-> d, to |-> s, err |-> e, calls |-> 0]]

\* op_add under _lock, and wake_up.
execute_op(c) == opq' = Append(opq, c) /\ active' = active + 1

\* The _descriptor constructor and the closures bind() posts.
create(d, s, st, wq, ref, bound) ==
  /\ d \in NewDesc /\ Unused(s)
  /\ Cardinality({x \in Sock : handle[x] # Null}) < app.open
  /\ desc' = [desc EXCEPT ![d] = [st |-> "live", fd |-> TRUE, ref |-> ref, q |-> [NoQ EXCEPT !["write"] = wq]]]
  /\ sock' = [sock EXCEPT ![d] = [st |-> st, rx |-> 0, tx |-> MaxReady]]
  /\ handle' = [handle EXCEPT ![s] = d]
  /\ opq' = opq \o bound /\ active' = active + 1 + Len(bound)

execute(o) ==
  /\ StartOp(o, "task", Null, Null, "none") /\ execute_op(RunC(o))
  /\ UNCHANGED <<ops, loopVars, handle, desc, sock>>

unbind(s) ==
  /\ handle[s] # Null
  /\ handle' = [handle EXCEPT ![s] = Null] /\ execute_op(UnbindC(handle[s]))
  /\ UNCHANGED <<ops, loopVars, desc, sock, op>>

connect(d, s, o, bound) ==
  /\ create(d, s, "connecting", <<o>>, 1, bound) /\ StartOp(o, "connect", d, Null, "none")
  /\ UNCHANGED <<ops, loopVars>>

\* A system call failed: the operation completes, with the error, through
\* the queue.
fail_op(s, o, k, e) ==
  /\ Unused(s) /\ StartOp(o, k, Null, Null, e) /\ execute_op(RunC(o))
  /\ UNCHANGED <<ops, loopVars, handle, desc, sock>>

listen(d, s, bound) ==
  /\ "accept" \in app.kinds /\ create(d, s, "listening", <<>>, 1, bound)
  /\ UNCHANGED <<ops, loopVars, op>>

udp_bind(d, s, bound) ==
  /\ "recv" \in app.kinds /\ create(d, s, "dgram", <<>>, 1, bound)
  /\ UNCHANGED <<ops, loopVars, op>>

\* Mutant: the closure holds no reference.
post_io_no_ref(s, o, k, to, states) ==
  /\ handle[s] # Null /\ sock[handle[s]].st \in states
  /\ StartOp(o, k, handle[s], to, "none") /\ execute_op(DispC(handle[s], o))
  /\ UNCHANGED <<ops, loopVars, handle, desc, sock>>

\* read, write and accept: the closure holds a reference.
post_io(s, o, k, to, states) ==
  /\ handle[s] # Null /\ sock[handle[s]].st \in states
  /\ StartOp(o, k, handle[s], to, "none") /\ execute_op(DispC(handle[s], o))
  /\ desc' = [desc EXCEPT ![handle[s]].ref = @ + 1]
  /\ UNCHANGED <<ops, loopVars, handle, sock>>

read(s, o)       == post_io(s, o, "read", Null, {"up", "down"})
write(s, o)      == post_io(s, o, "write", Null, {"up", "down"})
accept(s, o, to) == Unused(to) /\ post_io(s, o, "accept", to, {"listening"})
udp_read(s, o)   == post_io(s, o, "recv", Null, {"dgram"})
udp_write(s, o)  == post_io(s, o, "send", Null, {"dgram"})

\* The first datagram written on a socket object creates the descriptor.
udp_write_open(d, s, o, bound) ==
  /\ create(d, s, "dgram", <<>>, 2, bound \o <<DispC(d, o)>>)
  /\ StartOp(o, "send", d, Null, "none")
  /\ UNCHANGED <<ops, loopVars>>

-----------------------------------------------------------------------------
(* The loop. *)

\* What the kernel would report of a socket, level triggered.
Mask(d) ==
  {e \in Ev : \/ sock[d].st = "down"
              \/ e = "read" /\ sock[d].rx > 0
              \/ e = "write" /\ sock[d].st \in {"up", "dgram"} /\ sock[d].tx > 0}

\* The wait returns with the directions reported[d] of each descriptor.
wait(reported) ==
  /\ lpc = "wait" /\ active > 0
  /\ opq # <<>> \/ \E d \in Desc : reported[d] # {}
  /\ evs' = reported /\ wk' = (opq # <<>>) /\ lpc' = "events"
  /\ UNCHANGED <<queueVars, ops, cur, handle, desc, sock, op>>

run_event(d, dirs) ==
  /\ lpc = "events" /\ evs[d] # {} /\ dirs \subseteq evs[d]
  /\ cur' = [desc |-> d, evs |-> dirs, release |-> FALSE]
  /\ evs' = [evs EXCEPT ![d] = @ \ dirs] /\ lpc' = "dispatch"
  /\ UNCHANGED <<queueVars, ops, wk, handle, desc, sock, op>>

\* All events are dispatched: take the queue if the pipe was readable.
run_take(back) ==
  /\ lpc = "events" /\ evs = NoEv
  /\ ops' = (IF wk THEN opq ELSE <<>>) /\ opq' = (IF wk THEN <<>> ELSE opq)
  /\ wk' = FALSE /\ lpc' = IF wk THEN "drain" ELSE back
  /\ UNCHANGED <<active, evs, cur, handle, desc, sock, op>>

run_drained(back) ==
  /\ lpc = "drain" /\ ops = <<>> /\ lpc' = back
  /\ UNCHANGED <<queueVars, ops, wk, evs, cur, handle, desc, sock, op>>

Next_op(k) == lpc = "drain" /\ ops # <<>> /\ Head(ops).k = k /\ ops' = Tail(ops)

op_run_handler ==
  /\ Next_op("run") /\ active' = active - 1
  /\ op' = [op EXCEPT ![Head(ops).op].calls = @ + 1]
  /\ UNCHANGED <<opq, loopVars, handle, desc, sock>>

\* Mutant: the operation is queued in front of those that wait.
op_run_dispatch_front ==
  /\ Next_op("dispatch") /\ active' = active - 1
  /\ LET o == Head(ops).op
         e == EvOf(op[o].kind)
     IN /\ desc' = [desc EXCEPT ![Head(ops).desc].q[e] = <<o>> \o @]
        /\ cur' = [desc |-> Head(ops).desc, evs |-> {e}, release |-> TRUE]
  /\ lpc' = "dispatch"
  /\ UNCHANGED <<opq, wk, evs, handle, sock, op>>

\* The closure of read, write and accept: queue the operation, try it.
op_run_dispatch ==
  /\ Next_op("dispatch") /\ active' = active - 1
  /\ LET o == Head(ops).op
         e == EvOf(op[o].kind)
     IN /\ desc' = [desc EXCEPT ![Head(ops).desc].q[e] = Append(@, o)]
        /\ cur' = [desc |-> Head(ops).desc, evs |-> {e}, release |-> TRUE]
  /\ lpc' = "dispatch"
  /\ UNCHANGED <<opq, wk, evs, handle, sock, op>>

Orphans(d) == desc[d].q["read"] \o desc[d].q["write"]

\* release(): the last reference aborts what is still queued.  ds is the
\* descriptors as the caller left them, taken what it takes off the count.
release(ds, d, taken) ==
  LET left == Orphans(d)
      last == desc[d].ref = 1
  IN /\ desc' = [ds EXCEPT ![d] = IF last THEN [NoDesc EXCEPT !.st = "freed"] ELSE [ds[d] EXCEPT !.ref = @ - 1]]
     /\ opq' = IF last THEN opq \o [i \in DOMAIN left |-> RunC(left[i])] ELSE opq
     /\ active' = active - taken + (IF last THEN Len(left) - 1 ELSE 0)
     /\ op' = [o \in Op |-> IF last /\ \E i \in DOMAIN left : left[i] = o
                            THEN [op[o] EXCEPT !.err = "aborted"] ELSE op[o]]

\* The closure of unbind: the fd is closed, the socket object's reference
\* dropped.
op_run_unbind ==
  /\ Next_op("unbind")
  /\ release([desc EXCEPT ![Head(ops).desc].fd = FALSE], Head(ops).desc, 1)
  /\ sock' = [sock EXCEPT ![Head(ops).desc] = NoSock]
  /\ UNCHANGED <<loopVars, handle>>

-----------------------------------------------------------------------------
(* complete() / descriptor_dispatch(): the operations of the reported      *)
(* directions, read before write, until one is not ready.                  *)

CurEv == IF "read" \in cur.evs THEN "read" ELSE "write"
Dispatching(e) == lpc = "dispatch" /\ cur.evs # {} /\ e = CurEv

\* n: what moved, or -1; without an error -1 is EAGAIN.
Answer(n, e) == [n |-> n, err |-> e]

readv(d) ==
  IF ~desc[d].fd THEN Answer(-1, "invalid")
  ELSE IF sock[d].rx > 0 THEN Answer(1, "none")
  ELSE Answer(-1, IF sock[d].st = "down" THEN "error" ELSE "none")

writev(d) ==
  IF ~desc[d].fd THEN Answer(-1, "invalid")
  ELSE IF sock[d].st = "down" THEN Answer(-1, "error")
  ELSE Answer(IF sock[d].tx > 0 THEN 1 ELSE -1, "none")

accept_fd(d) ==
  IF ~desc[d].fd THEN Answer(-1, "invalid")
  ELSE IF sock[d].rx > 0 /\ NewDesc = {} THEN Answer(-1, "error")
  ELSE Answer(IF sock[d].rx > 0 THEN 1 ELSE -1, "none")

post_proc(o, d) ==
  CASE op[o].kind = "connect"           -> Answer(0, "none")
    [] op[o].kind = "accept"            -> accept_fd(d)
    [] op[o].kind \in {"read", "recv"}  -> readv(d)
    [] OTHER                            -> writev(d)

Done(a) == a.n >= 0 \/ a.err # "none"
Moved(k, e, n) ==
  IF n <= 0 THEN k ELSE IF e = "read" THEN [k EXCEPT !.rx = @ - n] ELSE [k EXCEPT !.tx = @ - n]

FrontOp(e) == Head(desc[cur.desc].q[e])
Pop(e)   == [desc EXCEPT ![cur.desc].q[e] = Tail(@)]

Finished(e, a) ==
  /\ Dispatching(e) /\ desc[cur.desc].q[e] # <<>> /\ Done(a)
  /\ op' = [op EXCEPT ![FrontOp(e)].err = a.err, ![FrontOp(e)].calls = @ + 1]
  /\ UNCHANGED <<ops, loopVars>>

\* post_proc says done: the operation is popped and its handler runs.
dispatch_done(e) ==
  /\ Dispatching(e) /\ desc[cur.desc].q[e] # <<>>
  /\ LET a == post_proc(FrontOp(e), cur.desc) IN
       /\ Finished(e, a) /\ ~(op[FrontOp(e)].kind = "accept" /\ a.err = "none")
       /\ sock' = [sock EXCEPT ![cur.desc] = Moved(@, e, a.n)]
  /\ desc' = Pop(e)
  /\ UNCHANGED <<queueVars, handle>>

\* The same for an accept that succeeds: the new descriptor is bound and
\* stored before the handler runs.
dispatch_accepted(c, bound) ==
  /\ Dispatching("read") /\ desc[cur.desc].q["read"] # <<>> /\ c \in NewDesc
  /\ LET o == FrontOp("read")
         a == post_proc(o, cur.desc)
     IN /\ op[o].kind = "accept" /\ a.err = "none" /\ Finished("read", a)
        /\ desc' = [Pop("read") EXCEPT ![c] = [NoDesc EXCEPT !.st = "live", !.fd = TRUE, !.ref = 1]]
        /\ sock' = [sock EXCEPT ![cur.desc] = Moved(@, "read", 1), ![c] = [st |-> "up", rx |-> 0, tx |-> MaxReady]]
        /\ handle' = [handle EXCEPT ![op[o].to] = c]
  /\ opq' = opq \o bound /\ active' = active + 1 + Len(bound)

\* The queue is empty, or its first operation is not ready: next direction.
dispatch_next(e) ==
  /\ Dispatching(e)
  /\ desc[cur.desc].q[e] # <<>> => ~Done(post_proc(FrontOp(e), cur.desc))
  /\ cur' = [cur EXCEPT !.evs = @ \ {e}]
  /\ UNCHANGED <<queueVars, ops, lpc, wk, evs, handle, desc, sock, op>>

\* The end of the dispatch of an event, and of a closure's.
dispatch_end ==
  /\ lpc = "dispatch" /\ cur.evs = {} /\ cur' = Null
  /\ UNCHANGED <<ops, wk, evs, handle, sock>>
  /\ IF cur.release
     THEN lpc' = "drain" /\ release(desc, cur.desc, 0)
     ELSE lpc' = "events" /\ UNCHANGED <<queueVars, desc, op>>

-----------------------------------------------------------------------------
(* The kernel and the peer. *)

Kernel(d, k) ==
  /\ d \in Live /\ desc[d].fd /\ sock' = [sock EXCEPT ![d] = k]
  /\ UNCHANGED <<queueVars, ops, loopVars, handle, desc, op>>

connected(d) == sock[d].st = "connecting" /\ Kernel(d, [sock[d] EXCEPT !.st = "up"])
arrive(d)    == /\ sock[d].st \in {"up", "listening", "dgram"} /\ sock[d].rx < MaxReady
                /\ Kernel(d, [sock[d] EXCEPT !.rx = @ + 1])
drain_tx(d)  == /\ sock[d].st \in {"up", "dgram"} /\ sock[d].tx < MaxReady
                /\ Kernel(d, [sock[d] EXCEPT !.tx = @ + 1])
peer_down(d) == sock[d].st \in {"connecting", "up"} /\ Kernel(d, [sock[d] EXCEPT !.st = "down"])

KernelStep == \E d \in Desc : connected(d) \/ arrive(d) \/ drain_tx(d) \/ peer_down(d)

\* The calls that bind nothing.
PlainCall ==
  \/ \E o \in Op : execute(o)
  \/ \E s \in Sock, o \in Op : fail_op(s, o, "connect", "error")
  \/ \E s \in Sock, o \in Op : fail_op(s, o, "recv", "invalid")
  \/ \E s \in Sock, o \in Op : fail_op(s, o, "send", "error")
  \/ \E s \in Sock, o \in Op : read(s, o)
  \/ \E s \in Sock, o \in Op : write(s, o)
  \/ \E s, to \in Sock, o \in Op : accept(s, o, to)
  \/ \E s \in Sock, o \in Op : udp_read(s, o)
  \/ \E s \in Sock, o \in Op : udp_write(s, o)
  \/ \E s \in Sock : unbind(s)

\* The calls that create a descriptor.
BindingCall(d, bound) ==
  \/ \E s \in Sock : listen(d, s, bound)
  \/ \E s \in Sock : udp_bind(d, s, bound)
  \/ \E s \in Sock, o \in Op : connect(d, s, o, bound)
  \/ \E s \in Sock, o \in Op : udp_write_open(d, s, o, bound)

\* The steps of the loop no multiplexer adds to.
PlainStep ==
  \/ op_run_handler
  \/ op_run_dispatch
  \/ \E e \in Ev : dispatch_done(e)
  \/ \E e \in Ev : dispatch_next(e)

-----------------------------------------------------------------------------
(* What all of them promise. *)

\* The operations of one direction, and those that the closures of one kind
\* carry: aborted by release(), or on their way to the descriptor's queue.
DirOps(d, e)        == {o \in Op : op[o].desc = d /\ EvOf(op[o].kind) = e}
ClosureOps(k, d, e) == Carried(ops \o opq, k, DirOps(d, e))

Opened(d) == \E s \in Sock : handle[s] = d
Status    == [d \in Desc |-> IF desc[d].st = "new" THEN "none" ELSE IF Opened(d) THEN "open" ELSE "closed"]
Pending   == [d \in Desc |-> [e \in Ev |->
               (ClosureOps("run", d, e) \o desc[d].q[e]) \o ClosureOps("dispatch", d, e)]]
Calls     == [o \in Op |-> op[o].calls]

Promise == INSTANCE Completion WITH st <- Status, pend <- Pending, calls <- Calls

\* The multiplexer keeps the promise of module Completion: operations are
\* answered once and in order, also when their socket is closed.
KeepsPromise == Promise!Spec

Closures(d, kinds) ==
  Cardinality({i \in DOMAIN (ops \o opq) : (ops \o opq)[i].desc = d /\ (ops \o opq)[i].k \in kinds})

Refs(d) ==
  Cardinality({s \in Sock : handle[s] = d}) + Closures(d, {"dispatch", "unbind"})
    + (IF cur # Null /\ cur.desc = d /\ cur.release THEN 1 ELSE 0)

\* A descriptor is counted once for its socket object or the closure that
\* closes it, for each closure with an operation for it and for the dispatch
\* of one, and is deleted with the last of them; what refers to it without
\* being counted, the closure of bind and the events already reported, is
\* gone by then.  The engine counts the descriptors and closures there are,
\* so that run() returns when, and only when, there are none.
RefsCounted ==
  /\ \A d \in Live : desc[d].ref = Refs(d)
  /\ \A d \in Desc \ Live : Refs(d) + Closures(d, {"bind"}) = 0 /\ evs[d] = {}
  /\ active = Len(opq) + Len(ops) + Cardinality(Live)

\* An operation waits at the front of its queue, and its socket is ready.
AtFront(o) ==
  \E d \in Live, e \in Ev :
    desc[d].q[e] # <<>> /\ Head(desc[d].q[e]) = o /\ desc[d].fd /\ e \in Mask(d)
=============================================================================
