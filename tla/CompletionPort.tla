--------------------------- MODULE CompletionPort ---------------------------
(***************************************************************************)
(* The Windows multiplexer (src/src/io/completion_port.cpp).  An operation *)
(* is handed to the kernel when it is started; the kernel queues a packet  *)
(* in the completion port when it is done.  run() takes one packet, lets   *)
(* post_proc look at it, calls the handler and drops the reference the     *)
(* operation held on its descriptor.  A packet without operation is a      *)
(* wake-up: the operations posted by execute() and unbind() are run.       *)
(*                                                                         *)
(* A call is one step, its wake-up packet included, so a wait that times   *)
(* out finds nothing to run and is left out.  Calls come from any thread   *)
(* at any moment, from the handler before the reference is dropped too.    *)
(* The model stops where the code would use a deleted descriptor.          *)
(***************************************************************************)
EXTENDS Naturals, Sequences, FiniteSets

CONSTANTS
  Sock,    \* socket and acceptor objects, each with a _descriptor member
  Desc,    \* _descriptor objects, each created at most once
  Op,      \* operation objects, each allocated at most once
  Kinds,   \* kinds of operation the application starts
  Null,
  BufLen   \* bytes in the buffers of a write and of a fixed-length read

ASSUME PortAssumption ==
  /\ IsFiniteSet(Sock) /\ IsFiniteSet(Desc) /\ IsFiniteSet(Op)
  /\ BufLen \in Nat \ {0} /\ Null \notin Sock \cup Desc \cup Op

VARIABLES
  opq,      \* _op_queue
  ops,      \* the batch run() moved out of it
  port,     \* the packets in the completion port
  pending,  \* operations the kernel holds
  lpc,      \* where the loop thread is: "wait", "drain" or "release"
  cur,      \* the descriptor run() will release
  handle,   \* the _descriptor member of each socket object
  desc,     \* the descriptor objects
  op,       \* the operation objects
  active    \* engine: descriptors and queued operations

queueVars == <<opq, port, active>>
loopVars  == <<ops, lpc, cur>>
vars      == <<queueVars, loopVars, pending, handle, desc, op>>

RunC(o)    == [k |-> "run", op |-> o, desc |-> Null]
UnbindC(d) == [k |-> "unbind", op |-> Null, desc |-> d]

Packet(o, n, e) == [op |-> o, n |-> n, err |-> e]
Wake == Packet(Null, 0, "none")

NoDesc == [st |-> "new", type |-> "none", fd |-> FALSE, ref |-> 0]

Init ==
  /\ opq = <<>> /\ ops = <<>> /\ port = <<>> /\ pending = {} /\ active = 0
  /\ lpc = "wait" /\ cur = Null
  /\ handle = [s \in Sock |-> Null]
  /\ desc = [d \in Desc |-> NoDesc]
  /\ op = [o \in Op |-> [kind |-> "none", desc |-> Null, to |-> Null, left |-> 0, err |-> "none", calls |-> 0]]

-----------------------------------------------------------------------------
Fresh   == {o \in Op : op[o].kind = "none"}
NewDesc == {d \in Desc : desc[d].st = "new"}

\* A socket object with nothing in it and no accept about to fill it.
Unused(s) ==
  handle[s] = Null /\ \A o \in Op : op[o].kind = "accept" /\ op[o].to = s => op[o].calls = 1

Started(k, d, to) ==
  [kind |-> k, desc |-> d, to |-> to, err |-> "none", calls |-> 0,
   left |-> IF k \in {"readn", "write"} THEN BufLen ELSE 1]

MayStart(o, k) == o \in Fresh /\ k \in Kinds

\* op_add under _lock, and wake_up; p is the port without it.
post(p, c, made) == opq' = Append(opq, c) /\ port' = Append(p, Wake) /\ active' = active + made + 1

execute(o) ==
  /\ MayStart(o, "task") /\ op' = [op EXCEPT ![o] = Started("task", Null, Null)]
  /\ post(port, RunC(o), 0)
  /\ UNCHANGED <<loopVars, pending, handle, desc>>

unbind(s) ==
  /\ handle[s] # Null
  /\ handle' = [handle EXCEPT ![s] = Null] /\ post(port, UnbindC(handle[s]), 0)
  /\ UNCHANGED <<loopVars, pending, desc, op>>

descriptor_create(t, ref) == [st |-> "live", type |-> t, fd |-> TRUE, ref |-> ref]

\* bind() failed: the descriptor is deleted, what it added to the engine's
\* count stays.
bind_failed == [NoDesc EXCEPT !.st = "leaked"]

\* listen(), open() and the datagram bind().
open(d, s, k, t) ==
  /\ k \in Kinds /\ d \in NewDesc /\ Unused(s) /\ active' = active + 1
  /\ \/ /\ desc' = [desc EXCEPT ![d] = descriptor_create(t, 1)]
        /\ handle' = [handle EXCEPT ![s] = d]
     \/ desc' = [desc EXCEPT ![d] = bind_failed] /\ UNCHANGED handle
  /\ UNCHANGED <<opq, port, loopVars, pending, op>>

listen(d, s)   == open(d, s, "accept", "listen")
udp_bind(d, s) == open(d, s, "recv", "dgram")

\* A call that fails: the operation is answered, with the error, from the
\* queue.  d is the descriptor bind() or ConnectEx refused, if there is one.
fail_op(s, o, k, d) ==
  /\ Unused(s) /\ MayStart(o, k)
  /\ op' = [op EXCEPT ![o] = [Started(k, Null, Null) EXCEPT !.err = "error"]]
  /\ IF d = Null THEN post(port, RunC(o), 0) /\ UNCHANGED desc
     ELSE d \in NewDesc /\ post(port, RunC(o), 1) /\ desc' = [desc EXCEPT ![d] = bind_failed]
  /\ UNCHANGED <<loopVars, pending, handle>>

\* ConnectEx: the operation takes no reference.
connect(d, s, o) ==
  /\ Unused(s) /\ MayStart(o, "connect") /\ d \in NewDesc
  /\ desc' = [desc EXCEPT ![d] = descriptor_create("connecting", 1)]
  /\ handle' = [handle EXCEPT ![s] = d] /\ active' = active + 1
  /\ op' = [op EXCEPT ![o] = Started("connect", d, Null)] /\ pending' = pending \cup {o}
  /\ UNCHANGED <<opq, port, loopVars>>

\* Mutant: the reference is not given back when the call fails.
Overlapped_keeps_ref(o, d, rec, p) ==
  \/ /\ desc[d].fd /\ desc' = [desc EXCEPT ![d].ref = @ + 1]
     /\ op' = [op EXCEPT ![o] = rec] /\ pending' = pending \cup {o}
     /\ port' = p /\ UNCHANGED <<opq, active>>
  \/ /\ op' = [op EXCEPT ![o] = [rec EXCEPT !.err = "error"]] /\ post(p, RunC(o), 0)
     /\ desc' = [desc EXCEPT ![d].ref = @ + 1] /\ UNCHANGED pending

\* Mutant: a call that fails forgets to post the operation.
Overlapped_unanswered(o, d, rec, p) ==
  \/ /\ desc[d].fd /\ desc' = [desc EXCEPT ![d].ref = @ + 1]
     /\ op' = [op EXCEPT ![o] = rec] /\ pending' = pending \cup {o}
     /\ port' = p /\ UNCHANGED <<opq, active>>
  \/ /\ op' = [op EXCEPT ![o] = [rec EXCEPT !.err = "error"]]
     /\ port' = p /\ UNCHANGED <<opq, active, desc, pending>>

\* WSASend, WSARecv, AcceptEx and the datagram calls: the kernel takes the
\* operation, which holds a reference, or it fails at once.
Overlapped(o, d, rec, p) ==
  \/ /\ desc[d].fd /\ desc' = [desc EXCEPT ![d].ref = @ + 1]
     /\ op' = [op EXCEPT ![o] = rec] /\ pending' = pending \cup {o}
     /\ port' = p /\ UNCHANGED <<opq, active>>
  \/ /\ op' = [op EXCEPT ![o] = [rec EXCEPT !.err = "error"]] /\ post(p, RunC(o), 0)
     /\ UNCHANGED <<desc, pending>>

Usable(s, type) == handle[s] # Null /\ desc[handle[s]].st = "live" /\ desc[handle[s]].type = type

post_io(s, o, k, type) ==
  /\ Usable(s, type) /\ MayStart(o, k)
  /\ Overlapped(o, handle[s], Started(k, handle[s], Null), port)
  /\ UNCHANGED <<loopVars, handle>>

read(s, o)      == post_io(s, o, "read", "stream")
read_n(s, o)    == post_io(s, o, "readn", "stream")
write(s, o)     == post_io(s, o, "write", "stream")
udp_read(s, o)  == post_io(s, o, "recv", "dgram")
udp_write(s, o) == post_io(s, o, "send", "dgram")

accept(s, o, to) ==
  /\ Usable(s, "listen") /\ Unused(to) /\ MayStart(o, "accept")
  /\ Overlapped(o, handle[s], Started("accept", handle[s], to), port)
  /\ UNCHANGED <<loopVars, handle>>

\* No socket for the connection: the operation is posted without an error.
accept_no_socket(s, o, to) ==
  /\ Usable(s, "listen") /\ Unused(to) /\ MayStart(o, "accept")
  /\ op' = [op EXCEPT ![o] = Started("accept", handle[s], to)] /\ post(port, RunC(o), 0)
  /\ UNCHANGED <<loopVars, pending, handle, desc>>

\* The first datagram written on a socket object creates the descriptor.
udp_write_open(d, s, o) ==
  /\ Unused(s) /\ MayStart(o, "send") /\ d \in NewDesc
  /\ handle' = [handle EXCEPT ![s] = d]
  /\ \/ /\ desc' = [desc EXCEPT ![d] = descriptor_create("dgram", 2)]
        /\ op' = [op EXCEPT ![o] = Started("send", d, Null)] /\ pending' = pending \cup {o}
        /\ active' = active + 1 /\ UNCHANGED <<opq, port>>
     \/ /\ desc' = [desc EXCEPT ![d] = descriptor_create("dgram", 1)]
        /\ op' = [op EXCEPT ![o] = [Started("send", d, Null) EXCEPT !.err = "error"]]
        /\ post(port, RunC(o), 1) /\ UNCHANGED pending
  /\ UNCHANGED loopVars

-----------------------------------------------------------------------------
(* The kernel finishes an operation: all or part of its bytes, none at the *)
(* end of the stream, or an error, the only answer after closesocket().    *)

complete(o) ==
  /\ o \in pending /\ pending' = pending \ {o}
  /\ \/ /\ desc[op[o].desc].fd
        /\ \E n \in 0..op[o].left :
             /\ op[o].kind \in {"connect", "accept", "recv", "send"} => n = 1
             /\ op[o].kind = "write" => n > 0
             /\ port' = Append(port, Packet(o, n, "none"))
        /\ desc' = [desc EXCEPT ![op[o].desc].type = IF @ = "connecting" THEN "stream" ELSE @]
     \/ port' = Append(port, Packet(o, 0, "error")) /\ UNCHANGED desc
  /\ UNCHANGED <<opq, active, loopVars, handle, op>>

-----------------------------------------------------------------------------
(* run() *)

Front(k) == /\ lpc = "wait" /\ active > 0 /\ port # <<>> /\ Head(port).op # Null
            /\ op[Head(port).op].kind \in k

run_wake ==
  /\ lpc = "wait" /\ active > 0 /\ port # <<>> /\ Head(port) = Wake
  /\ port' = Tail(port) /\ ops' = opq /\ opq' = <<>> /\ lpc' = "drain"
  /\ UNCHANGED <<active, cur, pending, handle, desc, op>>

\* post_proc returned true: the handler is called with error e.
handled(e) ==
  LET o == Head(port).op IN
    /\ op' = [op EXCEPT ![o].err = e, ![o].calls = @ + 1]
    /\ lpc' = "release" /\ cur' = op[o].desc
    /\ port' = Tail(port) /\ UNCHANGED <<opq, ops, pending>>

\* connect, the datagram operations, and a read of what there is.
run_packet ==
  /\ Front({"connect", "recv", "send", "read"})
  /\ LET p == Head(port) IN
       handled(IF op[p.op].kind = "read" /\ p.err = "none" /\ p.n = 0 THEN "disconnected" ELSE p.err)
  /\ UNCHANGED <<active, handle, desc>>

Remain == op[Head(port).op].left - Head(port).n
AtEnd  == Head(port).err # "none" \/ (op[Head(port).op].kind = "readn" /\ Head(port).n = 0)

\* A write, or a fixed-length read, that failed or has all its bytes.
run_transfer_done ==
  /\ Front({"readn", "write"}) /\ (AtEnd \/ Remain = 0)
  /\ handled(IF AtEnd /\ Head(port).err = "none" THEN "disconnected" ELSE Head(port).err)
  /\ UNCHANGED <<active, handle, desc>>

\* The same with bytes left: the operation is started again.
run_transfer_more ==
  /\ Front({"readn", "write"}) /\ ~AtEnd /\ Remain > 0
  /\ LET o == Head(port).op IN
       Overlapped(o, op[o].desc, [op[o] EXCEPT !.left = Remain], Tail(port)) /\ cur' = op[o].desc
  /\ lpc' = "release"
  /\ UNCHANGED <<ops, handle>>

\* accept() called by post_proc: the accepted socket gets a descriptor.
run_accepted(c) ==
  /\ Front({"accept"}) /\ Head(port).err = "none" /\ c \in NewDesc
  /\ LET o == Head(port).op IN
       /\ desc[op[o].desc].fd /\ active' = active + 1
       /\ \/ /\ handled("none") /\ handle' = [handle EXCEPT ![op[o].to] = c]
             /\ desc' = [desc EXCEPT ![c] = descriptor_create("stream", 1)]
          \/ /\ handled("error") /\ UNCHANGED handle
             /\ desc' = [desc EXCEPT ![c] = bind_failed]

\* The accept failed, or the acceptor was closed meanwhile.
run_accept_failed ==
  /\ Front({"accept"})
  /\ LET p == Head(port) IN
       /\ p.err # "none" \/ ~desc[op[p.op].desc].fd
       /\ handled(IF desc[op[p.op].desc].fd THEN p.err ELSE "invalid")
  /\ UNCHANGED <<active, handle, desc>>

\* The descriptor without one reference; the last one deletes it.
Released(ds, d) ==
  [ds EXCEPT ![d] = IF ds[d].ref = 1 THEN [NoDesc EXCEPT !.st = "freed"] ELSE [ds[d] EXCEPT !.ref = @ - 1]]

descriptor_release(ds, d, taken) ==
  /\ ds[d].st = "live" /\ desc' = Released(ds, d)
  /\ active' = active - taken - (IF ds[d].ref = 1 THEN 1 ELSE 0)

run_release ==
  /\ lpc = "release" /\ descriptor_release(desc, cur, 0)
  /\ lpc' = "wait" /\ cur' = Null
  /\ UNCHANGED <<opq, port, ops, pending, handle, op>>

NextOp(k) == lpc = "drain" /\ ops # <<>> /\ Head(ops).k = k /\ ops' = Tail(ops)

op_run_handler ==
  /\ NextOp("run") /\ active' = active - 1
  /\ op' = [op EXCEPT ![Head(ops).op].calls = @ + 1]
  /\ UNCHANGED <<opq, port, lpc, cur, pending, handle, desc>>

op_run_unbind ==
  /\ NextOp("unbind")
  /\ descriptor_release([desc EXCEPT ![Head(ops).desc].fd = FALSE], Head(ops).desc, 1)
  /\ UNCHANGED <<opq, port, lpc, cur, pending, handle, op>>

run_drained ==
  /\ lpc = "drain" /\ ops = <<>> /\ lpc' = "wait"
  /\ UNCHANGED <<queueVars, ops, cur, pending, handle, desc, op>>

-----------------------------------------------------------------------------
Call ==
  \/ \E o \in Op : execute(o)
  \/ \E s \in Sock : unbind(s)
  \/ \E d \in Desc, s \in Sock : listen(d, s)
  \/ \E d \in Desc, s \in Sock : udp_bind(d, s)
  \/ \E s \in Sock, o \in Op, k \in {"connect", "send"}, d \in Desc \cup {Null} : fail_op(s, o, k, d)
  \/ \E s \in Sock, o \in Op : fail_op(s, o, "recv", Null)
  \/ \E d \in Desc, s \in Sock, o \in Op : connect(d, s, o)
  \/ \E s \in Sock, o \in Op : read(s, o)
  \/ \E s \in Sock, o \in Op : read_n(s, o)
  \/ \E s \in Sock, o \in Op : write(s, o)
  \/ \E s \in Sock, o \in Op : udp_read(s, o)
  \/ \E s \in Sock, o \in Op : udp_write(s, o)
  \/ \E s, to \in Sock, o \in Op : accept(s, o, to)
  \/ \E s, to \in Sock, o \in Op : accept_no_socket(s, o, to)
  \/ \E d \in Desc, s \in Sock, o \in Op : udp_write_open(d, s, o)

LoopStep ==
  \/ run_wake
  \/ run_packet
  \/ run_transfer_done
  \/ run_transfer_more
  \/ \E c \in Desc : run_accepted(c)
  \/ run_accept_failed
  \/ run_release
  \/ op_run_handler
  \/ op_run_unbind
  \/ run_drained

Next == Call \/ LoopStep \/ \E o \in Op : complete(o)

Spec == Init /\ [][Next]_vars

-----------------------------------------------------------------------------
HowMany(q, T(_)) == Cardinality({i \in DOMAIN q : T(q[i])})

Refs(d) ==
  LET OfOp(p)   == p.op # Null /\ op[p.op].desc = d
      Closes(c) == c.k = "unbind" /\ c.desc = d
  IN  Cardinality({s \in Sock : handle[s] = d}) + Cardinality({o \in pending : op[o].desc = d})
        + HowMany(port, OfOp) + HowMany(opq \o ops, Closes) + (IF cur = d THEN 1 ELSE 0)

Connected(d) == \E o \in Op : op[o].kind = "connect" /\ op[o].desc = d

\* A descriptor is counted once for its socket object, the closure that
\* closes it, every operation in the kernel or in the port and the release
\* run() still owes, and is deleted with the last of them, for descriptors
\* made by listen, accept and the datagram calls; the engine counts every
\* live descriptor and queued operation, and for good each one whose bind()
\* failed.
DescriptorCounted ==
  /\ \A d \in Desc : ~Connected(d) => /\ desc[d].st = "live" => desc[d].ref = Refs(d)
                                      /\ desc[d].st = "freed" => Refs(d) = 0
  /\ active = Cardinality({d \in Desc : desc[d].st \in {"live", "leaked"}}) + Len(opq) + Len(ops)

\* A started operation is in the kernel, in the port or in the queue, in one
\* of them only, until its handler is called, once: also when it is started
\* again for the bytes that are left, fails at once or loses its socket.
AnsweredOnce ==
  \A o \in Op : op[o].kind # "none" =>
    LET Packs(p) == p.op = o
        Runs(c)  == c.k = "run" /\ c.op = o
    IN  op[o].calls + (IF o \in pending THEN 1 ELSE 0) + HowMany(port, Packs) + HowMany(opq \o ops, Runs) = 1
=============================================================================
