---------------------------- MODULE EpollProofs ----------------------------
(***************************************************************************)
(* Proofs about Epoll for every set of threads, sockets, descriptors and   *)
(* operations and every bound.                                             *)
(***************************************************************************)
EXTENDS Epoll, Counting

\* What each place of the loop says about the loop's local variables: a
\* dispatch is in progress only inside one, the batch is non-empty only
\* while it is being drained, and events[] is empty while it is.
InEvents == lpc = "events" \/ (lpc \in {"dispatch", "callback"} /\ cur # Null /\ ~cur.release)
InDrain  == lpc = "drain" \/ (lpc \in {"dispatch", "callback"} /\ (cur = Null \/ cur.release))

LoopShape ==
  /\ lpc = "dispatch" => cur # Null
  /\ lpc \notin {"dispatch", "callback"} => cur = Null
  /\ wk # "no" => InEvents
  /\ ops # <<>> => InDrain
  /\ \A d \in Desc : evs[d] # {} => InEvents

IInv == TypeOK /\ LoopShape

USE DEF Caller, Ev

-----------------------------------------------------------------------------
(* Facts about the operators the actions are built from.                   *)

\* The smaller of two numbers is a number, and no larger than either.
LEMMA LeastNat ==
  ASSUME NEW a \in Nat, NEW b \in Nat
  PROVE  Least(a, b) \in Nat /\ Least(a, b) <= a /\ Least(a, b) <= b
BY DEF Least

\* epoll_wait reports directions.
LEMMA MaskType ==
  ASSUME NEW k PROVE Mask(k) \in SUBSET Ev
BY DEF Mask

\* The closures the calls post are closures.
LEMMA ClosureType ==
  /\ \A o \in Op : RunC(o) \in Closure
  /\ \A o \in Op, d \in Desc : DispC(d, o) \in Closure
  /\ \A d \in Desc : UnbindC(d) \in Closure
BY DEF RunC, DispC, UnbindC, Closure

\* What a closure holds, by its kind.
LEMMA ClosureFields ==
  ASSUME NEW c \in Closure
  PROVE  /\ c.k \in {"run", "dispatch", "unbind"}
         /\ c.k = "run" => c.op \in Op /\ c.desc = Null
         /\ c.k = "dispatch" => c.op \in Op /\ c.desc \in Desc
         /\ c.k = "unbind" => c.op = Null /\ c.desc \in Desc
BY DEF Closure

\* A started operation is an operation.
LEMMA StartOpType ==
  ASSUME op \in [Op -> OpType], NEW o,
         NEW k \in UserKind \cup {"dropped"}, NEW d \in Desc \cup {Null}, NEW s \in Sock \cup {Null},
         NEW e \in Err, StartOp(o, k, d, s, e)
  PROVE  op' \in [Op -> OpType]
<1> DEFINE r == [kind |-> k, desc |-> d, to |-> s, remain |-> BufLen, err |-> e, calls |-> 0]
<1>1. BufLen \in 0..BufLen BY BoundAssumption
<1>2. r \in OpType BY <1>1 DEF OpType
<1>3. op' = [op EXCEPT ![o] = r] BY DEF StartOp
<1> HIDE DEF r
<1> QED BY <1>2, <1>3

\* A post_proc moves no more than the socket holds or has room for.
LEMMA PostProcType ==
  ASSUME TypeOK, NEW o \in Op, NEW d \in Desc
  PROVE  /\ post_proc(o, d).n \in Nat
         /\ op[o].kind \in {"write", "send"} => post_proc(o, d).n <= sock[d].tx
         /\ op[o].kind \notin {"write", "send"} => post_proc(o, d).n <= sock[d].rx
         /\ post_proc(o, d).err \in Err
<1>1. op[o].remain \in Nat /\ sock[d].rx \in Nat /\ sock[d].tx \in Nat
  BY DEF TypeOK, OpType, SockType
<1>2. ASSUME NEW len \in Nat
      PROVE  LET a == readv(d, len) IN a.n \in Int /\ a.n <= sock[d].rx /\ a.err \in Err
  BY <1>1, <1>2 DEF readv, Answer, Least, Err
<1>3. ASSUME NEW len \in Nat
      PROVE  LET a == writev(d, len) IN a.n \in Int /\ a.n <= sock[d].tx /\ a.err \in Err
  BY <1>1, <1>3 DEF writev, Answer, Least, Err
<1>4. LET a == accept_fd(d) IN a.n \in Int /\ a.n <= sock[d].rx /\ a.err \in Err
  BY <1>1 DEF accept_fd, Answer, Err
<1>5. LET a == recvfrom(d) IN a.n \in Int /\ a.n <= sock[d].rx /\ a.err \in Err
  BY <1>1 DEF recvfrom, Answer, Err
<1>6. LET a == sendto(d) IN a.n \in Int /\ a.n <= sock[d].tx /\ a.err \in Err
  BY <1>1 DEF sendto, Answer, Err
<1>7. ASSUME NEW a, NEW ok, NEW m \in Nat, a.n \in Int, a.n <= m, a.err \in Err
      PROVE  Post(a, ok).n \in Nat /\ Post(a, ok).n <= m /\ Post(a, ok).err \in Err
  BY <1>7 DEF Post
<1>8. post_connect.n = 0 /\ post_connect.err = "none"
  BY DEF post_connect, Post, Answer
<1>9. CASE op[o].kind = "connect"
  BY <1>1, <1>8, <1>9 DEF post_proc, Err
<1>10. CASE op[o].kind = "write"
  BY <1>1, <1>3, <1>7, <1>10 DEF post_proc, post_write
<1>11. CASE op[o].kind = "send"
  BY <1>1, <1>6, <1>7, <1>11 DEF post_proc, udp_post_write
<1>12. CASE op[o].kind = "accept"
  BY <1>1, <1>4, <1>7, <1>12 DEF post_proc, post_accept
<1>13. CASE op[o].kind = "read"
  BY <1>1, <1>2, <1>7, <1>13 DEF post_proc, post_read
<1>14. CASE op[o].kind = "readn"
  BY <1>1, <1>2, <1>7, <1>14 DEF post_proc, post_read_fixed_len
<1>15. CASE op[o].kind \notin {"connect", "write", "send", "accept", "read", "readn"}
  BY <1>1, <1>5, <1>7, <1>15 DEF post_proc, udp_post_read
<1> QED BY <1>9, <1>10, <1>11, <1>12, <1>13, <1>14, <1>15

\* The empty queues of a descriptor.
LEMMA NoQType == NoQ \in QType
<1>1. <<>> \in Seq(Op)
  OBVIOUS
<1> QED BY <1>1 DEF NoQ, QType

\* A descriptor with one field changed is a descriptor.
LEMMA DescUpdate ==
  ASSUME NEW x \in DescType
  PROVE  /\ \A n \in Int : [x EXCEPT !.ref = n] \in DescType
         /\ [x EXCEPT !.fd = FALSE] \in DescType
         /\ [x EXCEPT !.st = "freed"] \in DescType
         /\ \A q \in QType : [x EXCEPT !.q = q] \in DescType
BY DEF DescType

\* A descriptor that is not yet created, or deleted.
LEMMA NoDescType == NoDesc \in DescType /\ [NoDesc EXCEPT !.st = "freed"] \in DescType
<1>1. NoDesc \in DescType
  BY NoQType DEF NoDesc, DescType
<1> QED BY <1>1, DescUpdate

\* A descriptor just created.
LEMMA CreateType ==
  ASSUME NEW wq \in Seq(Op)
  PROVE  descriptor_create(wq) \in DescType /\ [descriptor_create(wq) EXCEPT !.ref = 2] \in DescType
<1> DEFINE q == [NoQ EXCEPT !["write"] = wq]
<1>3. q \in QType
  BY NoQType DEF QType
<1>4. descriptor_create(wq) = [st |-> "live", fd |-> TRUE, ref |-> 1, q |-> q]
  BY DEF descriptor_create
<1> HIDE DEF q
<1>5. descriptor_create(wq) \in DescType
  BY <1>3, <1>4 DEF DescType
<1>6. \A n \in Int : [descriptor_create(wq) EXCEPT !.ref = n] \in DescType
  BY <1>5, DescUpdate
<1>7. 2 \in Int
  OBVIOUS
<1> QED BY <1>5, <1>6, <1>7, Zenon

\* A socket just opened.
LEMMA OpenSockType ==
  ASSUME NEW st \in {"connecting", "up", "listening"} \cup Datagram
  PROVE  OpenSock(st) \in SockType
<1> DEFINE a == st \in {"up"} \cup Datagram
<1>1. a \in BOOLEAN
  OBVIOUS
<1>2. OpenSock(st) = [st |-> st, rx |-> 0, tx |-> TxMax, fin |-> FALSE, armed |-> a]
  BY DEF OpenSock
<1> HIDE DEF a
<1> QED BY <1>1, <1>2, BoundAssumption DEF SockType, Datagram

\* A step that leaves the loop's locals alone.
LEMMA ShapeUnchanged ==
  ASSUME LoopShape, UNCHANGED loopVars PROVE LoopShape'
BY DEF LoopShape, loopVars, InEvents, InDrain

-----------------------------------------------------------------------------
(* Type correctness and the shape of the loop are inductive together.      *)

\* The first state.
LEMMA InitIInv == Init => IInv
<1> SUFFICES ASSUME Init PROVE IInv
  OBVIOUS
<1>1. NoDesc \in DescType /\ NoSock \in SockType
  BY NoDescType, BoundAssumption DEF NoSock, SockType
<1>2. op \in [Op -> OpType]
  BY BoundAssumption DEF Init, OpType, Err
<1>3. TypeOK
  BY <1>1, <1>2, BoundAssumption DEF Init, TypeOK
<1>4. LoopShape
  BY DEF Init, LoopShape
<1> QED BY <1>3, <1>4 DEF IInv

\* A call that completes its operation with an error.
LEMMA FailType ==
  ASSUME IInv, NEW t \in Caller, NEW o, NEW k, NEW e \in {"error", "invalid"}, fail_op(t, o, k, e)
  PROVE  IInv'
<1>1. op' \in [Op -> OpType]
  <2>1. k \in UserKind /\ e \in Err
    BY KindAssumption DEF fail_op, Err
  <2> QED BY <2>1, StartOpType DEF IInv, fail_op, TypeOK
<1>2. opq' \in Seq(Closure)
  BY ClosureType DEF IInv, fail_op, TypeOK, op_add, Fresh
<1> QED BY <1>1, <1>2, ShapeUnchanged DEF IInv, fail_op, op_add, TypeOK, loopVars

\* listen and bind: a descriptor without an operation.
LEMMA OpenFdType ==
  ASSUME IInv, NEW t, NEW s \in Sock, NEW st \in {"listening"} \cup Datagram, open_fd(t, s, st)
  PROVE  IInv'
<1>1. PICK d \in NewDesc :
        /\ desc' = [desc EXCEPT ![d] = descriptor_create(<<>>)]
        /\ sock' = [sock EXCEPT ![d] = OpenSock(st)]
        /\ handle' = [handle EXCEPT ![s] = d]
  BY DEF open_fd
<1>2. descriptor_create(<<>>) \in DescType /\ OpenSock(st) \in SockType
  <2>1. <<>> \in Seq(Op)
    OBVIOUS
  <2> QED BY <2>1, CreateType, OpenSockType
<1> QED BY <1>1, <1>2, ShapeUnchanged DEF IInv, open_fd, TypeOK, loopVars, NewDesc

\* read, write and accept: a closure with a reference.
LEMMA PostIoType ==
  ASSUME IInv, NEW d \in Desc, NEW o, NEW k, NEW s \in Sock \cup {Null}, post_io(d, o, k, s)
  PROVE  IInv'
<1>1. op' \in [Op -> OpType]
  BY StartOpType, KindAssumption DEF IInv, post_io, TypeOK, Err
<1>2. o \in Op /\ opq' \in Seq(Closure)
  BY ClosureType DEF IInv, post_io, TypeOK, op_add, Fresh
<1>3. desc' \in [Desc -> DescType]
  <2>1. [desc[d] EXCEPT !.ref = @ + 1] \in DescType
    <3>1. desc[d] \in DescType /\ desc[d].ref + 1 \in Int
      BY DEF IInv, TypeOK, DescType
    <3> QED BY <3>1, DescUpdate
  <2>2. desc' = [desc EXCEPT ![d] = [desc[d] EXCEPT !.ref = @ + 1]]
    BY DEF post_io
  <2> QED BY <2>1, <2>2 DEF IInv, TypeOK
<1> QED BY <1>1, <1>2, <1>3, ShapeUnchanged DEF IInv, post_io, op_add, TypeOK, loopVars

\* The calls of handlers.
LEMMA StepLoopCall ==
  ASSUME IInv, LoopCall PROVE IInv'
<1>1. ASSUME NEW s \in Sock, NEW o \in Op, NEW k \in {"read", "readn"}, read(s, o, k) PROVE IInv'
  BY <1>1, PostIoType DEF read, Connected, IInv, TypeOK
<1>2. ASSUME NEW s \in Sock, NEW o \in Op, write(s, o) PROVE IInv'
  BY <1>2, PostIoType DEF write, Connected, IInv, TypeOK
<1>3. ASSUME NEW s \in Sock, NEW to \in Sock, NEW o \in Op, accept(s, o, to) PROVE IInv'
  BY <1>3, PostIoType DEF accept, IInv, TypeOK
<1>4. ASSUME NEW s \in Sock, NEW o \in Op, accept_closed(s, o) PROVE IInv'
  <2>1. op' \in [Op -> OpType]
    BY <1>4, StartOpType DEF IInv, accept_closed, TypeOK, Err
  <2> QED BY <1>4, <2>1, ShapeUnchanged DEF IInv, accept_closed, TypeOK, loopVars, muxVars
<1>5. ASSUME NEW s \in Sock, NEW o \in Op, udp_read(s, o) PROVE IInv'
  BY <1>5, PostIoType DEF udp_read, IInv, TypeOK
<1>6. ASSUME NEW s \in Sock, NEW o \in Op, udp_read_closed(s, o) PROVE IInv'
  BY <1>6, FailType DEF udp_read_closed
<1>7. ASSUME NEW s \in Sock, NEW o \in Op, udp_write(s, o) PROVE IInv'
  BY <1>7, PostIoType DEF udp_write, IInv, TypeOK
<1>8. ASSUME NEW s \in Sock, NEW o \in Op, udp_write_open(s, o) PROVE IInv'
  <2>1. PICK d \in NewDesc :
          /\ desc' = [desc EXCEPT ![d] = [descriptor_create(<<>>) EXCEPT !.ref = 2]]
          /\ sock' = [sock EXCEPT ![d] = OpenSock("blocking")]
          /\ handle' = [handle EXCEPT ![s] = d]
          /\ StartOp(o, "send", d, Null, "none")
          /\ op_add(Loop, DispC(d, o))
    BY <1>8 DEF udp_write_open
  <2>2. op' \in [Op -> OpType]
    BY <2>1, StartOpType DEF IInv, TypeOK, UserKind, Err, NewDesc
  <2>3. [descriptor_create(<<>>) EXCEPT !.ref = 2] \in DescType /\ OpenSock("blocking") \in SockType
    <3>1. <<>> \in Seq(Op)
      OBVIOUS
    <3> QED BY <3>1, CreateType, OpenSockType DEF Datagram
  <2>4. opq' \in Seq(Closure)
    BY <2>1, ClosureType DEF IInv, TypeOK, op_add, NewDesc
  <2> QED BY <1>8, <2>1, <2>2, <2>3, <2>4, ShapeUnchanged
          DEF IInv, udp_write_open, TypeOK, loopVars, op_add, NewDesc
<1>9. ASSUME NEW s \in Sock, NEW o \in Op, udp_write_fail(s, o) PROVE IInv'
  BY <1>9, FailType DEF udp_write_fail
<1> QED BY <1>1, <1>2, <1>3, <1>4, <1>5, <1>6, <1>7, <1>8, <1>9 DEF LoopCall

\* The calls of any thread.
LEMMA StepCall ==
  ASSUME IInv, Call PROVE IInv'
<1> USE DEF IInv, op_add, loopVars, userVars, muxVars
<1>1. PICK t \in Caller :
        \/ wake_up(t)
        \/ \E o \in Op : execute(t, o)
        \/ \E s \in Sock : unbind(t, s)
        \/ \E s \in Sock, o \in Op : connect(t, s, o)
        \/ \E s \in Sock, o \in Op : connect_fail(t, s, o)
        \/ \E s \in Sock : listen(t, s)
        \/ \E s \in Sock : udp_bind(t, s)
  BY DEF Call
<1>2. CASE wake_up(t)
  BY <1>2, BoundAssumption DEF wake_up, TypeOK, LoopShape, InEvents, InDrain
<1>3. ASSUME NEW o \in Op, execute(t, o) PROVE IInv'
  <2>1. op' \in [Op -> OpType]
    BY <1>3, StartOpType DEF execute, TypeOK, UserKind, Err
  <2> QED BY <1>3, <2>1, ClosureType DEF execute, TypeOK, LoopShape, InEvents, InDrain
<1>4. ASSUME NEW s \in Sock, unbind(t, s) PROVE IInv'
  BY <1>4, ClosureType DEF unbind, TypeOK, LoopShape, InEvents, InDrain
<1>5. ASSUME NEW s \in Sock, NEW o \in Op, connect(t, s, o) PROVE IInv'
  <2>1. PICK d \in NewDesc :
          /\ desc' = [desc EXCEPT ![d] = descriptor_create(<<o>>)]
          /\ sock' = [sock EXCEPT ![d] = OpenSock("connecting")]
          /\ handle' = [handle EXCEPT ![s] = d]
          /\ StartOp(o, "connect", d, Null, "none")
    BY <1>5 DEF connect
  <2>2. op' \in [Op -> OpType]
    BY <2>1, StartOpType DEF TypeOK, UserKind, Err, NewDesc
  <2>3. descriptor_create(<<o>>) \in DescType
    <3>1. <<o>> \in Seq(Op)
      OBVIOUS
    <3> QED BY <3>1, CreateType
  <2>4. OpenSock("connecting") \in SockType
    BY OpenSockType
  <2> QED BY <1>5, <2>1, <2>2, <2>3, <2>4, ShapeUnchanged DEF connect, TypeOK, NewDesc
<1>6. ASSUME NEW s \in Sock, NEW o \in Op, connect_fail(t, s, o) PROVE IInv'
  BY <1>6, FailType, t \in Caller DEF connect_fail
<1>7. ASSUME NEW s \in Sock, listen(t, s) PROVE IInv'
  BY <1>7, OpenFdType DEF listen
<1>8. ASSUME NEW s \in Sock, udp_bind(t, s) PROVE IInv'
  BY <1>8, OpenFdType DEF udp_bind, Datagram
<1> QED BY <1>1, <1>2, <1>3, <1>4, <1>5, <1>6, <1>7, <1>8

\* An operation with one field changed is an operation.
LEMMA OpUpdate ==
  ASSUME NEW x \in OpType
  PROVE  /\ \A e \in Err : [x EXCEPT !.err = e] \in OpType
         /\ \A n \in Nat : [x EXCEPT !.calls = n] \in OpType
         /\ \A n \in 0..BufLen : [x EXCEPT !.remain = n] \in OpType
         /\ x.calls + 1 \in Nat
BY DEF OpType

\* A socket with one field changed is a socket.
LEMMA SockUpdate ==
  ASSUME NEW x \in SockType
  PROVE  /\ \A n \in 0..RxMax : [x EXCEPT !.rx = n] \in SockType
         /\ \A n \in 0..TxMax : [x EXCEPT !.tx = n] \in SockType
         /\ \A b \in BOOLEAN : [x EXCEPT !.armed = b] \in SockType
BY DEF SockType

\* A dispatch in progress is not the null pointer.
LEMMA CurNotNull ==
  ASSUME NEW c \in CurType PROVE c # Null
BY NullAssumption

\* The head and the tail of a queue that is not empty.
LEMMA HeadTail ==
  ASSUME NEW S, NEW q \in Seq(S), q # <<>>
  PROVE  Head(q) \in S /\ Tail(q) \in Seq(S)
OBVIOUS

\* descriptor_release keeps the types of what it changes.
LEMMA ReleaseType ==
  ASSUME TypeOK, NEW ds \in [Desc -> DescType], NEW d \in Desc, NEW n \in Nat,
         descriptor_release(ds, d, n)
  PROVE  /\ desc' \in [Desc -> DescType] /\ refcount' \in Int /\ opq' \in Seq(Closure)
         /\ pc' \in [Caller -> {"idle", "wake"}] /\ op' \in [Op -> OpType]
<1>1. CASE desc[d].ref # 1
  <2>1. desc' = [ds EXCEPT ![d] = [ds[d] EXCEPT !.ref = ds[d].ref - 1]]
    BY <1>1 DEF descriptor_release
  <2>2. ds[d] \in DescType /\ ds[d].ref - 1 \in Int
    BY DEF DescType
  <2>3. [ds[d] EXCEPT !.ref = ds[d].ref - 1] \in DescType
    BY <2>2, DescUpdate
  <2> QED BY <1>1, <2>1, <2>3 DEF descriptor_release, TypeOK
<1>2. CASE desc[d].ref = 1
  <2> DEFINE os == Orphans(d)
             ns == [i \in 1..Len(os) |-> RunC(os[i])]
  <2>1. desc' \in [Desc -> DescType]
    BY <1>2, NoDescType DEF descriptor_release, TypeOK
  <2>2. os \in Seq(Op)
    <3>1. desc[d].q \in QType
      BY DEF TypeOK, DescType
    <3> QED BY <3>1 DEF Orphans, QType
  <2> HIDE DEF os
  <2>3. ns \in Seq(Closure)
    BY <2>2, ClosureType
  <2>4. abort_ops(os, refcount - n - 1)
    BY <1>2 DEF descriptor_release, os
  <2>5. opq' \in Seq(Closure)
    BY <2>3, <2>4 DEF abort_ops, TypeOK
  <2>6. op' \in [Op -> OpType]
    <3>1. \A o \in Op : op[o] \in OpType /\ [op[o] EXCEPT !.err = "aborted"] \in OpType
      BY OpUpdate DEF TypeOK, Err
    <3> QED BY <2>4, <3>1 DEF abort_ops
  <2> QED BY <2>1, <2>2, <2>4, <2>5, <2>6 DEF abort_ops, TypeOK
<1> QED BY <1>1, <1>2

\* A completed operation is an operation.
LEMMA CompleteType ==
  ASSUME TypeOK, NEW o, NEW e, o \in Op => e \in Err
  PROVE  Complete(o, e) \in [Op -> OpType]
<1> DEFINE x == [op[o] EXCEPT !.err = e]
           y == [x EXCEPT !.calls = x.calls + 1]
<1>1. Complete(o, e) = [op EXCEPT ![o] = y]
  BY DEF Complete, TypeOK, OpType
<1>2. ASSUME o \in Op PROVE y \in OpType
  <2>1. x \in OpType
    BY <1>2, OpUpdate DEF TypeOK
  <2> QED BY <2>1, OpUpdate
<1> HIDE DEF y
<1> QED BY <1>1, <1>2 DEF TypeOK

\* What remains of a buffer fits in the buffer.
LEMMA RemainType ==
  ASSUME TypeOK, NEW o \in Op, NEW d \in Desc
  PROVE  op[o] \in OpType /\ Skip(o, post_proc(o, d).n) \in 0..BufLen
<1>1. op[o] \in OpType /\ op[o].remain \in 0..BufLen
  BY DEF TypeOK, OpType
<1>2. post_proc(o, d).n \in Nat
  BY PostProcType
<1> QED BY <1>1, <1>2, BoundAssumption DEF Skip, Least

\* A socket after a transfer of what it had is a socket.
LEMMA TransferType ==
  ASSUME TypeOK, NEW o \in Op, NEW d \in Desc
  PROVE  Transfer(o, sock[d], post_proc(o, d).n) \in SockType
<1>1. sock[d] \in SockType
  BY DEF TypeOK
<1>2. CASE op[o].kind \in {"write", "send"}
  <2>1. sock[d].tx - post_proc(o, d).n \in 0..TxMax
    BY <1>1, <1>2, PostProcType, BoundAssumption DEF SockType
  <2> QED BY <1>1, <1>2, <2>1, SockUpdate DEF Transfer
<1>3. CASE op[o].kind \notin {"write", "send"}
  <2>1. sock[d].rx - post_proc(o, d).n \in 0..RxMax
    BY <1>1, <1>3, PostProcType, BoundAssumption DEF SockType
  <2> QED BY <1>1, <1>3, <2>1, SockUpdate DEF Transfer
<1> QED BY <1>2, <1>3

\* The queues after the front operation is popped.
LEMMA PopType ==
  ASSUME TypeOK, cur # Null, NEW e \in Ev, desc[cur.desc].q[e] # <<>>
  PROVE  Pop(e) \in [Desc -> DescType] /\ Front(e) \in Op /\ cur.desc \in Desc
<1>1. cur.desc \in Desc
  BY DEF TypeOK, CurType
<1>2. desc[cur.desc].q \in QType
  BY <1>1 DEF TypeOK, DescType
<1>3. Front(e) \in Op /\ Tail(desc[cur.desc].q[e]) \in Seq(Op)
  BY <1>2, HeadTail DEF Front, QType
<1>4. [desc[cur.desc].q EXCEPT ![e] = Tail(desc[cur.desc].q[e])] \in QType
  BY <1>2, <1>3 DEF QType
<1>5. Pop(e) = [desc EXCEPT ![cur.desc] = [desc[cur.desc] EXCEPT !.q =
                  [desc[cur.desc].q EXCEPT ![e] = Tail(desc[cur.desc].q[e])]]]
  BY DEF Pop
<1>6. desc[cur.desc] \in DescType
  BY <1>1 DEF TypeOK
<1>7. [desc[cur.desc] EXCEPT !.q =
         [desc[cur.desc].q EXCEPT ![e] = Tail(desc[cur.desc].q[e])]] \in DescType
  BY <1>4, <1>6, DescUpdate
<1> QED BY <1>1, <1>3, <1>5, <1>7 DEF TypeOK

\* The steps that only move the loop on.
LEMMA StepRun ==
  ASSUME IInv, run \/ run_check \/ epoll_wait_timeout \/ run_no_take \/ run_drained \/ handler_return
  PROVE  IInv'
<1>1. TypeOK'
  BY DEF IInv, TypeOK, run, run_check, epoll_wait_timeout, run_no_take, run_drained, handler_return,
         muxVars, userVars
<1>2. LoopShape'
  BY DEF IInv, LoopShape, InEvents, InDrain, At, run, run_check, epoll_wait_timeout, run_no_take,
         run_drained, handler_return, muxVars, userVars, EventsDone, TypeOK, CurType
<1> QED BY <1>1, <1>2 DEF IInv

\* epoll_wait, with or without events.
LEMMA StepWait ==
  ASSUME IInv, epoll_wait PROVE IInv'
<1>1. sock' \in [Desc -> SockType]
  <2>1. \A d \in Desc : [sock[d] EXCEPT !.armed = FALSE] \in SockType
    BY SockUpdate DEF IInv, TypeOK
  <2> QED BY <2>1 DEF epoll_wait
<1>2. evs' \in [Desc -> SUBSET Ev]
  BY MaskType DEF epoll_wait
<1>3. TypeOK'
  BY <1>1, <1>2 DEF IInv, TypeOK, epoll_wait, muxVars, userVars
<1>4. LoopShape'
  BY DEF IInv, LoopShape, InEvents, InDrain, At, epoll_wait
<1> QED BY <1>3, <1>4 DEF IInv

\* The loop over events[] and the step to the batch.
LEMMA StepEvents ==
  ASSUME IInv, (\E d \in Desc : run_event(d)) \/ run_pipe \/ run_take
  PROVE  IInv'
<1>1. ASSUME NEW d \in Desc, run_event(d) PROVE IInv'
  <2>1. cur' \in CurType /\ cur' # Null /\ ~cur'.release
    <3>1. cur' = [desc |-> d, evs |-> evs[d], release |-> FALSE]
      BY <1>1 DEF run_event
    <3>2. cur' \in CurType
      BY <3>1 DEF CurType, IInv, TypeOK
    <3> QED BY <3>1, <3>2, CurNotNull
  <2>2. TypeOK'
    BY <1>1, <2>1 DEF IInv, TypeOK, run_event, muxVars, userVars
  <2>3. LoopShape'
    BY <1>1, <2>1 DEF IInv, LoopShape, InEvents, InDrain, At, run_event
  <2> QED BY <2>2, <2>3 DEF IInv
<1>2. CASE run_pipe
  <2>1. pipe' \in 0..PipeCap
    BY <1>2, BoundAssumption DEF IInv, TypeOK, run_pipe, pipe_read, Least
  <2>2. TypeOK'
    BY <1>2, <2>1 DEF IInv, TypeOK, run_pipe, userVars
  <2>3. LoopShape'
    BY <1>2 DEF IInv, LoopShape, InEvents, InDrain, At, run_pipe
  <2> QED BY <2>2, <2>3 DEF IInv
<1>3. CASE run_take
  <2>1. TypeOK'
    BY <1>3 DEF IInv, TypeOK, run_take, userVars
  <2>2. LoopShape'
    BY <1>3 DEF IInv, LoopShape, InEvents, InDrain, At, run_take, EventsDone
  <2> QED BY <2>1, <2>2 DEF IInv
<1> QED BY <1>1, <1>2, <1>3

\* The three kinds of closure op_run meets.
LEMMA StepOpRun ==
  ASSUME IInv, op_run_handler \/ op_run_unbind \/ op_run_dispatch
  PROVE  IInv'
<1>1. Head(ops) \in Closure /\ Tail(ops) \in Seq(Closure)
  BY HeadTail DEF IInv, TypeOK, op_run_handler, op_run_unbind, op_run_dispatch
<1>2. CASE op_run_handler
  <2>1. op' \in [Op -> OpType]
    <3>1. Head(ops).op \in Op
      BY <1>1, <1>2, ClosureFields DEF op_run_handler
    <3>2. op[Head(ops).op].err \in Err
      BY <3>1 DEF IInv, TypeOK, OpType
    <3> QED BY <1>2, <3>2, CompleteType DEF IInv, op_run_handler
  <2>2. TypeOK'
    BY <1>1, <1>2, <2>1 DEF IInv, TypeOK, op_run_handler
  <2>3. LoopShape'
    BY <1>2 DEF IInv, LoopShape, InEvents, InDrain, At, op_run_handler
  <2> QED BY <2>2, <2>3 DEF IInv
<1>3. CASE op_run_unbind
  <2> DEFINE d == Head(ops).desc
             ds == [desc EXCEPT ![d].fd = FALSE]
  <2>1. d \in Desc
    BY <1>1, <1>3, ClosureFields DEF op_run_unbind
  <2>2. ds \in [Desc -> DescType]
    <3>1. ds = [desc EXCEPT ![d] = [desc[d] EXCEPT !.fd = FALSE]]
      OBVIOUS
    <3>2. [desc[d] EXCEPT !.fd = FALSE] \in DescType
      BY <2>1, DescUpdate DEF IInv, TypeOK
    <3> QED BY <2>1, <3>1, <3>2 DEF IInv, TypeOK
  <2>3. NoSock \in SockType
    BY BoundAssumption DEF NoSock, SockType
  <2>4. descriptor_release(ds, d, 1) /\ sock' = [sock EXCEPT ![d] = NoSock]
    BY <1>3 DEF op_run_unbind
  <2> HIDE DEF d, ds
  <2>5. TypeOK'
    <3>1. /\ desc' \in [Desc -> DescType] /\ refcount' \in Int /\ opq' \in Seq(Closure)
          /\ pc' \in [Caller -> {"idle", "wake"}] /\ op' \in [Op -> OpType]
      BY <2>1, <2>2, <2>4, ReleaseType DEF IInv
    <3>2. sock' \in [Desc -> SockType]
      BY <2>3, <2>4 DEF IInv, TypeOK
    <3>3. /\ ops' = Tail(ops)
          /\ UNCHANGED <<pipe, lpc, evs, wk, cur, handle>>
      BY <1>3 DEF op_run_unbind
    <3> QED BY <1>1, <3>1, <3>2, <3>3 DEF IInv, TypeOK
  <2>6. LoopShape'
    BY <1>3 DEF IInv, LoopShape, InEvents, InDrain, At, op_run_unbind
  <2> QED BY <2>5, <2>6 DEF IInv
<1>4. CASE op_run_dispatch
  <2> DEFINE o == Head(ops).op
             d == Head(ops).desc
             e == EvOf(op[o].kind)
  <2>1. o \in Op /\ d \in Desc /\ e \in Ev
    BY <1>1, <1>4, ClosureFields DEF op_run_dispatch, EvOf
  <2>2. /\ desc' = [desc EXCEPT ![d].q[e] = Append(@, o)]
        /\ cur' = [desc |-> d, evs |-> {e}, release |-> TRUE]
    BY <1>4 DEF op_run_dispatch, enqueue
  <2> HIDE DEF o, d, e
  <2>3. desc' \in [Desc -> DescType]
    <3>1. desc[d] \in DescType /\ desc[d].q \in QType
      BY <2>1 DEF IInv, TypeOK, DescType
    <3>2. [desc[d].q EXCEPT ![e] = Append(desc[d].q[e], o)] \in QType
      BY <2>1, <3>1 DEF QType
    <3>3. [desc[d] EXCEPT !.q = [desc[d].q EXCEPT ![e] = Append(desc[d].q[e], o)]] \in DescType
      BY <3>1, <3>2, DescUpdate
    <3>4. desc' = [desc EXCEPT ![d] = [desc[d] EXCEPT !.q =
                     [desc[d].q EXCEPT ![e] = Append(desc[d].q[e], o)]]]
      BY <2>2
    <3> QED BY <3>3, <3>4 DEF IInv, TypeOK
  <2>4. cur' \in CurType /\ cur' # Null /\ cur'.release
    <3>1. cur' \in CurType
      BY <2>1, <2>2 DEF CurType
    <3> QED BY <2>2, <3>1, CurNotNull
  <2>5. TypeOK'
    BY <1>1, <1>4, <2>3, <2>4 DEF IInv, TypeOK, op_run_dispatch, userVars
  <2>6. LoopShape'
    BY <1>4, <2>4 DEF IInv, LoopShape, InEvents, InDrain, At, op_run_dispatch
  <2> QED BY <2>5, <2>6 DEF IInv
<1> QED BY <1>2, <1>3, <1>4

\* descriptor_dispatch at the front of a queue.
LEMMA StepDispatch ==
  ASSUME IInv, NEW e \in Ev, dispatch_empty(e) \/ dispatch_wait(e) \/ dispatch_done(e)
  PROVE  IInv'
<1>1. cur \in CurType /\ cur # Null /\ At("dispatch")
  BY DEF IInv, TypeOK, LoopShape, At, dispatch_empty, dispatch_wait, dispatch_done, Dispatching
<1>2. CASE dispatch_empty(e) \/ dispatch_wait(e)
  <2>1. cur' \in CurType /\ cur' # Null /\ cur'.release = cur.release
    <3>1. cur' = [cur EXCEPT !.evs = cur.evs \ {e}]
      BY <1>2 DEF dispatch_empty, dispatch_wait
    <3>2. cur' \in CurType /\ cur'.release = cur.release
      BY <1>1, <3>1 DEF CurType
    <3> QED BY <3>2, CurNotNull
  <2>2. LoopShape'
    BY <1>1, <1>2, <2>1 DEF IInv, LoopShape, InEvents, InDrain, At, dispatch_empty, dispatch_wait
  <2>3. op' \in [Op -> OpType] /\ sock' \in [Desc -> SockType]
    <3>1. CASE dispatch_empty(e)
      BY <3>1 DEF IInv, TypeOK, dispatch_empty, userVars
    <3>2. CASE dispatch_wait(e)
      <4> DEFINE o == Front(e)
                 d == cur.desc
                 n == post_proc(o, d).n
      <4>1. o \in Op /\ d \in Desc
        BY <1>1, <3>2, PopType DEF IInv, dispatch_wait
      <4>2. /\ op' = [op EXCEPT ![o].remain = Skip(o, n)]
            /\ sock' = [sock EXCEPT ![d] = Transfer(o, sock[d], n)]
        BY <3>2 DEF dispatch_wait
      <4>3. Transfer(o, sock[d], n) \in SockType
        BY <4>1, TransferType DEF IInv
      <4>4. op[o] \in OpType /\ Skip(o, n) \in 0..BufLen
        BY <4>1, RemainType DEF IInv
      <4> HIDE DEF o, d, n
      <4>5. [op[o] EXCEPT !.remain = Skip(o, n)] \in OpType
        BY <4>4, OpUpdate
      <4>6. op' = [op EXCEPT ![o] = [op[o] EXCEPT !.remain = Skip(o, n)]]
        BY <4>2
      <4> QED BY <4>2, <4>3, <4>5, <4>6 DEF IInv, TypeOK
    <3> QED BY <1>2, <3>1, <3>2
  <2>4. TypeOK'
    BY <1>2, <2>1, <2>3 DEF IInv, TypeOK, dispatch_empty, dispatch_wait, muxVars, userVars
  <2> QED BY <2>2, <2>4 DEF IInv
<1>3. CASE dispatch_done(e)
  <2> DEFINE o == Front(e)
             d == cur.desc
             p == post_proc(o, d)
             c == Complete(o, p.err)
  <2>1. o \in Op /\ d \in Desc /\ Pop(e) \in [Desc -> DescType]
    BY <1>1, <1>3, PopType DEF IInv, dispatch_done
  <2>2. c \in [Op -> OpType]
    BY <2>1, PostProcType, CompleteType DEF IInv
  <2>3. Transfer(o, sock[d], p.n) \in SockType
    BY <2>1, TransferType DEF IInv
  <2>4. Skip(o, p.n) \in 0..BufLen
    BY <2>1, RemainType DEF IInv
  <2>5. op' = [c EXCEPT ![o].remain = Skip(o, p.n)]
    BY <1>3 DEF dispatch_done
  <2>6. \/ \E a \in NewDesc :
              /\ desc' = [Pop(e) EXCEPT ![a] = descriptor_create(<<>>)]
              /\ sock' = [sock EXCEPT ![d] = Transfer(o, sock[d], p.n), ![a] = OpenSock("up")]
              /\ handle' = [handle EXCEPT ![op[o].to] = a]
              /\ refcount' = refcount + 1
        \/ /\ desc' = Pop(e)
           /\ sock' = [sock EXCEPT ![d] = Transfer(o, sock[d], p.n)]
           /\ UNCHANGED <<handle, refcount>>
    BY <1>3 DEF dispatch_done
  <2> HIDE DEF o, d, p, c
  <2>7. op' \in [Op -> OpType]
    <3>1. [c[o] EXCEPT !.remain = Skip(o, p.n)] \in OpType
      BY <2>1, <2>2, <2>4, OpUpdate
    <3>2. op' = [c EXCEPT ![o] = [c[o] EXCEPT !.remain = Skip(o, p.n)]]
      BY <2>5
    <3> QED BY <2>2, <3>1, <3>2
  <2>8. /\ desc' \in [Desc -> DescType] /\ sock' \in [Desc -> SockType]
        /\ handle' \in [Sock -> Desc \cup {Null}] /\ refcount' \in Int
    <3>1. <<>> \in Seq(Op)
      OBVIOUS
    <3>2. descriptor_create(<<>>) \in DescType /\ OpenSock("up") \in SockType
      BY <3>1, CreateType, OpenSockType
    <3>3. ASSUME NEW a \in NewDesc,
                 desc' = [Pop(e) EXCEPT ![a] = descriptor_create(<<>>)],
                 sock' = [sock EXCEPT ![d] = Transfer(o, sock[d], p.n), ![a] = OpenSock("up")],
                 handle' = [handle EXCEPT ![op[o].to] = a]
          PROVE  /\ desc' \in [Desc -> DescType] /\ sock' \in [Desc -> SockType]
                 /\ handle' \in [Sock -> Desc \cup {Null}]
      <4>1. a \in Desc
        BY DEF NewDesc
      <4>2. desc' \in [Desc -> DescType]
        BY <2>1, <3>2, <3>3, <4>1
      <4>3. sock' \in [Desc -> SockType]
        BY <2>1, <2>3, <3>2, <3>3, <4>1 DEF IInv, TypeOK
      <4>4. handle' \in [Sock -> Desc \cup {Null}]
        BY <3>3, <4>1 DEF IInv, TypeOK
      <4> QED BY <4>2, <4>3, <4>4
    <3>4. desc \in [Desc -> DescType] /\ sock \in [Desc -> SockType]
          /\ handle \in [Sock -> Desc \cup {Null}] /\ refcount \in Int
      BY DEF IInv, TypeOK
    <3>5. CASE /\ desc' = Pop(e)
               /\ sock' = [sock EXCEPT ![d] = Transfer(o, sock[d], p.n)]
               /\ UNCHANGED <<handle, refcount>>
      BY <2>1, <2>3, <3>4, <3>5
    <3>6. CASE \E a \in NewDesc :
              /\ desc' = [Pop(e) EXCEPT ![a] = descriptor_create(<<>>)]
              /\ sock' = [sock EXCEPT ![d] = Transfer(o, sock[d], p.n), ![a] = OpenSock("up")]
              /\ handle' = [handle EXCEPT ![op[o].to] = a]
              /\ refcount' = refcount + 1
      <4>1. refcount' \in Int
        BY <3>4, <3>6
      <4> QED BY <3>3, <3>6, <4>1
    <3> QED BY <2>6, <3>5, <3>6
  <2>9. TypeOK'
    BY <1>3, <2>7, <2>8 DEF IInv, TypeOK, dispatch_done
  <2>10. LoopShape'
    BY <1>1, <1>3 DEF IInv, LoopShape, InEvents, InDrain, At, dispatch_done
  <2> QED BY <2>9, <2>10 DEF IInv
<1> QED BY <1>2, <1>3

\* The end of a dispatch, and the return of a handler.
LEMMA StepDispatchEnd ==
  ASSUME IInv, dispatch_end \/ dispatch_end_release
  PROVE  IInv'
<1>1. CASE dispatch_end
  <2>1. TypeOK'
    BY <1>1 DEF IInv, TypeOK, dispatch_end, muxVars, userVars
  <2>2. LoopShape'
    BY <1>1 DEF IInv, LoopShape, InEvents, InDrain, At, dispatch_end
  <2> QED BY <2>1, <2>2 DEF IInv
<1>2. CASE dispatch_end_release
  <2>1. cur.desc \in Desc
    BY <1>2 DEF IInv, TypeOK, LoopShape, CurType, dispatch_end_release, At
  <2>2. TypeOK'
    BY <1>2, <2>1, ReleaseType DEF IInv, TypeOK, dispatch_end_release
  <2>3. LoopShape'
    BY <1>2 DEF IInv, LoopShape, InEvents, InDrain, At, dispatch_end_release
  <2> QED BY <2>2, <2>3 DEF IInv
<1> QED BY <1>1, <1>2

\* Every step of the loop.
LEMMA StepLoop ==
  ASSUME IInv, LoopStep PROVE IInv'
<1>1. CASE \/ run_check \/ epoll_wait_timeout \/ run_no_take \/ run_drained \/ handler_return
  BY <1>1, StepRun
<1>2. CASE epoll_wait
  BY <1>2, StepWait
<1>3. CASE (\E d \in Desc : run_event(d)) \/ run_pipe \/ run_take
  BY <1>3, StepEvents
<1>4. CASE op_run_handler \/ op_run_unbind \/ op_run_dispatch
  BY <1>4, StepOpRun
<1>5. CASE \E e \in Ev : dispatch_empty(e) \/ dispatch_wait(e) \/ dispatch_done(e)
  BY <1>5, StepDispatch
<1>6. CASE dispatch_end \/ dispatch_end_release
  BY <1>6, StepDispatchEnd
<1> QED BY <1>1, <1>2, <1>3, <1>4, <1>5, <1>6 DEF LoopStep

\* The network changes a socket within its bounds.
LEMMA StepKernel ==
  ASSUME IInv, KernelStep PROVE IInv'
<1>1. PICK d \in Desc : connected(d) \/ arrive(d) \/ drain_tx(d) \/ peer_fin(d) \/ peer_reset(d)
  BY DEF KernelStep
<1>2. sock[d] \in SockType
  BY DEF IInv, TypeOK
<1>3. ASSUME NEW k \in SockType, Kernel(d, k) PROVE IInv'
  BY <1>3, ShapeUnchanged DEF Kernel, IInv, TypeOK, muxVars, userVars, loopVars
<1>4. CASE connected(d)
  <2>1. [sock[d] EXCEPT !.st = "up", !.armed = TRUE] \in SockType
    BY <1>2 DEF SockType
  <2> QED BY <1>3, <1>4, <2>1 DEF connected
<1>5. CASE arrive(d)
  <2>1. sock[d].rx + 1 \in 0..RxMax
    BY <1>2, <1>5, BoundAssumption DEF SockType, arrive
  <2>2. [sock[d] EXCEPT !.rx = @ + 1, !.armed = TRUE] \in SockType
    BY <1>2, <2>1 DEF SockType
  <2> QED BY <1>3, <1>5, <2>2 DEF arrive
<1>6. CASE drain_tx(d)
  <2> DEFINE b == sock[d].armed \/ sock[d].tx = 0
  <2>1. b \in BOOLEAN
    OBVIOUS
  <2> HIDE DEF b
  <2>2. sock[d].tx + 1 \in 0..TxMax
    BY <1>2, <1>6, BoundAssumption DEF SockType, drain_tx
  <2>3. [sock[d] EXCEPT !.tx = @ + 1, !.armed = b] \in SockType
    BY <1>2, <2>1, <2>2 DEF SockType
  <2> QED BY <1>3, <1>6, <2>3 DEF drain_tx, b
<1>7. CASE peer_fin(d)
  <2>1. [sock[d] EXCEPT !.fin = TRUE, !.armed = TRUE] \in SockType
    BY <1>2 DEF SockType
  <2> QED BY <1>3, <1>7, <2>1 DEF peer_fin
<1>8. CASE peer_reset(d)
  <2>1. 0 \in 0..RxMax
    BY BoundAssumption
  <2>2. [sock[d] EXCEPT !.st = "reset", !.rx = 0, !.armed = TRUE] \in SockType
    BY <1>2, <2>1 DEF SockType
  <2> QED BY <1>3, <1>8, <2>2 DEF peer_reset
<1> QED BY <1>1, <1>4, <1>5, <1>6, <1>7, <1>8

\* Every step keeps the types and the shape of the loop.
LEMMA NextIInv == IInv /\ [Next]_vars => IInv'
<1> SUFFICES ASSUME IInv, [Next]_vars PROVE IInv'
  OBVIOUS
<1>1. CASE UNCHANGED vars
  <2>1. TypeOK'
    BY <1>1 DEF IInv, TypeOK, vars, muxVars, loopVars, userVars
  <2> QED BY <1>1, <2>1, ShapeUnchanged DEF IInv, vars
<1>2. CASE Next
  BY <1>2, StepCall, StepLoopCall, StepRun, StepLoop, StepKernel DEF Next
<1> QED BY <1>1, <1>2

\* Every state the engine, the multiplexer, its descriptors and operations
\* reach is well typed: in particular no read of the wake-up pipe, no
\* transfer and no partial transfer takes more than there is.
THEOREM TypeCorrect == Spec => []TypeOK
<1>1. IInv => TypeOK
  BY DEF IInv
<1> QED BY InitIInv, NextIInv, <1>1, PTL DEF Spec

-----------------------------------------------------------------------------
(* The self-pipe protocol.                                                 *)

\* A thread that has queued a closure is about to write the pipe.
LEMMA AddWakes ==
  ASSUME IInv, NoLostWakeup, NEW t \in Caller, NEW c, op_add(t, c), UNCHANGED wk
  PROVE  NoLostWakeup'
BY DEF IInv, TypeOK, NoLostWakeup, op_add

\* descriptor_release queues nothing, or wakes the loop up.
LEMMA ReleaseWakes ==
  ASSUME IInv, NoLostWakeup, NEW ds, NEW d \in Desc, NEW n, descriptor_release(ds, d, n),
         UNCHANGED <<pipe, wk>>
  PROVE  NoLostWakeup'
<1>1. CASE desc[d].ref # 1
  BY <1>1 DEF NoLostWakeup, descriptor_release
<1>2. CASE desc[d].ref = 1
  <2>1. abort_ops(Orphans(d), refcount - n - 1)
    BY <1>2 DEF descriptor_release
  <2>2. CASE Orphans(d) = <<>>
    <3>1. opq' = opq /\ pc' = pc
      BY <2>1, <2>2 DEF abort_ops, IInv, TypeOK
    <3> QED BY <3>1 DEF NoLostWakeup
  <2>3. CASE Orphans(d) # <<>>
    <3>1. pc'[Loop] = "wake"
      BY <2>1, <2>3 DEF abort_ops, IInv, TypeOK
    <3> QED BY <3>1 DEF NoLostWakeup
  <2> QED BY <2>2, <2>3
<1> QED BY <1>1, <1>2

\* Every step keeps the wake-up protocol, given the shape of the loop.
LEMMA NextWakes ==
  ASSUME IInv, NoLostWakeup, [Next]_vars PROVE NoLostWakeup'
<1> USE DEF loopVars, muxVars, userVars
<1>1. ASSUME UNCHANGED <<opq, pipe, pc, wk>> PROVE NoLostWakeup'
  BY <1>1 DEF NoLostWakeup
<1>2. CASE Call
  <2>1. PICK t \in Caller :
          \/ wake_up(t)
          \/ \E o \in Op : execute(t, o)
          \/ \E s \in Sock : unbind(t, s)
          \/ \E s \in Sock, o \in Op : connect(t, s, o)
          \/ \E s \in Sock, o \in Op : connect_fail(t, s, o)
          \/ \E s \in Sock : listen(t, s)
          \/ \E s \in Sock : udp_bind(t, s)
    BY <1>2 DEF Call
  <2>2. CASE wake_up(t)
    BY <2>2 DEF wake_up, NoLostWakeup, IInv, TypeOK
  <2>3. ASSUME NEW o \in Op, execute(t, o) PROVE NoLostWakeup'
    BY <2>3, AddWakes DEF execute
  <2>4. ASSUME NEW s \in Sock, unbind(t, s) PROVE NoLostWakeup'
    BY <2>4, AddWakes DEF unbind
  <2>5. ASSUME NEW s \in Sock, NEW o \in Op, connect(t, s, o) PROVE NoLostWakeup'
    BY <1>1, <2>5 DEF connect
  <2>6. ASSUME NEW s \in Sock, NEW o \in Op, connect_fail(t, s, o) PROVE NoLostWakeup'
    BY <2>6, AddWakes DEF connect_fail, fail_op
  <2>7. ASSUME NEW s \in Sock, listen(t, s) \/ udp_bind(t, s) PROVE NoLostWakeup'
    BY <1>1, <2>7 DEF listen, udp_bind, open_fd
  <2> QED BY <2>1, <2>2, <2>3, <2>4, <2>5, <2>6, <2>7
<1>3. CASE LoopCall
  <2>1. ASSUME NEW d, NEW o, NEW k, NEW s, post_io(d, o, k, s) PROVE NoLostWakeup'
    BY <2>1, AddWakes DEF post_io
  <2>2. ASSUME NEW o, NEW k, NEW e, fail_op(Loop, o, k, e) PROVE NoLostWakeup'
    BY <2>2, AddWakes DEF fail_op
  <2>3. ASSUME NEW s \in Sock, NEW o \in Op, udp_write_open(s, o) PROVE NoLostWakeup'
    BY <2>3, AddWakes DEF udp_write_open
  <2>4. ASSUME NEW s \in Sock, NEW o \in Op, accept_closed(s, o) PROVE NoLostWakeup'
    BY <1>1, <2>4 DEF accept_closed
  <2> QED BY <1>3, <2>1, <2>2, <2>3, <2>4
          DEF LoopCall, read, write, accept, udp_read, udp_read_closed, udp_write, udp_write_fail
<1>4. CASE LoopStep
  <2>1. CASE epoll_wait
    \* Nothing is unserved when epoll_wait is called: wk is "no" there.
    <3>1. wk = "no"
      BY <2>1 DEF IInv, LoopShape, InEvents, epoll_wait, At
    <3> QED BY <2>1, <3>1 DEF epoll_wait, NoLostWakeup, IInv, TypeOK
  <2>2. CASE run_pipe
    BY <2>2 DEF run_pipe, NoLostWakeup
  <2>3. CASE run_take
    BY <2>3 DEF run_take, NoLostWakeup
  <2>4. CASE op_run_unbind
    <3>1. Head(ops).desc \in Desc
      BY <2>4, HeadTail, ClosureFields DEF op_run_unbind, IInv, TypeOK
    <3> QED BY <2>4, <3>1, ReleaseWakes DEF op_run_unbind
  <2>5. CASE dispatch_end_release
    <3>1. cur.desc \in Desc
      BY <2>5 DEF IInv, TypeOK, LoopShape, CurType, dispatch_end_release, At
    <3> QED BY <2>5, <3>1, ReleaseWakes DEF dispatch_end_release
  <2>6. CASE \/ run_check \/ epoll_wait_timeout \/ \E d \in Desc : run_event(d)
             \/ run_no_take \/ run_drained \/ op_run_handler \/ op_run_dispatch
             \/ dispatch_end \/ handler_return
    BY <1>1, <2>6 DEF run_check, epoll_wait_timeout, run_event, run_no_take, run_drained,
         op_run_handler, op_run_dispatch, dispatch_end, handler_return
  <2>7. CASE \E e \in Ev : dispatch_empty(e) \/ dispatch_done(e) \/ dispatch_wait(e)
    BY <1>1, <2>7 DEF dispatch_empty, dispatch_done, dispatch_wait
  <2> QED BY <1>4, <2>1, <2>2, <2>3, <2>4, <2>5, <2>6, <2>7 DEF LoopStep
<1>5. CASE KernelStep
  BY <1>1, <1>5 DEF KernelStep, connected, arrive, drain_tx, peer_fin, peer_reset, Kernel
<1>6. CASE run \/ UNCHANGED vars
  BY <1>1, <1>6 DEF run, vars
<1> QED BY <1>2, <1>3, <1>4, <1>5, <1>6 DEF Next

\* Whatever threads post through execute, unbind, connect, read, write and
\* accept, and wherever the loop is in epoll::run, a queued closure has a
\* wake-up on its way: the loop never sleeps on a non-empty queue, and it
\* never reads an empty pipe.
THEOREM NoWakeupLost == Spec => []NoLostWakeup
<1>1. Init => NoLostWakeup
  BY DEF Init, NoLostWakeup
<1>2. IInv /\ NoLostWakeup /\ [Next]_vars => NoLostWakeup'
  BY NextWakes
<1> QED BY InitIInv, NextIInv, <1>1, <1>2, PTL DEF Spec

-----------------------------------------------------------------------------
(* References and operations.                                              *)
(*                                                                         *)
(* The engine's count, the descriptors' counts and the places of the       *)
(* operations hold only together: descriptor_release takes a descriptor    *)
(* off the engine's count because a descriptor with a reference to it is   *)
(* live, and an accept may fill its socket object because it is still in a *)
(* queue, so that its handler has not run.                                 *)

One(b) == IF b THEN 1 ELSE 0

\* Closures about a descriptor, closures of an operation, places of an
\* operation in a descriptor's queues.
About(q, d)  == Count(q, {c \in Closure : c.desc = d})
Carry(q, o)  == Count(q, {c \in Closure : c.op = o})
Queued(x, o) == Count(x.q["read"], {o}) + Count(x.q["write"], {o})

LiveDesc == {x \in DescType : x.st = "live"}
InUse(c, d) == c # Null /\ c.desc = d

\* The count of the engine.
Engine == refcount = Len(opq) + Len(ops) + Tally(desc, LiveDesc)

\* The count of a descriptor.
Refs(d) ==
  Tally(handle, {d}) + About(opq, d) + About(ops, d) + One(InUse(cur, d) /\ cur.release)
DescRefs(d) ==
  \/ desc[d].st = "live" /\ desc[d].ref = Refs(d)
  \/ /\ desc[d].st # "live" /\ Refs(d) = 0 /\ evs[d] = {} /\ ~InUse(cur, d)
     /\ desc[d].q["read"] = <<>> /\ desc[d].q["write"] = <<>>

\* The place of an operation.
Started(o) == op[o].kind \notin {"none", "dropped"}
Place(o) ==
  op[o].calls + Carry(opq, o) + Carry(ops, o)
    + (IF op[o].desc = Null THEN 0 ELSE Queued(desc[op[o].desc], o))
OpPlace(o) ==
  /\ Place(o) = One(Started(o))
  /\ \A d \in Desc \ {op[o].desc} : Queued(desc[d], o) = 0
  /\ ~Started(o) => op[o].desc = Null

\* A dispatch closure queues its operation where the operation belongs.
Sent(q, w) == \A i \in DOMAIN q : q[i].k = "dispatch" => w[q[i].op].desc = q[i].desc

\* An accept that is under way has an empty socket object of its own.
Accepting(o) == op[o].kind = "accept" /\ op[o].calls # 1
Targets ==
  \A o \in Op : Accepting(o) =>
    /\ op[o].to \in Sock /\ handle[op[o].to] = Null
    /\ \A p \in Op : Accepting(p) /\ op[p].to = op[o].to => p = o

RInv ==
  /\ Engine /\ Sent(opq, op) /\ Sent(ops, op) /\ Targets
  /\ \A d \in Desc : DescRefs(d)
  /\ \A o \in Op : OpPlace(o)

HIDE DEF Caller, Ev

\* A Boolean as a number.
LEMMA OneNat == \A b : One(b) \in {0, 1} /\ (b => One(b) = 1) /\ (~b => One(b) = 0)
BY DEF One

\* The counts of a queue of closures are numbers, and zero if it is empty.
LEMMA ClosureNat ==
  ASSUME NEW q \in Seq(Closure), NEW x
  PROVE  /\ About(q, x) \in Nat /\ Carry(q, x) \in Nat /\ Len(q) \in Nat
         /\ q = <<>> => About(q, x) = 0 /\ Carry(q, x) = 0 /\ Len(q) = 0
<1> DEFINE T == {c \in Closure : c.desc = x}
           U == {c \in Closure : c.op = x}
<1> HIDE DEF T, U
<1>1. Count(q, T) \in Nat /\ Count(q, U) \in Nat
  BY CountType
<1>2. Count(<<>>, T) = 0 /\ Count(<<>>, U) = 0
  BY CountSmall
<1>3. About(q, x) = Count(q, T) /\ Carry(q, x) = Count(q, U)
  BY DEF About, Carry, T, U
<1> QED BY <1>1, <1>2, <1>3

\* op_add: one closure more.
LEMMA AddClosure ==
  ASSUME NEW q \in Seq(Closure), NEW c \in Closure
  PROVE  /\ Append(q, c) \in Seq(Closure) /\ Len(Append(q, c)) = Len(q) + 1
         /\ \A x : About(Append(q, c), x) = About(q, x) + One(c.desc = x)
         /\ \A x : Carry(Append(q, c), x) = Carry(q, x) + One(c.op = x)
<1>1. Append(q, c) \in Seq(Closure) /\ Len(Append(q, c)) = Len(q) + 1
  OBVIOUS
<1>2. ASSUME NEW x
      PROVE  /\ About(Append(q, c), x) = About(q, x) + One(c.desc = x)
             /\ Carry(Append(q, c), x) = Carry(q, x) + One(c.op = x)
  <2> DEFINE T == {e \in Closure : e.desc = x}
             U == {e \in Closure : e.op = x}
  <2>1. (c \in T <=> c.desc = x) /\ (c \in U <=> c.op = x)
    OBVIOUS
  <2>2. About(q, x) = Count(q, T) /\ About(Append(q, c), x) = Count(Append(q, c), T)
    BY DEF About
  <2>3. Carry(q, x) = Count(q, U) /\ Carry(Append(q, c), x) = Count(Append(q, c), U)
    BY DEF Carry
  <2> HIDE DEF T, U
  <2>4. Count(Append(q, c), T) = Count(q, T) + IF c \in T THEN 1 ELSE 0
    BY CountAppend
  <2>5. Count(Append(q, c), U) = Count(q, U) + IF c \in U THEN 1 ELSE 0
    BY CountAppend
  <2> QED BY <2>1, <2>2, <2>3, <2>4, <2>5 DEF One
<1> QED BY <1>1, <1>2

\* op_run: the first closure is taken.
LEMMA TakeClosure ==
  ASSUME NEW q \in Seq(Closure), q # <<>>
  PROVE  /\ Head(q) \in Closure /\ Tail(q) \in Seq(Closure) /\ Len(Tail(q)) = Len(q) - 1
         /\ \A x : About(q, x) = About(Tail(q), x) + One(Head(q).desc = x)
         /\ \A x : Carry(q, x) = Carry(Tail(q), x) + One(Head(q).op = x)
<1>1. Head(q) \in Closure /\ Tail(q) \in Seq(Closure) /\ Len(Tail(q)) = Len(q) - 1
  OBVIOUS
<1>2. ASSUME NEW x
      PROVE  /\ About(q, x) = About(Tail(q), x) + One(Head(q).desc = x)
             /\ Carry(q, x) = Carry(Tail(q), x) + One(Head(q).op = x)
  <2> DEFINE T == {e \in Closure : e.desc = x}
             U == {e \in Closure : e.op = x}
  <2>1. (Head(q) \in T <=> Head(q).desc = x) /\ (Head(q) \in U <=> Head(q).op = x)
    BY <1>1
  <2>2. About(q, x) = Count(q, T) /\ About(Tail(q), x) = Count(Tail(q), T)
    BY DEF About
  <2>3. Carry(q, x) = Count(q, U) /\ Carry(Tail(q), x) = Count(Tail(q), U)
    BY DEF Carry
  <2> HIDE DEF T, U
  <2>4. Count(q, T) = Count(Tail(q), T) + IF Head(q) \in T THEN 1 ELSE 0
    BY CountTail
  <2>5. Count(q, U) = Count(Tail(q), U) + IF Head(q) \in U THEN 1 ELSE 0
    BY CountTail
  <2> QED BY <2>1, <2>2, <2>3, <2>4, <2>5 DEF One
<1> QED BY <1>1, <1>2

\* The operations s go back to the engine's queue.
Aborts(s) == [i \in 1..Len(s) |-> RunC(s[i])]

\* They carry each of their operations once and are about no descriptor.
LEMMA AbortClosures ==
  ASSUME NEW q \in Seq(Closure), NEW s \in Seq(Op), NEW r, r = Aborts(s)
  PROVE  /\ r \in Seq(Closure) /\ q \o r \in Seq(Closure) /\ Len(q \o r) = Len(q) + Len(s)
         /\ \A d \in Desc : About(q \o r, d) = About(q, d)
         /\ \A o \in Op : Carry(q \o r, o) = Carry(q, o) + Count(s, {o})
         /\ \A i \in DOMAIN r : r[i].k = "run"
<1>1. Len(s) \in Nat /\ \A i \in 1..Len(s) : s[i] \in Op /\ RunC(s[i]) \in Closure
  BY ClosureType
<1>2. r \in Seq(Closure) /\ Len(r) = Len(s) /\ DOMAIN r = 1..Len(s) /\ DOMAIN s = 1..Len(s)
      /\ \A i \in 1..Len(s) : r[i] = RunC(s[i])
  BY <1>1 DEF Aborts
<1>3. q \o r \in Seq(Closure) /\ Len(q \o r) = Len(q) + Len(s)
  BY <1>2
<1>4. \A i \in DOMAIN r : r[i].k = "run" /\ r[i].desc = Null /\ r[i].op = s[i]
  BY <1>2 DEF RunC
<1>5. ASSUME NEW d \in Desc PROVE About(q \o r, d) = About(q, d)
  <2> DEFINE T == {e \in Closure : e.desc = d}
  <2>1. \A i \in DOMAIN r : r[i] \notin T
    BY <1>4, NullAssumption
  <2> HIDE DEF T
  <2>2. Count(q \o r, T) = Count(q, T) + Count(r, T)
    BY <1>2, CountConcat
  <2>3. Count(r, T) = 0 /\ Count(q, T) \in Nat
    BY <1>2, <2>1, CountType
  <2>4. Count(q \o r, T) = Count(q, T)
    BY <2>2, <2>3
  <2> QED BY <2>4 DEF About, T
<1>6. ASSUME NEW o \in Op PROVE Carry(q \o r, o) = Carry(q, o) + Count(s, {o})
  <2> DEFINE U == {e \in Closure : e.op = o}
  <2>1. PlacesOf(r, U) = PlacesOf(s, {o})
    BY <1>1, <1>2, <1>4 DEF PlacesOf
  <2>2. Count(r, U) = Count(s, {o})
    BY <2>1 DEF Count
  <2> HIDE DEF U
  <2>3. Count(q \o r, U) = Count(q, U) + Count(r, U)
    BY <1>2, CountConcat
  <2> QED BY <2>2, <2>3 DEF Carry, U
<1> QED BY <1>2, <1>3, <1>4, <1>5, <1>6

\* Where an operation lies in a descriptor.
LEMMA QueuedNat ==
  ASSUME NEW x \in DescType, NEW o
  PROVE  /\ Queued(x, o) \in Nat /\ x.q \in QType /\ x.q["read"] \in Seq(Op) /\ x.q["write"] \in Seq(Op)
         /\ Count(x.q["read"], {o}) \in Nat /\ Count(x.q["write"], {o}) \in Nat
         /\ Count(x.q["read"] \o x.q["write"], {o}) = Queued(x, o)
<1>1. x.q \in QType
  BY DEF DescType
<1>2. x.q["read"] \in Seq(Op) /\ x.q["write"] \in Seq(Op)
  BY <1>1 DEF QType, Ev
<1>3. Count(x.q["read"], {o}) \in Nat /\ Count(x.q["write"], {o}) \in Nat
  BY <1>2, CountType
<1>4. Count(x.q["read"] \o x.q["write"], {o}) = Count(x.q["read"], {o}) + Count(x.q["write"], {o})
  BY <1>2, CountConcat
<1> QED BY <1>1, <1>2, <1>3, <1>4 DEF Queued

\* An operation is queued, or taken from the front.
LEMMA QueuedChange ==
  ASSUME NEW x \in DescType, NEW y \in DescType, NEW e \in Ev, NEW p \in Op, NEW o,
         \A f \in Ev : f # e => y.q[f] = x.q[f]
  PROVE  /\ y.q[e] = Append(x.q[e], p) => Queued(y, o) = Queued(x, o) + One(p = o)
         /\ x.q[e] # <<>> /\ y.q[e] = Tail(x.q[e]) => Queued(x, o) = Queued(y, o) + One(Head(x.q[e]) = o)
<1> DEFINE T == {o}
           a == Count(x.q[e], T)
           b == Count(y.q[e], T)
<1>1. x.q[e] \in Seq(Op) /\ y.q[e] \in Seq(Op) /\ e \in {"read", "write"}
  BY QueuedNat DEF Ev
<1>2. PICK f \in {"read", "write"} : f # e
  BY <1>1
<1> DEFINE c == Count(x.q[f], T)
<1>3. y.q[f] = x.q[f] /\ x.q[f] \in Seq(Op) /\ \A q \in Op : q \in T <=> q = o
  BY <1>2, QueuedNat DEF Ev
<1>4. Queued(x, o) = Count(x.q["read"], T) + Count(x.q["write"], T)
      /\ Queued(y, o) = Count(y.q["read"], T) + Count(y.q["write"], T)
  BY DEF Queued
<1> HIDE DEF T
<1>5. a \in Nat /\ b \in Nat /\ c \in Nat
  BY <1>1, <1>3, CountType
<1>6. Queued(x, o) = a + c /\ Queued(y, o) = b + c
  <2>1. CASE e = "read" /\ f = "write"
    BY <1>3, <1>4, <2>1
  <2>2. CASE e = "write" /\ f = "read"
    <3>1. Queued(x, o) = c + a /\ Queued(y, o) = c + b
      BY <1>3, <1>4, <2>2
    <3> HIDE DEF a, b, c
    <3> QED BY <1>5, <3>1
  <2> QED BY <1>1, <1>2, <2>1, <2>2
<1>7. y.q[e] = Append(x.q[e], p) => b = a + One(p = o)
  <2>1. Count(Append(x.q[e], p), T) = Count(x.q[e], T) + IF p \in T THEN 1 ELSE 0
    BY <1>1, CountAppend
  <2> QED BY <1>3, <2>1 DEF One
<1>8. x.q[e] # <<>> /\ y.q[e] = Tail(x.q[e]) => a = b + One(Head(x.q[e]) = o)
  <2>1. x.q[e] # <<>> => Head(x.q[e]) \in Op /\ Count(x.q[e], T) = Count(Tail(x.q[e]), T) + IF Head(x.q[e]) \in T THEN 1 ELSE 0
    BY <1>1, CountTail
  <2> QED BY <1>3, <2>1 DEF One
<1>9. ASSUME y.q[e] = Append(x.q[e], p) PROVE Queued(y, o) = Queued(x, o) + One(p = o)
  <2> DEFINE m == One(p = o)
  <2>1. m \in Nat /\ b = a + m
    BY <1>7, <1>9, OneNat
  <2> HIDE DEF a, b, c, m
  <2>2. b + c = (a + c) + m
    BY <1>5, <2>1
  <2> QED BY <1>6, <2>2 DEF m
<1>10. ASSUME x.q[e] # <<>>, y.q[e] = Tail(x.q[e]) PROVE Queued(x, o) = Queued(y, o) + One(Head(x.q[e]) = o)
  <2> DEFINE m == One(Head(x.q[e]) = o)
  <2>1. m \in Nat /\ a = b + m
    BY <1>8, <1>10, OneNat
  <2> HIDE DEF a, b, c, m
  <2>2. a + c = (b + c) + m
    BY <1>5, <2>1
  <2> QED BY <1>6, <2>2 DEF m
<1> QED BY <1>9, <1>10

\* The same in the form the steps use.
LEMMA QueuedAdd ==
  ASSUME NEW x \in DescType, NEW y \in DescType, NEW e \in Ev, NEW p \in Op,
         \A f \in Ev : f # e => y.q[f] = x.q[f], y.q[e] = Append(x.q[e], p)
  PROVE  \A o : Queued(y, o) = Queued(x, o) + One(p = o)
BY QueuedChange

\* One operation less in a queue.
LEMMA QueuedPop ==
  ASSUME NEW x \in DescType, NEW y \in DescType, NEW e \in Ev,
         \A f \in Ev : f # e => y.q[f] = x.q[f], x.q[e] # <<>>, y.q[e] = Tail(x.q[e])
  PROVE  \A o : Queued(x, o) = Queued(y, o) + One(Head(x.q[e]) = o)
<1>1. x.q[e] \in Seq(Op)
  BY QueuedNat DEF Ev
<1>2. Head(x.q[e]) \in Op
  BY <1>1
<1> QED BY <1>2, QueuedChange

\* The live descriptors, when one descriptor changes, and when none is
\* created or deleted.
LEMMA LiveChange ==
  ASSUME NEW ds \in [Desc -> DescType], NEW es \in [Desc -> DescType]
  PROVE  /\ Tally(ds, LiveDesc) \in Nat /\ (Tally(ds, LiveDesc) = 0 <=> \A d \in Desc : ds[d].st # "live")
         /\ (\A d \in Desc : es[d].st = ds[d].st) => Tally(es, LiveDesc) = Tally(ds, LiveDesc)
         /\ \A d \in Desc : (\A c \in Desc : c # d => es[c] = ds[c]) =>
              /\ ds[d].st # "live" /\ es[d].st = "live" => Tally(es, LiveDesc) = Tally(ds, LiveDesc) + 1
              /\ ds[d].st = "live" /\ es[d].st # "live" => Tally(ds, LiveDesc) = Tally(es, LiveDesc) + 1
<1>1. IsFiniteSet(Desc)
  BY FiniteAssumption
<1>2. \A d \in Desc : (ds[d] \in LiveDesc <=> ds[d].st = "live") /\ (es[d] \in LiveDesc <=> es[d].st = "live")
  BY DEF LiveDesc
<1>3. Tally(ds, LiveDesc) \in Nat /\ (Tally(ds, LiveDesc) = 0 <=> \A d \in Desc : ds[d] \notin LiveDesc)
  BY <1>1, TallyType
<1>4. ASSUME \A d \in Desc : es[d].st = ds[d].st PROVE Tally(es, LiveDesc) = Tally(ds, LiveDesc)
  <2>1. {x \in DOMAIN es : es[x] \in LiveDesc} = {x \in DOMAIN ds : ds[x] \in LiveDesc}
    BY <1>2, <1>4
  <2> QED BY <2>1 DEF Tally
<1>5. ASSUME NEW d \in Desc, \A c \in Desc : c # d => es[c] = ds[c]
      PROVE  /\ ds[d] \notin LiveDesc /\ es[d] \in LiveDesc => Tally(es, LiveDesc) = Tally(ds, LiveDesc) + 1
             /\ ds[d] \in LiveDesc /\ es[d] \notin LiveDesc => Tally(ds, LiveDesc) = Tally(es, LiveDesc) + 1
  BY <1>1, <1>5, TallyChange
<1> QED BY <1>2, <1>3, <1>4, <1>5

\* How many socket objects refer to a descriptor.
LEMMA HandleNat ==
  ASSUME NEW h \in [Sock -> Desc \cup {Null}], NEW d
  PROVE  Tally(h, {d}) \in Nat /\ (Tally(h, {d}) = 0 <=> \A s \in Sock : h[s] # d)
<1>1. IsFiniteSet(Sock)
  BY FiniteAssumption
<1>2. Tally(h, {d}) \in Nat /\ (Tally(h, {d}) = 0 <=> \A s \in Sock : h[s] \notin {d})
  BY <1>1, TallyType
<1> QED BY <1>2

\* The same, when one of them is assigned.
LEMMA HandleChange ==
  ASSUME NEW h \in [Sock -> Desc \cup {Null}], NEW g \in [Sock -> Desc \cup {Null}], NEW s \in Sock, NEW d,
         \A y \in Sock : y # s => g[y] = h[y]
  PROVE  /\ (h[s] = d <=> g[s] = d) => Tally(g, {d}) = Tally(h, {d})
         /\ h[s] # d /\ g[s] = d => Tally(g, {d}) = Tally(h, {d}) + 1
         /\ h[s] = d /\ g[s] # d => Tally(h, {d}) = Tally(g, {d}) + 1
<1> DEFINE T == {d}
           B == Desc \cup {Null}
<1>1. IsFiniteSet(Sock) /\ h \in [Sock -> B] /\ g \in [Sock -> B]
  BY FiniteAssumption
<1>2. (h[s] \in T <=> h[s] = d) /\ (g[s] \in T <=> g[s] = d)
  OBVIOUS
<1> HIDE DEF T, B
<1>3. /\ (h[s] \in T <=> g[s] \in T) => Tally(g, T) = Tally(h, T)
      /\ h[s] \notin T /\ g[s] \in T => Tally(g, T) = Tally(h, T) + 1
      /\ h[s] \in T /\ g[s] \notin T => Tally(h, T) = Tally(g, T) + 1
  BY <1>1, TallyChange
<1> QED BY <1>2, <1>3 DEF T

\* The counts of a state are numbers.
LEMMA StateNumbers ==
  ASSUME IInv
  PROVE  /\ \A x : About(opq, x) \in Nat /\ About(ops, x) \in Nat /\ Carry(opq, x) \in Nat /\ Carry(ops, x) \in Nat
         /\ Len(opq) \in Nat /\ Len(ops) \in Nat /\ Tally(desc, LiveDesc) \in Nat /\ refcount \in Int
         /\ \A d \in Desc : \A o : Queued(desc[d], o) \in Nat
         /\ \A d \in Desc : Tally(handle, {d}) \in Nat /\ desc[d].ref \in Int
         /\ \A o \in Op : op[o].calls \in Nat /\ op[o].desc \in Desc \cup {Null}
<1>1. /\ opq \in Seq(Closure) /\ ops \in Seq(Closure) /\ desc \in [Desc -> DescType] /\ refcount \in Int
      /\ handle \in [Sock -> Desc \cup {Null}] /\ op \in [Op -> OpType]
  BY DEF IInv, TypeOK
<1>2. /\ \A x : About(opq, x) \in Nat /\ About(ops, x) \in Nat /\ Carry(opq, x) \in Nat /\ Carry(ops, x) \in Nat
      /\ Len(opq) \in Nat /\ Len(ops) \in Nat
  BY <1>1, ClosureNat
<1>3. Tally(desc, LiveDesc) \in Nat
  BY <1>1, LiveChange
<1>4. \A d \in Desc : \A o : Queued(desc[d], o) \in Nat
  BY <1>1, QueuedNat
<1>5. \A d \in Desc : Tally(handle, {d}) \in Nat
  BY <1>1, HandleNat
<1>6. \A d \in Desc : desc[d].ref \in Int
  BY <1>1 DEF DescType
<1>7. \A o \in Op : op[o].calls \in Nat /\ op[o].desc \in Desc \cup {Null}
  BY <1>1 DEF OpType
<1> QED BY <1>1, <1>2, <1>3, <1>4, <1>5, <1>6, <1>7

\* What refers to a descriptor keeps it live.
LEMMA Referred ==
  ASSUME IInv, RInv, NEW d \in Desc,
         \/ \E s \in Sock : handle[s] = d
         \/ About(ops, d) # 0 \/ About(opq, d) # 0 \/ InUse(cur, d) \/ evs[d] # {}
  PROVE  desc[d].st = "live" /\ desc[d].ref = Refs(d)
<1>1. DescRefs(d)
  BY DEF RInv
<1> SUFFICES ASSUME desc[d].st # "live", Refs(d) = 0, evs[d] = {}, ~InUse(cur, d) PROVE FALSE
  BY <1>1 DEF DescRefs
<1>2. handle \in [Sock -> Desc \cup {Null}]
  BY DEF IInv, TypeOK
<1>3. Tally(handle, {d}) = 0 <=> \A s \in Sock : handle[s] # d
  BY <1>2, HandleNat
<1> DEFINE a == Tally(handle, {d})
           b == About(opq, d)
           c == About(ops, d)
           e == One(InUse(cur, d) /\ cur.release)
<1>4. a \in Nat /\ b \in Nat /\ c \in Nat /\ e \in Nat /\ a + b + c + e = 0
  BY StateNumbers, OneNat DEF Refs
<1>5. (b # 0 \/ c # 0) \/ a # 0
  BY <1>3
<1> HIDE DEF a, b, c, e
<1> QED BY <1>4, <1>5

\* An operation that has not been started is nowhere.
LEMMA FreshNowhere ==
  ASSUME IInv, RInv, NEW o \in Op, ~Started(o)
  PROVE  /\ op[o].desc = Null /\ op[o].calls = 0 /\ Carry(opq, o) = 0 /\ Carry(ops, o) = 0
         /\ \A d \in Desc : Queued(desc[d], o) = 0
<1>1. OpPlace(o)
  BY DEF RInv
<1>2. op[o].desc = Null /\ Place(o) = 0
  BY <1>1 DEF OpPlace, One
<1>3. op[o].calls + Carry(opq, o) + Carry(ops, o) + 0 = 0
  BY <1>2 DEF Place
<1>4. \A d \in Desc : Queued(desc[d], o) = 0
  BY <1>1, <1>2, NullAssumption DEF OpPlace
<1>5. op[o].calls \in Nat /\ Carry(opq, o) \in Nat /\ Carry(ops, o) \in Nat
  BY StateNumbers
<1> DEFINE a == op[o].calls
           b == Carry(opq, o)
           c == Carry(ops, o)
<1>6. a \in Nat /\ b \in Nat /\ c \in Nat /\ a + b + c + 0 = 0
  BY <1>3, <1>5
<1> HIDE DEF a, b, c
<1>7. a = 0 /\ b = 0 /\ c = 0
  BY <1>6
<1> QED BY <1>2, <1>4, <1>7 DEF a, b, c

\* No closure carries it.
LEMMA NotCarried ==
  ASSUME NEW q \in Seq(Closure), NEW o, Carry(q, o) = 0
  PROVE  \A i \in DOMAIN q : q[i].op # o
<1> DEFINE U == {c \in Closure : c.op = o}
<1>1. \A i \in DOMAIN q : q[i].op = o => q[i] \in U
  OBVIOUS
<1>2. Count(q, U) = 0
  BY DEF Carry
<1> HIDE DEF U
<1> QED BY <1>1, <1>2, CountType

\* A descriptor that a step leaves alone.
LEMMA DescFrame ==
  ASSUME NEW d \in Desc, DescRefs(d), Refs(d)' = Refs(d), desc'[d].st = desc[d].st,
         desc'[d].ref = desc[d].ref, desc'[d].q = desc[d].q,
         desc[d].st # "live" => evs'[d] = {} /\ ~InUse(cur', d)
  PROVE  DescRefs(d)'
BY DEF DescRefs

\* An operation that a step leaves where it is.
LEMMA OpFrame ==
  ASSUME NEW o \in Op, OpPlace(o), op'[o].kind = op[o].kind, op'[o].desc = op[o].desc,
         op'[o].calls = op[o].calls, Carry(opq', o) = Carry(opq, o), Carry(ops', o) = Carry(ops, o),
         op[o].desc \in Desc \cup {Null}, \A d \in Desc : Queued(desc'[d], o) = Queued(desc[d], o)
  PROVE  OpPlace(o)'
<1>1. Started(o)' = Started(o)
  BY DEF Started
<1>2. Place(o)' = Place(o)
  BY DEF Place
<1> QED BY <1>1, <1>2 DEF OpPlace

\* The socket objects that accepts fill, when no accept starts.
LEMMA TargetsKeep ==
  ASSUME Targets,
         \A o \in Op : Accepting(o)' => Accepting(o) /\ op'[o].to = op[o].to /\ handle'[op[o].to] = Null
  PROVE  Targets'
BY DEF Targets

\* The closures of a queue stay with their descriptors while operations do.
LEMMA SentKeep ==
  ASSUME NEW q \in Seq(Closure), NEW v, NEW w, Sent(q, v), \A o \in Op : w[o].desc = v[o].desc
  PROVE  Sent(q, w)
<1> SUFFICES ASSUME NEW i \in DOMAIN q, q[i].k = "dispatch" PROVE w[q[i].op].desc = q[i].desc
  BY DEF Sent
<1>1. q[i] \in Closure
  OBVIOUS
<1>2. q[i].op \in Op
  BY <1>1, ClosureFields
<1> QED BY <1>2 DEF Sent

\* A step that moves no reference and no operation.
LEMMA Quiet ==
  ASSUME IInv, RInv, UNCHANGED <<opq, ops, refcount, handle, desc>>,
         \A o \in Op : /\ op'[o].kind = op[o].kind /\ op'[o].desc = op[o].desc
                       /\ op'[o].to = op[o].to /\ op'[o].calls = op[o].calls,
         \A d \in Desc : (InUse(cur', d) /\ cur'.release) <=> (InUse(cur, d) /\ cur.release),
         \A d \in Desc : desc[d].st # "live" => evs'[d] = {} /\ ~InUse(cur', d)
  PROVE  RInv'
<1>1. Engine'
  BY DEF RInv, Engine
<1>2. opq \in Seq(Closure) /\ ops \in Seq(Closure) /\ Sent(opq, op) /\ Sent(ops, op)
  BY DEF IInv, TypeOK, RInv
<1>3. Sent(opq, op') /\ Sent(ops, op')
  BY <1>2, SentKeep
<1>4. Targets'
  <2>1. \A o \in Op : Accepting(o)' => Accepting(o) /\ op'[o].to = op[o].to
    BY DEF Accepting
  <2>2. \A o \in Op : Accepting(o) => handle'[op[o].to] = Null
    BY DEF RInv, Targets
  <2> QED BY <2>1, <2>2, TargetsKeep DEF RInv
<1>5. ASSUME NEW d \in Desc PROVE DescRefs(d)'
  <2>1. One(InUse(cur', d) /\ cur'.release) = One(InUse(cur, d) /\ cur.release)
    BY DEF One
  <2>2. Refs(d)' = Refs(d)
    BY <2>1 DEF Refs
  <2>3. DescRefs(d)
    BY DEF RInv
  <2> QED BY <2>2, <2>3, DescFrame
<1>6. ASSUME NEW o \in Op PROVE OpPlace(o)'
  <2>1. OpPlace(o) /\ op[o].desc \in Desc \cup {Null}
    BY StateNumbers DEF RInv
  <2> QED BY <2>1, OpFrame
<1> QED BY <1>1, <1>3, <1>4, <1>5, <1>6 DEF RInv

\* Most steps of the loop, of the kernel and of a thread writing its byte.
LEMMA QuietSteps ==
  ASSUME IInv, RInv,
         \/ \E t \in Caller : wake_up(t)
         \/ run \/ run_check \/ epoll_wait \/ epoll_wait_timeout
         \/ (\E d \in Desc : run_event(d)) \/ run_pipe \/ run_no_take \/ run_drained
         \/ (\E e \in Ev : dispatch_empty(e)) \/ (\E e \in Ev : dispatch_wait(e))
         \/ dispatch_end \/ handler_return \/ KernelStep \/ UNCHANGED vars
  PROVE  RInv'
<1>1. \A d \in Desc : desc[d].st # "live" => evs[d] = {} /\ ~InUse(cur, d)
  BY Referred
<1>2. ASSUME UNCHANGED <<opq, ops, refcount, handle, desc, op, cur, evs>> PROVE RInv'
  BY <1>1, <1>2, Quiet
<1>3. CASE \E t \in Caller : wake_up(t)
  BY <1>2, <1>3 DEF wake_up, loopVars, userVars
<1>4. CASE run \/ run_check \/ epoll_wait_timeout \/ run_pipe \/ run_no_take \/ run_drained \/ handler_return
  BY <1>2, <1>4 DEF run, run_check, epoll_wait_timeout, run_pipe, run_no_take, run_drained,
       handler_return, muxVars, userVars
<1>5. CASE KernelStep \/ UNCHANGED vars
  BY <1>2, <1>5 DEF KernelStep, connected, arrive, drain_tx, peer_fin, peer_reset, Kernel,
       vars, muxVars, loopVars, userVars
<1>6. CASE epoll_wait
  <2>1. \A d \in Desc : desc[d].st # "live" => evs'[d] = {}
    BY <1>6 DEF epoll_wait, Ready, Live
  <2>2. UNCHANGED <<opq, ops, refcount, handle, desc, op, cur>>
    BY <1>6 DEF epoll_wait, muxVars, userVars
  <2> QED BY <1>1, <2>1, <2>2, Quiet
<1>7. CASE \E d \in Desc : run_event(d)
  <2>1. PICK d \in Desc : run_event(d)
    BY <1>7
  <2>2. UNCHANGED <<opq, ops, refcount, handle, desc, op>> /\ evs[d] # {} /\ lpc = "events"
        /\ cur' = [desc |-> d, evs |-> evs[d], release |-> FALSE] /\ evs' = [evs EXCEPT ![d] = {}]
    BY <2>1 DEF run_event, At, muxVars, userVars
  <2>3. cur = Null
    BY <2>2 DEF IInv, LoopShape
  <2>4. \A x \in Desc : (InUse(cur', x) /\ cur'.release) <=> (InUse(cur, x) /\ cur.release)
    BY <2>2, <2>3 DEF InUse
  <2>5. evs \in [Desc -> SUBSET Ev]
    BY DEF IInv, TypeOK
  <2>6. \A x \in Desc : desc[x].st # "live" => evs'[x] = {} /\ ~InUse(cur', x)
    BY <1>1, <2>2, <2>5 DEF InUse
  <2> QED BY <2>2, <2>4, <2>6, Quiet
<1>8. ASSUME cur # Null, \E e : cur' = [cur EXCEPT !.evs = @ \ {e}]
      PROVE  /\ \A x \in Desc : (InUse(cur', x) /\ cur'.release) <=> (InUse(cur, x) /\ cur.release)
             /\ \A x \in Desc : InUse(cur', x) <=> InUse(cur, x)
  <2>1. cur \in CurType
    BY <1>8 DEF IInv, TypeOK
  <2>2. cur'.desc = cur.desc /\ cur'.release = cur.release
    BY <1>8, <2>1 DEF CurType
  <2>3. cur' \in [desc: Desc, evs: SUBSET Ev, release: BOOLEAN]
    BY <1>8, <2>1 DEF CurType
  <2>4. cur' # Null
    BY <2>3, NullAssumption DEF CurType
  <2> QED BY <1>8, <2>2, <2>4 DEF InUse
<1>9. CASE \E e \in Ev : dispatch_empty(e)
  <2>1. PICK e \in Ev : dispatch_empty(e)
    BY <1>9
  <2>2. UNCHANGED <<opq, ops, refcount, handle, desc, op, evs>> /\ cur # Null /\ cur' = [cur EXCEPT !.evs = @ \ {e}]
    BY <2>1 DEF dispatch_empty, Dispatching, At, IInv, LoopShape, muxVars, userVars
  <2> QED BY <1>1, <1>8, <2>2, Quiet
<1>10. CASE \E e \in Ev : dispatch_wait(e)
  <2>1. PICK e \in Ev : dispatch_wait(e)
    BY <1>10
  <2>2. UNCHANGED <<opq, ops, refcount, handle, desc, evs>> /\ cur # Null /\ cur' = [cur EXCEPT !.evs = @ \ {e}]
    BY <2>1 DEF dispatch_wait, Dispatching, At, IInv, LoopShape, muxVars
  <2>3. PICK o, r : op' = [op EXCEPT ![o].remain = r]
    BY <2>1 DEF dispatch_wait
  <2>4. op \in [Op -> OpType]
    BY DEF IInv, TypeOK
  <2>5. \A p \in Op : /\ op'[p].kind = op[p].kind /\ op'[p].desc = op[p].desc
                      /\ op'[p].to = op[p].to /\ op'[p].calls = op[p].calls
    BY <2>3, <2>4 DEF OpType
  <2> QED BY <1>1, <1>8, <2>2, <2>5, Quiet
<1>11. CASE dispatch_end
  <2>1. UNCHANGED <<opq, ops, refcount, handle, desc, op, evs>> /\ ~cur.release /\ cur' = Null
    BY <1>11 DEF dispatch_end, muxVars, userVars
  <2>2. \A x \in Desc : ~InUse(cur', x) /\ ~(InUse(cur, x) /\ cur.release)
    BY <2>1 DEF InUse
  <2> QED BY <1>1, <2>1, <2>2, Quiet
<1> QED BY <1>3, <1>4, <1>5, <1>6, <1>7, <1>9, <1>10, <1>11

\* The operation a call starts.
LEMMA StartFields ==
  ASSUME IInv, NEW o \in Fresh, NEW k, NEW d, NEW s, NEW e, StartOp(o, k, d, s, e)
  PROVE  /\ o \in Op /\ ~Started(o) /\ op'[o].kind = k /\ op'[o].desc = d /\ op'[o].to = s /\ op'[o].calls = 0
         /\ \A p \in Op : p # o => op'[p] = op[p]
BY DEF StartOp, Fresh, Started, IInv, TypeOK

\* A socket object is handed to one accept at a time, and to nothing else
\* before that accept is over.
LEMMA StartTargets ==
  ASSUME IInv, RInv, NEW o \in Fresh, NEW k, NEW d, NEW s, NEW e, StartOp(o, k, d, s, e),
         k = "accept" => s \in Sock /\ Unused(s) /\ handle' = handle,
         \A x \in Sock : handle'[x] = handle[x] \/ Unused(x)
  PROVE  Targets'
<1>1. /\ o \in Op /\ op'[o].kind = k /\ op'[o].to = s /\ \A p \in Op : p # o => op'[p] = op[p]
  BY StartFields
<1>2. \A p \in Op : p # o => (Accepting(p)' <=> Accepting(p)) /\ op'[p].to = op[p].to
  BY <1>1 DEF Accepting
<1>3. \A p \in Op : Accepting(p) => op[p].to \in Sock /\ handle[op[p].to] = Null /\ ~Unused(op[p].to)
  BY DEF RInv, Targets, Accepting, Unused
<1>4. Accepting(o)' => s \in Sock /\ Unused(s) /\ handle'[s] = Null
  BY <1>1 DEF Accepting, Unused
<1>5. \A p \in Op : Accepting(p)' => op'[p].to \in Sock /\ handle'[op'[p].to] = Null
  BY <1>1, <1>2, <1>3, <1>4
<1>6. \A p, q \in Op : Accepting(p) /\ Accepting(q) /\ op[p].to = op[q].to => p = q
  BY DEF RInv, Targets
<1>7. \A p, q \in Op : Accepting(p)' /\ Accepting(q)' /\ op'[q].to = op'[p].to => q = p
  BY <1>1, <1>2, <1>3, <1>4, <1>6
<1> QED BY <1>5, <1>7 DEF Targets

\* The closure c of a new operation o is put into the engine's queue.
LEMMA StartPlaces ==
  ASSUME IInv, RInv, NEW o \in Fresh, NEW k \in UserKind, NEW d \in Desc \cup {Null}, NEW s, NEW e,
         StartOp(o, k, d, s, e), NEW c \in Closure, c.op = o, c.k = "dispatch" => c.desc = d,
         opq' = Append(opq, c), ops' = ops,
         \A x \in Desc, p \in Op : Queued(desc'[x], p) = Queued(desc[x], p)
  PROVE  Sent(opq, op)' /\ Sent(ops, op)' /\ \A p \in Op : OpPlace(p)'
<1>1. /\ o \in Op /\ ~Started(o) /\ op'[o].kind = k /\ op'[o].desc = d /\ op'[o].calls = 0
      /\ \A p \in Op : p # o => op'[p] = op[p]
  BY StartFields
<1>2. /\ Carry(opq, o) = 0 /\ Carry(ops, o) = 0 /\ \A x \in Desc : Queued(desc[x], o) = 0
  BY <1>1, FreshNowhere
<1>3. opq \in Seq(Closure) /\ ops \in Seq(Closure) /\ Sent(opq, op) /\ Sent(ops, op)
  BY DEF IInv, TypeOK, RInv
<1>4. \A x : Carry(opq', x) = Carry(opq, x) + One(o = x)
  BY <1>3, AddClosure
<1>5. /\ \A i \in DOMAIN opq : opq[i].k = "dispatch" => opq[i].op \in Op /\ opq[i].op # o
      /\ \A i \in DOMAIN ops : ops[i].k = "dispatch" => ops[i].op \in Op /\ ops[i].op # o
  <2>1. \A q \in Seq(Closure) : \A i \in DOMAIN q : q[i].k = "dispatch" => q[i].op \in Op
    BY ClosureFields
  <2> QED BY <1>2, <1>3, <2>1, NotCarried
<1>6. Sent(ops, op') /\ Sent(opq, op')
  BY <1>1, <1>3, <1>5 DEF Sent
<1>7. Sent(opq', op')
  <2>1. \A i \in DOMAIN opq' : (i \in DOMAIN opq /\ opq'[i] = opq[i]) \/ opq'[i] = c
    BY <1>3
  <2>2. c.k = "dispatch" => op'[c.op].desc = c.desc
    BY <1>1
  <2> QED BY <1>6, <2>1, <2>2 DEF Sent
<1>8. OpPlace(o)'
  <2>1. Started(o)'
    BY <1>1 DEF Started, UserKind
  <2>2. Carry(opq', o) = 1 /\ Carry(ops', o) = 0
    BY <1>2, <1>4 DEF One
  <2>3. (IF op'[o].desc = Null THEN 0 ELSE Queued(desc'[op'[o].desc], o)) = 0
    BY <1>1, <1>2
  <2>4. Place(o)' = 0 + 1 + 0 + 0
    BY <1>1, <2>2, <2>3 DEF Place
  <2>5. Place(o)' = One(Started(o)')
    BY <2>1, <2>4 DEF One
  <2>6. \A x \in Desc : Queued(desc'[x], o) = 0
    BY <1>1, <1>2
  <2> QED BY <2>1, <2>5, <2>6 DEF OpPlace
<1>9. ASSUME NEW p \in Op, p # o PROVE OpPlace(p)'
  <2>1. OpPlace(p) /\ op[p].desc \in Desc \cup {Null} /\ Carry(opq, p) \in Nat
    BY StateNumbers DEF RInv
  <2>2. Carry(opq', p) = Carry(opq, p) + 0
    BY <1>4, <1>9 DEF One
  <2>3. Carry(opq', p) = Carry(opq, p)
    BY <2>1, <2>2
  <2> QED BY <1>1, <1>9, <2>1, <2>3, OpFrame
<1> QED BY <1>6, <1>7, <1>8, <1>9

\* The references a step adds: by a closure, by a socket object.
LEMMA RefsAdd ==
  ASSUME IInv, UNCHANGED <<ops, cur>>, NEW x \in Desc, NEW m \in Nat, NEW n \in Nat,
         Tally(handle', {x}) = Tally(handle, {x}) + m, About(opq', x) = About(opq, x) + n
  PROVE  Refs(x)' = Refs(x) + m + n /\ Refs(x) \in Nat
<1> DEFINE a == Tally(handle, {x})
           b == About(opq, x)
           c == About(ops, x)
           e == One(InUse(cur, x) /\ cur.release)
<1>1. a \in Nat /\ b \in Nat /\ c \in Nat /\ e \in Nat
  BY StateNumbers, OneNat
<1>2. Refs(x) = a + b + c + e /\ Refs(x)' = (a + m) + (b + n) + c + e
  BY DEF Refs
<1> HIDE DEF a, b, c, e
<1> QED BY <1>1, <1>2

\* An empty socket object is given the descriptor d.
Given(h, g, d) == \A x \in Desc : Tally(g, {x}) = Tally(h, {x}) + One(d = x)

\* Filling an empty socket object gives it the descriptor.
LEMMA HandleSet ==
  ASSUME NEW h \in [Sock -> Desc \cup {Null}], NEW g \in [Sock -> Desc \cup {Null}], NEW s \in Sock, h[s] = Null,
         NEW d \in Desc, g[s] = d, \A y \in Sock : y # s => g[y] = h[y]
  PROVE  Given(h, g, d)
<1> SUFFICES ASSUME NEW x \in Desc PROVE Tally(g, {x}) = Tally(h, {x}) + One(d = x)
  BY DEF Given
<1>1. h[s] # x
  BY NullAssumption
<1>2. /\ (h[s] = x <=> g[s] = x) => Tally(g, {x}) = Tally(h, {x})
      /\ h[s] # x /\ g[s] = x => Tally(g, {x}) = Tally(h, {x}) + 1
  BY HandleChange
<1>3. Tally(h, {x}) \in Nat
  BY HandleNat
<1> QED BY <1>1, <1>2, <1>3 DEF One

\* The engine's count, as the queue and the live descriptors change.
LEMMA EngineChange ==
  ASSUME IInv, RInv, UNCHANGED ops, NEW m \in Nat, NEW n \in Nat,
         Len(opq') = Len(opq) + m, Tally(desc', LiveDesc) = Tally(desc, LiveDesc) + n, refcount' = refcount + m + n
  PROVE  Engine'
<1> DEFINE a == Len(opq)
           b == Len(ops)
           c == Tally(desc, LiveDesc)
<1>1. a \in Nat /\ b \in Nat /\ c \in Nat /\ refcount = a + b + c
  BY StateNumbers DEF RInv, Engine
<1>2. Engine' <=> refcount' = (a + m) + b + (c + n)
  BY DEF Engine
<1> HIDE DEF a, b, c
<1> QED BY <1>1, <1>2

\* execute, and an operation that fails before it has a descriptor.
LEMMA StepPlain ==
  ASSUME IInv, RInv, NEW o \in Fresh, NEW k \in UserKind \ {"accept"}, NEW e, StartOp(o, k, Null, Null, e),
         opq' = Append(opq, RunC(o)), refcount' = refcount + 1, UNCHANGED <<loopVars, handle, desc>>
  PROVE  RInv'
<1>1. o \in Op /\ RunC(o) \in Closure /\ RunC(o).op = o /\ RunC(o).k = "run" /\ RunC(o).desc = Null
  BY StartFields, ClosureType DEF RunC
<1>2. UNCHANGED <<evs, ops, cur>> /\ opq \in Seq(Closure)
  BY DEF loopVars, IInv, TypeOK
<1>3. Len(opq') = Len(opq) + 1 /\ \A x : About(opq', x) = About(opq, x) + One(Null = x)
  BY <1>1, <1>2, AddClosure
<1>4. Engine'
  <2>1. Tally(desc', LiveDesc) = Tally(desc, LiveDesc) + 0 /\ refcount' = refcount + 1 + 0
    BY StateNumbers
  <2> QED BY <1>2, <1>3, <2>1, EngineChange
<1>5. Sent(opq, op)' /\ Sent(ops, op)' /\ \A p \in Op : OpPlace(p)'
  BY <1>1, <1>2, StartPlaces
<1>6. Targets'
  BY StartTargets
<1>7. ASSUME NEW x \in Desc PROVE DescRefs(x)'
  <2>1. About(opq', x) = About(opq, x) + 0
    BY <1>3, NullAssumption DEF One
  <2>2. Tally(handle', {x}) = Tally(handle, {x}) + 0
    BY StateNumbers
  <2>3. Refs(x)' = Refs(x) + 0 + 0 /\ Refs(x) \in Nat
    BY <1>2, <2>1, <2>2, RefsAdd
  <2>4. Refs(x)' = Refs(x)
    BY <2>3
  <2>5. DescRefs(x) /\ (desc[x].st # "live" => evs'[x] = {} /\ ~InUse(cur', x))
    BY <1>2, Referred DEF RInv
  <2> QED BY <2>4, <2>5, DescFrame
<1> QED BY <1>4, <1>5, <1>6, <1>7 DEF RInv

\* read, write and accept: the closure holds a reference.
LEMMA StepPostIo ==
  ASSUME IInv, RInv, IInv', NEW d \in Desc, desc[d].st = "live", NEW o, NEW k, NEW s, post_io(d, o, k, s),
         k = "accept" => s \in Sock /\ Unused(s)
  PROVE  RInv'
<1>1. /\ o \in Fresh /\ k \in UserKind /\ StartOp(o, k, d, s, "none") /\ opq' = Append(opq, DispC(d, o))
      /\ desc' = [desc EXCEPT ![d].ref = @ + 1] /\ refcount' = refcount + 1
      /\ UNCHANGED <<handle, ops, cur, evs>>
  BY KindAssumption DEF post_io, op_add, loopVars
<1>2. o \in Op /\ DispC(d, o) \in Closure /\ DispC(d, o).op = o /\ DispC(d, o).desc = d
  BY <1>1, StartFields, ClosureType DEF DispC
<1>3. opq \in Seq(Closure) /\ desc \in [Desc -> DescType] /\ desc' \in [Desc -> DescType]
  BY DEF IInv, TypeOK
<1>4. Len(opq') = Len(opq) + 1 /\ \A x : About(opq', x) = About(opq, x) + One(d = x)
  BY <1>1, <1>2, <1>3, AddClosure
<1>5. /\ \A x \in Desc : desc'[x].st = desc[x].st /\ desc'[x].q = desc[x].q /\ (x # d => desc'[x].ref = desc[x].ref)
      /\ desc'[d].ref = desc[d].ref + 1
  BY <1>1, <1>3 DEF DescType
<1>6. Engine'
  <2>1. Tally(desc', LiveDesc) = Tally(desc, LiveDesc)
    BY <1>3, <1>5, LiveChange
  <2>2. Tally(desc', LiveDesc) = Tally(desc, LiveDesc) + 0 /\ refcount' = refcount + 1 + 0
    BY <1>1, <2>1, StateNumbers
  <2>3. ops' = ops /\ Len(opq') = Len(opq) + 1
    BY <1>1, <1>4
  <2> QED BY <2>2, <2>3, EngineChange
<1>7. Sent(opq, op)' /\ Sent(ops, op)' /\ \A p \in Op : OpPlace(p)'
  <2>1. \A x \in Desc, p \in Op : Queued(desc'[x], p) = Queued(desc[x], p)
    BY <1>5 DEF Queued
  <2> QED BY <1>1, <1>2, <2>1, StartPlaces
<1>8. Targets'
  BY <1>1, StartTargets
<1>9. ASSUME NEW x \in Desc PROVE DescRefs(x)'
  <2>1. Tally(handle', {x}) = Tally(handle, {x}) + 0 /\ One(d = x) \in Nat
    BY <1>1, StateNumbers DEF One
  <2>2. Refs(x)' = Refs(x) + 0 + One(d = x) /\ Refs(x) \in Nat
    <3>1. ops' = ops /\ cur' = cur /\ About(opq', x) = About(opq, x) + One(d = x)
      BY <1>1, <1>4
    <3> QED BY <2>1, <3>1, RefsAdd, ZenonT(30)
  <2>3. DescRefs(x) /\ (desc[x].st # "live" => evs'[x] = {} /\ ~InUse(cur', x))
    BY <1>1, Referred DEF RInv
  <2>4. CASE x = d
    <3>1. desc[d].ref = Refs(d) /\ desc'[d].st = "live"
      BY <1>5, <2>3, <2>4 DEF DescRefs
    <3>2. Refs(d)' = Refs(d) + 0 + 1 /\ Refs(d) \in Nat
      BY <2>2, <2>4 DEF One
    <3>3. desc'[d].ref = Refs(d)'
      BY <1>5, <3>1, <3>2
    <3> QED BY <2>4, <3>1, <3>3 DEF DescRefs
  <2>5. CASE x # d
    <3>1. Refs(x)' = Refs(x) + 0 + 0 /\ Refs(x) \in Nat
      BY <2>2, <2>5 DEF One
    <3>2. Refs(x)' = Refs(x)
      BY <3>1
    <3> QED BY <1>5, <2>3, <2>5, <3>2, DescFrame
  <2> QED BY <2>4, <2>5
<1> QED BY <1>6, <1>7, <1>8, <1>9 DEF RInv

\* accept on a closed acceptor.
LEMMA StepDropped ==
  ASSUME IInv, RInv, NEW s, NEW o, accept_closed(s, o)
  PROVE  RInv'
<1>1. /\ o \in Fresh /\ StartOp(o, "dropped", Null, s, "none")
      /\ UNCHANGED <<opq, refcount, ops, cur, evs, handle, desc>>
  BY DEF accept_closed, muxVars, loopVars
<1>2. /\ o \in Op /\ ~Started(o) /\ op'[o].kind = "dropped" /\ op'[o].desc = Null /\ op'[o].calls = 0
      /\ \A p \in Op : p # o => op'[p] = op[p]
  BY <1>1, StartFields
<1>3. op[o].desc = Null /\ op[o].calls = 0
  BY <1>2, FreshNowhere
<1>4. Sent(opq, op') /\ Sent(ops, op')
  <2>1. \A p \in Op : op'[p].desc = op[p].desc
    BY <1>2, <1>3
  <2>2. opq \in Seq(Closure) /\ ops \in Seq(Closure) /\ Sent(opq, op) /\ Sent(ops, op)
    BY DEF IInv, TypeOK, RInv
  <2> QED BY <2>1, <2>2, SentKeep
<1>5. Targets'
  BY <1>1, StartTargets
<1>6. ASSUME NEW x \in Desc PROVE DescRefs(x)'
  BY <1>1, <1>6 DEF RInv, DescRefs, Refs
<1>7. ASSUME NEW p \in Op PROVE OpPlace(p)'
  <2>1. OpPlace(p) /\ op[p].desc \in Desc \cup {Null}
    BY StateNumbers DEF RInv
  <2>2. CASE p # o
    BY <1>1, <1>2, <2>1, <2>2, OpFrame
  <2>3. CASE p = o
    <3>1. ~Started(o)'
      BY <1>2 DEF Started
    <3>2. Place(o)' = Place(o)
      BY <1>1, <1>2, <1>3 DEF Place
    <3> QED BY <1>1, <1>2, <1>3, <2>1, <2>3, <3>1, <3>2 DEF OpPlace, One
  <2> QED BY <2>2, <2>3
<1> QED BY <1>1, <1>4, <1>5, <1>6, <1>7 DEF RInv, Engine

\* Empty queues hold nothing.
LEMMA QueuedEmpty ==
  ASSUME NEW y, NEW p, y.q["read"] = <<>>, y.q["write"] = <<>>
  PROVE  Queued(y, p) = 0
<1>1. Count(<<>>, {p}) = 0
  BY CountSmall
<1> QED BY <1>1 DEF Queued

\* A descriptor is created: nothing referred to it.
LEMMA NewDescriptor ==
  ASSUME IInv, RInv, IInv', NEW d \in NewDesc, NEW y, desc' = [desc EXCEPT ![d] = y], y.st = "live"
  PROVE  /\ d \in Desc /\ desc'[d] = y /\ \A x \in Desc : x # d => desc'[x] = desc[x]
         /\ Tally(desc', LiveDesc) = Tally(desc, LiveDesc) + 1 /\ Refs(d) = 0
         /\ \A p : Queued(desc[d], p) = 0
<1>1. d \in Desc /\ desc[d].st # "live" /\ desc \in [Desc -> DescType] /\ desc' \in [Desc -> DescType]
  BY DEF NewDesc, IInv, TypeOK
<1>2. desc'[d] = y /\ \A x \in Desc : x # d => desc'[x] = desc[x]
  BY <1>1
<1>3. Refs(d) = 0 /\ desc[d].q["read"] = <<>> /\ desc[d].q["write"] = <<>>
  BY <1>1 DEF RInv, DescRefs
<1>4. desc'[d].st = "live"
  BY <1>2
<1>5. Tally(desc', LiveDesc) = Tally(desc, LiveDesc) + 1
  BY <1>1, <1>2, <1>4, LiveChange, ZenonT(30)
<1> QED BY <1>1, <1>2, <1>3, <1>5, QueuedEmpty

\* It is handed to a socket object, and to a closure if n = 1.
LEMMA OpenRefs ==
  ASSUME IInv, RInv, IInv', NEW d \in NewDesc, NEW y, desc' = [desc EXCEPT ![d] = y],
         y.st = "live", NEW n \in Nat, y.ref = 1 + n,
         NEW s \in Sock, handle[s] = Null, handle' = [handle EXCEPT ![s] = d], UNCHANGED <<ops, cur, evs>>,
         About(opq', d) = About(opq, d) + n, \A x \in Desc : x # d => About(opq', x) = About(opq, x)
  PROVE  \A x \in Desc : DescRefs(x)'
<1>1. d \in Desc /\ desc'[d] = y /\ Refs(d) = 0 /\ \A x \in Desc : x # d => desc'[x] = desc[x]
  BY NewDescriptor
<1>2. handle \in [Sock -> Desc \cup {Null}] /\ ops' = ops /\ cur' = cur
  BY DEF IInv, TypeOK
<1>3. \A x \in Desc : Tally(handle', {x}) = Tally(handle, {x}) + One(d = x)
  <2>1. handle' \in [Sock -> Desc \cup {Null}] /\ handle'[s] = d /\ \A r \in Sock : r # s => handle'[r] = handle[r]
    BY <1>1, <1>2
  <2>2. Given(handle, handle', d)
    BY <1>1, <1>2, <2>1, HandleSet
  <2> QED BY <2>2 DEF Given
<1>4. DescRefs(d)'
  <2>1. Tally(handle', {d}) = Tally(handle, {d}) + 1
    BY <1>1, <1>3 DEF One
  <2>2. Refs(d)' = Refs(d) + 1 + n
    BY <1>1, <1>2, <2>1, RefsAdd
  <2>3. Refs(d)' = y.ref
    BY <1>1, <2>2
  <2> QED BY <1>1, <2>3 DEF DescRefs
<1>5. ASSUME NEW x \in Desc, x # d PROVE DescRefs(x)'
  <2>1. Tally(handle', {x}) = Tally(handle, {x}) + 0
    BY <1>3, <1>5 DEF One
  <2>2. About(opq', x) = About(opq, x) + 0
    BY <1>5, StateNumbers
  <2>3. Refs(x)' = Refs(x) + 0 + 0 /\ Refs(x) \in Nat
    BY <1>2, <2>1, <2>2, RefsAdd
  <2>4. Refs(x)' = Refs(x)
    BY <2>3
  <2>5. DescRefs(x) /\ (desc[x].st # "live" => evs'[x] = {} /\ ~InUse(cur', x))
    BY <1>2, Referred DEF RInv
  <2> QED BY <1>1, <1>5, <2>4, <2>5, DescFrame
<1> QED BY <1>4, <1>5

\* listen and bind: a descriptor with no operation.
LEMMA StepOpen ==
  ASSUME IInv, RInv, IInv', NEW t, NEW s \in Sock, NEW st, open_fd(t, s, st)
  PROVE  RInv'
<1>1. PICK d \in NewDesc : /\ desc' = [desc EXCEPT ![d] = descriptor_create(<<>>)]
                           /\ handle' = [handle EXCEPT ![s] = d]
  BY DEF open_fd
<1>2. Unused(s) /\ refcount' = refcount + 1 /\ UNCHANGED <<opq, op, ops, cur, evs>>
  BY DEF open_fd, loopVars
<1> DEFINE y == descriptor_create(<<>>)
<1>3. y.st = "live" /\ y.ref = 1 + 0 /\ y.q["read"] = <<>> /\ y.q["write"] = <<>>
  BY DEF descriptor_create, NoQ, Ev
<1> HIDE DEF y
<1>4. desc' = [desc EXCEPT ![d] = y]
  BY <1>1 DEF y
<1>5. /\ d \in Desc /\ desc'[d] = y /\ \A x \in Desc : x # d => desc'[x] = desc[x]
      /\ Tally(desc', LiveDesc) = Tally(desc, LiveDesc) + 1 /\ \A p : Queued(desc[d], p) = 0
  BY <1>3, <1>4, NewDescriptor
<1>6. Engine'
  <2>1. Len(opq') = Len(opq) + 0 /\ refcount' = refcount + 0 + 1 /\ ops' = ops
    BY <1>2, StateNumbers
  <2> QED BY <1>5, <2>1, EngineChange
<1>7. Sent(opq, op)' /\ Sent(ops, op)'
  BY <1>2 DEF RInv
<1>8. Targets'
  <2>1. \A o \in Op : Accepting(o) => op[o].to \in Sock /\ handle[op[o].to] = Null /\ op[o].to # s
    BY <1>2 DEF RInv, Targets, Unused, Accepting
  <2>2. \A o \in Op : Accepting(o) => handle'[op[o].to] = Null
    BY <1>1, <2>1
  <2>3. \A o \in Op : Accepting(o)' <=> Accepting(o)
    BY <1>2 DEF Accepting
  <2> QED BY <1>2, <2>2, <2>3, TargetsKeep DEF RInv
<1>9. \A x \in Desc : DescRefs(x)'
  <2>1. handle[s] = Null /\ About(opq', d) = About(opq, d) + 0 /\ \A x \in Desc : About(opq', x) = About(opq, x)
    BY <1>2, StateNumbers DEF Unused
  <2>2. handle' = [handle EXCEPT ![s] = d] /\ UNCHANGED <<ops, cur, evs>>
    BY <1>1, <1>2
  <2> QED BY <1>3, <1>4, <2>1, <2>2, OpenRefs
<1>10. ASSUME NEW o \in Op PROVE OpPlace(o)'
  <2>1. OpPlace(o) /\ op[o].desc \in Desc \cup {Null}
    BY StateNumbers DEF RInv
  <2>2. \A x \in Desc : Queued(desc'[x], o) = Queued(desc[x], o)
    BY <1>3, <1>5, QueuedEmpty
  <2> QED BY <1>2, <2>1, <2>2, OpFrame
<1> QED BY <1>6, <1>7, <1>8, <1>9, <1>10 DEF RInv

\* connect: the descriptor is created with the operation in it.
LEMMA StepConnect ==
  ASSUME IInv, RInv, IInv', NEW t, NEW s \in Sock, NEW o, connect(t, s, o)
  PROVE  RInv'
<1>1. PICK d \in NewDesc : /\ desc' = [desc EXCEPT ![d] = descriptor_create(<<o>>)]
                           /\ handle' = [handle EXCEPT ![s] = d]
                           /\ StartOp(o, "connect", d, Null, "none")
  BY DEF connect
<1>2. o \in Fresh /\ Unused(s) /\ refcount' = refcount + 1 /\ UNCHANGED <<opq, ops, cur, evs>>
  BY DEF connect, loopVars
<1> DEFINE y == descriptor_create(<<o>>)
<1>3. y.st = "live" /\ y.ref = 1 + 0 /\ y.q["read"] = <<>> /\ y.q["write"] = <<o>>
  BY DEF descriptor_create, NoQ, Ev
<1> HIDE DEF y
<1>4. desc' = [desc EXCEPT ![d] = y]
  BY <1>1 DEF y
<1>5. /\ d \in Desc /\ desc'[d] = y /\ \A x \in Desc : x # d => desc'[x] = desc[x]
      /\ Tally(desc', LiveDesc) = Tally(desc, LiveDesc) + 1 /\ \A p : Queued(desc[d], p) = 0
  BY <1>3, <1>4, NewDescriptor
<1>6. /\ o \in Op /\ ~Started(o) /\ op'[o].kind = "connect" /\ op'[o].desc = d /\ op'[o].calls = 0
      /\ \A p \in Op : p # o => op'[p] = op[p]
  BY <1>1, <1>2, StartFields
<1>7. Engine'
  <2>1. Len(opq') = Len(opq) + 0 /\ refcount' = refcount + 0 + 1 /\ ops' = ops
    BY <1>2, StateNumbers
  <2> QED BY <1>5, <2>1, EngineChange
<1>8. Carry(opq, o) = 0 /\ Carry(ops, o) = 0 /\ \A x \in Desc : Queued(desc[x], o) = 0
  BY <1>6, FreshNowhere
<1>9. Sent(opq, op') /\ Sent(ops, op')
  <2>1. opq \in Seq(Closure) /\ ops \in Seq(Closure) /\ Sent(opq, op) /\ Sent(ops, op)
    BY DEF IInv, TypeOK, RInv
  <2>2. \A q \in Seq(Closure) : \A i \in DOMAIN q : q[i].k = "dispatch" => q[i].op \in Op
    BY ClosureFields
  <2>3. /\ \A i \in DOMAIN opq : opq[i].k = "dispatch" => opq[i].op \in Op /\ opq[i].op # o
        /\ \A i \in DOMAIN ops : ops[i].k = "dispatch" => ops[i].op \in Op /\ ops[i].op # o
    BY <1>8, <2>1, <2>2, NotCarried
  <2> QED BY <1>6, <2>1, <2>3 DEF Sent
<1>10. Targets'
  <2>1. \A x \in Sock : handle'[x] = handle[x] \/ Unused(x)
    BY <1>1, <1>2 DEF IInv, TypeOK
  <2> QED BY <1>1, <1>2, <2>1, StartTargets
<1>11. \A x \in Desc : DescRefs(x)'
  <2>1. handle[s] = Null /\ About(opq', d) = About(opq, d) + 0 /\ \A x \in Desc : About(opq', x) = About(opq, x)
    BY <1>2, StateNumbers DEF Unused
  <2>2. handle' = [handle EXCEPT ![s] = d] /\ UNCHANGED <<ops, cur, evs>>
    BY <1>1, <1>2
  <2> QED BY <1>3, <1>4, <2>1, <2>2, OpenRefs
<1>12. \A p \in Op : Queued(y, p) = One(o = p)
  <2>1. ASSUME NEW p \in Op PROVE Queued(y, p) = One(o = p)
    <3>1. Count(<<>>, {p}) = 0 /\ Count(<<o>>, {p}) = IF o \in {p} THEN 1 ELSE 0
      BY CountSmall
    <3>2. Queued(y, p) = Count(<<>>, {p}) + Count(<<o>>, {p})
      BY <1>3 DEF Queued
    <3> QED BY <3>1, <3>2 DEF One
  <2> QED BY <2>1
<1>13. OpPlace(o)'
  <2>1. Started(o)'
    BY <1>6 DEF Started
  <2>2. Queued(desc'[d], o) = 1 /\ d # Null
    BY <1>5, <1>6, <1>12, NullAssumption DEF One
  <2>3. Place(o)' = 0 + 0 + 0 + 1
    BY <1>2, <1>6, <1>8, <2>2 DEF Place
  <2>4. Place(o)' = One(Started(o)')
    BY <2>1, <2>3 DEF One
  <2>5. \A x \in Desc : x # d => Queued(desc'[x], o) = 0
    BY <1>5, <1>8
  <2> QED BY <1>6, <2>1, <2>4, <2>5 DEF OpPlace
<1>14. ASSUME NEW p \in Op, p # o PROVE OpPlace(p)'
  <2>1. OpPlace(p) /\ op[p].desc \in Desc \cup {Null}
    BY StateNumbers DEF RInv
  <2>2. \A x \in Desc : Queued(desc'[x], p) = Queued(desc[x], p)
    BY <1>5, <1>12, <1>14 DEF One
  <2> QED BY <1>2, <1>6, <1>14, <2>1, <2>2, OpFrame
<1> QED BY <1>2, <1>7, <1>9, <1>10, <1>11, <1>13, <1>14 DEF RInv

\* The datagram write that creates its socket: two references.
LEMMA StepUdpOpen ==
  ASSUME IInv, RInv, IInv', NEW s \in Sock, NEW o, udp_write_open(s, o)
  PROVE  RInv'
<1>1. PICK d \in NewDesc : /\ desc' = [desc EXCEPT ![d] = [descriptor_create(<<>>) EXCEPT !.ref = 2]]
                           /\ handle' = [handle EXCEPT ![s] = d]
                           /\ StartOp(o, "send", d, Null, "none") /\ opq' = Append(opq, DispC(d, o))
  BY DEF udp_write_open, op_add
<1>2. o \in Fresh /\ Unused(s) /\ refcount' = refcount + 2 /\ UNCHANGED <<ops, cur, evs>>
  BY DEF udp_write_open, loopVars
<1> DEFINE y == [descriptor_create(<<>>) EXCEPT !.ref = 2]
<1>3. y.st = "live" /\ y.ref = 1 + 1 /\ y.q["read"] = <<>> /\ y.q["write"] = <<>>
  BY DEF descriptor_create, NoQ, Ev
<1> HIDE DEF y
<1>4. desc' = [desc EXCEPT ![d] = y]
  BY <1>1 DEF y
<1>5. /\ d \in Desc /\ desc'[d] = y /\ \A x \in Desc : x # d => desc'[x] = desc[x]
      /\ Tally(desc', LiveDesc) = Tally(desc, LiveDesc) + 1 /\ \A p : Queued(desc[d], p) = 0
  BY <1>3, <1>4, NewDescriptor
<1>6. /\ o \in Op /\ DispC(d, o) \in Closure /\ DispC(d, o).op = o /\ DispC(d, o).desc = d /\ opq \in Seq(Closure)
  BY <1>1, <1>2, <1>5, StartFields, ClosureType DEF DispC, IInv, TypeOK
<1>7. Len(opq') = Len(opq) + 1 /\ \A x : About(opq', x) = About(opq, x) + One(d = x)
  BY <1>1, <1>6, AddClosure
<1>8. Engine'
  <2>1. Len(opq') = Len(opq) + 1 /\ refcount' = refcount + 1 + 1 /\ ops' = ops
    BY <1>2, <1>7, StateNumbers
  <2> QED BY <1>5, <2>1, EngineChange
<1>9. Sent(opq, op)' /\ Sent(ops, op)' /\ \A p \in Op : OpPlace(p)'
  <2>1. \A x \in Desc, p \in Op : Queued(desc'[x], p) = Queued(desc[x], p)
    BY <1>3, <1>5, QueuedEmpty
  <2>2. "send" \in UserKind /\ ops' = ops
    BY <1>2 DEF UserKind
  <2> QED BY <1>1, <1>2, <1>5, <1>6, <2>1, <2>2, StartPlaces
<1>10. Targets'
  <2>1. \A x \in Sock : handle'[x] = handle[x] \/ Unused(x)
    BY <1>1, <1>2 DEF IInv, TypeOK
  <2> QED BY <1>1, <1>2, <2>1, StartTargets
<1>11. \A x \in Desc : DescRefs(x)'
  <2>1. handle[s] = Null /\ handle' = [handle EXCEPT ![s] = d] /\ UNCHANGED <<ops, cur, evs>>
    BY <1>1, <1>2 DEF Unused
  <2>2. About(opq', d) = About(opq, d) + 1
    BY <1>7 DEF One
  <2>3. ASSUME NEW x \in Desc, x # d PROVE About(opq', x) = About(opq, x)
    <3>1. About(opq', x) = About(opq, x) + 0 /\ About(opq, x) \in Nat
      BY <1>7, <2>3, StateNumbers DEF One
    <3> QED BY <3>1
  <2> QED BY <1>3, <1>4, <2>1, <2>2, <2>3, OpenRefs
<1> QED BY <1>8, <1>9, <1>10, <1>11 DEF RInv

\* A queue that loses its first closure, or gets one more.
LEMMA SentChange ==
  ASSUME NEW q \in Seq(Closure), NEW w, Sent(q, w)
  PROVE  /\ q # <<>> => Sent(Tail(q), w)
         /\ \A c \in Closure : (c.k = "dispatch" => w[c.op].desc = c.desc) => Sent(Append(q, c), w)
<1>1. \A i \in DOMAIN q : q[i].k = "dispatch" => w[q[i].op].desc = q[i].desc
  BY DEF Sent
<1>2. ASSUME q # <<>> PROVE Sent(Tail(q), w)
  <2>1. \A i \in DOMAIN Tail(q) : i + 1 \in DOMAIN q /\ Tail(q)[i] = q[i + 1]
    BY <1>2
  <2> QED BY <1>1, <2>1 DEF Sent
<1>3. ASSUME NEW c \in Closure, c.k = "dispatch" => w[c.op].desc = c.desc PROVE Sent(Append(q, c), w)
  <2>1. \A i \in DOMAIN Append(q, c) : (i \in DOMAIN q /\ Append(q, c)[i] = q[i]) \/ Append(q, c)[i] = c
    OBVIOUS
  <2> QED BY <1>1, <1>3, <2>1 DEF Sent
<1> QED BY <1>2, <1>3

\* close: the socket object's reference goes to the closure.
LEMMA StepUnbind ==
  ASSUME IInv, RInv, NEW t, NEW s \in Sock, unbind(t, s)
  PROVE  RInv'
<1> DEFINE d == handle[s]
<1>1. /\ d # Null /\ handle' = [handle EXCEPT ![s] = Null] /\ opq' = Append(opq, UnbindC(d))
      /\ refcount' = refcount + 1 /\ UNCHANGED <<ops, cur, evs, op, desc>>
  BY DEF unbind, op_add, loopVars
<1>2. handle \in [Sock -> Desc \cup {Null}] /\ opq \in Seq(Closure) /\ ops \in Seq(Closure) /\ d \in Desc
  BY <1>1 DEF IInv, TypeOK
<1>3. UnbindC(d) \in Closure /\ UnbindC(d).op = Null /\ UnbindC(d).desc = d /\ UnbindC(d).k = "unbind"
  BY <1>2, ClosureType DEF UnbindC
<1>4. /\ Len(opq') = Len(opq) + 1 /\ \A x : About(opq', x) = About(opq, x) + One(d = x)
      /\ \A x : Carry(opq', x) = Carry(opq, x) + One(Null = x)
  BY <1>1, <1>2, <1>3, AddClosure
<1>5. handle' \in [Sock -> Desc \cup {Null}] /\ handle'[s] = Null /\ \A r \in Sock : r # s => handle[r] = handle'[r]
  BY <1>1, <1>2
<1>6. handle[s] = d
  OBVIOUS
<1> HIDE DEF d
<1>7. Given(handle', handle, d)
  BY <1>2, <1>5, <1>6, HandleSet
<1>8. Engine'
  <2>1. Tally(desc', LiveDesc) = Tally(desc, LiveDesc) + 0 /\ refcount' = refcount + 1 + 0 /\ ops' = ops
    BY <1>1, StateNumbers
  <2>2. Len(opq') = Len(opq) + 1
    BY <1>4
  <2> QED BY <2>1, <2>2, EngineChange
<1>9. Sent(opq', op) /\ Sent(ops, op)
  BY <1>1, <1>2, <1>3, SentChange DEF RInv
<1>10. Targets'
  <2>1. \A o \in Op : Accepting(o)' => Accepting(o) /\ op'[o].to = op[o].to
    BY <1>1 DEF Accepting
  <2>2. \A o \in Op : Accepting(o) => handle'[op[o].to] = Null
    BY <1>5 DEF RInv, Targets
  <2> QED BY <2>1, <2>2, TargetsKeep DEF RInv
<1>11. ASSUME NEW x \in Desc PROVE DescRefs(x)'
  <2>1. Tally(handle, {x}) = Tally(handle', {x}) + One(d = x) /\ About(opq', x) = About(opq, x) + One(d = x)
    BY <1>4, <1>7 DEF Given
  <2>2. /\ Tally(handle, {x}) \in Nat /\ Tally(handle', {x}) \in Nat /\ About(opq, x) \in Nat
        /\ About(opq', x) \in Nat /\ About(ops, x) \in Nat /\ One(d = x) \in Nat
    <3>1. Tally(handle, {x}) \in Nat /\ About(opq, x) \in Nat /\ About(ops, x) \in Nat
      BY StateNumbers
    <3>2. Tally(handle', {x}) \in Nat
      BY <1>5, HandleNat
    <3>3. One(d = x) \in Nat
      BY OneNat
    <3> QED BY <2>1, <3>1, <3>2, <3>3
  <2> DEFINE a == Tally(handle, {x})
             b == About(opq, x)
             c == About(ops, x)
             f == Tally(handle', {x})
             g == About(opq', x)
             n == One(d = x)
             m == One(InUse(cur, x) /\ cur.release)
  <2>3. m \in Nat
    BY OneNat
  <2>4. a = f + n /\ g = b + n /\ a \in Nat /\ b \in Nat /\ c \in Nat /\ f \in Nat /\ g \in Nat /\ n \in Nat
    BY <2>1, <2>2
  <2>5. Refs(x) = a + b + c + m /\ Refs(x)' = f + g + c + m
    BY <1>1 DEF Refs
  <2> HIDE DEF a, b, c, f, g, n, m
  <2>6. Refs(x)' = Refs(x)
    BY <2>3, <2>4, <2>5
  <2>7. DescRefs(x) /\ (desc[x].st # "live" => evs'[x] = {} /\ ~InUse(cur', x))
    BY <1>1, Referred DEF RInv
  <2> QED BY <1>1, <2>6, <2>7, DescFrame
<1>12. ASSUME NEW p \in Op PROVE OpPlace(p)'
  <2>1. OpPlace(p) /\ op[p].desc \in Desc \cup {Null} /\ Carry(opq, p) \in Nat
    BY StateNumbers DEF RInv
  <2>2. Carry(opq', p) = Carry(opq, p) + 0
    BY <1>4, NullAssumption DEF One
  <2>3. Carry(opq', p) = Carry(opq, p)
    BY <2>1, <2>2
  <2> QED BY <1>1, <2>1, <2>3, OpFrame
<1> QED BY <1>1, <1>8, <1>9, <1>10, <1>11, <1>12 DEF RInv

\* The queue becomes the batch.
LEMMA StepTake ==
  ASSUME IInv, RInv, run_take
  PROVE  RInv'
<1>1. /\ lpc = "events" /\ ops' = opq /\ opq' = <<>> /\ UNCHANGED <<refcount, evs, cur, op, handle, desc>>
  BY DEF run_take, At, userVars
<1>2. ops = <<>> /\ opq \in Seq(Closure) /\ ops \in Seq(Closure) /\ <<>> \in Seq(Closure)
  BY <1>1 DEF IInv, LoopShape, InDrain, TypeOK
<1>3. /\ Len(ops) = 0 /\ \A x : About(ops, x) = 0 /\ Carry(ops, x) = 0
      /\ Len(opq') = 0 /\ \A x : About(opq', x) = 0 /\ Carry(opq', x) = 0
  BY <1>1, <1>2, ClosureNat
<1>4. Engine'
  <2>1. refcount = Len(opq) + 0 + Tally(desc, LiveDesc) /\ Len(opq) \in Nat /\ Tally(desc, LiveDesc) \in Nat
    BY <1>3, StateNumbers DEF RInv, Engine
  <2>2. refcount = 0 + Len(opq) + Tally(desc, LiveDesc)
    BY <2>1
  <2> QED BY <1>1, <1>3, <2>2 DEF Engine
<1>5. Sent(opq', op') /\ Sent(ops', op')
  BY <1>1 DEF RInv, Sent
<1>6. Targets'
  BY <1>1 DEF RInv, Targets, Accepting
<1>7. ASSUME NEW x \in Desc PROVE DescRefs(x)'
  <2> DEFINE a == Tally(handle, {x})
             b == About(opq, x)
             m == One(InUse(cur, x) /\ cur.release)
  <2>1. a \in Nat /\ b \in Nat /\ m \in Nat
    BY StateNumbers, OneNat
  <2>2. Refs(x) = a + b + 0 + m /\ Refs(x)' = a + 0 + b + m
    BY <1>1, <1>3 DEF Refs
  <2> HIDE DEF a, b, m
  <2>3. Refs(x)' = Refs(x)
    BY <2>1, <2>2
  <2>4. DescRefs(x) /\ (desc[x].st # "live" => evs'[x] = {} /\ ~InUse(cur', x))
    BY <1>1, Referred DEF RInv
  <2> QED BY <1>1, <2>3, <2>4, DescFrame
<1>8. ASSUME NEW p \in Op PROVE OpPlace(p)'
  <2>1. OpPlace(p) /\ op[p].desc \in Desc \cup {Null} /\ Carry(opq, p) \in Nat /\ op[p].calls \in Nat
    BY StateNumbers DEF RInv
  <2> DEFINE z == IF op[p].desc = Null THEN 0 ELSE Queued(desc[op[p].desc], p)
             n == op[p].calls
             b == Carry(opq, p)
  <2>2. n \in Nat /\ b \in Nat
    BY <2>1
  <2>3. Place(p) = n + b + 0 + z /\ Place(p)' = n + 0 + b + z
    BY <1>1, <1>3 DEF Place
  <2> HIDE DEF n, b, z
  <2>4. n + b + 0 = n + 0 + b
    BY <2>2
  <2>5. Place(p)' = Place(p)
    BY <2>3, <2>4
  <2> QED BY <1>1, <2>1, <2>5 DEF OpPlace, Started
<1> QED BY <1>4, <1>5, <1>6, <1>7, <1>8 DEF RInv

\* The first closure of the batch, about x or carrying p.
LEMMA BatchHead ==
  ASSUME IInv, ops # <<>>, ops' = Tail(ops)
  PROVE  /\ ops \in Seq(Closure) /\ Head(ops) \in Closure /\ Len(ops) = Len(ops') + 1
         /\ \A x : About(ops, x) = About(ops', x) + One(Head(ops).desc = x) /\ About(ops', x) \in Nat
         /\ \A p : Carry(ops, p) = Carry(ops', p) + One(Head(ops).op = p) /\ Carry(ops', p) \in Nat
         /\ Len(ops') \in Nat
<1>1. ops \in Seq(Closure)
  BY DEF IInv, TypeOK
<1>2. /\ Head(ops) \in Closure /\ Tail(ops) \in Seq(Closure) /\ Len(Tail(ops)) = Len(ops) - 1
      /\ \A x : About(ops, x) = About(Tail(ops), x) + One(Head(ops).desc = x)
      /\ \A x : Carry(ops, x) = Carry(Tail(ops), x) + One(Head(ops).op = x)
  BY <1>1, TakeClosure
<1>3. ops' \in Seq(Closure)
  BY <1>2
<1>4. \A x : About(ops', x) \in Nat /\ Carry(ops', x) \in Nat /\ Len(ops') \in Nat
  BY <1>3, ClosureNat
<1>5. Len(ops) \in Nat
  BY StateNumbers
<1>6. Len(ops) = Len(ops') + 1
  BY <1>2, <1>4, <1>5
<1> QED BY <1>1, <1>2, <1>4, <1>6

\* op_run of a completion: the operation is nowhere afterwards.
LEMMA StepHandler ==
  ASSUME IInv, RInv, op_run_handler
  PROVE  RInv'
<1>0. PICK o : o = Head(ops).op
  OBVIOUS
<1>1. /\ ops # <<>> /\ Head(ops).k = "run" /\ ops' = Tail(ops) /\ refcount' = refcount - 1
      /\ op' = Complete(o, op[o].err) /\ UNCHANGED <<opq, evs, cur, handle, desc>>
  BY <1>0 DEF op_run_handler
<1>2. /\ ops \in Seq(Closure) /\ Head(ops) \in Closure /\ Len(ops) = Len(ops') + 1 /\ Len(ops') \in Nat
      /\ \A x : About(ops, x) = About(ops', x) + One(Head(ops).desc = x) /\ About(ops', x) \in Nat
      /\ \A p : Carry(ops, p) = Carry(ops', p) + One(o = p) /\ Carry(ops', p) \in Nat
  BY <1>0, <1>1, BatchHead
<1>3. o \in Op /\ Head(ops).desc = Null
  BY <1>0, <1>1, <1>2, ClosureFields
<1>4. op \in [Op -> OpType]
  BY DEF IInv, TypeOK
<1>5. /\ \A p \in Op : op'[p].kind = op[p].kind /\ op'[p].desc = op[p].desc /\ op'[p].to = op[p].to
      /\ \A p \in Op : p # o => op'[p].calls = op[p].calls
      /\ op'[o].calls = op[o].calls + 1
  BY <1>1, <1>3, <1>4 DEF Complete, OpType
<1>6. OpPlace(o) /\ Place(o) \in {0, 1} /\ op[o].calls \in Nat /\ Carry(opq, o) \in Nat
      /\ (op[o].desc # Null => Queued(desc[op[o].desc], o) \in Nat)
  BY <1>3, StateNumbers, OneNat DEF RInv, OpPlace
<1>7. op[o].calls = 0 /\ OpPlace(o)'
  <2> DEFINE z == IF op[o].desc = Null THEN 0 ELSE Queued(desc[op[o].desc], o)
             n == op[o].calls
             b == Carry(opq, o)
             c == Carry(ops', o)
  <2>1. n \in Nat /\ b \in Nat /\ c \in Nat /\ z \in Nat
    BY <1>2, <1>6
  <2>2. Carry(ops, o) = c + 1
    BY <1>2 DEF One
  <2>3. Place(o) = n + b + (c + 1) + z
    BY <2>2 DEF Place
  <2>4. Place(o)' = (n + 1) + b + c + z
    BY <1>1, <1>3, <1>5 DEF Place
  <2>5. n = 0 /\ Place(o)' = Place(o)
    <3> HIDE DEF n, b, c, z
    <3> QED BY <1>6, <2>1, <2>3, <2>4
  <2>6. Started(o)' <=> Started(o)
    BY <1>3, <1>5 DEF Started
  <2> QED BY <1>1, <1>3, <1>5, <1>6, <2>5, <2>6 DEF OpPlace, One
<1>8. ASSUME NEW p \in Op, p # o PROVE OpPlace(p)'
  <2>1. OpPlace(p) /\ op[p].desc \in Desc \cup {Null}
    BY StateNumbers DEF RInv
  <2>2. Carry(ops, p) = Carry(ops', p) + 0 /\ Carry(ops', p) \in Nat
    BY <1>2, <1>8 DEF One
  <2>3. Carry(ops', p) = Carry(ops, p)
    BY <2>2
  <2> QED BY <1>1, <1>5, <1>8, <2>1, <2>3, OpFrame
<1>9. Engine'
  <2> DEFINE a == Len(opq)
             b == Len(ops')
             c == Tally(desc, LiveDesc)
  <2>1. a \in Nat /\ b \in Nat /\ c \in Nat /\ refcount = a + (b + 1) + c
    BY <1>2, StateNumbers DEF RInv, Engine
  <2>2. Engine' <=> refcount - 1 = a + b + c
    BY <1>1 DEF Engine
  <2> HIDE DEF a, b, c
  <2> QED BY <2>1, <2>2
<1>10. Sent(opq', op') /\ Sent(ops', op')
  <2>1. Sent(opq, op) /\ Sent(Tail(ops), op) /\ opq \in Seq(Closure) /\ Tail(ops) \in Seq(Closure)
    BY <1>1, <1>2, SentChange DEF RInv, IInv, TypeOK
  <2>2. \A p \in Op : op'[p].desc = op[p].desc
    BY <1>5
  <2>3. Sent(opq, op') /\ Sent(Tail(ops), op')
    BY <2>1, <2>2, SentKeep
  <2> QED BY <1>1, <2>3
<1>11. Targets'
  <2>1. op'[o].calls = 1
    BY <1>5, <1>7
  <2>2. \A p \in Op : Accepting(p)' => Accepting(p) /\ op'[p].to = op[p].to
    BY <1>5, <2>1 DEF Accepting
  <2>3. \A p \in Op : Accepting(p) => handle'[op[p].to] = Null
    BY <1>1 DEF RInv, Targets
  <2> QED BY <2>2, <2>3, TargetsKeep DEF RInv
<1>12. ASSUME NEW x \in Desc PROVE DescRefs(x)'
  <2>1. About(ops, x) = About(ops', x) + 0 /\ About(ops', x) \in Nat
    BY <1>2, <1>3, NullAssumption DEF One
  <2>2. About(ops', x) = About(ops, x)
    BY <2>1
  <2>3. Refs(x)' = Refs(x)
    BY <1>1, <2>2 DEF Refs
  <2>4. DescRefs(x) /\ (desc[x].st # "live" => evs'[x] = {} /\ ~InUse(cur', x))
    BY <1>1, Referred DEF RInv
  <2> QED BY <1>1, <2>3, <2>4, DescFrame
<1> QED BY <1>7, <1>8, <1>9, <1>10, <1>11, <1>12 DEF RInv

\* op_run of a dispatch closure: its operation goes to its descriptor, its
\* reference to the dispatch.
LEMMA StepEnqueue ==
  ASSUME IInv, RInv, IInv', op_run_dispatch
  PROVE  RInv'
<1>0. PICK o, d, e : o = Head(ops).op /\ d = Head(ops).desc /\ e = EvOf(op[o].kind)
  OBVIOUS
<1>1. /\ lpc = "drain" /\ ops # <<>> /\ Head(ops).k = "dispatch" /\ ops' = Tail(ops) /\ refcount' = refcount - 1
      /\ desc' = [desc EXCEPT ![d].q[e] = Append(@, o)] /\ cur' = [desc |-> d, evs |-> {e}, release |-> TRUE]
      /\ UNCHANGED <<opq, evs, handle, op>>
  BY <1>0 DEF op_run_dispatch, enqueue, At, userVars
<1>2. /\ ops \in Seq(Closure) /\ Head(ops) \in Closure /\ Len(ops) = Len(ops') + 1 /\ Len(ops') \in Nat
      /\ \A x : About(ops, x) = About(ops', x) + One(d = x) /\ About(ops', x) \in Nat
      /\ \A p : Carry(ops, p) = Carry(ops', p) + One(o = p) /\ Carry(ops', p) \in Nat
  BY <1>0, <1>1, BatchHead
<1>3. o \in Op /\ d \in Desc /\ e \in Ev /\ op[o].desc = d
  <2>1. o \in Op /\ d \in Desc
    BY <1>0, <1>1, <1>2, ClosureFields
  <2>2. 1 \in DOMAIN ops /\ ops[1] = Head(ops)
    BY <1>1, <1>2
  <2>3. op[o].desc = d
    BY <1>0, <1>1, <2>2 DEF RInv, Sent
  <2> QED BY <1>0, <2>1, <2>3 DEF EvOf, Ev
<1>4. cur = Null /\ cur' # Null /\ desc \in [Desc -> DescType] /\ desc' \in [Desc -> DescType] /\ cur' \in CurType \cup {Null}
  <2>1. cur' \in [desc: Desc, evs: SUBSET Ev, release: BOOLEAN]
    BY <1>1, <1>3
  <2>2. cur' # Null
    BY <2>1, NullAssumption DEF CurType
  <2> QED BY <1>1, <2>2 DEF IInv, LoopShape, TypeOK
<1>5. \A x \in Desc : (InUse(cur', x) /\ cur'.release <=> d = x) /\ ~InUse(cur, x) /\ (InUse(cur', x) <=> d = x)
  BY <1>1, <1>4 DEF InUse
<1>6. /\ \A x \in Desc : x # d => desc'[x] = desc[x]
      /\ desc'[d] = [desc[d] EXCEPT !.q[e] = Append(@, o)] /\ desc'[d].st = desc[d].st /\ desc'[d].ref = desc[d].ref
  BY <1>1, <1>3, <1>4 DEF DescType
<1>7. \A p : Queued(desc'[d], p) = Queued(desc[d], p) + One(o = p)
  <2>1. desc[d] \in DescType /\ desc'[d] \in DescType
    BY <1>3, <1>4
  <2>2. desc'[d].q[e] = Append(desc[d].q[e], o) /\ \A f \in Ev : f # e => desc'[d].q[f] = desc[d].q[f]
    BY <1>3, <1>6, <2>1, QueuedNat DEF DescType, QType
  <2> QED BY <1>3, <2>1, <2>2, QueuedAdd, SMTT(20)
<1>8. desc[d].st = "live" /\ desc[d].ref = Refs(d)
  <2>1. About(ops, d) = About(ops', d) + 1 /\ About(ops', d) \in Nat
    BY <1>2 DEF One
  <2>2. About(ops, d) # 0
    BY <2>1
  <2> QED BY <1>3, <2>2, Referred
<1>9. \A x \in Desc : Refs(x)' = Refs(x)
  <2> SUFFICES ASSUME NEW x \in Desc PROVE Refs(x)' = Refs(x)
    OBVIOUS
  <2> DEFINE a == Tally(handle, {x})
             b == About(opq, x)
             c == About(ops', x)
             n == One(d = x)
  <2>1. a \in Nat /\ b \in Nat
    BY StateNumbers
  <2>2. c \in Nat /\ n \in Nat /\ About(ops, x) = c + n
    BY <1>2, OneNat
  <2>3. One(InUse(cur', x) /\ cur'.release) = n /\ One(InUse(cur, x) /\ cur.release) = 0
    BY <1>5 DEF One
  <2>4. Refs(x) = a + b + (c + n) + 0 /\ Refs(x)' = a + b + c + n
    BY <1>1, <2>2, <2>3 DEF Refs
  <2> HIDE DEF a, b, c, n
  <2> QED BY <2>1, <2>2, <2>4
<1>10. ASSUME NEW x \in Desc PROVE DescRefs(x)'
  <2>1. CASE x = d
    BY <1>6, <1>8, <1>9, <2>1 DEF DescRefs
  <2>2. CASE x # d
    <3>1. DescRefs(x) /\ (desc[x].st # "live" => evs'[x] = {} /\ ~InUse(cur', x))
      BY <1>1, <1>5, <2>2, Referred DEF RInv
    <3> QED BY <1>6, <1>9, <2>2, <3>1, DescFrame
  <2> QED BY <2>1, <2>2
<1>11. Engine'
  <2>1. Tally(desc', LiveDesc) = Tally(desc, LiveDesc)
    BY <1>4, <1>6, LiveChange
  <2> DEFINE a == Len(opq)
             b == Len(ops')
             c == Tally(desc, LiveDesc)
  <2>2. a \in Nat /\ b \in Nat /\ c \in Nat /\ refcount = a + (b + 1) + c
    BY <1>2, StateNumbers DEF RInv, Engine
  <2>3. Engine' <=> refcount - 1 = a + b + c
    BY <1>1, <2>1 DEF Engine
  <2> HIDE DEF a, b, c
  <2> QED BY <2>2, <2>3
<1>12. Sent(opq, op)' /\ Sent(ops, op)'
  BY <1>1, <1>2, SentChange DEF RInv
<1>13. Targets'
  BY <1>1 DEF RInv, Targets, Accepting
<1>14. OpPlace(o)'
  <2>1. OpPlace(o) /\ d # Null
    BY <1>3, NullAssumption DEF RInv
  <2> DEFINE n == op[o].calls
             b == Carry(opq, o)
             c == Carry(ops', o)
             z == Queued(desc[d], o)
  <2>2. n \in Nat /\ b \in Nat /\ z \in Nat
    BY <1>3, StateNumbers
  <2>3. c \in Nat /\ Carry(ops, o) = c + 1 /\ Queued(desc'[d], o) = z + 1
    BY <1>2, <1>7 DEF One
  <2>4. Place(o) = n + b + (c + 1) + z /\ Place(o)' = n + b + c + (z + 1)
    BY <1>1, <1>3, <2>1, <2>3 DEF Place
  <2>5. Place(o)' = Place(o)
    <3> HIDE DEF n, b, c, z
    <3> QED BY <2>2, <2>3, <2>4
  <2>6. \A x \in Desc : x # d => Queued(desc'[x], o) = Queued(desc[x], o)
    BY <1>6
  <2>7. Started(o)' <=> Started(o)
    BY <1>1 DEF Started
  <2> QED BY <1>1, <1>3, <2>1, <2>5, <2>6, <2>7 DEF OpPlace, One
<1>15. ASSUME NEW p \in Op, p # o PROVE OpPlace(p)'
  <2>1. OpPlace(p) /\ op[p].desc \in Desc \cup {Null} /\ Queued(desc[d], p) \in Nat
    BY <1>3, StateNumbers DEF RInv
  <2>2. /\ Carry(ops, p) = Carry(ops', p) + 0 /\ Carry(ops', p) \in Nat
        /\ Queued(desc'[d], p) = Queued(desc[d], p) + 0
    BY <1>2, <1>7, <1>15 DEF One
  <2>3. Carry(ops', p) = Carry(ops, p) /\ Queued(desc'[d], p) = Queued(desc[d], p)
    BY <2>1, <2>2
  <2>4. \A x \in Desc : Queued(desc'[x], p) = Queued(desc[x], p)
    BY <1>6, <2>3
  <2> QED BY <1>1, <2>1, <2>3, <2>4, OpFrame
<1> QED BY <1>10, <1>11, <1>12, <1>13, <1>14, <1>15 DEF RInv

\* The operations of the descriptor x are put behind the queue q.
Aborted(q, p, x, n) ==
  /\ n \in Nat /\ Len(p) = Len(q) + n /\ \A d \in Desc : About(p, d) = About(q, d)
  /\ \A o \in Op : Carry(p, o) = Carry(q, o) + Queued(x, o)
  /\ \A w : Sent(q, w) => Sent(p, w)

\* descriptor_release queues every operation the descriptor x had.
LEMMA AbortQueue ==
  ASSUME NEW x, NEW q \in Seq(Closure), NEW z \in Seq(Op), \A o : Count(z, {o}) = Queued(x, o)
  PROVE  Aborted(q, q \o Aborts(z), x, Len(z))
<1> DEFINE r == Aborts(z)
<1> HIDE DEF r
<1>1. r = Aborts(z)
  BY DEF r
<1>2. /\ r \in Seq(Closure) /\ Len(q \o r) = Len(q) + Len(z)
      /\ \A d \in Desc : About(q \o r, d) = About(q, d)
      /\ \A o \in Op : Carry(q \o r, o) = Carry(q, o) + Count(z, {o})
      /\ \A i \in DOMAIN r : r[i].k = "run"
  BY <1>1, AbortClosures, SMTT(20)
<1>3. q \o Aborts(z) = q \o r /\ Len(z) \in Nat
  BY <1>1
<1>4. ASSUME NEW w, Sent(q, w) PROVE Sent(q \o r, w)
  <2>1. \A i \in DOMAIN (q \o r) : \/ i \in DOMAIN q /\ (q \o r)[i] = q[i]
                                   \/ \E j \in DOMAIN r : (q \o r)[i] = r[j]
    BY <1>2
  <2> QED BY <1>2, <1>4, <2>1 DEF Sent
<1>5. \A o \in Op : Carry(q \o r, o) = Carry(q, o) + Queued(x, o)
  BY <1>2
<1> QED BY <1>2, <1>3, <1>4, <1>5 DEF Aborted

\* descriptor_release takes one reference of d away, from the batch or from
\* the dispatch, while events[] is empty.
LEMMA StepRelease ==
  ASSUME IInv, RInv, IInv', NEW d \in Desc, NEW ds, NEW taken \in {0, 1}, descriptor_release(ds, d, taken),
         ds \in [Desc -> DescType], ds[d].st = desc[d].st, ds[d].ref = desc[d].ref, ds[d].q = desc[d].q,
         \A x \in Desc : x # d => ds[x] = desc[x],
         desc[d].st = "live", desc[d].ref = Refs(d),
         \A x \in Desc : evs'[x] = {} /\ ~InUse(cur', x), handle' = handle,
         \A x \in Desc : About(ops, x) + One(InUse(cur, x) /\ cur.release) = About(ops', x) + One(d = x),
         \A p \in Op : Carry(ops', p) = Carry(ops, p), Len(ops) = Len(ops') + taken,
         Sent(ops', op)
  PROVE  RInv'
<1>1. /\ opq \in Seq(Closure) /\ ops' \in Seq(Closure) /\ opq' \in Seq(Closure) /\ op \in [Op -> OpType]
      /\ desc \in [Desc -> DescType] /\ desc' \in [Desc -> DescType]
  BY DEF IInv, TypeOK
<1>2. /\ \A x \in Desc : About(ops', x) \in Nat
      /\ Len(opq) \in Nat /\ Len(opq') \in Nat /\ Len(ops') \in Nat
  BY <1>1, ClosureNat
<1>3. ASSUME \A x \in Desc : About(opq', x) = About(opq, x), NEW x \in Desc
      PROVE  Refs(x) = Refs(x)' + One(d = x) /\ Refs(x)' \in Nat
  <2> DEFINE a == Tally(handle, {x})
             b == About(opq, x)
             c == About(ops', x)
             n == One(d = x)
             g == About(ops, x)
             m == One(InUse(cur, x) /\ cur.release)
  <2>1. a \in Nat /\ b \in Nat /\ g \in Nat
    BY StateNumbers
  <2>2. c \in Nat /\ n \in Nat /\ m \in Nat /\ g + m = c + n
    BY <1>2, OneNat
  <2>3. One(InUse(cur', x) /\ cur'.release) = 0
    BY DEF One
  <2>4. Refs(x) = a + b + g + m /\ Refs(x)' = a + b + c + 0
    BY <1>3, <2>3 DEF Refs
  <2> HIDE DEF a, b, c, g, m, n
  <2>5. a + b + g + m = (a + b + c + 0) + n /\ a + b + c + 0 \in Nat
    BY <2>1, <2>2
  <2> QED BY <2>4, <2>5 DEF n
<1>4. ASSUME \A o \in Op : op'[o].kind = op[o].kind /\ op'[o].desc = op[o].desc /\ op'[o].to = op[o].to /\ op'[o].calls = op[o].calls
      PROVE  Targets' /\ Sent(ops', op')
  <2>1. \A o \in Op : Accepting(o)' => Accepting(o) /\ op'[o].to = op[o].to
    BY <1>4 DEF Accepting
  <2>2. \A o \in Op : Accepting(o) => handle'[op[o].to] = Null
    BY DEF RInv, Targets
  <2>3. Targets'
    BY <2>1, <2>2, TargetsKeep DEF RInv
  <2>4. \A o \in Op : op'[o].desc = op[o].desc
    BY <1>4
  <2> QED BY <1>1, <2>3, <2>4, SentKeep
<1>5. CASE desc[d].ref # 1
  <2>1. desc' = [ds EXCEPT ![d].ref = @ - 1] /\ refcount' = refcount - taken /\ UNCHANGED <<opq, op>>
    BY <1>5 DEF descriptor_release
  <2>2. /\ \A x \in Desc : desc'[x].st = desc[x].st /\ desc'[x].q = desc[x].q /\ (x # d => desc'[x] = desc[x])
        /\ desc'[d].ref = desc[d].ref - 1
    BY <1>1, <2>1 DEF DescType
  <2>3. ASSUME NEW x \in Desc PROVE DescRefs(x)'
    <3>1. Refs(x) = Refs(x)' + One(d = x) /\ Refs(x)' \in Nat
      BY <1>3, <2>1
    <3>2. CASE x = d
      <4>1. Refs(d) = Refs(d)' + 1 /\ Refs(d)' \in Nat
        BY <3>1, <3>2 DEF One
      <4>2. desc'[d].ref = Refs(d)'
        BY <2>2, <4>1
      <4> QED BY <2>2, <3>2, <4>2 DEF DescRefs
    <3>3. CASE x # d
      <4>1. Refs(x) = Refs(x)' + 0 /\ Refs(x)' \in Nat
        BY <3>1, <3>3 DEF One
      <4>2. Refs(x)' = Refs(x) /\ DescRefs(x)
        BY <4>1 DEF RInv
      <4> QED BY <2>2, <3>3, <4>2, DescFrame
    <3> QED BY <3>2, <3>3
  <2>4. Engine'
    <3>1. Tally(desc', LiveDesc) = Tally(desc, LiveDesc)
      BY <1>1, <2>2, LiveChange, SMTT(20)
    <3> DEFINE a == Len(opq)
               b == Len(ops')
               c == Tally(desc, LiveDesc)
    <3>2. a \in Nat /\ b \in Nat /\ c \in Nat /\ refcount = a + (b + taken) + c
      BY <1>2, StateNumbers DEF RInv, Engine
    <3>3. Engine' <=> refcount - taken = a + b + c
      BY <2>1, <3>1 DEF Engine
    <3> HIDE DEF a, b, c
    <3> QED BY <3>2, <3>3
  <2>5. ASSUME NEW p \in Op PROVE OpPlace(p)'
    <3>1. OpPlace(p) /\ op[p].desc \in Desc \cup {Null}
      BY StateNumbers DEF RInv
    <3>2. \A x \in Desc : Queued(desc'[x], p) = Queued(desc[x], p)
      BY <2>2 DEF Queued
    <3> QED BY <2>1, <3>1, <3>2, OpFrame
  <2> QED BY <1>4, <2>1, <2>3, <2>4, <2>5 DEF RInv
<1>6. CASE desc[d].ref = 1
  <2>0. PICK z, y : z = Orphans(d) /\ y = [NoDesc EXCEPT !.st = "freed"]
    OBVIOUS
  <2>1. /\ desc' = [desc EXCEPT ![d] = y] /\ refcount' = refcount - taken - 1 + Len(z) /\ opq' = opq \o Aborts(z)
        /\ op' = [o \in Op |-> IF op[o].err = "none" /\ \E i \in 1..Len(z) : z[i] = o
                               THEN [op[o] EXCEPT !.err = "aborted"] ELSE op[o]]
    BY <1>6, <2>0 DEF descriptor_release, abort_ops, Aborts
  <2>2. \A o \in Op : op'[o].kind = op[o].kind /\ op'[o].desc = op[o].desc /\ op'[o].to = op[o].to /\ op'[o].calls = op[o].calls
    BY <1>1, <2>1 DEF OpType
  <2>3. /\ desc'[d].st # "live" /\ desc'[d].q["read"] = <<>> /\ desc'[d].q["write"] = <<>>
        /\ \A x \in Desc : x # d => desc'[x] = desc[x]
    <3>1. y.st # "live" /\ y.q["read"] = <<>> /\ y.q["write"] = <<>>
      BY <2>0 DEF NoDesc, NoQ, Ev
    <3> QED BY <1>1, <2>1, <3>1
  <2>4. Aborted(opq, opq \o Aborts(z), desc[d], Len(z))
    <3>1. desc[d] \in DescType
      BY <1>1
    <3>2. desc[d].q["read"] \in Seq(Op) /\ desc[d].q["write"] \in Seq(Op)
      BY <3>1, QueuedNat
    <3>3. z \in Seq(Op) /\ z = desc[d].q["read"] \o desc[d].q["write"]
      BY <2>0, <3>2 DEF Orphans
    <3>4. \A o : Count(z, {o}) = Queued(desc[d], o)
      BY <3>1, <3>3, QueuedNat
    <3> QED BY <1>1, <3>3, <3>4, AbortQueue
  <2>5. Aborted(opq, opq', desc[d], Len(z))
    BY <2>1, <2>4
  <2>6. Len(z) \in Nat /\ Len(opq') = Len(opq) + Len(z) /\ \A x \in Desc : About(opq', x) = About(opq, x)
    BY <2>5 DEF Aborted
  <2>7. \A o \in Op : Carry(opq', o) = Carry(opq, o) + Queued(desc[d], o)
    BY <2>5 DEF Aborted
  <2>8. ASSUME NEW x \in Desc PROVE DescRefs(x)'
    <3>1. Refs(x) = Refs(x)' + One(d = x) /\ Refs(x)' \in Nat
      BY <1>3, <2>6
    <3>2. CASE x = d
      <4>1. 1 = Refs(d)' + 1 /\ Refs(d)' \in Nat
        BY <1>6, <3>1, <3>2 DEF One
      <4>2. Refs(d)' = 0
        BY <4>1
      <4> QED BY <2>3, <3>2, <4>2 DEF DescRefs
    <3>3. CASE x # d
      <4>1. Refs(x) = Refs(x)' + 0 /\ Refs(x)' \in Nat
        BY <3>1, <3>3 DEF One
      <4>2. Refs(x)' = Refs(x) /\ DescRefs(x)
        BY <4>1 DEF RInv
      <4> QED BY <2>3, <3>3, <4>2, DescFrame
    <3> QED BY <3>2, <3>3
  <2>9. Engine'
    <3>1. Tally(desc, LiveDesc) = Tally(desc', LiveDesc) + 1 /\ Tally(desc', LiveDesc) \in Nat
      BY <1>1, <2>3, LiveChange, SMTT(20)
    <3> DEFINE a == Len(opq)
               b == Len(ops')
               c == Tally(desc', LiveDesc)
               n == Len(z)
    <3>2. a \in Nat /\ b \in Nat /\ c \in Nat /\ n \in Nat /\ refcount = a + (b + taken) + (c + 1)
      BY <1>2, <2>6, <3>1, StateNumbers DEF RInv, Engine
    <3>3. Engine' <=> refcount - taken - 1 + n = (a + n) + b + c
      BY <2>1, <2>6 DEF Engine
    <3> HIDE DEF a, b, c, n
    <3> QED BY <3>2, <3>3
  <2>10. Sent(opq', op')
    <3>1. Sent(opq, op')
      BY <1>1, <2>2, SentKeep DEF RInv
    <3> QED BY <2>5, <3>1 DEF Aborted
  <2>11. ASSUME NEW p \in Op PROVE OpPlace(p)'
    <3>1. OpPlace(p) /\ op[p].desc \in Desc \cup {Null}
      BY StateNumbers DEF RInv
    <3>2. Queued(desc'[d], p) = 0 /\ \A x \in Desc : x # d => Queued(desc'[x], p) = Queued(desc[x], p)
      BY <2>3, QueuedEmpty
    <3>3. Started(p)' <=> Started(p)
      BY <2>2 DEF Started
    <3>4. CASE op[p].desc = d
      <4> DEFINE n == op[p].calls
                 b == Carry(opq, p)
                 c == Carry(ops, p)
                 w == Queued(desc[d], p)
      <4>1. n \in Nat /\ b \in Nat /\ c \in Nat /\ w \in Nat /\ d # Null
        BY StateNumbers, NullAssumption
      <4>2. Place(p) = n + b + c + w /\ Place(p)' = n + (b + w) + c + 0
        BY <2>2, <2>7, <3>2, <3>4, <4>1 DEF Place
      <4> HIDE DEF n, b, c, w
      <4>3. Place(p)' = Place(p)
        BY <4>1, <4>2
      <4> QED BY <2>2, <3>1, <3>2, <3>3, <4>3 DEF OpPlace, One
    <3>5. CASE op[p].desc # d
      <4>1. Queued(desc[d], p) = 0
        BY <3>1, <3>5 DEF OpPlace
      <4>2. Carry(opq', p) = Carry(opq, p) + 0 /\ Carry(opq, p) \in Nat
        BY <2>7, <4>1, StateNumbers
      <4>3. Carry(opq', p) = Carry(opq, p) /\ \A x \in Desc : Queued(desc'[x], p) = Queued(desc[x], p)
        BY <3>2, <4>1, <4>2
      <4> QED BY <2>2, <3>1, <4>3, OpFrame
    <3> QED BY <3>4, <3>5
  <2> QED BY <1>4, <2>2, <2>8, <2>9, <2>10, <2>11 DEF RInv
<1> QED BY <1>5, <1>6

\* The closure of unbind runs: the reference it held is dropped.
LEMMA StepRunUnbind ==
  ASSUME IInv, RInv, IInv', op_run_unbind
  PROVE  RInv'
<1>0. PICK d, ds : d = Head(ops).desc /\ ds = [desc EXCEPT ![d].fd = FALSE]
  OBVIOUS
<1>1. /\ lpc = "drain" /\ ops # <<>> /\ Head(ops).k = "unbind" /\ ops' = Tail(ops)
      /\ descriptor_release(ds, d, 1) /\ UNCHANGED <<evs, cur, handle>>
  BY <1>0 DEF op_run_unbind, At
<1>2. /\ ops \in Seq(Closure) /\ Head(ops) \in Closure /\ Len(ops) = Len(ops') + 1
      /\ \A x : About(ops, x) = About(ops', x) + One(d = x) /\ About(ops', x) \in Nat
      /\ \A p : Carry(ops, p) = Carry(ops', p) + One(Head(ops).op = p) /\ Carry(ops', p) \in Nat
  BY <1>0, <1>1, BatchHead
<1>3. d \in Desc /\ Head(ops).op = Null
  BY <1>0, <1>1, <1>2, ClosureFields
<1>4. cur = Null /\ \A x \in Desc : evs'[x] = {} /\ ~InUse(cur', x) /\ ~InUse(cur, x)
  BY <1>1 DEF IInv, LoopShape, InEvents, InUse
<1>5. desc \in [Desc -> DescType] /\ Sent(Tail(ops), op)
  BY <1>1, <1>2, SentChange DEF RInv, IInv, TypeOK
<1>6. /\ ds \in [Desc -> DescType] /\ ds[d].st = desc[d].st /\ ds[d].ref = desc[d].ref /\ ds[d].q = desc[d].q
      /\ \A x \in Desc : x # d => ds[x] = desc[x]
  BY <1>0, <1>3, <1>5 DEF DescType
<1>7. desc[d].st = "live" /\ desc[d].ref = Refs(d)
  <2>1. About(ops, d) = About(ops', d) + 1 /\ About(ops', d) \in Nat
    BY <1>2 DEF One
  <2>2. About(ops, d) # 0
    BY <2>1
  <2> QED BY <1>3, <2>2, Referred
<1>8. \A x \in Desc : About(ops, x) + One(InUse(cur, x) /\ cur.release) = About(ops', x) + One(d = x)
  <2>1. ASSUME NEW x \in Desc PROVE About(ops, x) + One(InUse(cur, x) /\ cur.release) = About(ops', x) + One(d = x)
    <3>1. One(InUse(cur, x) /\ cur.release) = 0 /\ About(ops, x) \in Nat
      BY <1>4, StateNumbers DEF One
    <3>2. About(ops, x) + One(InUse(cur, x) /\ cur.release) = About(ops, x)
      BY <3>1
    <3> QED BY <1>2, <3>2
  <2> QED BY <2>1
<1>9. \A p \in Op : Carry(ops', p) = Carry(ops, p)
  <2>1. ASSUME NEW p \in Op PROVE Carry(ops', p) = Carry(ops, p)
    <3>1. Carry(ops, p) = Carry(ops', p) + 0 /\ Carry(ops', p) \in Nat
      BY <1>2, <1>3, NullAssumption DEF One
    <3> QED BY <3>1
  <2> QED BY <2>1
<1>10. handle' = handle /\ Sent(ops', op) /\ Len(ops) = Len(ops') + 1 /\ descriptor_release(ds, d, 1) /\ 1 \in {0, 1}
       /\ \A x \in Desc : evs'[x] = {} /\ ~InUse(cur', x)
  BY <1>1, <1>2, <1>4, <1>5
<1> QED BY <1>3, <1>6, <1>7, <1>8, <1>9, <1>10, StepRelease

\* The dispatch of a closure ends: the reference it held is dropped.
LEMMA StepEndRelease ==
  ASSUME IInv, RInv, IInv', dispatch_end_release
  PROVE  RInv'
<1>0. PICK d : d = cur.desc
  OBVIOUS
<1>1. /\ lpc = "dispatch" /\ cur.release /\ descriptor_release(desc, d, 0) /\ cur' = Null
      /\ UNCHANGED <<evs, ops, handle>>
  BY <1>0 DEF dispatch_end_release, At
<1>2. cur # Null /\ cur \in CurType /\ d \in Desc /\ desc \in [Desc -> DescType]
  BY <1>0, <1>1 DEF IInv, LoopShape, TypeOK, CurType
<1>3. \A x \in Desc : evs'[x] = {} /\ ~InUse(cur', x) /\ ((InUse(cur, x) /\ cur.release) <=> d = x)
  BY <1>0, <1>1, <1>2 DEF IInv, LoopShape, InEvents, InUse
<1>4. desc[d].st = "live" /\ desc[d].ref = Refs(d)
  BY <1>2, <1>3, Referred
<1>5. \A x \in Desc : About(ops, x) + One(InUse(cur, x) /\ cur.release) = About(ops', x) + One(d = x)
  BY <1>1, <1>3 DEF One
<1>6. /\ handle' = handle /\ Sent(ops', op) /\ Len(ops) = Len(ops') + 0 /\ 0 \in {0, 1}
      /\ descriptor_release(desc, d, 0) /\ \A p \in Op : Carry(ops', p) = Carry(ops, p)
  BY <1>1, StateNumbers DEF RInv
<1>7. \A x \in Desc : evs'[x] = {} /\ ~InUse(cur', x)
  BY <1>3
<1> QED BY <1>2, <1>4, <1>5, <1>6, <1>7, StepRelease

\* An operation is completed from the front of its descriptor's queue.
LEMMA DonePlaces ==
  ASSUME IInv, RInv, NEW d \in Desc, NEW o \in Op, UNCHANGED <<opq, ops>>,
         \A p : Queued(desc[d], p) = Queued(desc'[d], p) + One(o = p) /\ Queued(desc'[d], p) \in Nat,
         \A x \in Desc : \A p : x # d => Queued(desc'[x], p) = Queued(desc[x], p),
         \A p \in Op : op'[p].kind = op[p].kind /\ op'[p].desc = op[p].desc /\ op'[p].to = op[p].to,
         \A p \in Op : p # o => op'[p].calls = op[p].calls, op'[o].calls = op[o].calls + 1
  PROVE  op[o].calls = 0 /\ op'[o].calls = 1 /\ \A p \in Op : OpPlace(p)'
<1>1. OpPlace(o) /\ d # Null
  BY NullAssumption DEF RInv
<1> DEFINE n == op[o].calls
           b == Carry(opq, o)
           c == Carry(ops, o)
           z == Queued(desc'[d], o)
<1>2. n \in Nat /\ b \in Nat /\ c \in Nat
  BY StateNumbers
<1>3. z \in Nat /\ Queued(desc[d], o) = z + 1
  BY DEF One
<1>4. Queued(desc[d], o) # 0
  <2> HIDE DEF z
  <2> QED BY <1>3
<1>5. op[o].desc = d
  BY <1>1, <1>4 DEF OpPlace
<1>6. Place(o) = n + b + c + (z + 1) /\ Place(o)' = (n + 1) + b + c + z /\ Place(o) \in {0, 1}
  BY <1>1, <1>3, <1>5, OneNat DEF Place, OpPlace
<1>7. n = 0 /\ Place(o)' = Place(o)
  <2> HIDE DEF n, b, c, z
  <2> QED BY <1>2, <1>3, <1>6
<1>8. OpPlace(o)'
  <2>1. Started(o)' <=> Started(o)
    BY DEF Started
  <2>2. \A x \in Desc : x # d => Queued(desc'[x], o) = Queued(desc[x], o)
    OBVIOUS
  <2> QED BY <1>1, <1>5, <1>7, <2>1, <2>2 DEF OpPlace, One
<1>9. ASSUME NEW p \in Op, p # o PROVE OpPlace(p)'
  <2>1. OpPlace(p) /\ op[p].desc \in Desc \cup {Null}
    BY StateNumbers DEF RInv
  <2>2. Queued(desc[d], p) = Queued(desc'[d], p) + 0 /\ Queued(desc'[d], p) \in Nat
    BY <1>9 DEF One
  <2>3. Queued(desc'[d], p) = Queued(desc[d], p)
    BY <2>2
  <2>4. \A x \in Desc : Queued(desc'[x], p) = Queued(desc[x], p)
    BY <2>3
  <2>5. op'[p].kind = op[p].kind /\ op'[p].desc = op[p].desc /\ op'[p].calls = op[p].calls
    BY <1>9
  <2> QED BY <2>1, <2>4, <2>5, OpFrame
<1> QED BY <1>7, <1>8, <1>9

\* post_proc says done; an accept also fills the socket object it was given.
LEMMA StepDone ==
  ASSUME IInv, RInv, IInv', NEW e \in Ev, dispatch_done(e)
  PROVE  RInv'
<1>0. PICK o, d, ds : o = Front(e) /\ d = cur.desc /\ ds = Pop(e)
  OBVIOUS
<1>1. /\ lpc = "dispatch" /\ desc[d].q[e] # <<>> /\ UNCHANGED <<opq, evs, ops, cur>>
      /\ \E r, m : op' = [Complete(o, r) EXCEPT ![o].remain = m]
      /\ \/ desc' = ds /\ UNCHANGED <<handle, refcount>>
         \/ /\ op[o].kind = "accept" /\ refcount' = refcount + 1
            /\ \E a \in NewDesc : /\ desc' = [ds EXCEPT ![a] = descriptor_create(<<>>)]
                                  /\ handle' = [handle EXCEPT ![op[o].to] = a]
  BY <1>0 DEF dispatch_done, Dispatching, At
<1>2. /\ cur # Null /\ d \in Desc /\ desc \in [Desc -> DescType] /\ desc' \in [Desc -> DescType]
      /\ op \in [Op -> OpType] /\ handle \in [Sock -> Desc \cup {Null}]
  BY <1>0, <1>1 DEF IInv, LoopShape, TypeOK, CurType
<1>3. desc[d].st = "live" /\ desc[d].ref = Refs(d)
  BY <1>0, <1>2, Referred DEF InUse
<1>4. desc[d].q[e] \in Seq(Op) /\ o = Head(desc[d].q[e])
  <2>1. desc[d] \in DescType
    BY <1>2
  <2> QED BY <1>0, <2>1, QueuedNat DEF Front, Ev
<1>5. o \in Op
  BY <1>0, <1>1, <1>2, PopType DEF IInv
<1>6. /\ ds = [desc EXCEPT ![d].q[e] = Tail(@)] /\ ds \in [Desc -> DescType]
  BY <1>0, <1>1, <1>2, PopType DEF Pop, IInv
<1>7. /\ ds[d].st = desc[d].st /\ ds[d].ref = desc[d].ref /\ \A x \in Desc : x # d => ds[x] = desc[x]
      /\ ds[d].q[e] = Tail(desc[d].q[e]) /\ \A f \in Ev : f # e => ds[d].q[f] = desc[d].q[f]
  BY <1>2, <1>6 DEF DescType, QType
<1>8. \A p : Queued(desc[d], p) = Queued(ds[d], p) + One(o = p) /\ Queued(ds[d], p) \in Nat
  <2>1. desc[d] \in DescType /\ ds[d] \in DescType
    BY <1>2, <1>6
  <2>2. \A p : Queued(desc[d], p) = Queued(ds[d], p) + One(Head(desc[d].q[e]) = p)
    BY <1>1, <1>7, <2>1, QueuedPop
  <2> QED BY <1>4, <2>1, <2>2, QueuedNat
<1>9. /\ \A p \in Op : op'[p].kind = op[p].kind /\ op'[p].desc = op[p].desc /\ op'[p].to = op[p].to
      /\ \A p \in Op : p # o => op'[p].calls = op[p].calls
      /\ op'[o].calls = op[o].calls + 1
  BY <1>1, <1>2, <1>5 DEF Complete, OpType
<1>10. Sent(opq', op') /\ Sent(ops', op')
  <2>1. Sent(opq, op) /\ Sent(ops, op) /\ opq \in Seq(Closure) /\ ops \in Seq(Closure)
    BY DEF RInv, IInv, TypeOK
  <2>2. Sent(opq, op') /\ Sent(ops, op')
    BY <1>9, <2>1, SentKeep
  <2> QED BY <1>1, <2>2
<1>11. \A x \in Desc : DescRefs(x) /\ (desc[x].st # "live" => evs'[x] = {} /\ ~InUse(cur', x))
  BY <1>1, Referred DEF RInv
<1>12. CASE desc' = ds /\ UNCHANGED <<handle, refcount>>
  <2>1. op[o].calls = 0 /\ op'[o].calls = 1 /\ \A p \in Op : OpPlace(p)'
    <3>1. /\ \A p : Queued(desc[d], p) = Queued(desc'[d], p) + One(o = p) /\ Queued(desc'[d], p) \in Nat
          /\ \A x \in Desc : \A p : x # d => Queued(desc'[x], p) = Queued(desc[x], p)
      BY <1>7, <1>8, <1>12
    <3>2. UNCHANGED <<opq, ops>>
      BY <1>1
    <3> QED BY <1>2, <1>5, <1>9, <3>1, <3>2, DonePlaces
  <2>2. Engine'
    <3>1. Tally(desc', LiveDesc) = Tally(desc, LiveDesc)
      BY <1>2, <1>7, <1>12, LiveChange
    <3> QED BY <1>1, <1>12, <3>1 DEF RInv, Engine
  <2>3. Targets'
    <3>1. \A p \in Op : Accepting(p)' => Accepting(p) /\ op'[p].to = op[p].to
      BY <1>9, <2>1 DEF Accepting
    <3>2. \A p \in Op : Accepting(p) => handle'[op[p].to] = Null
      BY <1>12 DEF RInv, Targets
    <3> QED BY <3>1, <3>2, TargetsKeep DEF RInv
  <2>4. ASSUME NEW x \in Desc PROVE DescRefs(x)'
    <3>1. Refs(x)' = Refs(x)
      BY <1>1, <1>12 DEF Refs
    <3>2. CASE x = d
      BY <1>3, <1>7, <1>12, <3>1, <3>2 DEF DescRefs
    <3>3. CASE x # d
      BY <1>7, <1>11, <1>12, <3>1, <3>3, DescFrame
    <3> QED BY <3>2, <3>3
  <2> QED BY <1>10, <2>1, <2>2, <2>3, <2>4 DEF RInv
<1>13. CASE op[o].kind = "accept" /\ refcount' = refcount + 1
            /\ \E a \in NewDesc : /\ desc' = [ds EXCEPT ![a] = descriptor_create(<<>>)]
                                  /\ handle' = [handle EXCEPT ![op[o].to] = a]
  <2>0. PICK s, y : s = op[o].to /\ y = descriptor_create(<<>>)
    OBVIOUS
  <2>1. PICK a \in NewDesc : desc' = [ds EXCEPT ![a] = y] /\ handle' = [handle EXCEPT ![s] = a]
    BY <1>13, <2>0
  <2>2. y.st = "live" /\ y.ref = 1 /\ y.q["read"] = <<>> /\ y.q["write"] = <<>>
    BY <2>0 DEF descriptor_create, NoQ, Ev
  <2>3. a \in Desc /\ desc[a].st # "live" /\ a # d
    BY <1>3 DEF NewDesc
  <2>4. desc'[a] = y /\ \A x \in Desc : x # a => desc'[x] = ds[x]
    BY <1>6, <2>1, <2>3
  <2>5. Refs(a) = 0 /\ \A p : Queued(desc[a], p) = 0
    <3>1. Refs(a) = 0 /\ desc[a].q["read"] = <<>> /\ desc[a].q["write"] = <<>>
      BY <1>11, <2>3 DEF DescRefs
    <3> QED BY <3>1, QueuedEmpty
  <2>6. op[o].calls = 0 /\ op'[o].calls = 1 /\ \A p \in Op : OpPlace(p)'
    <3>1. \A p : Queued(desc'[a], p) = 0
      BY <2>2, <2>4, QueuedEmpty
    <3>2. /\ \A p : Queued(desc[d], p) = Queued(desc'[d], p) + One(o = p) /\ Queued(desc'[d], p) \in Nat
          /\ \A x \in Desc : \A p : x # d => Queued(desc'[x], p) = Queued(desc[x], p)
      BY <1>2, <1>7, <1>8, <2>3, <2>4, <2>5, <3>1
    <3>3. UNCHANGED <<opq, ops>>
      BY <1>1
    <3> QED BY <1>2, <1>5, <1>9, <3>2, <3>3, DonePlaces
  <2>7. Accepting(o) /\ s \in Sock /\ handle[s] = Null
    BY <1>5, <1>13, <2>0, <2>6 DEF Accepting, RInv, Targets
  <2>8. Engine'
    <3>1. Tally(ds, LiveDesc) = Tally(desc, LiveDesc)
      <4>1. \A x \in Desc : ds[x].st = desc[x].st
        BY <1>7
      <4>2. desc \in [Desc -> DescType] /\ ds \in [Desc -> DescType]
        BY <1>2, <1>6
      <4> QED BY <4>1, <4>2, LiveChange
    <3>2. ds[a].st # "live" /\ desc'[a].st = "live"
      BY <1>7, <2>2, <2>3, <2>4
    <3>3. Tally(desc', LiveDesc) = Tally(ds, LiveDesc) + 1
      BY <1>2, <1>6, <2>3, <2>4, <3>2, LiveChange
    <3>4. Len(opq') = Len(opq) + 0 /\ refcount' = refcount + 0 + 1 /\ ops' = ops
      BY <1>1, <1>13, StateNumbers
    <3>5. Tally(desc', LiveDesc) = Tally(desc, LiveDesc) + 1
      BY <3>1, <3>3
    <3> QED BY <3>4, <3>5, EngineChange
  <2>9. Targets'
    <3>1. \A p \in Op : Accepting(p)' => p # o /\ Accepting(p) /\ op'[p].to = op[p].to
      BY <1>9, <2>6 DEF Accepting
    <3>2. \A p \in Op : Accepting(p) /\ p # o => op[p].to \in Sock /\ op[p].to # s /\ handle[op[p].to] = Null
      BY <1>5, <2>0, <2>7 DEF RInv, Targets
    <3>3. \A p \in Op : Accepting(p) /\ p # o => handle'[op[p].to] = Null
      BY <1>2, <2>1, <3>2
    <3> QED BY <3>1, <3>3, TargetsKeep DEF RInv
  <2>10. Given(handle, handle', a)
    <3>1. handle' \in [Sock -> Desc \cup {Null}] /\ handle'[s] = a /\ \A r \in Sock : r # s => handle'[r] = handle[r]
      BY <1>2, <2>1, <2>3, <2>7
    <3> QED BY <1>2, <2>3, <2>7, <3>1, HandleSet
  <2>11. ASSUME NEW x \in Desc PROVE DescRefs(x)'
    <3>1. Refs(x)' = Refs(x) + One(a = x) + 0 /\ Refs(x) \in Nat
      <4>1. Tally(handle', {x}) = Tally(handle, {x}) + One(a = x)
        BY <2>10 DEF Given
      <4>2. ops' = ops /\ cur' = cur /\ About(opq', x) = About(opq, x) + 0
        BY <1>1, StateNumbers
      <4>3. One(a = x) \in Nat
        BY OneNat
      <4> QED BY <4>1, <4>2, <4>3, RefsAdd
    <3>2. CASE x = a
      <4>1. Refs(x)' = 0 + 1 + 0
        BY <2>5, <3>1, <3>2 DEF One
      <4> QED BY <2>2, <2>4, <3>2, <4>1 DEF DescRefs
    <3>3. CASE x # a
      <4>1. Refs(x)' = Refs(x) + 0 + 0 /\ Refs(x) \in Nat
        BY <3>1, <3>3 DEF One
      <4>2. Refs(x)' = Refs(x)
        BY <4>1
      <4>3. CASE x = d
        BY <1>3, <1>7, <2>4, <3>3, <4>2, <4>3 DEF DescRefs
      <4>4. CASE x # d
        BY <1>7, <1>11, <2>4, <3>3, <4>2, <4>4, DescFrame
      <4> QED BY <4>3, <4>4
    <3> QED BY <3>2, <3>3
  <2> QED BY <1>10, <2>6, <2>8, <2>9, <2>11 DEF RInv
<1> QED BY <1>1, <1>12, <1>13

\* The calls other threads and handlers make.
LEMMA CallRefs ==
  ASSUME IInv, RInv, IInv', Call \/ LoopCall
  PROVE  RInv'
<1>1. "task" \in UserKind \ {"accept"} /\ "connect" \in UserKind \ {"accept"}
      /\ "recv" \in UserKind \ {"accept"} /\ "send" \in UserKind \ {"accept"}
  BY DEF UserKind
<1>2. ASSUME NEW t, NEW o, NEW k \in UserKind \ {"accept"}, NEW e, fail_op(t, o, k, e) PROVE RInv'
  <2>1. /\ o \in Fresh /\ StartOp(o, k, Null, Null, e) /\ opq' = Append(opq, RunC(o)) /\ refcount' = refcount + 1
        /\ UNCHANGED <<loopVars, handle, desc>>
    BY <1>2 DEF fail_op, op_add
  <2> QED BY <2>1, StepPlain
<1>3. ASSUME NEW t, NEW o, execute(t, o) PROVE RInv'
  <2>1. /\ o \in Fresh /\ StartOp(o, "task", Null, Null, "none") /\ opq' = Append(opq, RunC(o))
        /\ refcount' = refcount + 1 /\ UNCHANGED <<loopVars, handle, desc>>
    BY <1>3 DEF execute, op_add
  <2> QED BY <1>1, <2>1, StepPlain
<1>4. ASSUME NEW s \in Sock, handle[s] # Null PROVE handle[s] \in Desc /\ desc[handle[s]].st = "live"
  <2>1. handle[s] \in Desc
    BY <1>4 DEF IInv, TypeOK
  <2> QED BY <2>1, Referred
<1>5. ASSUME NEW s \in Sock, handle[s] # Null, NEW o, NEW k, NEW to, post_io(handle[s], o, k, to),
             k = "accept" => to \in Sock /\ Unused(to)
      PROVE  RInv'
  <2>1. PICK d \in Desc : d = handle[s] /\ desc[d].st = "live"
    BY <1>4, <1>5
  <2>2. post_io(d, o, k, to)
    BY <1>5, <2>1
  <2> QED BY <1>5, <2>1, <2>2, StepPostIo
<1>6. CASE Call
  <2>1. PICK t \in Caller :
          \/ wake_up(t) \/ (\E o \in Op : execute(t, o)) \/ (\E s \in Sock : unbind(t, s))
          \/ (\E s \in Sock, o \in Op : connect(t, s, o)) \/ (\E s \in Sock, o \in Op : connect_fail(t, s, o))
          \/ (\E s \in Sock : listen(t, s)) \/ (\E s \in Sock : udp_bind(t, s))
    BY <1>6 DEF Call
  <2>2. CASE wake_up(t)
    BY <2>2, QuietSteps
  <2>3. CASE \E o \in Op : execute(t, o)
    BY <1>3, <2>3
  <2>4. CASE \E s \in Sock : unbind(t, s)
    BY <2>4, StepUnbind
  <2>5. CASE \E s \in Sock, o \in Op : connect(t, s, o)
    BY <2>5, StepConnect
  <2>6. CASE \E s \in Sock, o \in Op : connect_fail(t, s, o)
    BY <1>1, <1>2, <2>6 DEF connect_fail
  <2>7. CASE (\E s \in Sock : listen(t, s)) \/ (\E s \in Sock : udp_bind(t, s))
    BY <2>7, StepOpen DEF listen, udp_bind
  <2> QED BY <2>1, <2>2, <2>3, <2>4, <2>5, <2>6, <2>7
<1>7. CASE LoopCall
  <2>1. CASE \E s \in Sock, o \in Op, k \in {"read", "readn"} : read(s, o, k)
    BY <1>5, <2>1 DEF read, Connected
  <2>2. CASE \E s \in Sock, o \in Op : write(s, o)
    BY <1>5, <2>2 DEF write, Connected
  <2>3. CASE \E s, to \in Sock, o \in Op : accept(s, o, to)
    BY <1>5, <2>3 DEF accept
  <2>4. CASE \E s \in Sock, o \in Op : accept_closed(s, o)
    BY <2>4, StepDropped
  <2>5. CASE \E s \in Sock, o \in Op : udp_read(s, o) \/ udp_write(s, o)
    BY <1>5, <2>5 DEF udp_read, udp_write
  <2>6. CASE \E s \in Sock, o \in Op : udp_read_closed(s, o) \/ udp_write_fail(s, o)
    BY <1>1, <1>2, <2>6 DEF udp_read_closed, udp_write_fail
  <2>7. CASE \E s \in Sock, o \in Op : udp_write_open(s, o)
    BY <2>7, StepUdpOpen
  <2> QED BY <1>7, <2>1, <2>2, <2>3, <2>4, <2>5, <2>6, <2>7 DEF LoopCall
<1> QED BY <1>6, <1>7

\* Every step keeps the counts.
LEMMA NextRInv == IInv /\ RInv /\ [Next]_vars => RInv'
<1> SUFFICES ASSUME IInv, RInv, [Next]_vars PROVE RInv'
  OBVIOUS
<1>1. IInv'
  BY NextIInv
<1>2. CASE Call \/ LoopCall
  BY <1>1, <1>2, CallRefs
<1>3. CASE LoopStep
  <2>1. CASE \/ run_check \/ epoll_wait \/ epoll_wait_timeout \/ (\E d \in Desc : run_event(d))
             \/ run_pipe \/ run_no_take \/ run_drained \/ dispatch_end \/ handler_return
             \/ (\E e \in Ev : dispatch_empty(e)) \/ (\E e \in Ev : dispatch_wait(e))
    BY <2>1, QuietSteps
  <2>2. CASE run_take
    BY <2>2, StepTake
  <2>3. CASE op_run_handler
    BY <2>3, StepHandler
  <2>4. CASE op_run_unbind
    BY <1>1, <2>4, StepRunUnbind
  <2>5. CASE op_run_dispatch
    BY <1>1, <2>5, StepEnqueue
  <2>6. CASE \E e \in Ev : dispatch_done(e)
    BY <1>1, <2>6, StepDone
  <2>7. CASE dispatch_end_release
    BY <1>1, <2>7, StepEndRelease
  <2> QED BY <1>3, <2>1, <2>2, <2>3, <2>4, <2>5, <2>6, <2>7 DEF LoopStep
<1>4. CASE run \/ KernelStep \/ UNCHANGED vars
  BY <1>4, QuietSteps
<1> QED BY <1>2, <1>3, <1>4 DEF Next

\* Nothing exists before the first call.
LEMMA InitRInv == Init => RInv
<1> SUFFICES ASSUME Init PROVE RInv
  OBVIOUS
<1>1. /\ opq = <<>> /\ ops = <<>> /\ refcount = 0 /\ cur = Null
      /\ \A d \in Desc : /\ evs[d] = {} /\ desc[d].st = "new" /\ desc[d].q["read"] = <<>>
                         /\ desc[d].q["write"] = <<>>
      /\ \A s \in Sock : handle[s] = Null
      /\ \A o \in Op : op[o].kind = "none" /\ op[o].desc = Null /\ op[o].calls = 0
  BY DEF Init, NoDesc, NoQ, Ev
<1>2. IInv
  BY InitIInv
<1>3. /\ desc \in [Desc -> DescType] /\ handle \in [Sock -> Desc \cup {Null}] /\ opq \in Seq(Closure)
  BY <1>2 DEF IInv, TypeOK
<1>4. Tally(desc, LiveDesc) = 0
  BY <1>1, <1>3, LiveChange
<1>5. Len(opq) = 0 /\ \A x : About(opq, x) = 0 /\ Carry(opq, x) = 0
  BY <1>1, <1>3, ClosureNat
<1>6. Engine
  BY <1>1, <1>4, <1>5 DEF Engine
<1>7. Sent(opq, op) /\ Sent(ops, op) /\ Targets
  BY <1>1 DEF Sent, Targets, Accepting
<1>8. ASSUME NEW d \in Desc PROVE DescRefs(d)
  <2>1. Tally(handle, {d}) = 0
    <3>1. \A s \in Sock : handle[s] # d
      BY <1>1, NullAssumption
    <3>2. handle \in [Sock -> Desc \cup {Null}]
      BY <1>3
    <3>3. Tally(handle, {d}) = 0 <=> \A s \in Sock : handle[s] # d
      BY <3>2, HandleNat
    <3> QED BY <3>1, <3>3
  <2>2. One(InUse(cur, d) /\ cur.release) = 0 /\ ~InUse(cur, d)
    BY <1>1 DEF One, InUse
  <2>3. Refs(d) = 0 + 0 + 0 + 0
    BY <1>1, <1>5, <2>1, <2>2 DEF Refs
  <2> QED BY <1>1, <2>2, <2>3 DEF DescRefs
<1>9. ASSUME NEW o \in Op PROVE OpPlace(o)
  <2>1. Place(o) = 0 + 0 + 0 + 0 /\ ~Started(o)
    BY <1>1, <1>5 DEF Place, Started
  <2>2. \A d \in Desc : Queued(desc[d], o) = 0
    BY <1>1, QueuedEmpty
  <2> QED BY <1>1, <2>1, <2>2 DEF OpPlace, One
<1> QED BY <1>6, <1>7, <1>8, <1>9 DEF RInv

\* The counts of the checked properties are the counts of the invariant.
LEMMA SameCounts ==
  ASSUME IInv
  PROVE  /\ Cardinality(Live) = Tally(desc, LiveDesc)
         /\ \A d \in Desc : RefsTo(d) = Refs(d)
         /\ \A o \in Op : ClosureCount(opq, o) = Carry(opq, o) /\ ClosureCount(ops, o) = Carry(ops, o)
         /\ \A o \in Op, d \in Desc : QueuedIn(o, d) = Queued(desc[d], o)
<1>1. /\ opq \in Seq(Closure) /\ ops \in Seq(Closure) /\ desc \in [Desc -> DescType]
      /\ handle \in [Sock -> Desc \cup {Null}]
  BY DEF IInv, TypeOK
<1>2. Cardinality(Live) = Tally(desc, LiveDesc)
  <2>1. Live = {x \in DOMAIN desc : desc[x] \in LiveDesc}
    BY <1>1 DEF Live, LiveDesc
  <2> QED BY <2>1 DEF Tally
<1>3. ASSUME NEW q \in Seq(Closure), NEW x PROVE Holds(q, x) = About(q, x) /\ ClosureCount(q, x) = Carry(q, x)
  <2>1. /\ {i \in 1..Len(q) : q[i].desc = x} = PlacesOf(q, {c \in Closure : c.desc = x})
        /\ {i \in 1..Len(q) : q[i].op = x} = PlacesOf(q, {c \in Closure : c.op = x})
    BY DEF PlacesOf
  <2> QED BY <2>1 DEF Holds, ClosureCount, About, Carry, Count
<1>4. ASSUME NEW d \in Desc PROVE RefsTo(d) = Refs(d)
  <2>1. {s \in Sock : handle[s] = d} = {s \in DOMAIN handle : handle[s] \in {d}}
    BY <1>1
  <2>2. Cardinality({s \in Sock : handle[s] = d}) = Tally(handle, {d})
    BY <2>1 DEF Tally
  <2>3. Holds(opq, d) = About(opq, d) /\ Holds(ops, d) = About(ops, d)
    BY <1>1, <1>3
  <2>4. (IF cur # Null /\ cur.desc = d /\ cur.release THEN 1 ELSE 0) = One(InUse(cur, d) /\ cur.release)
    BY DEF One, InUse
  <2> QED BY <2>2, <2>3, <2>4 DEF RefsTo, Refs
<1>5. ASSUME NEW s \in Seq(Op), NEW o \in Op PROVE Times(s, o) = Count(s, {o})
  <2>1. {i \in 1..Len(s) : s[i] = o} = PlacesOf(s, {o})
    BY DEF PlacesOf
  <2> QED BY <2>1 DEF Times, Count
<1>6. ASSUME NEW o \in Op, NEW d \in Desc PROVE QueuedIn(o, d) = Queued(desc[d], o)
  <2>1. desc[d] \in DescType
    BY <1>1
  <2>2. desc[d].q["read"] \in Seq(Op) /\ desc[d].q["write"] \in Seq(Op)
    BY <2>1, QueuedNat
  <2> QED BY <1>5, <2>2 DEF QueuedIn, Queued
<1> QED BY <1>1, <1>2, <1>3, <1>4, <1>6

\* The references and the operations of every reachable state are counted.
THEOREM ReferenceInvariant == Spec => [](IInv /\ RInv)
<1>1. Init => IInv /\ RInv
  BY InitIInv, InitRInv
<1>2. (IInv /\ RInv) /\ [Next]_vars => (IInv /\ RInv)'
  BY NextIInv, NextRInv
<1> QED BY <1>1, <1>2, PTL DEF Spec

\* engine::_refcount is the number of live descriptors and queued closures
\* (EngineRefcount): run() neither returns early nor waits for nothing.
THEOREM EngineCounts == Spec => []EngineRefcount
<1>1. IInv /\ RInv => EngineRefcount
  BY SameCounts DEF RInv, Engine, EngineRefcount
<1> QED BY <1>1, ReferenceInvariant, PTL

\* A descriptor's count is the number of references to it, and a deleted one
\* is referred to by nothing (DescriptorRefcount): no use after delete, no
\* second delete and no leak, whoever closes and whatever is queued.
THEOREM DescriptorCounts == Spec => []DescriptorRefcount
<1>1. ASSUME IInv, RInv, NEW d \in Desc
      PROVE  IF desc[d].st = "live" THEN desc[d].ref = RefsTo(d)
             ELSE RefsTo(d) = 0 /\ evs[d] = {} /\ (cur # Null => cur.desc # d)
  <2>1. DescRefs(d) /\ RefsTo(d) = Refs(d)
    BY <1>1, SameCounts DEF RInv
  <2> QED BY <2>1 DEF DescRefs, InUse
<1>2. IInv /\ RInv => DescriptorRefcount
  BY <1>1 DEF DescriptorRefcount
<1> QED BY <1>2, ReferenceInvariant, PTL

\* An operation that was started is in one queue until its handler has run,
\* and then in none (CompletedOnce).
THEOREM EachOpCompletes == Spec => []CompletedOnce
<1>1. ASSUME IInv, RInv, NEW o \in Op, op[o].kind \notin {"none", "dropped"}
      PROVE  /\ 1 = op[o].calls + ClosureCount(opq, o) + ClosureCount(ops, o)
                      + (IF op[o].desc = Null THEN 0 ELSE QueuedIn(o, op[o].desc))
             /\ \A d \in Desc \ {op[o].desc} : QueuedIn(o, d) = 0
  <2>1. OpPlace(o) /\ Started(o) /\ op[o].desc \in Desc \cup {Null}
    BY <1>1, StateNumbers DEF RInv, Started
  <2>2. Place(o) = 1 /\ \A d \in Desc \ {op[o].desc} : Queued(desc[d], o) = 0
    BY <2>1 DEF OpPlace, One
  <2>3. /\ ClosureCount(opq, o) = Carry(opq, o) /\ ClosureCount(ops, o) = Carry(ops, o)
        /\ \A d \in Desc : QueuedIn(o, d) = Queued(desc[d], o)
    BY <1>1, SameCounts
  <2>4. (IF op[o].desc = Null THEN 0 ELSE QueuedIn(o, op[o].desc))
          = (IF op[o].desc = Null THEN 0 ELSE Queued(desc[op[o].desc], o))
    BY <2>1, <2>3
  <2> QED BY <2>2, <2>3, <2>4 DEF Place
<1>2. IInv /\ RInv => CompletedOnce
  BY <1>1 DEF CompletedOnce
<1> QED BY <1>2, ReferenceInvariant, PTL

\* engine::run returns only when no closure is queued, no descriptor exists
\* and every operation's handler has run (RunReturnsIdle).
THEOREM ReturnsIdle == Spec => RunReturnsIdle
<1>1. ASSUME IInv, RInv, [Next]_vars, lpc = "check", lpc' = "out"
      PROVE  /\ opq = <<>> /\ Live = {}
             /\ \A o \in Op : op[o].kind \notin {"none", "dropped"} => op[o].calls = 1
  <2>1. refcount = 0
    <3>1. ~Call
      BY <1>1 DEF Call, wake_up, execute, unbind, connect, connect_fail, fail_op, listen, udp_bind, open_fd, loopVars
    <3>2. ~LoopCall
      BY <1>1 DEF LoopCall, MayCall, read, write, accept, accept_closed, udp_read, udp_read_closed, udp_write,
                  udp_write_open, udp_write_fail
    <3>3. ~run /\ ~KernelStep /\ vars' # vars
      BY <1>1 DEF run, KernelStep, connected, arrive, drain_tx, peer_fin, peer_reset, Kernel, vars, loopVars
    <3>4. LoopStep => run_check
      BY <1>1 DEF LoopStep, At, epoll_wait, epoll_wait_timeout, run_event, run_pipe, run_take, run_no_take,
                  run_drained, op_run_handler, op_run_unbind, op_run_dispatch, dispatch_empty, dispatch_done,
                  dispatch_wait, dispatch_end, dispatch_end_release, handler_return, Dispatching
    <3> QED BY <1>1, <3>1, <3>2, <3>3, <3>4 DEF Next, run_check
  <2>2. Len(opq) = 0 /\ Len(ops) = 0 /\ Tally(desc, LiveDesc) = 0
    <3> DEFINE a == Len(opq)
               b == Len(ops)
               c == Tally(desc, LiveDesc)
    <3>1. a \in Nat /\ b \in Nat /\ c \in Nat /\ a + b + c = 0
      BY <1>1, <2>1, StateNumbers DEF RInv, Engine
    <3> HIDE DEF a, b, c
    <3>2. a = 0 /\ b = 0 /\ c = 0
      BY <3>1
    <3> QED BY <3>2 DEF a, b, c
  <2>3. opq \in Seq(Closure) /\ ops \in Seq(Closure) /\ desc \in [Desc -> DescType]
    BY <1>1 DEF IInv, TypeOK
  <2>4. opq = <<>> /\ ops = <<>> /\ \A d \in Desc : desc[d].st # "live"
    BY <2>2, <2>3, LiveChange
  <2>5. ASSUME NEW o \in Op, op[o].kind \notin {"none", "dropped"} PROVE op[o].calls = 1
    <3>1. Carry(opq, o) = 0 /\ Carry(ops, o) = 0
      BY <2>3, <2>4, ClosureNat
    <3>2. \A d \in Desc : Queued(desc[d], o) = 0
      BY <1>1, <2>4, QueuedEmpty DEF RInv, DescRefs
    <3>3. OpPlace(o) /\ Started(o) /\ op[o].desc \in Desc \cup {Null} /\ op[o].calls \in Nat
      BY <1>1, <2>5, StateNumbers DEF RInv, Started
    <3>4. op[o].calls + 0 + 0 + 0 = 1
      BY <3>1, <3>2, <3>3 DEF OpPlace, Place, One
    <3> QED BY <3>3, <3>4
  <2> QED BY <2>4, <2>5 DEF Live
<1>2. IInv /\ RInv /\ [Next]_vars =>
        [lpc = "check" /\ lpc' = "out" =>
           /\ opq = <<>> /\ Live = {}
           /\ \A o \in Op : op[o].kind \notin {"none", "dropped"} => op[o].calls = 1]_vars
  BY <1>1
<1> QED BY <1>2, ReferenceInvariant, PTL DEF Spec, RunReturnsIdle

-----------------------------------------------------------------------------
(* Edges.                                                                  *)
(*                                                                         *)
(* That no edge is lost needs to know which operations can wait on which   *)
(* sockets: an accept that would block has looked at a listening socket    *)
(* with no connection, a write at a stream socket with no room, so that    *)
(* the next change of that socket is an edge of the right direction.       *)

\* The operations a socket in some state can have been given.
Suits(k, x) ==
  \/ k = "accept" /\ x.st = "listening"
  \/ k \in {"recv", "send"} /\ x.st \in Datagram
  \/ k \in {"connect", "read", "readn", "write"} /\ x.st \in {"connecting", "up", "reset"}

\* An operation given a descriptor was given one that exists, for a socket
\* it suits.
Owned(o) ==
  op[o].desc # Null =>
    /\ op[o].kind # "none" /\ desc[op[o].desc].st # "new"
    /\ desc[op[o].desc].fd => Suits(op[o].kind, sock[op[o].desc])

\* A descriptor's queue holds its own operations of that direction.
Mine(d, e) ==
  \A i \in DOMAIN desc[d].q[e] :
    op[desc[d].q[e][i]].desc = d /\ EvOf(op[desc[d].q[e][i]].kind) = e

\* Only stream sockets see the peer's end of stream; a closed or deleted
\* descriptor has no file.
Shaped(d) ==
  /\ sock[d].fin => sock[d].st \in {"up", "reset"}
  /\ desc[d].fd => desc[d].st = "live"

Seen(d, e) ==
  Waiting(d, e) /\ op[Head(desc[d].q[e])].kind # "readn" => Noticed(d, e)

EInv ==
  /\ \A o \in Op : Owned(o)
  /\ \A d \in Desc : Shaped(d)
  /\ \A d \in Desc, e \in Ev : Mine(d, e) /\ Seen(d, e)

\* What a step may do to an operation, a descriptor and a queue that it is
\* not about.
Kept(o) == op'[o].kind = op[o].kind /\ op'[o].desc = op[o].desc
Evolves(d) ==
  \/ desc[d].st = "new"
  \/ /\ desc'[d].st # "new"
     /\ desc'[d].fd => desc[d].fd /\ \A k : Suits(k, sock[d]) => Suits(k, sock'[d])
Within(d, e) ==
  \A i \in DOMAIN desc'[d].q[e] :
    \/ \E j \in DOMAIN desc[d].q[e] : desc'[d].q[e][i] = desc[d].q[e][j]
    \/ op'[desc'[d].q[e][i]].desc = d /\ EvOf(op'[desc'[d].q[e][i]].kind) = e
Still(d, e) ==
  /\ desc'[d].q[e] = desc[d].q[e] /\ (desc'[d].fd => desc[d].fd)
  /\ e \in Mask(sock'[d]) => e \in Mask(sock[d])
  /\ Noticed(d, e) => Noticed(d, e)'

\* The queues of a descriptor hold operations.
LEMMA QueueType ==
  ASSUME IInv, NEW d \in Desc, NEW e \in Ev
  PROVE  desc[d].q[e] \in Seq(Op)
BY DEF IInv, TypeOK, DescType, QType

\* An operation in a descriptor's queue has been started.
LEMMA InQueue ==
  ASSUME IInv, EInv, NEW d \in Desc, NEW e \in Ev, NEW i \in DOMAIN desc[d].q[e]
  PROVE  /\ desc[d].q[e][i] \in Op /\ op[desc[d].q[e][i]].desc = d
         /\ op[desc[d].q[e][i]].kind # "none" /\ EvOf(op[desc[d].q[e][i]].kind) = e
         /\ desc[d].fd => Suits(op[desc[d].q[e][i]].kind, sock[d])
<1>1. desc[d].q[e][i] \in Op
  BY QueueType
<1>2. op[desc[d].q[e][i]].desc = d /\ EvOf(op[desc[d].q[e][i]].kind) = e
  BY DEF EInv, Mine
<1>3. Owned(desc[d].q[e][i]) /\ d # Null
  BY <1>1, NullAssumption DEF EInv
<1> QED BY <1>1, <1>2, <1>3 DEF Owned

\* The invariant from what a step does to each operation, descriptor and
\* queue.
LEMMA EdgeStep ==
  ASSUME IInv, EInv,
         \A o \in Op : Kept(o) \/ (op[o].kind = "none" /\ Owned(o)'),
         \A d \in Desc : Evolves(d) /\ Shaped(d)',
         \A d \in Desc, e \in Ev : Within(d, e) /\ (Seen(d, e)' \/ Still(d, e))
  PROVE  EInv'
<1>0. op \in [Op -> OpType]
  BY DEF IInv, TypeOK
<1>1. ASSUME NEW o \in Op PROVE Owned(o)'
  <2>1. CASE Kept(o)
    <3> SUFFICES ASSUME op[o].desc # Null
                 PROVE  /\ op[o].kind # "none" /\ desc'[op[o].desc].st # "new"
                        /\ desc'[op[o].desc].fd => Suits(op[o].kind, sock'[op[o].desc])
      BY <2>1 DEF Owned, Kept
    <3>1. op[o].desc \in Desc
      BY <1>0 DEF OpType
    <3>2. Owned(o) /\ Evolves(op[o].desc)
      BY <3>1 DEF EInv
    <3> QED BY <3>2 DEF Owned, Evolves
  <2> QED BY <2>1
<1>2. ASSUME NEW d \in Desc, NEW e \in Ev, NEW i \in DOMAIN desc[d].q[e] PROVE Kept(desc[d].q[e][i])
  BY <1>2, InQueue
<1>3. ASSUME NEW d \in Desc, NEW e \in Ev PROVE Mine(d, e)'
  <2> SUFFICES ASSUME NEW i \in DOMAIN desc'[d].q[e]
               PROVE  op'[desc'[d].q[e][i]].desc = d /\ EvOf(op'[desc'[d].q[e][i]].kind) = e
    BY DEF Mine
  <2>1. CASE \E j \in DOMAIN desc[d].q[e] : desc'[d].q[e][i] = desc[d].q[e][j]
    <3>1. PICK j \in DOMAIN desc[d].q[e] : desc'[d].q[e][i] = desc[d].q[e][j]
      BY <2>1
    <3>2. Kept(desc[d].q[e][j])
      BY <1>2
    <3>3. op[desc[d].q[e][j]].desc = d /\ EvOf(op[desc[d].q[e][j]].kind) = e
      BY InQueue
    <3> QED BY <3>1, <3>2, <3>3 DEF Kept
  <2>2. Within(d, e)
    OBVIOUS
  <2> QED BY <2>1, <2>2 DEF Within
<1>4. ASSUME NEW d \in Desc, NEW e \in Ev, Still(d, e) PROVE Seen(d, e)'
  <2> SUFFICES ASSUME Waiting(d, e)', op'[Head(desc'[d].q[e])].kind # "readn" PROVE Noticed(d, e)'
    BY DEF Seen
  <2>1. Waiting(d, e) /\ desc'[d].q[e] = desc[d].q[e]
    BY <1>4 DEF Waiting, Still
  <2>2. desc[d].q[e] # <<>> /\ desc[d].q[e] \in Seq(Op)
    BY <2>1, QueueType DEF Waiting
  <2>3. Head(desc[d].q[e]) = desc[d].q[e][1] /\ 1 \in DOMAIN desc[d].q[e]
    BY <2>2
  <2>4. Kept(Head(desc[d].q[e]))
    BY <1>2, <2>3
  <2>5. op[Head(desc[d].q[e])].kind # "readn"
    BY <2>1, <2>4 DEF Kept
  <2>6. Seen(d, e)
    BY DEF EInv
  <2> QED BY <1>4, <2>1, <2>5, <2>6 DEF Seen, Still
<1> QED BY <1>1, <1>3, <1>4 DEF EInv
\* A step that changes no descriptor, no socket and no operation's kind.
LEMMA EdgeQuiet ==
  ASSUME IInv, EInv, UNCHANGED <<desc, sock>>, \A o \in Op : Kept(o),
         \A d \in Desc, e \in Ev : Seen(d, e)' \/ (Noticed(d, e) => Noticed(d, e)')
  PROVE  EInv'
<1>1. ASSUME NEW d \in Desc PROVE Evolves(d) /\ Shaped(d)'
  <2>1. Shaped(d)
    BY DEF EInv
  <2> QED BY <2>1 DEF Evolves, Shaped
<1>2. \A d \in Desc, e \in Ev : Within(d, e) /\ (Seen(d, e)' \/ Still(d, e))
  BY DEF Within, Still
<1> QED BY <1>1, <1>2, EdgeStep

\* An operation is started, for a descriptor it suits or for none.
LEMMA EdgeStart ==
  ASSUME IInv, EInv, UNCHANGED <<sock, evs, cur>>,
         NEW o \in Fresh, NEW k, NEW d \in Desc \cup {Null}, NEW s, NEW r, StartOp(o, k, d, s, r),
         d # Null => k # "none" /\ desc[d].st # "new" /\ Suits(k, sock[d]),
         \A x \in Desc : desc'[x].st = desc[x].st /\ desc'[x].fd = desc[x].fd /\ desc'[x].q = desc[x].q
  PROVE  EInv'
<1>1. /\ o \in Op /\ op[o].kind = "none" /\ op'[o].kind = k /\ op'[o].desc = d
      /\ \A p \in Op : p # o => op'[p] = op[p]
  BY StartFields DEF Fresh
<1>2. Owned(o)'
  BY <1>1 DEF Owned
<1>3. \A p \in Op : Kept(p) \/ (op[p].kind = "none" /\ Owned(p)')
  BY <1>1, <1>2 DEF Kept
<1>4. ASSUME NEW x \in Desc PROVE Evolves(x) /\ Shaped(x)'
  <2>1. Shaped(x)
    BY DEF EInv
  <2> QED BY <2>1 DEF Evolves, Shaped
<1>5. \A x \in Desc, e \in Ev : Within(x, e) /\ Still(x, e)
  BY DEF Within, Still, Noticed
<1> QED BY <1>3, <1>4, <1>5, EdgeStep

\* A descriptor is created: nothing was given it before.
LEMMA EdgeOpen ==
  ASSUME IInv, EInv, UNCHANGED <<evs, cur>>, NEW d \in NewDesc, NEW st, sock'[d] = OpenSock(st),
         desc'[d].st = "live", \A e \in Ev : Within(d, e) /\ Seen(d, e)',
         \A x \in Desc : x # d => desc'[x] = desc[x] /\ sock'[x] = sock[x],
         \A o \in Op : Kept(o) \/ (op[o].kind = "none" /\ Owned(o)')
  PROVE  EInv'
<1>1. ASSUME NEW x \in Desc PROVE Evolves(x) /\ Shaped(x)'
  <2>1. CASE x = d
    BY <2>1 DEF NewDesc, Evolves, Shaped, OpenSock
  <2>2. CASE x # d
    <3>1. Shaped(x) /\ desc'[x] = desc[x] /\ sock'[x] = sock[x]
      BY <2>2 DEF EInv
    <3> QED BY <3>1 DEF Evolves, Shaped
  <2> QED BY <2>1, <2>2
<1>2. ASSUME NEW x \in Desc, NEW e \in Ev PROVE Within(x, e) /\ (Seen(x, e)' \/ Still(x, e))
  <2>1. CASE x # d
    BY <2>1 DEF Within, Still, Noticed
  <2> QED BY <2>1
<1> QED BY <1>1, <1>2, EdgeStep

\* Neither the sockets nor what is known of them changes.
LEMMA EdgeSame ==
  ASSUME IInv, EInv, UNCHANGED <<desc, sock, op, evs, cur>>
  PROVE  EInv'
<1>1. \A o \in Op : Kept(o)
  BY DEF Kept
<1>2. \A d \in Desc, e \in Ev : Noticed(d, e) => Noticed(d, e)'
  BY DEF Noticed
<1> QED BY <1>1, <1>2, EdgeQuiet

\* The calls that start an operation on a descriptor, or on none.
LEMMA EdgeIo ==
  ASSUME IInv, RInv, EInv, NEW s \in Sock, handle[s] # Null, NEW o, NEW k, NEW to,
         Suits(k, sock[handle[s]]), post_io(handle[s], o, k, to)
  PROVE  EInv'
<1>1. handle[s] \in Desc /\ desc \in [Desc -> DescType]
  BY DEF IInv, TypeOK
<1>2. PICK d \in Desc : d = handle[s]
  BY <1>1
<1>3. desc[d].st = "live"
  BY <1>2, Referred
<1>4. /\ o \in Fresh /\ StartOp(o, k, d, to, "none") /\ UNCHANGED <<sock, evs, cur>>
      /\ desc' = [desc EXCEPT ![d].ref = @ + 1]
  BY <1>2 DEF post_io, loopVars
<1>5. \A x \in Desc : desc'[x].st = desc[x].st /\ desc'[x].fd = desc[x].fd /\ desc'[x].q = desc[x].q
  BY <1>1, <1>4 DEF DescType
<1>6. k # "none" /\ Suits(k, sock[d])
  BY <1>2 DEF Suits
<1> QED BY <1>3, <1>4, <1>5, <1>6, EdgeStart

\* An operation that is completed through the engine's queue.
LEMMA EdgePlain ==
  ASSUME IInv, EInv, NEW o \in Fresh, NEW k, NEW s, NEW r, StartOp(o, k, Null, s, r),
         UNCHANGED <<desc, sock, evs, cur>>
  PROVE  EInv'
BY EdgeStart

\* The fields of a descriptor just created.
LEMMA CreateFields ==
  ASSUME NEW wq \in Seq(Op)
  PROVE  /\ descriptor_create(wq).st = "live" /\ descriptor_create(wq).q["read"] = <<>>
         /\ descriptor_create(wq).q["write"] = wq
         /\ [descriptor_create(wq) EXCEPT !.ref = 2].st = "live"
         /\ [descriptor_create(wq) EXCEPT !.ref = 2].q = descriptor_create(wq).q
BY DEF descriptor_create, NoQ, Ev

\* A descriptor with no operation queued.
LEMMA EdgeEmpty ==
  ASSUME NEW d \in Desc, NEW e \in Ev, desc'[d].q["read"] = <<>>, desc'[d].q["write"] = <<>>
  PROVE  Within(d, e) /\ Seen(d, e)'
<1>1. desc'[d].q[e] = <<>>
  BY DEF Ev
<1> QED BY <1>1 DEF Within, Seen, Waiting

\* The calls that create a descriptor.
LEMMA EdgeCreate ==
  ASSUME IInv, EInv, NEW t, NEW s \in Sock,
         \/ \E o \in Op : connect(t, s, o) \/ udp_write_open(s, o)
         \/ \E st : open_fd(t, s, st)
  PROVE  EInv'
<1>0. desc \in [Desc -> DescType] /\ sock \in [Desc -> SockType]
  BY DEF IInv, TypeOK
<1>e. <<>> \in Seq(Op) /\ \A o \in Op : <<o>> \in Seq(Op)
  OBVIOUS
<1>1. ASSUME NEW o \in Op, connect(t, s, o) PROVE EInv'
  <2>1. PICK d \in NewDesc :
          /\ desc' = [desc EXCEPT ![d] = descriptor_create(<<o>>)]
          /\ sock' = [sock EXCEPT ![d] = OpenSock("connecting")]
          /\ StartOp(o, "connect", d, Null, "none")
    BY <1>1 DEF connect
  <2>2. o \in Fresh /\ UNCHANGED <<evs, cur>> /\ d \in Desc
    BY <1>1 DEF connect, loopVars, NewDesc
  <2>3. /\ desc'[d] = descriptor_create(<<o>>) /\ sock'[d] = OpenSock("connecting")
        /\ \A x \in Desc : x # d => desc'[x] = desc[x] /\ sock'[x] = sock[x]
    BY <1>0, <2>1, <2>2
  <2>4. desc'[d].st = "live" /\ desc'[d].q["read"] = <<>> /\ desc'[d].q["write"] = <<o>>
    BY <1>e, <2>3, CreateFields, ZenonT(30)
  <2>5. /\ op[o].kind = "none" /\ op'[o].kind = "connect" /\ op'[o].desc = d
        /\ \A p \in Op : p # o => op'[p] = op[p]
    BY <2>1, <2>2, StartFields DEF Fresh
  <2>6. \A p \in Op : Kept(p) \/ (op[p].kind = "none" /\ Owned(p)')
    <3>1. Suits("connect", OpenSock("connecting"))
      BY DEF Suits, OpenSock
    <3>2. Owned(o)'
      BY <2>3, <2>4, <2>5, <3>1 DEF Owned
    <3> QED BY <2>5, <3>2 DEF Kept
  <2>7. ASSUME NEW e \in Ev PROVE Within(d, e) /\ Seen(d, e)'
    <3>1. Mask(OpenSock("connecting")) = {}
      BY DEF Mask, OpenSock, Datagram
    <3>2. Seen(d, e)'
      BY <2>3, <3>1 DEF Seen, Waiting
    <3>3. CASE e = "read"
      BY <2>4, <3>2, <3>3 DEF Within
    <3>4. CASE e = "write"
      <4>1. \A i \in DOMAIN <<o>> : <<o>>[i] = o
        OBVIOUS
      <4>2. EvOf("connect") = "write"
        BY DEF EvOf
      <4> QED BY <2>4, <2>5, <3>2, <3>4, <4>1, <4>2 DEF Within
    <3> QED BY <3>2, <3>3, <3>4 DEF Ev
  <2> QED BY <2>2, <2>3, <2>4, <2>6, <2>7, EdgeOpen
<1>2. ASSUME NEW o \in Op, udp_write_open(s, o) PROVE EInv'
  <2>1. PICK d \in NewDesc :
          /\ desc' = [desc EXCEPT ![d] = [descriptor_create(<<>>) EXCEPT !.ref = 2]]
          /\ sock' = [sock EXCEPT ![d] = OpenSock("blocking")]
          /\ StartOp(o, "send", d, Null, "none")
    BY <1>2 DEF udp_write_open
  <2>2. o \in Fresh /\ UNCHANGED <<evs, cur>> /\ d \in Desc
    BY <1>2 DEF udp_write_open, loopVars, NewDesc
  <2>3. /\ desc'[d] = [descriptor_create(<<>>) EXCEPT !.ref = 2] /\ sock'[d] = OpenSock("blocking")
        /\ \A x \in Desc : x # d => desc'[x] = desc[x] /\ sock'[x] = sock[x]
    BY <1>0, <2>1, <2>2
  <2>4. desc'[d].st = "live" /\ desc'[d].q["read"] = <<>> /\ desc'[d].q["write"] = <<>>
    BY <1>e, <2>3, CreateFields, ZenonT(30)
  <2>5. /\ op[o].kind = "none" /\ op'[o].kind = "send" /\ op'[o].desc = d
        /\ \A p \in Op : p # o => op'[p] = op[p]
    BY <2>1, <2>2, StartFields DEF Fresh
  <2>6. \A p \in Op : Kept(p) \/ (op[p].kind = "none" /\ Owned(p)')
    <3>1. Suits("send", OpenSock("blocking"))
      BY DEF Suits, OpenSock, Datagram
    <3>2. Owned(o)'
      BY <2>3, <2>4, <2>5, <3>1 DEF Owned
    <3> QED BY <2>5, <3>2 DEF Kept
  <2>7. \A e \in Ev : Within(d, e) /\ Seen(d, e)'
    BY <2>2, <2>4, EdgeEmpty
  <2> QED BY <2>2, <2>3, <2>4, <2>6, <2>7, EdgeOpen
<1>3. CASE \E st : open_fd(t, s, st)
  <2>1. PICK st : open_fd(t, s, st)
    BY <1>3
  <2>2. PICK d \in NewDesc :
          /\ desc' = [desc EXCEPT ![d] = descriptor_create(<<>>)]
          /\ sock' = [sock EXCEPT ![d] = OpenSock(st)]
    BY <2>1 DEF open_fd
  <2>3. UNCHANGED <<evs, cur, op>> /\ d \in Desc
    BY <2>1 DEF open_fd, loopVars, NewDesc
  <2>4. /\ desc'[d] = descriptor_create(<<>>) /\ sock'[d] = OpenSock(st)
        /\ \A x \in Desc : x # d => desc'[x] = desc[x] /\ sock'[x] = sock[x]
    BY <1>0, <2>2, <2>3
  <2>5. desc'[d].st = "live" /\ desc'[d].q["read"] = <<>> /\ desc'[d].q["write"] = <<>>
    BY <1>e, <2>4, CreateFields
  <2>6. \A e \in Ev : Within(d, e) /\ Seen(d, e)'
    BY <2>3, <2>5, EdgeEmpty
  <2>7. \A p \in Op : Kept(p)
    BY <2>3 DEF Kept
  <2> QED BY <2>3, <2>4, <2>5, <2>6, <2>7, EdgeOpen
<1> QED BY <1>1, <1>2, <1>3

\* The calls other threads and handlers make.
LEMMA EdgeCalls ==
  ASSUME IInv, RInv, EInv, Call \/ LoopCall
  PROVE  EInv'
<1>1. ASSUME NEW t, NEW o, NEW k, NEW r, fail_op(t, o, k, r) PROVE EInv'
  BY <1>1, EdgePlain DEF fail_op, loopVars
<1>2. ASSUME NEW t, NEW o, execute(t, o) PROVE EInv'
  BY <1>2, EdgePlain DEF execute, loopVars
<1>3. CASE Call
  <2>1. PICK t \in Caller :
          \/ wake_up(t) \/ (\E o \in Op : execute(t, o)) \/ (\E s \in Sock : unbind(t, s))
          \/ (\E s \in Sock, o \in Op : connect(t, s, o)) \/ (\E s \in Sock, o \in Op : connect_fail(t, s, o))
          \/ (\E s \in Sock : listen(t, s)) \/ (\E s \in Sock : udp_bind(t, s))
    BY <1>3 DEF Call
  <2>2. CASE wake_up(t) \/ \E s \in Sock : unbind(t, s)
    BY <2>2, EdgeSame DEF wake_up, unbind, loopVars, userVars
  <2>3. CASE \E o \in Op : execute(t, o)
    BY <1>2, <2>3
  <2>4. CASE \E s \in Sock, o \in Op : connect(t, s, o)
    BY <2>4, EdgeCreate
  <2>5. CASE \E s \in Sock, o \in Op : connect_fail(t, s, o)
    BY <1>1, <2>5 DEF connect_fail
  <2>6. CASE (\E s \in Sock : listen(t, s)) \/ (\E s \in Sock : udp_bind(t, s))
    BY <2>6, EdgeCreate DEF listen, udp_bind
  <2> QED BY <2>1, <2>2, <2>3, <2>4, <2>5, <2>6
<1>4. CASE LoopCall
  <2>1. CASE \E s \in Sock, o \in Op, k \in {"read", "readn"} : read(s, o, k)
    BY <2>1, EdgeIo DEF read, Connected, Suits
  <2>2. CASE \E s \in Sock, o \in Op : write(s, o)
    BY <2>2, EdgeIo DEF write, Connected, Suits
  <2>3. CASE \E s, to \in Sock, o \in Op : accept(s, o, to)
    BY <2>3, EdgeIo DEF accept, Suits
  <2>4. CASE \E s \in Sock, o \in Op : accept_closed(s, o)
    BY <2>4, EdgePlain DEF accept_closed, loopVars
  <2>5. CASE \E s \in Sock, o \in Op : udp_read(s, o) \/ udp_write(s, o)
    BY <2>5, EdgeIo DEF udp_read, udp_write, Suits
  <2>6. CASE \E s \in Sock, o \in Op : udp_read_closed(s, o) \/ udp_write_fail(s, o)
    BY <1>1, <2>6 DEF udp_read_closed, udp_write_fail
  <2>7. CASE \E s \in Sock, o \in Op : udp_write_open(s, o)
    BY <2>7, EdgeCreate
  <2> QED BY <1>4, <2>1, <2>2, <2>3, <2>4, <2>5, <2>6, <2>7 DEF LoopCall
<1> QED BY <1>3, <1>4

\* The loop asks epoll_wait: an edge becomes an event.
LEMMA EdgeWait ==
  ASSUME IInv, EInv, epoll_wait
  PROVE  EInv'
<1>1. /\ lpc = "wait" /\ UNCHANGED <<op, desc, cur>>
      /\ evs' = [d \in Desc |-> IF d \in Ready THEN Mask(sock[d]) ELSE {}]
      /\ sock' = [d \in Desc |-> [sock[d] EXCEPT !.armed = FALSE]]
  BY DEF epoll_wait, At, userVars
<1>2. cur = Null /\ \A d \in Desc : evs[d] = {}
  BY <1>1 DEF IInv, LoopShape, InEvents
<1>3. \A d \in Desc : /\ sock'[d].st = sock[d].st /\ sock'[d].rx = sock[d].rx
                      /\ sock'[d].tx = sock[d].tx /\ sock'[d].fin = sock[d].fin
  BY <1>1 DEF IInv, TypeOK, SockType
<1>4. \A d \in Desc : Mask(sock'[d]) = Mask(sock[d])
  BY <1>3 DEF Mask
<1>5. \A o \in Op : Kept(o)
  BY <1>1 DEF Kept
<1>6. ASSUME NEW d \in Desc PROVE Evolves(d) /\ Shaped(d)'
  <2>1. Shaped(d)
    BY DEF EInv
  <2> QED BY <1>1, <1>3, <2>1 DEF Evolves, Shaped, Suits
<1>7. ASSUME NEW d \in Desc, NEW e \in Ev PROVE Within(d, e) /\ Seen(d, e)'
  <2>1. Within(d, e)
    BY <1>1 DEF Within
  <2>2. ASSUME Waiting(d, e)', op'[Head(desc'[d].q[e])].kind # "readn" PROVE Noticed(d, e)'
    <3>1. Waiting(d, e) /\ op[Head(desc[d].q[e])].kind # "readn"
      BY <1>1, <1>4, <2>2 DEF Waiting
    <3>2. Noticed(d, e)
      BY <3>1 DEF EInv, Seen
    <3>3. sock[d].armed /\ desc[d].fd /\ e \in Mask(sock[d])
      BY <1>2, <3>1, <3>2 DEF Noticed, Waiting
    <3>4. desc[d].st = "live"
      BY <3>3 DEF EInv, Shaped
    <3>5. e \in evs'[d]
      BY <1>1, <3>3, <3>4 DEF Ready, Live
    <3> QED BY <3>5 DEF Noticed
  <2> QED BY <2>1, <2>2 DEF Seen
<1> QED BY <1>5, <1>6, <1>7, EdgeStep

\* An event becomes the dispatch in progress.
LEMMA EdgeEvent ==
  ASSUME IInv, EInv, NEW d \in Desc, run_event(d)
  PROVE  EInv'
<1>1. /\ lpc = "events" /\ UNCHANGED <<op, desc, sock>> /\ evs' = [evs EXCEPT ![d] = {}]
      /\ cur' = [desc |-> d, evs |-> evs[d], release |-> FALSE] /\ evs \in [Desc -> SUBSET Ev]
  BY DEF run_event, At, userVars, IInv, TypeOK
<1>2. cur = Null
  BY <1>1 DEF IInv, LoopShape
<1>3. cur' # Null
  BY <1>1, CurNotNull DEF CurType
<1>4. ASSUME NEW x \in Desc, NEW e \in Ev, Noticed(x, e) PROVE Noticed(x, e)'
  <2>1. CASE x = d
    BY <1>1, <1>2, <1>3, <1>4, <2>1 DEF Noticed
  <2>2. CASE x # d
    BY <1>1, <1>2, <1>4, <2>2 DEF Noticed
  <2> QED BY <2>1, <2>2
<1>5. \A o \in Op : Kept(o)
  BY <1>1 DEF Kept
<1> QED BY <1>1, <1>4, <1>5, EdgeQuiet

\* A direction of the dispatch with nothing queued, and the end of one.
LEMMA EdgeNothing ==
  ASSUME IInv, EInv, (\E e \in Ev : dispatch_empty(e)) \/ dispatch_end
  PROVE  EInv'
<1>1. lpc = "dispatch" /\ UNCHANGED <<op, desc, sock, evs>> /\ cur \in CurType /\ cur # Null
  BY DEF dispatch_empty, dispatch_end, Dispatching, At, userVars, IInv, LoopShape, TypeOK
<1>2. \A o \in Op : Kept(o)
  BY <1>1 DEF Kept
<1>3. CASE dispatch_end
  <2>1. cur.evs = {}
    BY <1>3 DEF dispatch_end
  <2>2. \A d \in Desc, e \in Ev : Noticed(d, e) => Noticed(d, e)'
    BY <1>1, <2>1 DEF Noticed
  <2> QED BY <1>1, <1>2, <2>2, EdgeQuiet
<1>4. ASSUME NEW f \in Ev, dispatch_empty(f) PROVE EInv'
  <2>1. desc[cur.desc].q[f] = <<>> /\ cur' = [cur EXCEPT !.evs = @ \ {f}]
    BY <1>4 DEF dispatch_empty
  <2>2. cur'.desc = cur.desc /\ cur'.evs = cur.evs \ {f} /\ cur' \in CurType
    BY <1>1, <2>1 DEF CurType
  <2>3. cur' # Null
    BY <2>2, CurNotNull
  <2>4. ASSUME NEW d \in Desc, NEW e \in Ev PROVE Seen(d, e)' \/ (Noticed(d, e) => Noticed(d, e)')
    <3>1. CASE d = cur.desc /\ e = f
      BY <1>1, <2>1, <3>1 DEF Seen, Waiting
    <3>2. CASE ~(d = cur.desc /\ e = f)
      BY <1>1, <2>2, <2>3, <3>2 DEF Noticed
    <3> QED BY <3>1, <3>2
  <2> QED BY <1>1, <1>2, <2>4, EdgeQuiet
<1> QED BY <1>3, <1>4

\* op_run of a completion changes no operation's kind.
LEMMA EdgeHandler ==
  ASSUME IInv, EInv, op_run_handler
  PROVE  EInv'
<1>1. UNCHANGED <<desc, sock, evs, cur>> /\ op \in [Op -> OpType]
  BY DEF op_run_handler, IInv, TypeOK
<1>2. PICK o, r : op' = Complete(o, r)
  BY DEF op_run_handler
<1>3. \A p \in Op : Kept(p)
  BY <1>1, <1>2 DEF Kept, Complete, OpType
<1>4. \A d \in Desc, e \in Ev : Noticed(d, e) => Noticed(d, e)'
  BY <1>1 DEF Noticed
<1> QED BY <1>1, <1>3, <1>4, EdgeQuiet

\* An operation joins its queue and is tried at once.
LEMMA EdgeEnqueue ==
  ASSUME IInv, RInv, EInv, op_run_dispatch
  PROVE  EInv'
<1>0. PICK d, o, f : d = Head(ops).desc /\ o = Head(ops).op /\ f = EvOf(op[o].kind)
  OBVIOUS
<1>1. /\ lpc = "drain" /\ ops # <<>> /\ Head(ops).k = "dispatch" /\ UNCHANGED <<op, sock, evs>>
      /\ desc' = [desc EXCEPT ![d].q[f] = Append(@, o)]
      /\ cur' = [desc |-> d, evs |-> {f}, release |-> TRUE]
  BY <1>0 DEF op_run_dispatch, At, enqueue, userVars
<1>2. ops \in Seq(Closure) /\ desc \in [Desc -> DescType] /\ cur = Null
  BY <1>1 DEF IInv, TypeOK, LoopShape
<1>3. Head(ops) = ops[1] /\ 1 \in DOMAIN ops /\ Head(ops) \in Closure
  BY <1>1, <1>2
<1>4. d \in Desc /\ o \in Op /\ f \in Ev
  BY <1>0, <1>1, <1>3, ClosureFields DEF EvOf, Ev
<1>5. op[o].desc = d
  BY <1>0, <1>1, <1>3 DEF RInv, Sent
<1>6. desc[d].st = "live"
  <2>1. About(ops, d) # 0
    <3>1. ops[1] \in {c \in Closure : c.desc = d}
      BY <1>0, <1>3
    <3>2. Count(ops, {c \in Closure : c.desc = d}) # 0
      BY <1>2, <1>3, <3>1, CountType
    <3> QED BY <3>2 DEF About
  <2> QED BY <1>4, <2>1, Referred
<1>7. cur' # Null /\ cur'.desc = d /\ f \in cur'.evs
  BY <1>1, <1>4, CurNotNull DEF CurType
<1>8. /\ desc'[d].st = desc[d].st /\ desc'[d].fd = desc[d].fd
      /\ desc'[d].q[f] = Append(desc[d].q[f], o) /\ \A e \in Ev : e # f => desc'[d].q[e] = desc[d].q[e]
      /\ \A x \in Desc : x # d => desc'[x] = desc[x]
  BY <1>1, <1>2, <1>4 DEF DescType, QType
<1>9. \A p \in Op : Kept(p)
  BY <1>1 DEF Kept
<1>10. ASSUME NEW x \in Desc PROVE Evolves(x) /\ Shaped(x)'
  <2>1. Shaped(x) /\ desc'[x].st = desc[x].st /\ desc'[x].fd = desc[x].fd
    BY <1>8 DEF EInv
  <2> QED BY <1>1, <2>1 DEF Evolves, Shaped
<1>11. ASSUME NEW x \in Desc, NEW e \in Ev PROVE Within(x, e) /\ (Seen(x, e)' \/ Still(x, e))
  <2>1. CASE x = d /\ e = f
    <3>1. Noticed(x, e)'
      BY <1>7, <2>1 DEF Noticed
    <3>2. desc[d].q[f] \in Seq(Op)
      BY <1>4, QueueType
    <3>3. \A i \in DOMAIN Append(desc[d].q[f], o) :
            \/ i \in DOMAIN desc[d].q[f] /\ Append(desc[d].q[f], o)[i] = desc[d].q[f][i]
            \/ Append(desc[d].q[f], o)[i] = o
      BY <1>4, <3>2
    <3>4. op'[o].desc = d /\ EvOf(op'[o].kind) = f
      BY <1>0, <1>1, <1>5
    <3>5. Within(d, f)
      BY <1>8, <3>3, <3>4 DEF Within
    <3> QED BY <2>1, <3>1, <3>5 DEF Seen
  <2>2. CASE ~(x = d /\ e = f)
    <3>1. desc'[x].q[e] = desc[x].q[e] /\ desc'[x].fd = desc[x].fd
      BY <1>8, <2>2
    <3> QED BY <1>1, <1>2, <3>1 DEF Within, Still, Noticed
  <2> QED BY <2>1, <2>2
<1> QED BY <1>9, <1>10, <1>11, EdgeStep

\* What descriptor_release leaves: the descriptor with one reference less, or
\* a deleted one with nothing in it, and the same operations.
LEMMA ReleaseEdges ==
  ASSUME IInv, NEW ds \in [Desc -> DescType], NEW d \in Desc, NEW n, descriptor_release(ds, d, n),
         \A x \in Desc : x # d => ds[x] = desc[x]
  PROVE  /\ \A o \in Op : Kept(o)
         /\ \A x \in Desc : x # d => desc'[x] = desc[x]
         /\ \/ desc'[d].st = ds[d].st /\ desc'[d].fd = ds[d].fd /\ desc'[d].q = ds[d].q
            \/ /\ desc'[d].st = "freed" /\ ~desc'[d].fd
               /\ desc'[d].q["read"] = <<>> /\ desc'[d].q["write"] = <<>>
<1>0. op \in [Op -> OpType] /\ desc \in [Desc -> DescType]
  BY DEF IInv, TypeOK
<1>1. CASE desc[d].ref # 1
  <2>1. desc' = [ds EXCEPT ![d].ref = @ - 1] /\ op' = op
    BY <1>1 DEF descriptor_release
  <2> QED BY <2>1 DEF Kept, DescType
<1>2. CASE desc[d].ref = 1
  <2>1. desc' = [desc EXCEPT ![d] = [NoDesc EXCEPT !.st = "freed"]] /\ \E s, c : abort_ops(s, c)
    BY <1>2 DEF descriptor_release
  <2>2. desc'[d] = [NoDesc EXCEPT !.st = "freed"] /\ \A x \in Desc : x # d => desc'[x] = desc[x]
    BY <1>0, <2>1
  <2>3. \A o \in Op : Kept(o)
    <3>1. \A o \in Op : op'[o] = op[o] \/ op'[o] = [op[o] EXCEPT !.err = "aborted"]
      BY <2>1 DEF abort_ops
    <3>2. ASSUME NEW o \in Op PROVE [op[o] EXCEPT !.err = "aborted"].kind = op[o].kind
                                    /\ [op[o] EXCEPT !.err = "aborted"].desc = op[o].desc
      <4>1. op[o] \in OpType
        BY <1>0
      <4> QED BY <4>1 DEF OpType
    <3> QED BY <3>1, <3>2 DEF Kept
  <2> QED BY <2>2, <2>3 DEF NoDesc, NoQ, Ev
<1> QED BY <1>1, <1>2

\* A socket is closed: its descriptor has no file any more.
LEMMA EdgeUnbind ==
  ASSUME IInv, RInv, EInv, op_run_unbind
  PROVE  EInv'
<1>0. PICK d, ds : d = Head(ops).desc /\ ds = [desc EXCEPT ![d].fd = FALSE]
  OBVIOUS
<1>1. /\ lpc = "drain" /\ ops # <<>> /\ Head(ops).k = "unbind" /\ sock' = [sock EXCEPT ![d] = NoSock]
      /\ descriptor_release(ds, d, 1) /\ UNCHANGED <<evs, cur>>
  BY <1>0 DEF op_run_unbind, At
<1>2. ops \in Seq(Closure) /\ desc \in [Desc -> DescType] /\ sock \in [Desc -> SockType]
  BY DEF IInv, TypeOK
<1>3. Head(ops) = ops[1] /\ 1 \in DOMAIN ops /\ Head(ops) \in Closure
  BY <1>1, <1>2
<1>4. d \in Desc
  BY <1>0, <1>1, <1>3, ClosureFields
<1>5. desc[d].st = "live"
  <2>1. About(ops, d) # 0
    <3>1. ops[1] \in {c \in Closure : c.desc = d}
      BY <1>0, <1>3
    <3>2. Count(ops, {c \in Closure : c.desc = d}) # 0
      BY <1>2, <1>3, <3>1, CountType
    <3> QED BY <3>2 DEF About
  <2> QED BY <1>4, <2>1, Referred
<1>6. /\ ds \in [Desc -> DescType] /\ ds[d].st = desc[d].st /\ ~ds[d].fd /\ ds[d].q = desc[d].q
      /\ \A x \in Desc : x # d => ds[x] = desc[x]
  BY <1>0, <1>2, <1>4 DEF DescType
<1>7. /\ \A o \in Op : Kept(o)
      /\ \A x \in Desc : x # d => desc'[x] = desc[x]
      /\ \/ desc'[d].st = ds[d].st /\ desc'[d].fd = ds[d].fd /\ desc'[d].q = ds[d].q
         \/ /\ desc'[d].st = "freed" /\ ~desc'[d].fd
            /\ desc'[d].q["read"] = <<>> /\ desc'[d].q["write"] = <<>>
  BY <1>1, <1>4, <1>6, ReleaseEdges
<1>8. sock'[d] = NoSock /\ \A x \in Desc : x # d => sock'[x] = sock[x]
  BY <1>1, <1>2, <1>4
<1>9. ASSUME NEW x \in Desc PROVE Evolves(x) /\ Shaped(x)'
  <2>1. CASE x = d
    BY <1>5, <1>6, <1>7, <1>8, <2>1 DEF Evolves, Shaped, NoSock
  <2>2. CASE x # d
    <3>1. Shaped(x) /\ desc'[x] = desc[x] /\ sock'[x] = sock[x]
      BY <1>7, <1>8, <2>2 DEF EInv
    <3> QED BY <3>1 DEF Evolves, Shaped
  <2> QED BY <2>1, <2>2
<1>10. ASSUME NEW x \in Desc, NEW e \in Ev PROVE Within(x, e) /\ (Seen(x, e)' \/ Still(x, e))
  <2>1. CASE x = d
    <3>1. ~desc'[d].fd /\ (desc'[d].q[e] = desc[d].q[e] \/ desc'[d].q[e] = <<>>)
      BY <1>6, <1>7 DEF Ev
    <3> QED BY <2>1, <3>1 DEF Within, Seen, Waiting
  <2>2. CASE x # d
    <3>1. desc'[x] = desc[x] /\ sock'[x] = sock[x]
      BY <1>7, <1>8, <2>2
    <3> QED BY <1>1, <3>1 DEF Within, Still, Noticed
  <2> QED BY <2>1, <2>2
<1> QED BY <1>7, <1>9, <1>10, EdgeStep

\* The dispatch of a closure ends, with every direction served.
LEMMA EdgeEndRelease ==
  ASSUME IInv, RInv, EInv, dispatch_end_release
  PROVE  EInv'
<1>0. PICK d : d = cur.desc
  OBVIOUS
<1>1. /\ lpc = "dispatch" /\ cur.evs = {} /\ descriptor_release(desc, d, 0) /\ cur' = Null
      /\ UNCHANGED <<evs, sock>>
  BY <1>0 DEF dispatch_end_release, At
<1>2. cur # Null /\ cur \in CurType /\ d \in Desc /\ desc \in [Desc -> DescType]
  BY <1>0, <1>1 DEF IInv, LoopShape, TypeOK, CurType
<1>3. desc[d].st = "live"
  BY <1>0, <1>2, Referred DEF InUse
<1>4. /\ \A o \in Op : Kept(o)
      /\ \A x \in Desc : x # d => desc'[x] = desc[x]
      /\ \/ desc'[d].st = desc[d].st /\ desc'[d].fd = desc[d].fd /\ desc'[d].q = desc[d].q
         \/ /\ desc'[d].st = "freed" /\ ~desc'[d].fd
            /\ desc'[d].q["read"] = <<>> /\ desc'[d].q["write"] = <<>>
  BY <1>1, <1>2, ReleaseEdges
<1>5. \A x \in Desc, e \in Ev : Noticed(x, e) => Noticed(x, e)'
  BY <1>1 DEF Noticed
<1>6. ASSUME NEW x \in Desc PROVE Evolves(x) /\ Shaped(x)'
  <2>1. Shaped(x)
    BY DEF EInv
  <2>2. CASE x = d
    BY <1>1, <1>3, <1>4, <2>1, <2>2 DEF Evolves, Shaped
  <2>3. CASE x # d
    BY <1>1, <1>4, <2>1, <2>3 DEF Evolves, Shaped
  <2> QED BY <2>2, <2>3
<1>7. ASSUME NEW x \in Desc, NEW e \in Ev PROVE Within(x, e) /\ (Seen(x, e)' \/ Still(x, e))
  <2>1. CASE desc'[x].q[e] = desc[x].q[e] /\ desc'[x].fd = desc[x].fd
    BY <1>1, <1>5, <2>1 DEF Within, Still
  <2>2. CASE ~desc'[x].fd /\ desc'[x].q[e] = <<>>
    BY <2>2 DEF Within, Seen, Waiting
  <2> QED BY <1>4, <2>1, <2>2 DEF Ev
<1> QED BY <1>4, <1>6, <1>7, EdgeStep

\* What moves never makes a socket ready, nor changes what it is.
LEMMA TransferEdges ==
  ASSUME IInv, NEW o \in Op, NEW d \in Desc, NEW n \in Nat
  PROVE  LET y == Transfer(o, sock[d], n)
         IN  /\ y.st = sock[d].st /\ y.fin = sock[d].fin /\ y.armed = sock[d].armed
             /\ Mask(y) \subseteq Mask(sock[d])
<1>1. sock[d] \in SockType
  BY DEF IInv, TypeOK
<1>2. PICK x : x = sock[d]
  OBVIOUS
<1>3. x \in SockType /\ x.rx \in Int /\ x.tx \in Int
  BY <1>1, <1>2 DEF SockType
<1>4. PICK y : y = Transfer(o, x, n)
  OBVIOUS
<1>5. /\ y.st = x.st /\ y.fin = x.fin /\ y.armed = x.armed
      /\ (y.rx = x.rx \/ y.rx = x.rx - n) /\ (y.tx = x.tx \/ y.tx = x.tx - n)
  BY <1>3, <1>4 DEF Transfer, SockType
<1>6. Mask(y) \subseteq Mask(x)
  BY <1>3, <1>5 DEF Mask
<1> QED BY <1>2, <1>4, <1>5, <1>6

\* An operation that is not done met no error and has not what it needs.
LEMMA NotDone ==
  ASSUME NEW a, NEW ok, ~Post(a, ok).done
  PROVE  a.err = "none" /\ ~ok
<1>1. Post(a, ok).done = (a.err # "none" \/ ok)
  BY Zenon DEF Post
<1> QED BY <1>1, Zenon

\* An operation other than a fixed-length read that is told to wait has left
\* its socket not ready in its direction.
LEMMA WaitBlocks ==
  ASSUME IInv, EInv, NEW o \in Op, NEW d \in Desc, desc[d].fd, sock[d].st # "blocking",
         Suits(op[o].kind, sock[d]), op[o].kind # "readn", ~post_proc(o, d).done
  PROVE  EvOf(op[o].kind) \notin Mask(Transfer(o, sock[d], post_proc(o, d).n))
<1>1. /\ sock[d] \in SockType /\ sock[d].rx \in Nat /\ sock[d].tx \in Nat /\ op[o].remain \in Nat
      /\ (sock[d].fin => sock[d].st \in {"up", "reset"})
  BY DEF IInv, TypeOK, SockType, OpType, EInv, Shaped
<1>2. op[o].kind \in {"connect", "accept", "read", "write", "recv", "send"}
  BY DEF Suits
<1>3. CASE op[o].kind = "connect"
  BY <1>3 DEF post_proc, post_connect, Post
<1>4. CASE op[o].kind = "accept"
  <2>1. sock[d].st = "listening" /\ ~sock[d].fin
    BY <1>1, <1>4 DEF Suits, Datagram
  <2>2. sock[d].rx = 0 /\ post_proc(o, d).n = 0
    <3>0. PICK a : a = accept_fd(d)
      OBVIOUS
    <3>1. post_proc(o, d) = Post(a, a.n >= 0)
      BY <1>4, <3>0 DEF post_proc, post_accept
    <3>2. a.err = "none" /\ ~(a.n >= 0)
      BY <3>1, NotDone, Zenon
    <3> QED BY <1>1, <3>0, <3>1, <3>2 DEF accept_fd, Post, Answer
  <2>3. Mask(sock[d]) \subseteq {"write"}
    BY <1>1, <2>1, <2>2 DEF Mask
  <2> QED BY <1>4, <2>2, <2>3, TransferEdges, SMTT(20) DEF EvOf
<1>5. CASE op[o].kind = "recv"
  <2>1. sock[d].st = "dgram" /\ ~sock[d].fin
    BY <1>1, <1>5 DEF Suits, Datagram
  <2>2. sock[d].rx = 0 /\ post_proc(o, d).n = 0
    <3>0. PICK a : a = recvfrom(d)
      OBVIOUS
    <3>1. post_proc(o, d) = Post(a, a.n >= 0)
      BY <1>5, <3>0 DEF post_proc, udp_post_read
    <3>2. a.err = "none" /\ ~(a.n >= 0)
      BY <3>1, NotDone, Zenon
    <3> QED BY <1>1, <3>0, <3>1, <3>2 DEF recvfrom, Post, Answer
  <2>3. Mask(sock[d]) \subseteq {"write"}
    BY <1>1, <2>1, <2>2 DEF Mask
  <2> QED BY <1>5, <2>2, <2>3, TransferEdges DEF EvOf
<1>6. CASE op[o].kind = "read"
  <2>1. sock[d].rx = 0 /\ post_proc(o, d).n = 0 /\ sock[d].st # "reset" /\ ~sock[d].fin
    <3>0. PICK a : a = readv(d, op[o].remain)
      OBVIOUS
    <3>1. post_proc(o, d) = Post(a, a.n >= 0)
      BY <1>6, <3>0 DEF post_proc, post_read
    <3>2. a.err = "none" /\ ~(a.n >= 0)
      BY <3>1, NotDone, Zenon
    <3>3. sock[d].rx = 0
      BY <1>1, <3>0, <3>2 DEF readv, Answer, Least
    <3>4. a.n = -1 /\ sock[d].st # "reset" /\ ~sock[d].fin
      BY <3>0, <3>2, <3>3 DEF readv, Answer
    <3> QED BY <3>1, <3>3, <3>4 DEF Post
  <2>2. Mask(sock[d]) \subseteq {"write"}
    BY <1>1, <2>1 DEF Mask
  <2> QED BY <1>6, <2>1, <2>2, TransferEdges DEF EvOf
<1>7. CASE op[o].kind = "send"
  <2>1. sock[d].st = "dgram"
    BY <1>7 DEF Suits, Datagram
  <2>2. sock[d].tx = 0 /\ post_proc(o, d).n = 0
    <3>0. PICK a : a = sendto(d)
      OBVIOUS
    <3>1. post_proc(o, d) = Post(a, a.n >= 0)
      BY <1>7, <3>0 DEF post_proc, udp_post_write
    <3>2. a.err = "none" /\ ~(a.n >= 0)
      BY <3>1, NotDone, Zenon
    <3> QED BY <1>1, <3>0, <3>1, <3>2 DEF sendto, Post, Answer
  <2>3. Mask(sock[d]) \subseteq {"read"}
    BY <1>1, <2>1, <2>2 DEF Mask
  <2> QED BY <1>7, <2>2, <2>3, TransferEdges DEF EvOf
<1>8. CASE op[o].kind = "write"
  <2>1. PICK a : a = writev(d, op[o].remain)
    OBVIOUS
  <2>2. post_proc(o, d) = Post(a, a.n >= 0 /\ Skip(o, a.n) = 0)
    BY <1>8, <2>1 DEF post_proc, post_write
  <2>3. a.err = "none" /\ ~(a.n >= 0 /\ Skip(o, a.n) = 0)
    BY <2>2, NotDone, Zenon
  <2>4. sock[d].st # "reset"
    BY <2>1, <2>3 DEF writev, Answer
  <2>5. post_proc(o, d).n = sock[d].tx
    <3>1. CASE sock[d].tx = 0
      <4>1. a.n = -1
        BY <2>1, <2>4, <3>1 DEF writev, Answer
      <4> QED BY <2>2, <3>1, <4>1 DEF Post
    <3>2. CASE sock[d].tx > 0
      <4>1. a.n = Least(op[o].remain, sock[d].tx)
        BY <2>1, <2>4, <3>2 DEF writev, Answer
      <4>2. a.n = sock[d].tx
        BY <1>1, <2>3, <3>2, <4>1 DEF Skip, Least
      <4> QED BY <2>2, <3>2, <4>2 DEF Post
    <3> QED BY <1>1, <3>1, <3>2
  <2>6. PICK y : y = Transfer(o, sock[d], post_proc(o, d).n)
    OBVIOUS
  <2>7. y.tx = 0 /\ y.st = sock[d].st
    BY <1>1, <1>8, <2>5, <2>6 DEF Transfer, SockType
  <2>8. "write" \notin Mask(y)
    BY <2>4, <2>7 DEF Mask
  <2> QED BY <1>8, <2>6, <2>8 DEF EvOf
<1> QED BY <1>2, <1>3, <1>4, <1>5, <1>6, <1>7, <1>8

\* The dispatch in progress, at the operation in front of direction f.
LEMMA AtFrontOp ==
  ASSUME IInv, RInv, EInv, NEW f \in Ev, Dispatching(f), desc[cur.desc].q[f] # <<>>
  PROVE  /\ cur \in CurType /\ cur # Null /\ cur.desc \in Desc /\ f \in cur.evs
         /\ desc[cur.desc].st = "live" /\ Front(f) \in Op /\ EvOf(op[Front(f)].kind) = f
         /\ desc[cur.desc].fd => Suits(op[Front(f)].kind, sock[cur.desc])
         /\ post_proc(Front(f), cur.desc).n \in Nat
<1>1. cur \in CurType /\ cur # Null
  BY DEF Dispatching, At, IInv, LoopShape, TypeOK
<1>2. cur.desc \in Desc /\ f \in cur.evs
  BY <1>1 DEF CurType, Dispatching, CurEv, Ev
<1>3. desc[cur.desc].st = "live"
  BY <1>1, <1>2, Referred DEF InUse
<1>4. desc[cur.desc].q[f] \in Seq(Op)
  BY <1>2, QueueType
<1>5. Front(f) = desc[cur.desc].q[f][1] /\ 1 \in DOMAIN desc[cur.desc].q[f]
  BY <1>4 DEF Front
<1>6. /\ Front(f) \in Op /\ EvOf(op[Front(f)].kind) = f
      /\ desc[cur.desc].fd => Suits(op[Front(f)].kind, sock[cur.desc])
  BY <1>2, <1>5, InQueue
<1>7. post_proc(Front(f), cur.desc).n \in Nat
  BY <1>2, <1>6, PostProcType DEF IInv
<1> QED BY <1>1, <1>2, <1>3, <1>6, <1>7

\* The operation in front waits: its socket is not ready any more.
LEMMA EdgeBlocked ==
  ASSUME IInv, RInv, EInv, NEW f \in Ev, dispatch_wait(f)
  PROVE  EInv'
<1>0. PICK d, o, n : d = cur.desc /\ o = Front(f) /\ n = post_proc(o, d).n
  OBVIOUS
<1>1. /\ Dispatching(f) /\ desc[cur.desc].q[f] # <<>> /\ sock[d].st # "blocking" /\ ~post_proc(o, d).done
      /\ \E r : op' = [op EXCEPT ![o].remain = r]
      /\ sock' = [sock EXCEPT ![d] = Transfer(o, @, n)]
      /\ cur' = [cur EXCEPT !.evs = @ \ {f}] /\ UNCHANGED <<desc, evs>>
  BY <1>0 DEF dispatch_wait
<1>2. /\ cur \in CurType /\ cur # Null /\ d \in Desc /\ f \in cur.evs
      /\ desc[d].st = "live" /\ o \in Op /\ EvOf(op[o].kind) = f
      /\ (desc[d].fd => Suits(op[o].kind, sock[d])) /\ n \in Nat
  BY <1>0, <1>1, AtFrontOp
<1>3. cur'.desc = d /\ cur'.evs = cur.evs \ {f} /\ cur' \in CurType
  BY <1>0, <1>1, <1>2 DEF CurType
<1>4. cur' # Null
  BY <1>3, CurNotNull
<1>5. sock \in [Desc -> SockType] /\ op \in [Op -> OpType]
  BY DEF IInv, TypeOK
<1>6. sock'[d] = Transfer(o, sock[d], n) /\ \A x \in Desc : x # d => sock'[x] = sock[x]
  BY <1>1, <1>2, <1>5
<1>7. /\ sock'[d].st = sock[d].st /\ sock'[d].fin = sock[d].fin /\ sock'[d].armed = sock[d].armed
      /\ Mask(sock'[d]) \subseteq Mask(sock[d])
  BY <1>2, <1>6, TransferEdges
<1>8. \A p \in Op : Kept(p)
  BY <1>1, <1>5 DEF Kept, OpType
<1>9. ASSUME NEW x \in Desc PROVE Evolves(x) /\ Shaped(x)'
  <2>1. Shaped(x) /\ sock'[x].st = sock[x].st /\ sock'[x].fin = sock[x].fin
    BY <1>6, <1>7 DEF EInv
  <2> QED BY <1>1, <2>1 DEF Evolves, Shaped, Suits
<1>10. ASSUME NEW x \in Desc, NEW e \in Ev PROVE Within(x, e) /\ (Seen(x, e)' \/ Still(x, e))
  <2>1. Within(x, e)
    BY <1>1 DEF Within
  <2>2. CASE x = d /\ e = f
    <3> SUFFICES ASSUME Waiting(d, f)', op'[Head(desc'[d].q[f])].kind # "readn" PROVE FALSE
      BY <2>1, <2>2 DEF Seen
    <3>1. desc[d].fd /\ f \in Mask(sock'[d])
      BY <1>1 DEF Waiting
    <3>2. op[o].kind # "readn"
      <4>1. op'[o].kind # "readn"
        BY <1>0, <1>1 DEF Front
      <4> QED BY <1>2, <1>8, <4>1 DEF Kept
    <3>3. EvOf(op[o].kind) \notin Mask(Transfer(o, sock[d], post_proc(o, d).n))
      BY <1>1, <1>2, <3>1, <3>2, WaitBlocks
    <3> QED BY <1>0, <1>2, <1>6, <3>1, <3>3
  <2>3. CASE ~(x = d /\ e = f)
    <3>1. Noticed(x, e) => Noticed(x, e)'
      BY <1>0, <1>1, <1>3, <1>4, <1>6, <1>7, <2>3 DEF Noticed
    <3>2. e \in Mask(sock'[x]) => e \in Mask(sock[x])
      BY <1>6, <1>7
    <3> QED BY <1>1, <2>1, <3>1, <3>2 DEF Still
  <2> QED BY <2>2, <2>3
<1> QED BY <1>8, <1>9, <1>10, EdgeStep

\* The operation in front is done: the dispatch goes on with the next one of
\* the same direction.
LEMMA EdgeDone ==
  ASSUME IInv, RInv, EInv, NEW f \in Ev, dispatch_done(f)
  PROVE  EInv'
<1>0. PICK d, o, n, er : d = cur.desc /\ o = Front(f) /\ n = post_proc(o, d).n /\ er = post_proc(o, d).err
  OBVIOUS
<1>1. /\ Dispatching(f) /\ desc[cur.desc].q[f] # <<>> /\ UNCHANGED <<evs, cur>>
      /\ \E r : op' = [Complete(o, er) EXCEPT ![o].remain = r]
      /\ \/ \E a \in NewDesc :
              /\ desc' = [Pop(f) EXCEPT ![a] = descriptor_create(<<>>)]
              /\ sock' = [sock EXCEPT ![d] = Transfer(o, @, n), ![a] = OpenSock("up")]
         \/ /\ desc' = Pop(f)
            /\ sock' = [sock EXCEPT ![d] = Transfer(o, @, n)]
  BY <1>0 DEF dispatch_done
<1>2. /\ cur \in CurType /\ cur # Null /\ d \in Desc /\ f \in cur.evs
      /\ desc[d].st = "live" /\ o \in Op /\ n \in Nat
  BY <1>0, <1>1, AtFrontOp
<1>3. sock \in [Desc -> SockType] /\ op \in [Op -> OpType] /\ desc \in [Desc -> DescType]
  BY DEF IInv, TypeOK
<1>4. \A p \in Op : Kept(p)
  BY <1>1, <1>2, <1>3 DEF Kept, Complete, OpType
<1>5. PICK y : y = Transfer(o, sock[d], n)
  OBVIOUS
<1>6. /\ y.st = sock[d].st /\ y.fin = sock[d].fin /\ y.armed = sock[d].armed
      /\ Mask(y) \subseteq Mask(sock[d])
  BY <1>2, <1>5, TransferEdges
<1>7. /\ Pop(f)[d].st = desc[d].st /\ Pop(f)[d].fd = desc[d].fd /\ Pop(f)[d].q[f] = Tail(desc[d].q[f])
      /\ \A e \in Ev : e # f => Pop(f)[d].q[e] = desc[d].q[e]
      /\ \A x \in Desc : x # d => Pop(f)[x] = desc[x]
      /\ DOMAIN Pop(f) = Desc
  BY <1>0, <1>2, <1>3 DEF Pop, DescType, QType
<1>8. Shaped(d)
  BY <1>2 DEF EInv
<1>9. ASSUME sock'[d] = y, desc'[d] = Pop(f)[d]
      PROVE  /\ Evolves(d) /\ Shaped(d)'
             /\ \A e \in Ev : Within(d, e) /\ (Seen(d, e)' \/ Still(d, e))
  <2>1. Evolves(d) /\ Shaped(d)'
    BY <1>2, <1>6, <1>7, <1>8, <1>9 DEF Evolves, Shaped, Suits
  <2>2. Noticed(d, f)'
    BY <1>0, <1>1, <1>2 DEF Noticed
  <2>3. Within(d, f)
    <3>1. desc[d].q[f] \in Seq(Op) /\ desc[d].q[f] # <<>>
      BY <1>0, <1>1, <1>2, QueueType
    <3>2. \A i \in DOMAIN Tail(desc[d].q[f]) :
            i + 1 \in DOMAIN desc[d].q[f] /\ Tail(desc[d].q[f])[i] = desc[d].q[f][i + 1]
      BY <3>1
    <3> QED BY <1>7, <1>9, <3>2, ZenonT(30) DEF Within
  <2>4. ASSUME NEW e \in Ev, e # f PROVE Within(d, e) /\ Still(d, e)
    <3>1. desc'[d].q[e] = desc[d].q[e] /\ desc'[d].fd = desc[d].fd
      BY <1>7, <1>9, <2>4
    <3>2. Noticed(d, e) => Noticed(d, e)'
      BY <1>1, <1>6, <1>9 DEF Noticed
    <3> QED BY <1>6, <1>9, <3>1, <3>2 DEF Within, Still
  <2> QED BY <2>1, <2>2, <2>3, <2>4 DEF Seen
<1>10. ASSUME NEW x \in Desc, desc'[x] = desc[x], sock'[x] = sock[x]
       PROVE  Evolves(x) /\ Shaped(x)' /\ \A e \in Ev : Within(x, e) /\ Still(x, e)
  <2>1. Shaped(x)
    BY DEF EInv
  <2> QED BY <1>1, <1>10, <2>1 DEF Evolves, Shaped, Within, Still, Noticed
<1>11. CASE desc' = Pop(f) /\ sock' = [sock EXCEPT ![d] = Transfer(o, @, n)]
  <2>1. sock'[d] = y /\ desc'[d] = Pop(f)[d] /\ \A x \in Desc : x # d => sock'[x] = sock[x] /\ desc'[x] = desc[x]
    BY <1>2, <1>3, <1>5, <1>7, <1>11
  <2>2. \A x \in Desc : Evolves(x) /\ Shaped(x)' /\ \A e \in Ev : Within(x, e) /\ (Seen(x, e)' \/ Still(x, e))
    BY <1>9, <1>10, <2>1
  <2> QED BY <1>4, <2>2, EdgeStep
<1>12. ASSUME NEW a \in NewDesc, desc' = [Pop(f) EXCEPT ![a] = descriptor_create(<<>>)],
              sock' = [sock EXCEPT ![d] = Transfer(o, @, n), ![a] = OpenSock("up")]
       PROVE  EInv'
  <2>1. a \in Desc /\ a # d
    BY <1>2 DEF NewDesc
  <2>2. /\ sock'[d] = y /\ desc'[d] = Pop(f)[d] /\ sock'[a] = OpenSock("up") /\ desc'[a] = descriptor_create(<<>>)
        /\ \A x \in Desc : x # d /\ x # a => sock'[x] = sock[x] /\ desc'[x] = desc[x]
    BY <1>2, <1>3, <1>5, <1>7, <1>12, <2>1
  <2>3. <<>> \in Seq(Op)
    OBVIOUS
  <2>4. desc'[a].st = "live" /\ desc'[a].q["read"] = <<>> /\ desc'[a].q["write"] = <<>>
    BY <2>2, <2>3, CreateFields
  <2>5. Evolves(a) /\ Shaped(a)'
    BY <2>2, <2>4 DEF NewDesc, Evolves, Shaped, OpenSock
  <2>6. \A e \in Ev : Within(a, e) /\ Seen(a, e)'
    BY <2>1, <2>4, EdgeEmpty
  <2>7. \A x \in Desc : Evolves(x) /\ Shaped(x)' /\ \A e \in Ev : Within(x, e) /\ (Seen(x, e)' \/ Still(x, e))
    BY <1>9, <1>10, <2>2, <2>5, <2>6
  <2> QED BY <1>4, <2>7, EdgeStep
<1> QED BY <1>1, <1>11, <1>12

\* The network: every change of readiness is an edge.
LEMMA EdgeKernel ==
  ASSUME IInv, EInv, KernelStep
  PROVE  EInv'
<1>1. PICK d \in Desc : connected(d) \/ arrive(d) \/ drain_tx(d) \/ peer_fin(d) \/ peer_reset(d)
  BY DEF KernelStep
<1>2. UNCHANGED <<desc, op, evs, cur>> /\ desc[d].st = "live" /\ \E k : sock' = [sock EXCEPT ![d] = k]
  BY <1>1 DEF connected, arrive, drain_tx, peer_fin, peer_reset, Kernel, loopVars, userVars
<1>3. sock \in [Desc -> SockType] /\ sock[d] \in SockType
  BY DEF IInv, TypeOK
<1>4. \A x \in Desc : x # d => sock'[x] = sock[x]
  BY <1>2, <1>3
<1>5. /\ Shaped(d)' /\ \A k : Suits(k, sock[d]) => Suits(k, sock'[d])
      /\ sock'[d].armed \/ (sock'[d].armed = sock[d].armed /\ Mask(sock'[d]) = Mask(sock[d]))
  <2>1. Shaped(d)
    BY DEF EInv
  <2>2. CASE connected(d)
    <3>1. sock'[d] = [sock[d] EXCEPT !.st = "up", !.armed = TRUE] /\ sock[d].st = "connecting"
      BY <1>3, <2>2 DEF connected, Kernel
    <3>2. sock'[d].st = "up" /\ sock'[d].armed
      BY <1>3, <3>1 DEF SockType
    <3> QED BY <1>2, <2>1, <3>1, <3>2 DEF Shaped, Suits, Datagram
  <2>3. CASE arrive(d)
    <3>1. sock'[d] = [sock[d] EXCEPT !.rx = @ + 1, !.armed = TRUE]
      BY <1>3, <2>3 DEF arrive, Kernel
    <3>2. sock'[d].st = sock[d].st /\ sock'[d].fin = sock[d].fin /\ sock'[d].armed
      BY <1>3, <3>1 DEF SockType
    <3> QED BY <1>2, <2>1, <3>2 DEF Shaped, Suits
  <2>4. CASE drain_tx(d)
    <3>1. sock'[d] = [sock[d] EXCEPT !.tx = @ + 1, !.armed = @ \/ sock[d].tx = 0]
      BY <1>3, <2>4 DEF drain_tx, Kernel
    <3>2. sock'[d].st = sock[d].st /\ sock'[d].fin = sock[d].fin /\ sock'[d].rx = sock[d].rx
          /\ sock'[d].tx = sock[d].tx + 1 /\ sock[d].tx \in Nat
      BY <1>3, <3>1 DEF SockType
    <3>3. sock'[d].armed = (sock[d].armed \/ sock[d].tx = 0)
      BY <1>3, <3>1 DEF SockType
    <3>4. CASE sock[d].tx = 0
      BY <1>2, <2>1, <3>2, <3>3, <3>4 DEF Shaped, Suits
    <3>5. CASE sock[d].tx # 0
      <4>1. Mask(sock'[d]) = Mask(sock[d])
        BY <3>2, <3>5 DEF Mask
      <4> QED BY <1>2, <1>3, <2>1, <3>2, <3>3, <3>5, <4>1 DEF Shaped, Suits, SockType
    <3> QED BY <3>4, <3>5
  <2>5. CASE peer_fin(d)
    <3>1. sock'[d] = [sock[d] EXCEPT !.fin = TRUE, !.armed = TRUE] /\ sock[d].st = "up"
      BY <1>3, <2>5 DEF peer_fin, Kernel
    <3>2. sock'[d].st = "up" /\ sock'[d].armed
      BY <1>3, <3>1 DEF SockType
    <3> QED BY <1>2, <2>1, <3>1, <3>2 DEF Shaped, Suits, Datagram
  <2>6. CASE peer_reset(d)
    <3>1. sock'[d] = [sock[d] EXCEPT !.st = "reset", !.rx = 0, !.armed = TRUE] /\ sock[d].st \in {"connecting", "up"}
      BY <1>3, <2>6 DEF peer_reset, Kernel
    <3>2. sock'[d].st = "reset" /\ sock'[d].armed
      BY <1>3, <3>1 DEF SockType
    <3> QED BY <1>2, <2>1, <3>1, <3>2 DEF Shaped, Suits, Datagram
  <2> QED BY <1>1, <2>2, <2>3, <2>4, <2>5, <2>6
<1>6. \A o \in Op : Kept(o)
  BY <1>2 DEF Kept
<1>7. ASSUME NEW x \in Desc PROVE Evolves(x) /\ Shaped(x)'
  <2>1. CASE x = d
    BY <1>2, <1>5, <2>1 DEF Evolves
  <2>2. CASE x # d
    <3>1. Shaped(x)
      BY DEF EInv
    <3> QED BY <1>2, <1>4, <2>2, <3>1 DEF Evolves, Shaped
  <2> QED BY <2>1, <2>2
<1>8. ASSUME NEW x \in Desc, NEW e \in Ev PROVE Within(x, e) /\ (Seen(x, e)' \/ Still(x, e))
  <2>1. Within(x, e)
    BY <1>2 DEF Within
  <2>2. CASE x = d /\ sock'[d].armed
    BY <2>1, <2>2 DEF Seen, Noticed
  <2>3. CASE x # d \/ ~sock'[d].armed
    <3>1. sock'[x].armed = sock[x].armed /\ Mask(sock'[x]) = Mask(sock[x])
      BY <1>4, <1>5, <2>3
    <3> QED BY <1>2, <2>1, <3>1 DEF Still, Noticed
  <2> QED BY <2>2, <2>3
<1> QED BY <1>6, <1>7, <1>8, EdgeStep

\* Nothing is queued before the first call.
LEMMA InitEInv == Init => EInv
<1> SUFFICES ASSUME Init PROVE EInv
  OBVIOUS
<1>1. /\ \A o \in Op : op[o].desc = Null
      /\ \A d \in Desc : sock[d] = NoSock /\ desc[d] = NoDesc
  BY DEF Init
<1>2. \A d \in Desc : ~desc[d].fd /\ ~sock[d].fin /\ \A e \in Ev : desc[d].q[e] = <<>>
  BY <1>1 DEF NoDesc, NoSock, NoQ
<1> QED BY <1>1, <1>2 DEF EInv, Owned, Shaped, Mine, Seen, Waiting

\* Every step keeps every edge in sight.
LEMMA NextEInv == IInv /\ RInv /\ EInv /\ [Next]_vars => EInv'
<1> SUFFICES ASSUME IInv, RInv, EInv, [Next]_vars PROVE EInv'
  OBVIOUS
<1>1. CASE Call \/ LoopCall
  BY <1>1, EdgeCalls
<1>2. CASE LoopStep
  <2>1. CASE \/ run_check \/ epoll_wait_timeout \/ run_pipe \/ run_take \/ run_no_take \/ run_drained
             \/ handler_return
    BY <2>1, EdgeSame DEF run_check, epoll_wait_timeout, run_pipe, run_take, run_no_take, run_drained,
         handler_return, userVars
  <2>2. CASE epoll_wait \/ \E d \in Desc : run_event(d)
    BY <2>2, EdgeWait, EdgeEvent
  <2>3. CASE (\E e \in Ev : dispatch_empty(e)) \/ dispatch_end
    BY <2>3, EdgeNothing
  <2>4. CASE op_run_handler \/ op_run_unbind \/ op_run_dispatch
    BY <2>4, EdgeHandler, EdgeUnbind, EdgeEnqueue
  <2>5. CASE (\E e \in Ev : dispatch_done(e)) \/ \E e \in Ev : dispatch_wait(e)
    BY <2>5, EdgeDone, EdgeBlocked
  <2>6. CASE dispatch_end_release
    BY <2>6, EdgeEndRelease
  <2> QED BY <1>2, <2>1, <2>2, <2>3, <2>4, <2>5, <2>6 DEF LoopStep
<1>3. CASE KernelStep
  BY <1>3, EdgeKernel
<1>4. CASE run \/ UNCHANGED vars
  BY <1>4, EdgeSame DEF run, vars, loopVars, userVars
<1> QED BY <1>1, <1>2, <1>3, <1>4 DEF Next

\* Edge-triggered readiness is not lost (EdgeNoticed): while an operation
\* other than a fixed-length read is first in its queue and its socket is
\* ready, an edge is pending, returned or being dispatched.
THEOREM NoEdgeLost == Spec => []EdgeNoticed
<1>1. EInv => EdgeNoticed
  BY DEF EInv, Seen, EdgeNoticed, Live
<1>2. IInv /\ RInv /\ EInv /\ [Next]_vars => EInv'
  BY NextEInv
<1> QED BY InitEInv, ReferenceInvariant, <1>1, <1>2, PTL DEF Spec
=============================================================================
