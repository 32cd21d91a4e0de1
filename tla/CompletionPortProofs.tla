------------------------ MODULE CompletionPortProofs ------------------------
(***************************************************************************)
(* Proofs about CompletionPort, for any sockets, descriptors and           *)
(* operations: what a descriptor's count counts, and where an operation    *)
(* is until it is answered.                                                *)
(***************************************************************************)
EXTENDS CompletionPort, Counting

One(b) == IF b THEN 1 ELSE 0

Kind   == {"none", "task", "connect", "accept", "read", "readn", "write", "recv", "send"}
ErrSet == {"none", "error", "disconnected", "invalid"}
DescSt == {"new", "live", "leaked", "freed"}

Closure  == {RunC(o) : o \in Op} \cup {UnbindC(d) : d \in Desc}
Pkt      == [op: Op \cup {Null}, n: Nat, err: {"none", "error"}]
DescType == [st: DescSt, type: {"none", "listen", "dgram", "connecting", "stream"}, fd: BOOLEAN, ref: Int]
OpType   == [kind: Kind, desc: Desc \cup {Null}, to: Sock \cup {Null}, left: Int, err: ErrSet, calls: Nat]

Types ==
  /\ opq \in Seq(Closure) /\ ops \in Seq(Closure) /\ port \in Seq(Pkt)
  /\ pending \in SUBSET Op /\ active \in Int
  /\ handle \in [Sock -> Desc \cup {Null}]
  /\ desc \in [Desc -> DescType] /\ op \in [Op -> OpType]

\* run() owes a release exactly where it is about to do it, and has a batch
\* only while it runs it.
Shape ==
  /\ lpc \in {"wait", "drain", "release"} /\ cur \in Desc \cup {Null}
  /\ lpc = "release" <=> cur # Null
  /\ lpc # "drain" => ops = <<>>

\* The references to a descriptor: socket objects, operations in the kernel
\* and in the port, closures that close it, the release.
OfDesc(f, d)    == {p \in Pkt : p.op # Null /\ f[p.op].desc = d}
Handles(h, d)   == Tally(h, {d})
InKernel(P, f, d) == Cardinality({o \in P : f[o].desc = d})
InPort(p, f, d) == Count(p, OfDesc(f, d))
Unbinds(q, d)   == Count(q, {UnbindC(d)})
Owed(c, d)      == One(c = d)

\* The places of an operation.
OfOp(o)     == {p \in Pkt : p.op = o}
Packs(p, o) == Count(p, OfOp(o))
Runs(q, o)  == Count(q, {RunC(o)})

Total(d) ==
  Handles(handle, d) + InKernel(pending, op, d) + InPort(port, op, d)
    + Unbinds(opq, d) + Unbinds(ops, d) + Owed(cur, d)

RefCounts ==
  \A d \in Desc : ~Connected(d) => /\ desc[d].st = "live" => desc[d].ref = Total(d)
                                   /\ desc[d].st \in {"new", "freed"} => Total(d) = 0

Place(o) == op[o].calls + One(o \in pending) + Packs(port, o) + Runs(opq, o) + Runs(ops, o)

Places == \A o \in Op : Place(o) = One(op[o].kind # "none")

\* The operations in the kernel and in the port have a descriptor, never one
\* that is yet to be made; only a live one has a socket.
Homes ==
  /\ \A o \in Op : op[o].desc = Null => o \notin pending /\ Packs(port, o) = 0
  /\ \A o \in Op : op[o].kind = "none" => op[o].desc = Null
  /\ \A o \in Op : op[o].desc # Null => desc[op[o].desc].st # "new"
  /\ \A d \in Desc : desc[d].fd => desc[d].st = "live"

\* An accept that is not answered fills a socket object of its own.
Waits(o) == op[o].kind = "accept" /\ op[o].calls # 1
Targets ==
  \A o \in Op : op[o].kind = "accept" =>
    /\ op[o].to \in Sock
    /\ op[o].calls # 1 => /\ handle[op[o].to] = Null
                          /\ \A u \in Op : Waits(u) /\ op[u].to = op[o].to => u = o

Existing(ds) == Cardinality({d \in Desc : ds[d].st \in {"live", "leaked"}})
Engine == active = Existing(desc) + Len(opq) + Len(ops)

IInv == Types /\ Shape /\ RefCounts /\ Places /\ Homes /\ Targets /\ Engine

-----------------------------------------------------------------------------
(* The counts.                                                             *)

\* A truth value as a number.
LEMMA Ones == \A b : One(b) \in {0, 1} /\ (b => One(b) = 1) /\ (~b => One(b) = 0)
BY DEF One

\* The closures there are.
LEMMA Closures ==
  /\ \A o \in Op : RunC(o) \in Closure
  /\ \A d \in Desc : UnbindC(d) \in Closure
  /\ \A c \in Closure : \/ c.k = "run" /\ c.op \in Op /\ c = RunC(c.op)
                        \/ c.k = "unbind" /\ c.desc \in Desc /\ c = UnbindC(c.desc)
  /\ \A o, u \in Op : RunC(o) = RunC(u) => o = u
  /\ \A d, e \in Desc : UnbindC(d) = UnbindC(e) => d = e
  /\ \A o \in Op, d \in Desc : RunC(o) # UnbindC(d)
BY DEF Closure, RunC, UnbindC

\* What a queue of closures counts is a number, zero for an empty one.
LEMMA QueueNat ==
  ASSUME NEW q \in Seq(Closure)
  PROVE  /\ \A o \in Op : Runs(q, o) \in Nat /\ (q = <<>> => Runs(q, o) = 0)
         /\ \A d \in Desc : Unbinds(q, d) \in Nat /\ (q = <<>> => Unbinds(q, d) = 0)
         /\ Len(q) \in Nat
<1>1. ASSUME NEW T PROVE Count(q, T) \in Nat /\ (q = <<>> => Count(q, T) = 0)
  BY CountType, CountSmall
<1> QED BY <1>1 DEF Runs, Unbinds

\* A closure is posted.
LEMMA QueueAdd ==
  ASSUME NEW q \in Seq(Closure), NEW c \in Closure
  PROVE  /\ Append(q, c) \in Seq(Closure) /\ Len(Append(q, c)) = Len(q) + 1
         /\ \A o \in Op : Runs(Append(q, c), o) = Runs(q, o) + One(c = RunC(o))
         /\ \A d \in Desc : Unbinds(Append(q, c), d) = Unbinds(q, d) + One(c = UnbindC(d))
<1>1. ASSUME NEW x PROVE Count(Append(q, c), {x}) = Count(q, {x}) + One(c = x)
  <2>1. Count(Append(q, c), {x}) = Count(q, {x}) + IF c \in {x} THEN 1 ELSE 0
    BY CountAppend
  <2> QED BY <2>1 DEF One
<1>2. Append(q, c) \in Seq(Closure) /\ Len(Append(q, c)) = Len(q) + 1
  OBVIOUS
<1> QED BY <1>1, <1>2 DEF Runs, Unbinds

\* The first one is taken.
LEMMA QueueTake ==
  ASSUME NEW q \in Seq(Closure), q # <<>>
  PROVE  /\ Head(q) \in Closure /\ Tail(q) \in Seq(Closure) /\ Len(q) = Len(Tail(q)) + 1
         /\ \A o \in Op : Runs(q, o) = Runs(Tail(q), o) + One(Head(q) = RunC(o))
         /\ \A d \in Desc : Unbinds(q, d) = Unbinds(Tail(q), d) + One(Head(q) = UnbindC(d))
<1>1. Head(q) \in Closure /\ Tail(q) \in Seq(Closure) /\ Len(q) = Len(Tail(q)) + 1
  OBVIOUS
<1>2. ASSUME NEW x PROVE Count(q, {x}) = Count(Tail(q), {x}) + One(Head(q) = x)
  <2> DEFINE T == {x}
  <2> HIDE DEF T
  <2>1. Count(q, T) = Count(Tail(q), T) + IF Head(q) \in T THEN 1 ELSE 0
    BY CountTail
  <2> QED BY <2>1 DEF One, T
<1> QED BY <1>1, <1>2 DEF Runs, Unbinds

\* Packets, counted.
LEMMA PortNat ==
  ASSUME NEW p \in Seq(Pkt)
  PROVE  /\ \A o \in Op : /\ Packs(p, o) \in Nat
                          /\ Packs(p, o) = 0 <=> \A k \in DOMAIN p : p[k].op # o
         /\ \A f : \A d \in Desc : InPort(p, f, d) \in Nat
<1>1. ASSUME NEW o \in Op
      PROVE Packs(p, o) \in Nat /\ (Packs(p, o) = 0 <=> \A k \in DOMAIN p : p[k].op # o)
  <2>1. /\ Packs(p, o) \in Nat
        /\ Packs(p, o) = 0 <=> \A k \in DOMAIN p : p[k] \notin OfOp(o)
    BY CountType DEF Packs
  <2>2. \A k \in DOMAIN p : p[k] \in Pkt
    OBVIOUS
  <2>3. \A k \in DOMAIN p : p[k] \in OfOp(o) <=> p[k].op = o
    BY <2>2 DEF OfOp
  <2> QED BY <2>1, <2>3
<1>2. ASSUME NEW f, NEW d \in Desc PROVE InPort(p, f, d) \in Nat
  BY CountType DEF InPort
<1> QED BY <1>1, <1>2

\* A packet is queued in the port.
LEMMA PortAdd ==
  ASSUME NEW p \in Seq(Pkt), NEW x \in Pkt
  PROVE  /\ Append(p, x) \in Seq(Pkt)
         /\ \A o \in Op : Packs(Append(p, x), o) = Packs(p, o) + One(x.op = o)
         /\ \A f : \A d \in Desc : InPort(Append(p, x), f, d) = InPort(p, f, d) + One(x.op # Null /\ f[x.op].desc = d)
<1>1. ASSUME NEW T PROVE Append(p, x) \in Seq(Pkt) /\ Count(Append(p, x), T) = Count(p, T) + One(x \in T)
  BY CountAppend DEF One
<1>2. \A o \in Op : x \in OfOp(o) <=> x.op = o
  BY DEF OfOp
<1>3. \A f : \A d \in Desc : x \in OfDesc(f, d) <=> x.op # Null /\ f[x.op].desc = d
  BY DEF OfDesc
<1>4. ASSUME NEW o \in Op PROVE Packs(Append(p, x), o) = Packs(p, o) + One(x.op = o)
  BY <1>1, <1>2 DEF Packs, One
<1>5. ASSUME NEW f, NEW d \in Desc
      PROVE  InPort(Append(p, x), f, d) = InPort(p, f, d) + One(x.op # Null /\ f[x.op].desc = d)
  BY <1>1, <1>3 DEF InPort, One
<1> QED BY <1>1, <1>4, <1>5

\* The first packet is taken.
LEMMA PortTake ==
  ASSUME NEW p \in Seq(Pkt), p # <<>>
  PROVE  /\ Head(p) \in Pkt /\ Tail(p) \in Seq(Pkt)
         /\ \A o \in Op : Packs(p, o) = Packs(Tail(p), o) + One(Head(p).op = o)
         /\ \A f : \A d \in Desc : InPort(p, f, d) = InPort(Tail(p), f, d) + One(Head(p).op # Null /\ f[Head(p).op].desc = d)
<1>1. ASSUME NEW T
      PROVE  Head(p) \in Pkt /\ Tail(p) \in Seq(Pkt) /\ Count(p, T) = Count(Tail(p), T) + One(Head(p) \in T)
  BY CountTail DEF One
<1>2. Head(p) \in Pkt /\ Tail(p) \in Seq(Pkt)
  OBVIOUS
<1>3. \A o \in Op : Head(p) \in OfOp(o) <=> Head(p).op = o
  BY <1>2 DEF OfOp
<1>4. \A f : \A d \in Desc : Head(p) \in OfDesc(f, d) <=> Head(p).op # Null /\ f[Head(p).op].desc = d
  BY <1>2 DEF OfDesc
<1>5. ASSUME NEW o \in Op PROVE Packs(p, o) = Packs(Tail(p), o) + One(Head(p).op = o)
  BY <1>1, <1>3 DEF Packs, One
<1>6. ASSUME NEW f, NEW d \in Desc
      PROVE  InPort(p, f, d) = InPort(Tail(p), f, d) + One(Head(p).op # Null /\ f[Head(p).op].desc = d)
  BY <1>1, <1>4 DEF InPort, One
<1> QED BY <1>2, <1>5, <1>6

\* Only the operations that are there matter.
LEMMA PortFrame ==
  ASSUME NEW p \in Seq(Pkt), NEW f, NEW g, NEW d \in Desc,
         \A k \in DOMAIN p : p[k].op # Null => f[p[k].op].desc = g[p[k].op].desc
  PROVE  InPort(p, f, d) = InPort(p, g, d)
<1>1. \A k \in DOMAIN p : p[k] \in Pkt
  OBVIOUS
<1>2. \A k \in DOMAIN p : p[k] \in OfDesc(f, d) <=> p[k] \in OfDesc(g, d)
  BY <1>1 DEF OfDesc
<1> QED BY <1>2 DEF InPort, Count, PlacesOf

\* Operations in the kernel, counted: only those there matter ...
LEMMA KernelCount ==
  ASSUME NEW P \in SUBSET Op, NEW f, NEW d \in Desc
  PROVE  /\ IsFiniteSet({o \in P : f[o].desc = d}) /\ InKernel(P, f, d) \in Nat
         /\ \A g : (\A o \in P : f[o].desc = g[o].desc) => InKernel(P, f, d) = InKernel(P, g, d)
<1>1. IsFiniteSet({o \in P : f[o].desc = d})
  <2>1. {o \in P : f[o].desc = d} \subseteq Op
    OBVIOUS
  <2> QED BY <2>1, PortAssumption, FS_Subset
<1>2. InKernel(P, f, d) \in Nat
  BY <1>1, FS_CardinalityType DEF InKernel
<1>3. ASSUME NEW g, \A o \in P : f[o].desc = g[o].desc PROVE InKernel(P, f, d) = InKernel(P, g, d)
  <2>1. {o \in P : f[o].desc = d} = {o \in P : g[o].desc = d}
    BY <1>3
  <2> QED BY <2>1 DEF InKernel
<1> QED BY <1>1, <1>2, <1>3

\* ... and of two sets that differ by one operation.
LEMMA KernelStep ==
  ASSUME NEW P \in SUBSET Op, NEW o \in Op, o \notin P, NEW Q, Q = P \cup {o}, NEW f, NEW d \in Desc
  PROVE  /\ f[o].desc = d => InKernel(Q, f, d) = InKernel(P, f, d) + 1
         /\ f[o].desc # d => InKernel(Q, f, d) = InKernel(P, f, d)
<1> DEFINE X == {u \in P : f[u].desc = d}
           Y == {u \in Q : f[u].desc = d}
<1>1. IsFiniteSet(X) /\ o \notin X
  BY KernelCount
<1>2. InKernel(Q, f, d) = Cardinality(Y) /\ InKernel(P, f, d) = Cardinality(X)
  BY DEF InKernel
<1>3. Cardinality(X) \in Nat /\ Cardinality(X \cup {o}) = Cardinality(X) + 1
  BY <1>1, FS_CardinalityType, FS_AddElement
<1>4. f[o].desc = d => Y = X \cup {o}
  OBVIOUS
<1>5. f[o].desc # d => Y = X
  OBVIOUS
<1> HIDE DEF X, Y
<1> QED BY <1>2, <1>3, <1>4, <1>5

\* Socket objects that have a descriptor ...
LEMMA HandleCount ==
  ASSUME NEW h \in [Sock -> Desc \cup {Null}], NEW d \in Desc
  PROVE  Handles(h, d) \in Nat /\ (Handles(h, d) = 0 <=> \A s \in Sock : h[s] # d)
<1>1. Handles(h, d) \in Nat /\ (Handles(h, d) = 0 <=> \A s \in Sock : h[s] \notin {d})
  BY TallyType, PortAssumption DEF Handles
<1> QED BY <1>1

\* ... when one gets another.
LEMMA HandleStep ==
  ASSUME NEW h \in [Sock -> Desc \cup {Null}], NEW g \in [Sock -> Desc \cup {Null}], NEW s \in Sock,
         \A u \in Sock : u # s => g[u] = h[u], NEW d \in Desc
  PROVE  /\ (h[s] = d <=> g[s] = d) => Handles(g, d) = Handles(h, d)
         /\ h[s] # d /\ g[s] = d => Handles(g, d) = Handles(h, d) + 1
         /\ h[s] = d /\ g[s] # d => Handles(h, d) = Handles(g, d) + 1
<1> DEFINE T == {d}
           D == Desc \cup {Null}
<1>1. IsFiniteSet(Sock) /\ g \in [Sock -> D] /\ h \in [Sock -> D] /\ \A y \in Sock : y # s => g[y] = h[y]
  BY PortAssumption
<1>2. (h[s] \in T <=> h[s] = d) /\ (g[s] \in T <=> g[s] = d)
  OBVIOUS
<1> HIDE DEF T, D
<1>3. /\ (h[s] \in T <=> g[s] \in T) => Tally(g, T) = Tally(h, T)
      /\ h[s] \notin T /\ g[s] \in T => Tally(g, T) = Tally(h, T) + 1
      /\ h[s] \in T /\ g[s] \notin T => Tally(h, T) = Tally(g, T) + 1
  BY <1>1, TallyChange
<1> QED BY <1>2, <1>3 DEF Handles, T

Exists(x) == x.st \in {"live", "leaked"}

\* The descriptors the engine counts ...
LEMMA ExistingCount ==
  ASSUME NEW ds \in [Desc -> DescType]
  PROVE  /\ Existing(ds) \in Nat
         /\ Existing(ds) = Tally(ds, {x \in DescType : Exists(x)})
<1> DEFINE T == {x \in DescType : Exists(x)}
<1>1. {d \in Desc : ds[d].st \in {"live", "leaked"}} = {d \in DOMAIN ds : ds[d] \in T}
  BY DEF Exists
<1>2. Existing(ds) = Tally(ds, T)
  BY <1>1 DEF Existing, Tally
<1> HIDE DEF T
<1>3. Tally(ds, T) \in Nat
  BY TallyType, PortAssumption
<1> QED BY <1>2, <1>3 DEF T

\* ... when one changes.
LEMMA ExistingStep ==
  ASSUME NEW ds \in [Desc -> DescType], NEW es \in [Desc -> DescType], NEW d \in Desc,
         \A e \in Desc : e # d => es[e] = ds[e]
  PROVE  /\ (Exists(ds[d]) <=> Exists(es[d])) => Existing(es) = Existing(ds)
         /\ ~Exists(ds[d]) /\ Exists(es[d]) => Existing(es) = Existing(ds) + 1
         /\ Exists(ds[d]) /\ ~Exists(es[d]) => Existing(ds) = Existing(es) + 1
<1> DEFINE T == {x \in DescType : Exists(x)}
<1>1. (ds[d] \in T <=> Exists(ds[d])) /\ (es[d] \in T <=> Exists(es[d]))
  OBVIOUS
<1>2. Existing(ds) = Tally(ds, T) /\ Existing(es) = Tally(es, T)
  BY ExistingCount
<1> HIDE DEF T
<1>3. /\ (ds[d] \in T <=> es[d] \in T) => Tally(es, T) = Tally(ds, T)
      /\ ds[d] \notin T /\ es[d] \in T => Tally(es, T) = Tally(ds, T) + 1
      /\ ds[d] \in T /\ es[d] \notin T => Tally(ds, T) = Tally(es, T) + 1
  BY TallyChange, PortAssumption
<1> QED BY <1>1, <1>2, <1>3

-----------------------------------------------------------------------------
(* What the invariant says of an operation where it is.                    *)

\* The counts of a state, as numbers.
LEMMA Numbers ==
  ASSUME Types
  PROVE  /\ \A o \in Op : /\ op[o].calls \in Nat /\ Packs(port, o) \in Nat
                          /\ Runs(opq, o) \in Nat /\ Runs(ops, o) \in Nat
         /\ \A d \in Desc : /\ Handles(handle, d) \in Nat /\ InKernel(pending, op, d) \in Nat
                            /\ InPort(port, op, d) \in Nat /\ Unbinds(opq, d) \in Nat
                            /\ Unbinds(ops, d) \in Nat /\ Owed(cur, d) \in {0, 1}
         /\ Len(opq) \in Nat /\ Len(ops) \in Nat /\ Existing(desc) \in Nat
<1>1. \A o \in Op : op[o].calls \in Nat
  BY DEF Types, OpType
<1>2. \A o \in Op : Packs(port, o) \in Nat /\ Runs(opq, o) \in Nat /\ Runs(ops, o) \in Nat
  BY PortNat, QueueNat DEF Types
<1>3. \A d \in Desc : /\ InPort(port, op, d) \in Nat /\ Unbinds(opq, d) \in Nat /\ Unbinds(ops, d) \in Nat
  BY PortNat, QueueNat DEF Types
<1>4. \A d \in Desc : Handles(handle, d) \in Nat /\ InKernel(pending, op, d) \in Nat
  BY HandleCount, KernelCount DEF Types
<1>5. Len(opq) \in Nat /\ Len(ops) \in Nat /\ Existing(desc) \in Nat
  BY QueueNat, ExistingCount DEF Types
<1> QED BY <1>1, <1>2, <1>3, <1>4, <1>5 DEF Owed, One

\* An operation that was not started is nowhere.
LEMMA FreshNowhere ==
  ASSUME Types, Places, NEW o \in Fresh
  PROVE  /\ o \in Op /\ op[o].kind = "none" /\ op[o].calls = 0 /\ o \notin pending
         /\ Packs(port, o) = 0 /\ Runs(opq, o) = 0 /\ Runs(ops, o) = 0
<1>1. o \in Op /\ op[o].kind = "none"
  BY DEF Fresh
<1>2. op[o].calls + One(o \in pending) + Packs(port, o) + Runs(opq, o) + Runs(ops, o) = 0
  BY <1>1 DEF Places, Place, One
<1>3. op[o].calls = 0 /\ One(o \in pending) = 0 /\ Packs(port, o) = 0 /\ Runs(opq, o) = 0 /\ Runs(ops, o) = 0
  <2>1. One(o \in pending) \in Nat
    BY DEF One
  <2> QED BY <1>1, <1>2, <2>1, Numbers, SMTT(20)
<1> QED BY <1>1, <1>3 DEF One

\* One that is somewhere was started, is not answered and is nowhere else.
LEMMA Somewhere ==
  ASSUME Types, Places, NEW o \in Op, o \in pending \/ Packs(port, o) > 0 \/ Runs(opq, o) > 0 \/ Runs(ops, o) > 0
  PROVE  /\ op[o].kind # "none" /\ op[o].calls = 0
         /\ One(o \in pending) + Packs(port, o) + Runs(opq, o) + Runs(ops, o) = 1
<1>1. /\ op[o].calls \in Nat /\ One(o \in pending) \in Nat /\ Packs(port, o) \in Nat
      /\ Runs(opq, o) \in Nat /\ Runs(ops, o) \in Nat /\ (o \in pending => One(o \in pending) = 1)
  BY Numbers DEF One
<1>2. op[o].calls + One(o \in pending) + Packs(port, o) + Runs(opq, o) + Runs(ops, o) = One(op[o].kind # "none")
  BY DEF Places, Place
<1>3. One(op[o].kind # "none") \in {0, 1} /\ (One(op[o].kind # "none") = 1 => op[o].kind # "none")
  BY DEF One
<1>4. One(op[o].kind # "none") = 1
  BY <1>1, <1>2, <1>3
<1> QED BY <1>1, <1>2, <1>3, <1>4

\* The operation of a packet.
LEMMA InFront ==
  ASSUME IInv, port # <<>>, Head(port).op # Null
  PROVE  LET o == Head(port).op IN
         /\ o \in Op /\ Head(port) \in Pkt /\ op[o] \in OpType /\ op[o].kind # "none" /\ op[o].calls = 0 /\ op[o].desc \in Desc
         /\ o \notin pending /\ Packs(port, o) = 1 /\ Runs(opq, o) = 0 /\ Runs(ops, o) = 0
<1> DEFINE o == Head(port).op
<1>1. port \in Seq(Pkt) /\ op \in [Op -> OpType]
  BY DEF IInv, Types
<1>2. Head(port) \in Pkt /\ o \in Op
  <2>1. Head(port) \in Pkt
    BY <1>1
  <2> QED BY <2>1 DEF Pkt
<1>3. Packs(port, o) > 0
  <2>1. Packs(port, o) = Packs(Tail(port), o) + One(Head(port).op = o) /\ Packs(Tail(port), o) \in Nat
    BY <1>1, <1>2, PortTake, PortNat
  <2> QED BY <2>1 DEF One
<1>4. /\ op[o].kind # "none" /\ op[o].calls = 0
      /\ One(o \in pending) + Packs(port, o) + Runs(opq, o) + Runs(ops, o) = 1
  BY <1>2, <1>3, Somewhere DEF IInv
<1>5. /\ Packs(port, o) \in Nat /\ Runs(opq, o) \in Nat /\ Runs(ops, o) \in Nat
      /\ One(o \in pending) \in Nat /\ (One(o \in pending) = 0 => o \notin pending)
  BY <1>2, Numbers DEF IInv, One
<1>6. o \notin pending /\ Packs(port, o) = 1 /\ Runs(opq, o) = 0 /\ Runs(ops, o) = 0
  BY <1>3, <1>4, <1>5
<1>7. op[o].desc # Null /\ op[o] \in OpType
  BY <1>1, <1>2, <1>6 DEF IInv, Homes
<1> QED BY <1>2, <1>4, <1>6, <1>7 DEF OpType

\* Started operations keep what they are about.
Kept ==
  /\ op' \in [Op -> OpType]
  /\ \A o \in Op : op[o].kind # "none" =>
       op'[o].kind = op[o].kind /\ op'[o].desc = op[o].desc /\ op'[o].to = op[o].to

\* Then so do the counts of those in the kernel and in the port ...
LEMMA KeptCounts ==
  ASSUME Types, Places, Kept, NEW d \in Desc
  PROVE  /\ InKernel(pending, op', d) = InKernel(pending, op, d)
         /\ InPort(port, op', d) = InPort(port, op, d)
<1>1. \A o \in pending : op'[o].desc = op[o].desc
  BY Somewhere DEF Kept, Types
<1>2. ASSUME NEW k \in DOMAIN port, port[k].op # Null PROVE op'[port[k].op].desc = op[port[k].op].desc
  <2> DEFINE o == port[k].op
  <2>1. o \in Op
    <3>1. port[k] \in Pkt
      BY <1>2 DEF Types
    <3> QED BY <1>2, <3>1 DEF Pkt
  <2>2. Packs(port, o) # 0 /\ Packs(port, o) \in Nat
    BY <2>1, PortNat DEF Types
  <2>3. op[o].kind # "none"
    BY <2>1, <2>2, Somewhere
  <2> QED BY <2>1, <2>3 DEF Kept
<1>3. port \in Seq(Pkt) /\ pending \in SUBSET Op
  BY DEF Types
<1>4. InKernel(pending, op', d) = InKernel(pending, op, d)
  BY <1>1, <1>3, KernelCount
<1>5. InPort(port, op', d) = InPort(port, op, d)
  BY <1>2, <1>3, PortFrame
<1> QED BY <1>4, <1>5

\* ... and a connected descriptor stays one.
LEMMA KeptConnected ==
  ASSUME Kept, NEW d \in Desc, Connected(d)
  PROVE  Connected(d)'
BY DEF Kept, Connected

\* A descriptor not yet made is not connected, and nothing refers to it.
LEMMA NewUnreached ==
  ASSUME IInv, NEW d \in NewDesc
  PROVE  /\ d \in Desc /\ desc[d].st = "new" /\ ~Connected(d) /\ Total(d) = 0 /\ d # cur
         /\ \A s \in Sock : handle[s] # d
         /\ \A o \in Op : op[o].desc # d
<1>1. d \in Desc /\ desc[d].st = "new" /\ d # Null
  BY PortAssumption DEF NewDesc
<1>2. \A o \in Op : op[o].desc # d
  BY <1>1 DEF IInv, Homes
<1>3. ~Connected(d)
  BY <1>2 DEF Connected
<1>4. Total(d) = 0
  BY <1>1, <1>3 DEF IInv, RefCounts
<1>5. Handles(handle, d) = 0 /\ Owed(cur, d) = 0
  BY <1>1, <1>4, Numbers DEF IInv, Total
<1>6. \A s \in Sock : handle[s] # d
  BY <1>1, <1>5, HandleCount DEF IInv, Types
<1> QED BY <1>1, <1>2, <1>3, <1>4, <1>5, <1>6 DEF Owed, One

-----------------------------------------------------------------------------
(* An operation is started.                                                *)

\* What the caller writes into a new operation.
Fits(rec) ==
  /\ rec \in OpType /\ rec.kind # "none" /\ rec.calls = 0
  /\ rec.kind = "accept" => rec.to \in Sock /\ Unused(rec.to)

\* It is put in the kernel's hands, or in the queue.
ToKernel(o) == pending' = pending \cup {o} /\ port' = port /\ opq' = opq
ToQueue(o)  == pending' = pending /\ port' = Append(port, Wake) /\ opq' = Append(opq, RunC(o))

\* A wake-up packet belongs to no operation.
LEMMA Wakes == Wake \in Pkt /\ Wake.op = Null
BY DEF Wake, Packet, Pkt

\* Where an operation that is started is found.
LEMMA StartEffect ==
  ASSUME IInv, NEW o \in Fresh, NEW rec, Fits(rec), op' = [op EXCEPT ![o] = rec], ops' = ops,
         ToKernel(o) \/ ToQueue(o)
  PROVE  /\ Kept /\ Places' /\ opq' \in Seq(Closure) /\ port' \in Seq(Pkt) /\ pending' \in SUBSET Op
         /\ \A u \in Op : op'[u] = IF u = o THEN rec ELSE op[u]
         /\ \A u \in Op : u # o => (u \in pending' <=> u \in pending) /\ Packs(port', u) = Packs(port, u)
         /\ ToQueue(o) => o \notin pending' /\ Packs(port', o) = 0 /\ Len(opq') = Len(opq) + 1
         /\ \A d \in Desc : /\ Unbinds(opq', d) = Unbinds(opq, d)
                            /\ InPort(port', op', d) = InPort(port, op, d)
                            /\ ToKernel(o) => InKernel(pending', op', d) = InKernel(pending, op, d) + One(rec.desc = d)
                            /\ ToQueue(o) => InKernel(pending', op', d) = InKernel(pending, op, d)
<1>1. /\ o \in Op /\ op[o].kind = "none" /\ op[o].calls = 0 /\ o \notin pending
      /\ Packs(port, o) = 0 /\ Runs(opq, o) = 0 /\ Runs(ops, o) = 0
  BY FreshNowhere DEF IInv
<1>2. /\ opq \in Seq(Closure) /\ port \in Seq(Pkt) /\ pending \in SUBSET Op /\ op \in [Op -> OpType]
      /\ RunC(o) \in Closure
  BY <1>1, Closures DEF IInv, Types
<1>3. \A u \in Op : op'[u] = IF u = o THEN rec ELSE op[u]
  BY <1>2
<1>4. Kept
  BY <1>1, <1>2, <1>3 DEF Kept, Fits
<1>5. opq' \in Seq(Closure) /\ port' \in Seq(Pkt) /\ pending' \in SUBSET Op
  <2>1. Append(opq, RunC(o)) \in Seq(Closure) /\ Append(port, Wake) \in Seq(Pkt)
    BY <1>2, QueueAdd, PortAdd, Wakes
  <2> QED BY <1>1, <1>2, <2>1 DEF ToKernel, ToQueue
<1>6. ASSUME NEW u \in Op
      PROVE  /\ Packs(port', u) = Packs(port, u)
             /\ ToKernel(o) => Runs(opq', u) = Runs(opq, u)
             /\ ToQueue(o) => Runs(opq', u) = Runs(opq, u) + One(u = o)
  <2>1. Packs(Append(port, Wake), u) = Packs(port, u)
    <3>1. Packs(Append(port, Wake), u) = Packs(port, u) + One(Null = u) /\ Packs(port, u) \in Nat
      BY <1>2, PortAdd, PortNat, Wakes
    <3> QED BY <3>1, PortAssumption DEF One
  <2>2. Runs(Append(opq, RunC(o)), u) = Runs(opq, u) + One(RunC(o) = RunC(u))
    BY <1>2, QueueAdd
  <2>3. RunC(o) = RunC(u) <=> u = o
    BY <1>1, Closures
  <2>4. One(RunC(o) = RunC(u)) = One(u = o)
    BY <2>3 DEF One
  <2> QED BY <2>1, <2>2, <2>4 DEF ToKernel, ToQueue
<1>7. ASSUME NEW u \in Op PROVE Place(u)' = One(op'[u].kind # "none")
  <2>1. Place(u)' = op'[u].calls + One(u \in pending') + Packs(port', u) + Runs(opq', u) + Runs(ops, u)
    BY DEF Place
  <2>2. CASE u = o
    <3>1. op'[u].calls = 0 /\ op'[u].kind # "none"
      BY <1>3, <2>2 DEF Fits
    <3>2. CASE ToKernel(o)
      <4>1. u \in pending' /\ Packs(port', u) = 0 /\ Runs(opq', u) = 0 /\ Runs(ops, u) = 0
        BY <1>1, <1>6, <2>2, <3>2 DEF ToKernel
      <4> QED BY <2>1, <3>1, <4>1 DEF One
    <3>3. CASE ToQueue(o)
      <4>1. u \notin pending' /\ Packs(port', u) = 0 /\ Runs(opq', u) = 1 /\ Runs(ops, u) = 0
        BY <1>1, <1>6, <2>2, <3>3 DEF ToQueue, One
      <4> QED BY <2>1, <3>1, <4>1 DEF One
    <3> QED BY <3>2, <3>3
  <2>3. CASE u # o
    <3>1. op'[u] = op[u] /\ (u \in pending' <=> u \in pending)
      BY <1>3, <2>3 DEF ToKernel, ToQueue
    <3>2. Packs(port', u) = Packs(port, u) /\ Runs(opq', u) = Runs(opq, u)
      <4>1. Runs(opq, u) \in Nat
        BY <1>2, QueueNat
      <4> QED BY <1>6, <2>3, <4>1 DEF One
    <3>3. Place(u)' = Place(u)
      BY <2>1, <3>1, <3>2 DEF Place, One
    <3> QED BY <3>1, <3>3 DEF IInv, Places
  <2> QED BY <2>2, <2>3
<1>8. Places'
  BY <1>7 DEF Places
<1>9. \A u \in Op : u # o => (u \in pending' <=> u \in pending) /\ Packs(port', u) = Packs(port, u)
  BY <1>6 DEF ToKernel, ToQueue
<1>10. ToQueue(o) => o \notin pending' /\ Packs(port', o) = 0 /\ Len(opq') = Len(opq) + 1
  BY <1>1, <1>2, <1>6, QueueAdd DEF ToQueue
<1>11. ASSUME NEW d \in Desc
       PROVE  /\ Unbinds(opq', d) = Unbinds(opq, d)
              /\ InPort(port', op', d) = InPort(port, op, d)
              /\ ToKernel(o) => InKernel(pending', op', d) = InKernel(pending, op, d) + One(rec.desc = d)
              /\ ToQueue(o) => InKernel(pending', op', d) = InKernel(pending, op, d)
  <2>1. InKernel(pending, op', d) = InKernel(pending, op, d) /\ InPort(port, op', d) = InPort(port, op, d)
    BY <1>4, KeptCounts DEF IInv
  <2>2. InPort(port', op', d) = InPort(port, op', d)
    <3>1. /\ InPort(Append(port, Wake), op', d)
               = InPort(port, op', d) + One(Wake.op # Null /\ op'[Wake.op].desc = d)
          /\ InPort(port, op', d) \in Nat
      BY <1>2, PortAdd, PortNat, Wakes
    <3>2. InPort(Append(port, Wake), op', d) = InPort(port, op', d)
      BY <3>1, Wakes DEF One
    <3> QED BY <3>2 DEF ToKernel, ToQueue
  <2>3. Unbinds(opq', d) = Unbinds(opq, d)
    <3>1. Unbinds(Append(opq, RunC(o)), d) = Unbinds(opq, d) + One(RunC(o) = UnbindC(d)) /\ Unbinds(opq, d) \in Nat
      BY <1>2, QueueAdd, QueueNat
    <3>2. RunC(o) # UnbindC(d)
      BY <1>1, Closures
    <3>3. Unbinds(Append(opq, RunC(o)), d) = Unbinds(opq, d)
      BY <3>1, <3>2 DEF One
    <3> QED BY <3>3 DEF ToKernel, ToQueue
  <2>4. ToKernel(o) => InKernel(pending', op', d) = InKernel(pending, op', d) + One(rec.desc = d)
    <3>1. ASSUME ToKernel(o)
          PROVE  /\ op'[o].desc = d => InKernel(pending', op', d) = InKernel(pending, op', d) + 1
                 /\ op'[o].desc # d => InKernel(pending', op', d) = InKernel(pending, op', d)
      <4> DEFINE P == pending
                 Q == pending'
                 f == op'
      <4>1. P \in SUBSET Op /\ o \in Op /\ o \notin P /\ Q = P \cup {o}
        BY <1>1, <1>2, <3>1 DEF ToKernel
      <4> HIDE DEF P, Q, f
      <4>2. /\ f[o].desc = d => InKernel(Q, f, d) = InKernel(P, f, d) + 1
            /\ f[o].desc # d => InKernel(Q, f, d) = InKernel(P, f, d)
        BY <4>1, KernelStep
      <4> QED BY <4>2 DEF P, Q, f
    <3>2. op'[o].desc = rec.desc
      BY <1>1, <1>3
    <3>3. InKernel(pending, op', d) \in Nat
      BY <1>2, KernelCount
    <3> QED BY <3>1, <3>2, <3>3 DEF One
  <2>5. ToQueue(o) => InKernel(pending', op', d) = InKernel(pending, op', d)
    BY DEF ToQueue
  <2> QED BY <2>1, <2>2, <2>3, <2>4, <2>5
<1> QED BY <1>3, <1>4, <1>5, <1>8, <1>9, <1>10, <1>11

\* A new accept has a socket object of its own, and a new descriptor goes to
\* one no accept is about to fill.
LEMMA StartTargets ==
  ASSUME IInv, NEW o \in Fresh, NEW rec, Fits(rec), op' = [op EXCEPT ![o] = rec],
         \/ handle' = handle
         \/ /\ rec.kind # "accept"
            /\ \E s \in Sock, x \in Desc \cup {Null} : Unused(s) /\ handle' = [handle EXCEPT ![s] = x]
  PROVE  Targets'
<1>1. o \in Op /\ op[o].kind = "none" /\ op \in [Op -> OpType] /\ handle \in [Sock -> Desc \cup {Null}]
  BY DEF Fresh, IInv, Types
<1>2. \A u \in Op : op'[u] = IF u = o THEN rec ELSE op[u]
  BY <1>1
<1>3. ASSUME NEW u \in Op, Waits(u) PROVE handle[op[u].to] = Null /\ handle'[op[u].to] = Null /\ op[u].to \in Sock
  <2>1. op[u].to \in Sock /\ handle[op[u].to] = Null
    BY <1>3 DEF IInv, Targets, Waits
  <2>2. ASSUME NEW s \in Sock, NEW x \in Desc \cup {Null}, Unused(s), handle' = [handle EXCEPT ![s] = x]
        PROVE  handle'[op[u].to] = Null
    <3>1. op[u].to # s
      BY <1>3, <2>2 DEF Unused, Waits
    <3> QED BY <1>1, <2>1, <2>2, <3>1
  <2> QED BY <2>1, <2>2
<1>4. ASSUME NEW u \in Op, op'[u].kind = "accept"
      PROVE  /\ op'[u].to \in Sock
             /\ op'[u].calls # 1 => /\ handle'[op'[u].to] = Null
                                    /\ \A w \in Op : Waits(w)' /\ op'[w].to = op'[u].to => w = u
  <2>1. CASE u = o
    <3>1. op'[u] = rec /\ rec.to \in Sock /\ Unused(rec.to) /\ handle' = handle
      BY <1>2, <1>4, <2>1 DEF Fits
    <3>2. handle'[rec.to] = Null
      BY <3>1 DEF Unused
    <3>3. ASSUME NEW w \in Op, Waits(w)', op'[w].to = op'[u].to PROVE w = u
      <4>1. SUFFICES ASSUME w # o PROVE FALSE
        BY <2>1
      <4>2. op'[w] = op[w]
        BY <1>2, <4>1
      <4> QED BY <3>1, <3>3, <4>2 DEF Unused, Waits
    <3> QED BY <3>1, <3>2, <3>3
  <2>2. CASE u # o
    <3>1. op'[u] = op[u]
      BY <1>2, <2>2
    <3>2. op[u].to \in Sock
      BY <1>4, <3>1 DEF IInv, Targets
    <3>3. ASSUME op[u].calls # 1
          PROVE  /\ handle'[op[u].to] = Null
                 /\ \A w \in Op : Waits(w)' /\ op'[w].to = op[u].to => w = u
      <4>1. Waits(u)
        BY <1>4, <3>1, <3>3 DEF Waits
      <4>2. ASSUME NEW w \in Op, Waits(w)', op'[w].to = op[u].to PROVE w = u
        <5>1. CASE w = o
          <6>1. op'[w] = rec
            BY <1>2, <5>1
          <6> QED BY <4>1, <4>2, <6>1 DEF Fits, Unused, Waits
        <5>2. CASE w # o
          <6>1. op'[w] = op[w]
            BY <1>2, <5>2
          <6> QED BY <4>1, <4>2, <6>1 DEF IInv, Targets, Waits
        <5> QED BY <5>1, <5>2
      <4> QED BY <1>3, <4>1, <4>2
    <3> QED BY <3>1, <3>2, <3>3
  <2> QED BY <2>1, <2>2
<1> QED BY <1>4 DEF Targets

\* A new operation in the kernel has a descriptor that exists.
LEMMA StartHomes ==
  ASSUME IInv, NEW o \in Fresh, NEW rec, Fits(rec), op' = [op EXCEPT ![o] = rec], ops' = ops,
         ToKernel(o) \/ ToQueue(o), rec.desc = Null => ToQueue(o),
         rec.desc # Null => desc'[rec.desc].st # "new",
         \A d \in Desc : /\ desc'[d].st = "new" => desc[d].st = "new"
                         /\ desc'[d].fd => desc'[d].st = "live"
  PROVE  Homes'
<1>1. /\ \A u \in Op : op'[u] = IF u = o THEN rec ELSE op[u]
      /\ \A u \in Op : u # o => (u \in pending' <=> u \in pending) /\ Packs(port', u) = Packs(port, u)
      /\ ToQueue(o) => o \notin pending' /\ Packs(port', o) = 0
  <2>1. \A u \in Op : op'[u] = IF u = o THEN rec ELSE op[u]
    BY DEF IInv, Types
  <2>2. \A u \in Op : u # o => (u \in pending' <=> u \in pending) /\ Packs(port', u) = Packs(port, u)
    BY StartEffect
  <2>3. ToQueue(o) => o \notin pending' /\ Packs(port', o) = 0
    BY StartEffect
  <2> QED BY <2>1, <2>2, <2>3
<1>2. op \in [Op -> OpType]
  BY DEF IInv, Types
<1>3. ASSUME NEW u \in Op, op'[u].desc = Null PROVE u \notin pending' /\ Packs(port', u) = 0
  BY <1>1, <1>3 DEF IInv, Homes
<1>4. ASSUME NEW u \in Op, op'[u].kind = "none" PROVE op'[u].desc = Null
  BY <1>1, <1>4 DEF IInv, Homes, Fits
<1>5. ASSUME NEW u \in Op, op'[u].desc # Null PROVE desc'[op'[u].desc].st # "new"
  <2>1. CASE u = o
    BY <1>1, <1>5, <2>1
  <2>2. CASE u # o
    <3>1. op'[u] = op[u] /\ op[u].desc \in Desc
      BY <1>1, <1>2, <1>5, <2>2 DEF OpType
    <3> QED BY <1>5, <3>1 DEF IInv, Homes
  <2> QED BY <2>1, <2>2
<1> QED BY <1>3, <1>4, <1>5 DEF Homes

\* What a started operation adds to the references.
LEMMA StartRefs ==
  ASSUME IInv, NEW o \in Fresh, NEW rec, Fits(rec), op' = [op EXCEPT ![o] = rec], UNCHANGED loopVars,
         handle' \in [Sock -> Desc \cup {Null}], ToKernel(o) \/ ToQueue(o), NEW d \in Desc
  PROVE  /\ Total(d) \in Nat
         /\ ToQueue(o) => Total(d)' = Total(d) + Handles(handle', d) - Handles(handle, d)
         /\ ToKernel(o) /\ rec.desc # d => Total(d)' = Total(d) + Handles(handle', d) - Handles(handle, d)
         /\ ToKernel(o) /\ rec.desc = d => Total(d)' = Total(d) + 1 + Handles(handle', d) - Handles(handle, d)
<1>1. ops' = ops /\ cur' = cur
  BY DEF loopVars
<1>2. /\ Unbinds(opq', d) = Unbinds(opq, d)
      /\ InPort(port', op', d) = InPort(port, op, d)
      /\ ToKernel(o) => InKernel(pending', op', d) = InKernel(pending, op, d) + One(rec.desc = d)
      /\ ToQueue(o) => InKernel(pending', op', d) = InKernel(pending, op, d)
  BY <1>1, StartEffect
<1>3. Total(d)' = Handles(handle', d) + InKernel(pending', op', d) + InPort(port', op', d)
                    + Unbinds(opq', d) + Unbinds(ops, d) + Owed(cur, d)
  BY <1>1 DEF Total
<1>4. /\ Handles(handle, d) \in Nat /\ InKernel(pending, op, d) \in Nat
      /\ InPort(port, op, d) \in Nat /\ Unbinds(opq, d) \in Nat
      /\ Unbinds(ops, d) \in Nat /\ Owed(cur, d) \in Nat
      /\ Handles(handle', d) \in Nat
  BY Numbers, HandleCount DEF IInv
<1>5. Total(d) \in Nat
  BY <1>4 DEF Total
<1>6. /\ ToKernel(o) /\ rec.desc = d => InKernel(pending', op', d) = InKernel(pending, op, d) + 1
      /\ ToKernel(o) /\ rec.desc # d => InKernel(pending', op', d) = InKernel(pending, op, d)
  BY <1>2, <1>4 DEF One
<1> QED BY <1>2, <1>3, <1>4, <1>5, <1>6 DEF Total

\* Changes of a descriptor.
LEMMA DescUpdate ==
  ASSUME NEW x \in DescType
  PROVE  /\ \A y \in DescSt : LET z == [x EXCEPT !.st = y] IN
              z \in DescType /\ z.st = y /\ z.fd = x.fd /\ z.ref = x.ref
         /\ \A y \in Int : LET z == [x EXCEPT !.ref = y] IN
              z \in DescType /\ z.st = x.st /\ z.fd = x.fd /\ z.ref = y
         /\ LET z == [x EXCEPT !.fd = FALSE] IN
              z \in DescType /\ z.st = x.st /\ ~z.fd /\ z.ref = x.ref
BY DEF DescType

\* What is left of a descriptor bind() refused.
LEMMA BindFailed == bind_failed \in DescType /\ bind_failed.st = "leaked" /\ ~bind_failed.fd
<1>1. NoDesc \in DescType /\ ~NoDesc.fd
  BY DEF NoDesc, DescType, DescSt
<1> QED BY <1>1, DescUpdate DEF bind_failed, DescSt

\* The loop is where it was.
LEMMA ShapeKept == ASSUME IInv, UNCHANGED loopVars PROVE Shape'
BY DEF IInv, Shape, loopVars

\* An operation is answered from the queue, at once; the descriptor that
\* bind() refused is deleted.
LEMMA StepPosted ==
  ASSUME IInv, NEW o \in Fresh, NEW rec, Fits(rec), op' = [op EXCEPT ![o] = rec], ToQueue(o),
         rec.desc = Null \/ (rec.desc \in Desc /\ desc[rec.desc].st # "new"),
         UNCHANGED <<loopVars, handle>>,
         \/ desc' = desc /\ active' = active + 1
         \/ \E d \in NewDesc : desc' = [desc EXCEPT ![d] = bind_failed] /\ active' = active + 2
  PROVE  IInv'
<1>1. ops' = ops /\ handle' = handle /\ cur' = cur /\ UNCHANGED loopVars
  BY DEF loopVars
<1>2. /\ Kept /\ Places' /\ opq' \in Seq(Closure) /\ port' \in Seq(Pkt) /\ pending' \in SUBSET Op
      /\ Len(opq') = Len(opq) + 1
  BY <1>1, StartEffect
<1>3. desc \in [Desc -> DescType] /\ active \in Int /\ bind_failed \in DescType /\ bind_failed.st = "leaked" /\ ~bind_failed.fd
  BY BindFailed DEF IInv, Types
<1>4. desc' \in [Desc -> DescType]
  BY <1>3 DEF NewDesc
<1>5. ASSUME NEW d \in Desc
      PROVE  \/ desc'[d] = desc[d]
             \/ desc[d].st = "new" /\ desc'[d].st = "leaked" /\ ~desc'[d].fd
  BY <1>3 DEF NewDesc
<1>6. Types'
  BY <1>1, <1>2, <1>3, <1>4 DEF IInv, Types, Kept
<1>7. Shape'
  BY <1>1, ShapeKept
<1>8. Targets'
  BY <1>1, StartTargets
<1>9. Homes'
  <2>1. \A d \in Desc : /\ desc'[d].st = "new" => desc[d].st = "new"
                        /\ desc'[d].fd => desc'[d].st = "live"
    BY <1>5 DEF IInv, Homes
  <2>2. rec.desc # Null => desc'[rec.desc].st # "new"
    BY <2>1
  <2> QED BY <1>1, <2>1, <2>2, StartHomes
<1>10. RefCounts'
  <2>1. ASSUME NEW d \in Desc, ~Connected(d)', ~(desc[d].st = "new" /\ desc'[d].st = "leaked")
        PROVE  desc'[d] = desc[d] /\ ~Connected(d) /\ Total(d)' = Total(d)
    <3>1. Total(d)' = Total(d) + Handles(handle', d) - Handles(handle, d) /\ Total(d) \in Nat
      <4>1. handle' \in [Sock -> Desc \cup {Null}]
        BY <1>1 DEF IInv, Types
      <4> QED BY <1>1, <4>1, StartRefs
    <3>2. Handles(handle, d) \in Nat
      BY Numbers DEF IInv
    <3> QED BY <1>1, <1>2, <1>5, <2>1, <3>1, <3>2, KeptConnected
  <2> QED BY <2>1 DEF IInv, RefCounts
<1>11. Engine'
  <2>1. Existing(desc) \in Nat /\ Len(opq) \in Nat /\ Len(ops) \in Nat /\ active = Existing(desc) + Len(opq) + Len(ops)
    BY Numbers DEF IInv, Engine
  <2>2. ASSUME NEW d \in NewDesc, desc' = [desc EXCEPT ![d] = bind_failed], active' = active + 2
        PROVE Existing(desc') = Existing(desc) + 1
    <3>1. d \in Desc /\ desc[d].st = "new"
      BY DEF NewDesc
    <3>2. desc'[d] = bind_failed /\ \A e \in Desc : e # d => desc'[e] = desc[e]
      BY <1>3, <2>2, <3>1
    <3>3. Exists(desc'[d]) /\ ~Exists(desc[d])
      BY <1>3, <3>1, <3>2 DEF Exists
    <3> QED BY <1>3, <1>4, <3>1, <3>2, <3>3, ExistingStep
  <2>3. CASE desc' = desc /\ active' = active + 1
    BY <1>1, <1>2, <2>1, <2>3 DEF Engine
  <2>4. CASE \E d \in NewDesc : desc' = [desc EXCEPT ![d] = bind_failed] /\ active' = active + 2
    <3>1. Existing(desc') = Existing(desc) + 1 /\ active' = active + 2
      BY <2>2, <2>4
    <3> QED BY <1>1, <1>2, <2>1, <3>1 DEF Engine
  <2> QED BY <2>3, <2>4
<1> QED BY <1>2, <1>6, <1>7, <1>8, <1>9, <1>10, <1>11 DEF IInv

\* A reference more or less.
LEMMA RefUpdate ==
  ASSUME NEW x \in DescType, NEW n \in Int
  PROVE  LET z == [x EXCEPT !.ref = n] IN
         z \in DescType /\ z.st = x.st /\ z.fd = x.fd /\ z.type = x.type /\ z.ref = n
BY DEF DescType

\* The kernel takes an operation, which holds a reference.
LEMMA StepTaken ==
  ASSUME IInv, NEW o \in Fresh, NEW rec, Fits(rec), op' = [op EXCEPT ![o] = rec], ToKernel(o),
         NEW x \in Desc, rec.desc = x, desc[x].fd, desc' = [desc EXCEPT ![x].ref = @ + 1],
         UNCHANGED <<loopVars, handle, active>>
  PROVE  IInv'
<1>1. ops' = ops /\ handle' = handle /\ cur' = cur /\ active' = active /\ UNCHANGED loopVars /\ opq' = opq
  BY DEF loopVars, ToKernel
<1>2. Kept /\ Places' /\ opq' \in Seq(Closure) /\ port' \in Seq(Pkt) /\ pending' \in SUBSET Op
  BY <1>1, StartEffect
<1>3. desc \in [Desc -> DescType] /\ desc[x] \in DescType /\ desc[x].ref \in Int /\ handle' \in [Sock -> Desc \cup {Null}]
  BY <1>1 DEF IInv, Types, DescType
<1> DEFINE y == [desc[x] EXCEPT !.ref = desc[x].ref + 1]
<1>4. y \in DescType /\ y.st = desc[x].st /\ y.fd = desc[x].fd /\ y.ref = desc[x].ref + 1
  <2>1. desc[x].ref + 1 \in Int
    BY <1>3
  <2> QED BY <1>3, <2>1, RefUpdate, ZenonT(30)
<1>5. desc' = [desc EXCEPT ![x] = y]
  BY <1>3
<1> HIDE DEF y
<1>6. desc' \in [Desc -> DescType] /\ \A d \in Desc : desc'[d] = IF d = x THEN y ELSE desc[d]
  BY <1>3, <1>4, <1>5
<1>7. Types'
  BY <1>1, <1>2, <1>6 DEF IInv, Types, Kept
<1>8. Shape'
  BY <1>1, ShapeKept
<1>9. Targets'
  BY <1>1, StartTargets
<1>10. desc[x].st = "live" /\ x # Null
  BY PortAssumption DEF IInv, Homes
<1>11. Homes'
  <2>1. \A d \in Desc : /\ desc'[d].st = "new" => desc[d].st = "new"
                        /\ desc'[d].fd => desc'[d].st = "live"
    BY <1>4, <1>6 DEF IInv, Homes
  <2>2. desc'[rec.desc].st # "new" /\ rec.desc # Null
    BY <1>4, <1>6, <1>10
  <2> QED BY <1>1, <2>1, <2>2, StartHomes
<1>12. RefCounts'
  <2>1. ASSUME NEW d \in Desc, ~Connected(d)'
        PROVE  /\ ~Connected(d) /\ Total(d) \in Nat
               /\ d # x => desc'[d] = desc[d] /\ Total(d)' = Total(d)
               /\ d = x => desc'[d].st = "live" /\ desc'[d].ref = desc[d].ref + 1 /\ Total(d)' = Total(d) + 1
    <3>1. /\ Total(d) \in Nat /\ (rec.desc # d => Total(d)' = Total(d) + Handles(handle', d) - Handles(handle, d))
          /\ rec.desc = d => Total(d)' = Total(d) + 1 + Handles(handle', d) - Handles(handle, d)
      BY <1>1, <1>3, StartRefs
    <3>2. Handles(handle, d) \in Nat
      BY Numbers DEF IInv
    <3> QED BY <1>1, <1>2, <1>4, <1>6, <1>10, <2>1, <3>1, <3>2, KeptConnected
  <2> QED BY <1>10, <2>1 DEF IInv, RefCounts
<1>13. Engine'
  <2>1. Exists(desc'[x]) <=> Exists(desc[x])
    BY <1>4, <1>6 DEF Exists
  <2>2. Existing(desc') = Existing(desc)
    BY <1>3, <1>6, <2>1, ExistingStep
  <2> QED BY <1>1, <2>2 DEF IInv, Engine
<1> QED BY <1>2, <1>7, <1>8, <1>9, <1>11, <1>12, <1>13 DEF IInv

\* A descriptor just made.
LEMMA Created ==
  ASSUME NEW t \in {"listen", "dgram", "connecting", "stream"}, NEW n \in Int
  PROVE  LET y == descriptor_create(t, n) IN y \in DescType /\ y.st = "live" /\ y.fd /\ y.ref = n
BY DEF descriptor_create, DescType, DescSt

\* The effect of making one, with n references, on the other invariants.
LEMMA MadeEffect ==
  ASSUME IInv, NEW d \in NewDesc, NEW s \in Sock, handle[s] = Null, NEW t \in {"listen", "dgram", "connecting", "stream"},
         NEW n \in Int, handle' = [handle EXCEPT ![s] = d], desc' = [desc EXCEPT ![d] = descriptor_create(t, n)]
  PROVE  /\ handle' \in [Sock -> Desc \cup {Null}] /\ desc' \in [Desc -> DescType]
         /\ desc'[d].st = "live" /\ desc'[d].fd /\ desc'[d].ref = n
         /\ \A e \in Desc : e # d => desc'[e] = desc[e] /\ Handles(handle', e) = Handles(handle, e)
         /\ Handles(handle', d) = Handles(handle, d) + 1
         /\ Existing(desc') = Existing(desc) + 1
         /\ \A e \in Desc : /\ desc'[e].st = "new" => desc[e].st = "new"
                            /\ desc'[e].fd => desc'[e].st = "live"
<1> DEFINE y == descriptor_create(t, n)
<1>1. y \in DescType /\ y.st = "live" /\ y.fd /\ y.ref = n
  BY Created
<1>2. d \in Desc /\ desc[d].st = "new" /\ handle[s] = Null /\ Null \notin Desc
  BY PortAssumption DEF NewDesc
<1>3. handle \in [Sock -> Desc \cup {Null}] /\ desc \in [Desc -> DescType]
  BY DEF IInv, Types
<1> HIDE DEF y
<1>4. handle' \in [Sock -> Desc \cup {Null}] /\ desc' \in [Desc -> DescType]
  BY <1>1, <1>2, <1>3 DEF y
<1>5. desc'[d] = y /\ \A e \in Desc : e # d => desc'[e] = desc[e]
  BY <1>2, <1>3 DEF y
<1>6. ASSUME NEW e \in Desc
      PROVE  /\ e # d => Handles(handle', e) = Handles(handle, e)
             /\ e = d => Handles(handle', e) = Handles(handle, e) + 1
  <2>1. handle'[s] = d /\ handle[s] # e /\ \A u \in Sock : u # s => handle'[u] = handle[u]
    BY <1>2, <1>3
  <2> DEFINE h == handle
             g == handle'
  <2>2. /\ h \in [Sock -> Desc \cup {Null}] /\ g \in [Sock -> Desc \cup {Null}] /\ g[s] = d /\ h[s] # e
        /\ \A u \in Sock : u # s => g[u] = h[u]
    BY <1>3, <1>4, <2>1
  <2> HIDE DEF h, g
  <2>3. /\ (h[s] = e <=> g[s] = e) => Handles(g, e) = Handles(h, e)
        /\ h[s] # e /\ g[s] = e => Handles(g, e) = Handles(h, e) + 1
    BY <2>2, HandleStep
  <2>4. /\ e # d => Handles(g, e) = Handles(h, e)
        /\ e = d => Handles(g, e) = Handles(h, e) + 1
    BY <2>2, <2>3
  <2> QED BY <2>4 DEF h, g
<1>7. Existing(desc') = Existing(desc) + 1
  <2>1. Exists(desc'[d]) /\ ~Exists(desc[d])
    BY <1>1, <1>2, <1>5 DEF Exists
  <2> QED BY <1>2, <1>3, <1>4, <1>5, <2>1, ExistingStep
<1>8. \A e \in Desc : /\ desc'[e].st = "new" => desc[e].st = "new"
                      /\ desc'[e].fd => desc'[e].st = "live"
  BY <1>1, <1>5 DEF IInv, Homes
<1> QED BY <1>1, <1>2, <1>4, <1>5, <1>6, <1>7, <1>8

\* The operation a descriptor is made for is taken by the kernel, or not.
Given(o, rec, n) ==
  \/ ToKernel(o) /\ active' = active + 1 /\ (n = 2 \/ rec.kind = "connect")
  \/ ToQueue(o) /\ active' = active + 2 /\ n = 1

\* A descriptor is made with an operation for it.
LEMMA StepMade ==
  ASSUME IInv, NEW o \in Fresh, NEW rec, Fits(rec), op' = [op EXCEPT ![o] = rec], rec.kind # "accept",
         NEW d \in NewDesc, rec.desc = d, NEW s \in Sock, Unused(s),
         NEW t \in {"listen", "dgram", "connecting", "stream"}, NEW n \in Int,
         handle' = [handle EXCEPT ![s] = d], desc' = [desc EXCEPT ![d] = descriptor_create(t, n)],
         Given(o, rec, n), UNCHANGED loopVars
  PROVE  IInv'
<1>0. \/ ToKernel(o) /\ active' = active + 1 /\ (n = 2 \/ rec.kind = "connect")
      \/ ToQueue(o) /\ active' = active + 2 /\ n = 1
  BY DEF Given
<1>1. ops' = ops /\ cur' = cur
  BY DEF loopVars
<1>2. /\ Kept /\ Places' /\ opq' \in Seq(Closure) /\ port' \in Seq(Pkt) /\ pending' \in SUBSET Op
      /\ ToQueue(o) => Len(opq') = Len(opq) + 1
  <2>1. ToKernel(o) \/ ToQueue(o)
    BY <1>0
  <2> QED BY <1>1, <2>1, StartEffect
<1>3. /\ handle' \in [Sock -> Desc \cup {Null}] /\ desc' \in [Desc -> DescType]
      /\ desc'[d].st = "live" /\ desc'[d].fd /\ desc'[d].ref = n
      /\ \A e \in Desc : e # d => desc'[e] = desc[e] /\ Handles(handle', e) = Handles(handle, e)
      /\ Handles(handle', d) = Handles(handle, d) + 1
      /\ Existing(desc') = Existing(desc) + 1
      /\ \A e \in Desc : /\ desc'[e].st = "new" => desc[e].st = "new"
                         /\ desc'[e].fd => desc'[e].st = "live"
  <2>1. handle[s] = Null
    BY DEF Unused
  <2> QED BY <2>1, MadeEffect
<1>4. d \in Desc /\ Total(d) = 0 /\ d # Null
  BY NewUnreached, PortAssumption
<1>5. Types'
  BY <1>0, <1>1, <1>2, <1>3 DEF IInv, Types, Kept
<1>6. Shape'
  BY ShapeKept
<1>7. Targets'
  BY <1>4, StartTargets
<1>8. Homes'
  <2>1. ToKernel(o) \/ ToQueue(o)
    BY <1>0
  <2> QED BY <1>1, <1>3, <1>4, <2>1, StartHomes
<1>9. RefCounts'
  <2>1. ASSUME NEW e \in Desc, ~Connected(e)'
        PROVE  /\ ~Connected(e)
               /\ e # d => desc'[e] = desc[e] /\ Total(e)' = Total(e)
               /\ e = d => desc'[e].st = "live" /\ desc'[e].ref = Total(e)'
    <3>1. ToKernel(o) \/ ToQueue(o)
      BY <1>0
    <3>2. /\ Total(e) \in Nat
          /\ ToQueue(o) => Total(e)' = Total(e) + Handles(handle', e) - Handles(handle, e)
          /\ ToKernel(o) /\ rec.desc # e => Total(e)' = Total(e) + Handles(handle', e) - Handles(handle, e)
          /\ ToKernel(o) /\ rec.desc = e => Total(e)' = Total(e) + 1 + Handles(handle', e) - Handles(handle, e)
      <4>1. handle' \in [Sock -> Desc \cup {Null}]
        BY <1>3
      <4> QED BY <3>1, <4>1, StartRefs
    <3>3. Handles(handle, e) \in Nat
      BY Numbers DEF IInv
    <3>4. ~Connected(e)
      BY <1>2, <2>1, KeptConnected
    <3>5. e = d => rec.kind # "connect"
      <4>1. op'[o] = rec /\ o \in Op
        BY DEF IInv, Types, Fresh
      <4> QED BY <2>1, <4>1 DEF Connected
    <3> QED BY <1>0, <1>3, <1>4, <3>1, <3>2, <3>3, <3>4, <3>5
  <2> QED BY <2>1 DEF IInv, RefCounts
<1>10. Engine'
  <2>1. /\ Existing(desc) \in Nat /\ Len(opq) \in Nat /\ Len(ops) \in Nat
        /\ active = Existing(desc) + Len(opq) + Len(ops)
    BY Numbers DEF IInv, Engine
  <2>2. ToKernel(o) => opq' = opq
    BY DEF ToKernel
  <2> QED BY <1>0, <1>1, <1>2, <1>3, <2>1, <2>2 DEF Engine
<1> QED BY <1>2, <1>5, <1>6, <1>7, <1>8, <1>9, <1>10 DEF IInv

\* What Started writes ...
LEMMA StartedFits ==
  ASSUME NEW k \in Kind \ {"none"}, NEW x \in Desc \cup {Null}, NEW to \in Sock \cup {Null},
         k = "accept" => to \in Sock /\ Unused(to)
  PROVE  Fits(Started(k, x, to)) /\ Started(k, x, to).desc = x /\ Started(k, x, to).kind = k
<1> DEFINE n == IF k \in {"readn", "write"} THEN BufLen ELSE 1
           r == Started(k, x, to)
<1>1. n \in Int
  BY PortAssumption
<1> HIDE DEF n
<1>2. r = [kind |-> k, desc |-> x, to |-> to, err |-> "none", calls |-> 0, left |-> n]
  BY DEF Started, n
<1>3. r \in OpType
  BY <1>1, <1>2 DEF OpType, ErrSet
<1>4. r.kind = k /\ r.desc = x /\ r.to = to /\ r.calls = 0
  BY <1>2
<1> HIDE DEF r
<1>5. Fits(r)
  BY <1>3, <1>4 DEF Fits
<1> QED BY <1>4, <1>5 DEF r

\* ... also with the error of a call that failed.
LEMMA ErrorFits ==
  ASSUME NEW r, Fits(r)
  PROVE  LET e == [r EXCEPT !.err = "error"] IN Fits(e) /\ e.desc = r.desc /\ e.kind = r.kind
<1> DEFINE e == [r EXCEPT !.err = "error"]
<1>1. r \in OpType
  BY DEF Fits
<1>2. e \in OpType /\ e.kind = r.kind /\ e.desc = r.desc /\ e.to = r.to /\ e.calls = r.calls
  BY <1>1 DEF OpType, ErrSet
<1> QED BY <1>2 DEF Fits

\* post() for a new operation.
LEMMA PostIsToQueue ==
  ASSUME NEW o, NEW n, post(port, RunC(o), n), pending' = pending
  PROVE  ToQueue(o) /\ active' = active + n + 1
BY DEF post, ToQueue

\* execute, and the calls that fail before there is a descriptor.
LEMMA StepFail ==
  ASSUME IInv, NEW o \in Op,
         \/ execute(o)
         \/ \E s \in Sock, k \in {"connect", "send", "recv"}, d \in Desc \cup {Null} : fail_op(s, o, k, d)
  PROVE  IInv'
<1>1. active \in Int
  BY DEF IInv, Types
<1>2. CASE execute(o)
  <2> DEFINE rec == Started("task", Null, Null)
  <2>1. Fits(rec) /\ rec.desc = Null
    <3> DEFINE k == "task"
    <3>1. k \in Kind \ {"none"} /\ k # "accept" /\ k = "task"
      BY DEF Kind
    <3> HIDE DEF k
    <3>2. Fits(Started(k, Null, Null)) /\ Started(k, Null, Null).desc = Null /\ Started(k, Null, Null).kind = k
      BY <3>1, StartedFits
    <3> QED BY <3>1, <3>2
  <2> HIDE DEF rec
  <2>2. /\ o \in Fresh /\ op' = [op EXCEPT ![o] = rec] /\ UNCHANGED <<loopVars, handle>>
        /\ desc' = desc /\ pending' = pending /\ post(port, RunC(o), 0)
    BY <1>2 DEF execute, MayStart, rec
  <2>3. ToQueue(o) /\ active' = active + 1
    BY <1>1, <2>2, PostIsToQueue
  <2> QED BY <2>1, <2>2, <2>3, StepPosted
<1>3. ASSUME NEW s \in Sock, NEW k \in {"connect", "send", "recv"}, NEW d \in Desc \cup {Null}, fail_op(s, o, k, d)
      PROVE  IInv'
  <2> DEFINE rec == [Started(k, Null, Null) EXCEPT !.err = "error"]
  <2>1. Fits(rec) /\ rec.desc = Null
    <3>1. k \in Kind \ {"none"} /\ k # "accept"
      BY DEF Kind
    <3>2. Fits(Started(k, Null, Null)) /\ Started(k, Null, Null).desc = Null
      BY <3>1, StartedFits
    <3> QED BY <3>2, ErrorFits
  <2> HIDE DEF rec
  <2>2. /\ o \in Fresh /\ op' = [op EXCEPT ![o] = rec] /\ UNCHANGED <<loopVars, handle>> /\ pending' = pending
        /\ IF d = Null THEN post(port, RunC(o), 0) /\ UNCHANGED desc
           ELSE d \in NewDesc /\ post(port, RunC(o), 1) /\ desc' = [desc EXCEPT ![d] = bind_failed]
    BY <1>3 DEF fail_op, MayStart, rec
  <2>3. CASE d = Null
    <3>1. ToQueue(o) /\ active' = active + 1 /\ desc' = desc
      BY <1>1, <2>2, <2>3, PostIsToQueue
    <3> QED BY <2>1, <2>2, <3>1, StepPosted
  <2>4. CASE d # Null
    <3>1. ToQueue(o) /\ active' = active + 1 + 1 /\ d \in NewDesc /\ desc' = [desc EXCEPT ![d] = bind_failed]
      BY <2>2, <2>4, PostIsToQueue
    <3>2. active' = active + 2
      BY <1>1, <3>1
    <3> QED BY <2>1, <2>2, <3>1, <3>2, StepPosted
  <2> QED BY <2>3, <2>4
<1> QED BY <1>2, <1>3

\* Starting an operation on a descriptor that is there.
LEMMA StepOverlapped ==
  ASSUME IInv, NEW o \in Fresh, NEW k \in Kind \ {"none"}, NEW x \in Desc, NEW to \in Sock \cup {Null},
         k = "accept" => to \in Sock /\ Unused(to), desc[x].st = "live", UNCHANGED <<loopVars, handle>>,
         \/ Overlapped(o, x, Started(k, x, to), port)
         \/ op' = [op EXCEPT ![o] = Started(k, x, to)] /\ post(port, RunC(o), 0) /\ UNCHANGED <<pending, desc>>
  PROVE  IInv'
<1> DEFINE r == Started(k, x, to)
           e == [Started(k, x, to) EXCEPT !.err = "error"]
<1>1. Fits(r) /\ r.desc = x /\ Fits(e) /\ e.desc = x
  BY StartedFits, ErrorFits
<1>2. active \in Int
  BY DEF IInv, Types
<1>3. \/ /\ desc[x].fd /\ desc' = [desc EXCEPT ![x].ref = @ + 1]
         /\ op' = [op EXCEPT ![o] = r] /\ ToKernel(o) /\ active' = active
      \/ op' = [op EXCEPT ![o] = e] /\ post(port, RunC(o), 0) /\ desc' = desc /\ pending' = pending
      \/ op' = [op EXCEPT ![o] = r] /\ post(port, RunC(o), 0) /\ desc' = desc /\ pending' = pending
  BY DEF Overlapped, ToKernel
<1> HIDE DEF r, e
<1>4. CASE /\ desc[x].fd /\ desc' = [desc EXCEPT ![x].ref = @ + 1]
           /\ op' = [op EXCEPT ![o] = r] /\ ToKernel(o) /\ active' = active
  BY <1>1, <1>4, StepTaken
<1>5. ASSUME post(port, RunC(o), 0), pending' = pending PROVE ToQueue(o) /\ active' = active + 1
  BY <1>2, <1>5, PostIsToQueue
<1>6. CASE op' = [op EXCEPT ![o] = e] /\ post(port, RunC(o), 0) /\ desc' = desc /\ pending' = pending
  BY <1>1, <1>5, <1>6, StepPosted
<1>7. CASE op' = [op EXCEPT ![o] = r] /\ post(port, RunC(o), 0) /\ desc' = desc /\ pending' = pending
  BY <1>1, <1>5, <1>7, StepPosted
<1> QED BY <1>3, <1>4, <1>6, <1>7

\* read, write, the datagram calls and accept.
LEMMA StepIo ==
  ASSUME IInv, NEW s \in Sock, NEW to \in Sock, NEW o \in Op,
         \/ read(s, o) \/ read_n(s, o) \/ write(s, o) \/ udp_read(s, o) \/ udp_write(s, o)
         \/ accept(s, o, to) \/ accept_no_socket(s, o, to)
  PROVE  IInv'
<1>1. \A t : Usable(s, t) => handle[s] \in Desc /\ desc[handle[s]].st = "live"
  BY DEF Usable, IInv, Types
<1>2. ASSUME NEW k \in {"read", "readn", "write", "recv", "send"}, NEW t, post_io(s, o, k, t) PROVE IInv'
  <2>1. /\ Usable(s, t) /\ o \in Fresh /\ UNCHANGED <<loopVars, handle>>
        /\ Overlapped(o, handle[s], Started(k, handle[s], Null), port)
    BY <1>2 DEF post_io, MayStart
  <2>2. k \in Kind \ {"none"} /\ k # "accept"
    BY DEF Kind
  <2> QED BY <1>1, <2>1, <2>2, StepOverlapped
<1>3. CASE accept(s, o, to)
  <2>1. /\ Usable(s, "listen") /\ o \in Fresh /\ UNCHANGED <<loopVars, handle>> /\ Unused(to)
        /\ Overlapped(o, handle[s], Started("accept", handle[s], to), port)
    BY <1>3 DEF accept, MayStart
  <2>2. "accept" \in Kind \ {"none"}
    BY DEF Kind
  <2> QED BY <1>1, <2>1, <2>2, StepOverlapped
<1>4. CASE accept_no_socket(s, o, to)
  <2>1. /\ Usable(s, "listen") /\ o \in Fresh /\ UNCHANGED <<loopVars, handle>> /\ Unused(to)
        /\ op' = [op EXCEPT ![o] = Started("accept", handle[s], to)] /\ post(port, RunC(o), 0)
        /\ UNCHANGED <<pending, desc>>
    BY <1>4 DEF accept_no_socket, MayStart
  <2>2. "accept" \in Kind \ {"none"}
    BY DEF Kind
  <2> QED BY <1>1, <2>1, <2>2, StepOverlapped
<1> QED BY <1>2, <1>3, <1>4 DEF read, read_n, write, udp_read, udp_write

\* connect, and the first datagram written.
LEMMA StepFirst ==
  ASSUME IInv, NEW d \in Desc, NEW s \in Sock, NEW o \in Op, connect(d, s, o) \/ udp_write_open(d, s, o)
  PROVE  IInv'
<1>1. active \in Int
  BY DEF IInv, Types
<1>2. CASE connect(d, s, o)
  <2> DEFINE r == Started("connect", d, Null)
  <2>1. Fits(r) /\ r.desc = d /\ r.kind = "connect"
    <3> DEFINE k == "connect"
    <3>1. k \in Kind \ {"none"} /\ k # "accept" /\ k = "connect"
      BY DEF Kind
    <3> HIDE DEF k
    <3>2. Fits(Started(k, d, Null)) /\ Started(k, d, Null).desc = d /\ Started(k, d, Null).kind = k
      BY <3>1, StartedFits
    <3> QED BY <3>1, <3>2
  <2>2. /\ Unused(s) /\ o \in Fresh /\ d \in NewDesc /\ desc' = [desc EXCEPT ![d] = descriptor_create("connecting", 1)]
        /\ handle' = [handle EXCEPT ![s] = d] /\ active' = active + 1
        /\ op' = [op EXCEPT ![o] = r] /\ ToKernel(o) /\ UNCHANGED loopVars
    BY <1>2 DEF connect, MayStart, ToKernel
  <2> DEFINE t == "connecting"
             n == 1
  <2>3. t \in {"listen", "dgram", "connecting", "stream"} /\ n \in Int /\ r.kind # "accept"
    BY <2>1
  <2>4. desc' = [desc EXCEPT ![d] = descriptor_create(t, n)]
    BY <2>2
  <2> HIDE DEF r, t, n
  <2>5. Given(o, r, n)
    BY <2>1, <2>2 DEF Given
  <2> QED BY <2>1, <2>2, <2>3, <2>4, <2>5, StepMade
<1>3. CASE udp_write_open(d, s, o)
  <2> DEFINE r == Started("send", d, Null)
             e == [Started("send", d, Null) EXCEPT !.err = "error"]
  <2>1. Fits(r) /\ r.desc = d /\ r.kind = "send" /\ Fits(e) /\ e.desc = d /\ e.kind = "send"
    <3> DEFINE k == "send"
    <3>1. k \in Kind \ {"none"} /\ k # "accept" /\ k = "send"
      BY DEF Kind
    <3> HIDE DEF k
    <3>2. Fits(Started(k, d, Null)) /\ Started(k, d, Null).desc = d /\ Started(k, d, Null).kind = k
      BY <3>1, StartedFits
    <3>3. Fits(r) /\ r.desc = d /\ r.kind = "send"
      BY <3>1, <3>2
    <3> QED BY <3>3, ErrorFits
  <2>2. /\ Unused(s) /\ o \in Fresh /\ d \in NewDesc /\ handle' = [handle EXCEPT ![s] = d] /\ UNCHANGED loopVars
        /\ \/ /\ desc' = [desc EXCEPT ![d] = descriptor_create("dgram", 2)]
              /\ op' = [op EXCEPT ![o] = r] /\ ToKernel(o) /\ active' = active + 1
           \/ /\ desc' = [desc EXCEPT ![d] = descriptor_create("dgram", 1)]
              /\ op' = [op EXCEPT ![o] = e] /\ post(port, RunC(o), 1) /\ pending' = pending
    BY <1>3 DEF udp_write_open, MayStart, ToKernel
  <2> HIDE DEF r, e
  <2>3. CASE /\ desc' = [desc EXCEPT ![d] = descriptor_create("dgram", 2)]
             /\ op' = [op EXCEPT ![o] = r] /\ ToKernel(o) /\ active' = active + 1
    <3> DEFINE t == "dgram"
               n == 2
    <3>1. /\ t \in {"listen", "dgram", "connecting", "stream"} /\ n \in Int /\ r.kind # "accept" /\ n = 2
          /\ desc' = [desc EXCEPT ![d] = descriptor_create(t, n)]
      BY <2>1, <2>3
    <3> HIDE DEF t, n
    <3>2. Given(o, r, n)
      BY <2>3, <3>1 DEF Given
    <3> QED BY <2>1, <2>2, <2>3, <3>1, <3>2, StepMade
  <2>4. CASE /\ desc' = [desc EXCEPT ![d] = descriptor_create("dgram", 1)]
             /\ op' = [op EXCEPT ![o] = e] /\ post(port, RunC(o), 1) /\ pending' = pending
    <3>1. ToQueue(o) /\ active' = active + 1 + 1
      BY <2>4, PostIsToQueue
    <3>2. active' = active + 2
      BY <1>1, <3>1
    <3> DEFINE t == "dgram"
               n == 1
    <3>3. /\ t \in {"listen", "dgram", "connecting", "stream"} /\ n \in Int /\ e.kind # "accept" /\ n = 1
          /\ desc' = [desc EXCEPT ![d] = descriptor_create(t, n)]
      BY <2>1, <2>4
    <3> HIDE DEF t, n
    <3>4. Given(o, e, n)
      BY <3>1, <3>2, <3>3 DEF Given
    <3> QED BY <2>1, <2>2, <2>4, <3>3, <3>4, StepMade
  <2> QED BY <2>2, <2>3, <2>4
<1> QED BY <1>2, <1>3

-----------------------------------------------------------------------------
(* A descriptor is made, closed, or its operation is completed.            *)

\* A wake-up packet changes no count.
LEMMA WakeEffect ==
  ASSUME NEW p \in Seq(Pkt)
  PROVE  /\ Append(p, Wake) \in Seq(Pkt)
         /\ \A u \in Op : Packs(Append(p, Wake), u) = Packs(p, u)
         /\ \A f : \A d \in Desc : InPort(Append(p, Wake), f, d) = InPort(p, f, d)
<1>1. Append(p, Wake) \in Seq(Pkt)
  BY PortAdd, Wakes
<1>2. ASSUME NEW u \in Op PROVE Packs(Append(p, Wake), u) = Packs(p, u)
  <2>1. Packs(Append(p, Wake), u) = Packs(p, u) + One(Wake.op = u) /\ Packs(p, u) \in Nat
    BY PortAdd, PortNat, Wakes
  <2> QED BY <2>1, Wakes, PortAssumption DEF One
<1>3. ASSUME NEW f, NEW d \in Desc PROVE InPort(Append(p, Wake), f, d) = InPort(p, f, d)
  <2>1. /\ InPort(Append(p, Wake), f, d) = InPort(p, f, d) + One(Wake.op # Null /\ f[Wake.op].desc = d)
        /\ InPort(p, f, d) \in Nat
    BY PortAdd, PortNat, Wakes
  <2> QED BY <2>1, Wakes DEF One
<1> QED BY <1>1, <1>2, <1>3

\* Calls of an accept's socket object are not those of any other.
LEMMA HandleTargets ==
  ASSUME IInv, op' = op, NEW s \in Sock, NEW x \in Desc \cup {Null}, x = Null \/ Unused(s),
         handle' = [handle EXCEPT ![s] = x]
  PROVE  Targets'
<1>1. handle \in [Sock -> Desc \cup {Null}]
  BY DEF IInv, Types
<1>2. ASSUME NEW u \in Op, op[u].kind = "accept", op[u].calls # 1 PROVE handle'[op[u].to] = Null
  <2>1. op[u].to \in Sock /\ handle[op[u].to] = Null
    BY <1>2 DEF IInv, Targets
  <2>2. op[u].to = s => x = Null
    BY <1>2 DEF Unused
  <2> QED BY <1>1, <2>1, <2>2
<1> QED BY <1>2 DEF IInv, Targets, Waits

\* listen and the datagram bind.
LEMMA StepOpen ==
  ASSUME IInv, NEW d \in Desc, NEW s \in Sock, listen(d, s) \/ udp_bind(d, s)
  PROVE  IInv'
<1>1. PICK k \in {"accept", "recv"}, t \in {"listen", "dgram", "connecting", "stream"} : open(d, s, k, t)
  BY DEF listen, udp_bind
<1>2. /\ d \in NewDesc /\ Unused(s) /\ active' = active + 1 /\ UNCHANGED loopVars
      /\ op' = op /\ opq' = opq /\ ops' = ops /\ port' = port /\ pending' = pending /\ cur' = cur
  BY <1>1 DEF open, loopVars
<1>3. /\ active \in Int /\ desc \in [Desc -> DescType] /\ handle \in [Sock -> Desc \cup {Null}]
      /\ Existing(desc) \in Nat /\ Len(opq) \in Nat /\ Len(ops) \in Nat
      /\ active = Existing(desc) + Len(opq) + Len(ops)
  BY Numbers DEF IInv, Types, Engine
<1>4. d \in Desc /\ Total(d) = 0 /\ ~Connected(d) /\ desc[d].st = "new"
  BY <1>2, NewUnreached
<1>5. Shape' /\ Places'
  BY <1>2, ShapeKept DEF IInv, Places, Place
<1>6. \A e \in Desc : Connected(e)' <=> Connected(e)
  BY <1>2 DEF Connected
<1>7. ASSUME NEW e \in Desc
      PROVE  /\ Handles(handle', e) = Handles(handle, e) => Total(e)' = Total(e)
             /\ Handles(handle', e) = Handles(handle, e) + 1 => Total(e)' = Total(e) + 1
             /\ Total(e) \in Nat
  <2>1. Total(e)' = Handles(handle', e) + InKernel(pending, op, e) + InPort(port, op, e)
                      + Unbinds(opq, e) + Unbinds(ops, e) + Owed(cur, e)
    BY <1>2 DEF Total
  <2>2. /\ Handles(handle, e) \in Nat /\ InKernel(pending, op, e) \in Nat
        /\ InPort(port, op, e) \in Nat /\ Unbinds(opq, e) \in Nat
        /\ Unbinds(ops, e) \in Nat /\ Owed(cur, e) \in Nat
    BY Numbers DEF IInv
  <2> QED BY <2>1, <2>2 DEF Total
<1>8. ASSUME /\ handle' \in [Sock -> Desc \cup {Null}] /\ desc' \in [Desc -> DescType] /\ Targets'
             /\ \A e \in Desc : e # d => desc'[e] = desc[e] /\ Handles(handle', e) = Handles(handle, e)
             /\ \/ desc'[d].st = "live" /\ desc'[d].ref = 1 /\ Handles(handle', d) = Handles(handle, d) + 1
                \/ desc'[d].st = "leaked"
             /\ \A e \in Desc : desc'[e].fd => desc'[e].st = "live"
      PROVE  IInv'
  <2>1. Types'
    BY <1>2, <1>3, <1>8 DEF IInv, Types
  <2>2. Homes'
    <3>1. \A u \in Op : op[u].desc # Null => op[u].desc \in Desc
      BY DEF IInv, Types, OpType
    <3> QED BY <1>2, <1>8, <3>1 DEF IInv, Homes
  <2>3. RefCounts'
    <3>1. ASSUME NEW e \in Desc, ~Connected(e)'
          PROVE  /\ desc'[e].st = "live" => desc'[e].ref = Total(e)'
                 /\ desc'[e].st \in {"new", "freed"} => Total(e)' = 0
      <4>1. CASE e # d
        BY <1>6, <1>7, <1>8, <3>1, <4>1 DEF IInv, RefCounts
      <4>2. CASE e = d
        BY <1>4, <1>7, <1>8, <4>2
      <4> QED BY <4>1, <4>2
    <3> QED BY <3>1 DEF RefCounts
  <2>4. Engine'
    <3>1. Exists(desc'[d]) /\ ~Exists(desc[d])
      BY <1>4, <1>8 DEF Exists
    <3>2. Existing(desc') = Existing(desc) + 1
      BY <1>3, <1>8, <3>1, ExistingStep
    <3> QED BY <1>2, <1>3, <3>2 DEF Engine
  <2> QED BY <1>5, <1>8, <2>1, <2>2, <2>3, <2>4 DEF IInv
<1>9. CASE desc' = [desc EXCEPT ![d] = descriptor_create(t, 1)] /\ handle' = [handle EXCEPT ![s] = d]
  <2>1. Targets'
    BY <1>2, <1>9, HandleTargets
  <2> DEFINE n == 1
  <2>2. /\ n \in Int /\ desc' = [desc EXCEPT ![d] = descriptor_create(t, n)]
        /\ handle' = [handle EXCEPT ![s] = d] /\ d \in NewDesc /\ handle[s] = Null
        /\ t \in {"listen", "dgram", "connecting", "stream"}
    BY <1>1, <1>2, <1>9 DEF Unused
  <2> HIDE DEF n
  <2>3. /\ handle' \in [Sock -> Desc \cup {Null}] /\ desc' \in [Desc -> DescType]
        /\ desc'[d].st = "live" /\ desc'[d].fd /\ desc'[d].ref = n
        /\ \A e \in Desc : e # d => desc'[e] = desc[e] /\ Handles(handle', e) = Handles(handle, e)
        /\ Handles(handle', d) = Handles(handle, d) + 1
        /\ Existing(desc') = Existing(desc) + 1
        /\ \A e \in Desc : /\ desc'[e].st = "new" => desc[e].st = "new"
                           /\ desc'[e].fd => desc'[e].st = "live"
    BY <2>2, MadeEffect
  <2> QED BY <1>8, <2>1, <2>3 DEF n
<1>10. CASE desc' = [desc EXCEPT ![d] = bind_failed] /\ handle' = handle
  <2>1. Targets'
    BY <1>2, <1>10 DEF IInv, Targets, Waits
  <2>2. /\ desc' \in [Desc -> DescType] /\ desc'[d].st = "leaked" /\ ~desc'[d].fd
        /\ \A e \in Desc : e # d => desc'[e] = desc[e]
    BY <1>3, <1>4, <1>10, BindFailed
  <2>3. \A e \in Desc : desc'[e].fd => desc'[e].st = "live"
    BY <2>2 DEF IInv, Homes
  <2> QED BY <1>3, <1>8, <1>10, <2>1, <2>2, <2>3
<1> QED BY <1>1, <1>9, <1>10 DEF open

\* A socket object gives its reference to the closure that closes.
LEMMA StepUnbind ==
  ASSUME IInv, NEW s \in Sock, unbind(s)
  PROVE  IInv'
<1> DEFINE x == handle[s]
<1>1. /\ x \in Desc /\ handle' = [handle EXCEPT ![s] = Null] /\ UNCHANGED loopVars
      /\ opq' = Append(opq, UnbindC(x)) /\ port' = Append(port, Wake) /\ active' = active + 0 + 1
      /\ pending' = pending /\ desc' = desc /\ op' = op /\ ops' = ops /\ cur' = cur
  BY DEF unbind, post, loopVars, IInv, Types
<1>2. /\ active \in Int /\ handle \in [Sock -> Desc \cup {Null}] /\ opq \in Seq(Closure) /\ port \in Seq(Pkt)
  BY DEF IInv, Types
<1>3. UnbindC(x) \in Closure /\ \A o \in Op : UnbindC(x) # RunC(o)
  BY <1>1, Closures
<1>4. /\ opq' \in Seq(Closure) /\ Len(opq') = Len(opq) + 1 /\ port' \in Seq(Pkt)
  BY <1>1, <1>2, <1>3, QueueAdd, WakeEffect
<1>5. handle' \in [Sock -> Desc \cup {Null}]
  BY <1>1, <1>2
<1>6. Types'
  BY <1>1, <1>2, <1>4, <1>5 DEF IInv, Types
<1>7. Shape'
  BY <1>1, ShapeKept
<1>8. \A u \in Op : Packs(port', u) = Packs(port, u)
  BY <1>1, <1>2, WakeEffect
<1>9. Places'
  <2>1. ASSUME NEW u \in Op PROVE Runs(opq', u) = Runs(opq, u)
    <3>1. Runs(opq', u) = Runs(opq, u) + One(UnbindC(x) = RunC(u)) /\ Runs(opq, u) \in Nat
      BY <1>1, <1>2, <1>3, QueueAdd, QueueNat
    <3> QED BY <1>3, <3>1 DEF One
  <2> QED BY <1>1, <1>8, <2>1 DEF IInv, Places, Place
<1>10. Homes'
  BY <1>1, <1>8 DEF IInv, Homes
<1>11. Targets'
  BY <1>1, HandleTargets
<1>12. RefCounts'
  <2>1. ASSUME NEW d \in Desc PROVE Total(d)' = Total(d)
    <3>1. Handles(handle, d) \in Nat /\ Unbinds(opq, d) \in Nat
      BY Numbers DEF IInv
    <3>2. InPort(port', op, d) = InPort(port, op, d)
      BY <1>1, <1>2, WakeEffect
    <3>3. /\ x = d => Handles(handle, d) = Handles(handle', d) + 1
          /\ x # d => Handles(handle', d) = Handles(handle, d)
      <4> DEFINE h == handle
                 g == handle'
      <4>1. /\ h \in [Sock -> Desc \cup {Null}] /\ g \in [Sock -> Desc \cup {Null}] /\ g[s] = Null
            /\ \A u \in Sock : u # s => g[u] = h[u]
        BY <1>1, <1>2, <1>5
      <4> HIDE DEF h, g
      <4>2. /\ (h[s] = d <=> g[s] = d) => Handles(g, d) = Handles(h, d)
            /\ h[s] = d /\ g[s] # d => Handles(h, d) = Handles(g, d) + 1
        BY <4>1, HandleStep
      <4>3. g[s] # d
        BY <4>1, PortAssumption
      <4> QED BY <4>2, <4>3 DEF h, g
    <3>4. /\ x = d => Unbinds(opq', d) = Unbinds(opq, d) + 1
          /\ x # d => Unbinds(opq', d) = Unbinds(opq, d)
      <4>1. Unbinds(opq', d) = Unbinds(opq, d) + One(UnbindC(x) = UnbindC(d))
        BY <1>1, <1>2, <1>3, QueueAdd
      <4>2. UnbindC(x) = UnbindC(d) <=> x = d
        BY <1>1, Closures
      <4> QED BY <3>1, <4>1, <4>2 DEF One
    <3>5. Handles(handle', d) \in Nat
      BY <1>5, HandleCount
    <3>6. /\ InKernel(pending, op, d) \in Nat /\ InPort(port, op, d) \in Nat
          /\ Unbinds(ops, d) \in Nat /\ Owed(cur, d) \in Nat
      BY Numbers DEF IInv
    <3>7. Total(d)' = Handles(handle', d) + InKernel(pending, op, d) + InPort(port', op, d)
                        + Unbinds(opq', d) + Unbinds(ops, d) + Owed(cur, d)
      BY <1>1 DEF Total
    <3> QED BY <3>1, <3>2, <3>3, <3>4, <3>5, <3>6, <3>7 DEF Total
  <2> QED BY <1>1, <2>1 DEF IInv, RefCounts, Connected
<1>13. Engine'
  <2>1. /\ Existing(desc) \in Nat /\ Len(opq) \in Nat /\ Len(ops) \in Nat
        /\ active = Existing(desc) + Len(opq) + Len(ops)
    BY Numbers DEF IInv, Engine
  <2> QED BY <1>1, <1>4, <2>1 DEF Engine
<1> QED BY <1>6, <1>7, <1>9, <1>10, <1>11, <1>12, <1>13 DEF IInv

\* A packet of the kernel for an operation.
LEMMA Packets ==
  ASSUME NEW o \in Op, NEW n \in Nat, NEW e \in {"none", "error"}
  PROVE  Packet(o, n, e) \in Pkt /\ Packet(o, n, e).op = o
BY DEF Packet, Pkt

\* The kernel gives an operation back through the port.
LEMMA StepComplete ==
  ASSUME IInv, NEW o \in Op, complete(o)
  PROVE  IInv'
<1>1. /\ o \in pending /\ pending' = pending \ {o} /\ opq' = opq /\ active' = active /\ UNCHANGED loopVars
      /\ ops' = ops /\ cur' = cur /\ handle' = handle /\ op' = op
  BY DEF complete, loopVars
<1>2. /\ opq \in Seq(Closure) /\ port \in Seq(Pkt) /\ pending \in SUBSET Op /\ op \in [Op -> OpType]
      /\ desc \in [Desc -> DescType] /\ op[o].left \in Int
  BY DEF IInv, Types, OpType
<1>3. op[o].desc \in Desc
  BY <1>1 DEF IInv, Types, OpType, Homes
<1>4. PICK x \in Pkt : x.op = o /\ port' = Append(port, x)
  <2>1. CASE \E n \in 0..op[o].left : port' = Append(port, Packet(o, n, "none"))
    <3>1. PICK n \in 0..op[o].left : port' = Append(port, Packet(o, n, "none"))
      BY <2>1
    <3>2. n \in Nat
      BY <1>2, <3>1
    <3> QED BY <3>1, <3>2, Packets
  <2>2. CASE port' = Append(port, Packet(o, 0, "error"))
    BY <2>2, Packets
  <2> QED BY <2>1, <2>2 DEF complete
<1>5. /\ desc' \in [Desc -> DescType]
      /\ \A d \in Desc : desc'[d].st = desc[d].st /\ desc'[d].fd = desc[d].fd /\ desc'[d].ref = desc[d].ref
  <2>1. CASE desc' = [desc EXCEPT ![op[o].desc].type = IF @ = "connecting" THEN "stream" ELSE @]
    BY <1>2, <1>3, <2>1 DEF DescType
  <2>2. CASE desc' = desc
    BY <1>2, <2>2
  <2> QED BY <2>1, <2>2 DEF complete
<1>6. port' \in Seq(Pkt) /\ pending' \in SUBSET Op
  BY <1>1, <1>2, <1>4, PortAdd
<1>7. Types'
  BY <1>1, <1>2, <1>5, <1>6 DEF IInv, Types
<1>8. Shape'
  BY <1>1, ShapeKept
<1>9. ASSUME NEW u \in Op
      PROVE  /\ u # o => Packs(port', u) = Packs(port, u)
             /\ u = o => Packs(port', u) = Packs(port, u) + 1
             /\ Packs(port, u) \in Nat
  <2>1. Packs(port', u) = Packs(port, u) + One(x.op = u) /\ Packs(port, u) \in Nat
    BY <1>2, <1>4, PortAdd, PortNat
  <2> QED BY <1>4, <2>1 DEF One
<1>10. Places'
  <2>1. ASSUME NEW u \in Op PROVE Place(u)' = Place(u)
    <3>1. Place(u)' = op[u].calls + One(u \in pending') + Packs(port', u) + Runs(opq, u) + Runs(ops, u)
      BY <1>1 DEF Place
    <3>2. op[u].calls \in Nat /\ Runs(opq, u) \in Nat /\ Runs(ops, u) \in Nat
      BY Numbers DEF IInv
    <3>3. /\ u # o => One(u \in pending') = One(u \in pending)
          /\ u = o => One(u \in pending') = 0 /\ One(u \in pending) = 1
          /\ One(u \in pending) \in Nat
      BY <1>1 DEF One
    <3> QED BY <1>9, <3>1, <3>2, <3>3 DEF Place
  <2> QED BY <1>1, <2>1 DEF IInv, Places
<1>11. Homes'
  <2>1. ASSUME NEW u \in Op, op[u].desc = Null PROVE u \notin pending' /\ Packs(port', u) = 0
    BY <1>1, <1>9, <2>1 DEF IInv, Homes
  <2>2. \A u \in Op : op[u].desc # Null => op[u].desc \in Desc
    BY <1>2 DEF OpType
  <2> QED BY <1>1, <1>5, <2>1, <2>2 DEF IInv, Homes
<1>12. Targets'
  BY <1>1 DEF IInv, Targets, Waits
<1>13. RefCounts'
  <2>1. ASSUME NEW d \in Desc PROVE Total(d)' = Total(d)
    <3>1. /\ op[o].desc = d => InKernel(pending, op, d) = InKernel(pending', op, d) + 1
          /\ op[o].desc # d => InKernel(pending, op, d) = InKernel(pending', op, d)
      <4> DEFINE P == pending'
                 Q == pending
                 f == op
      <4>1. P \in SUBSET Op /\ o \in Op /\ o \notin P /\ Q = P \cup {o}
        BY <1>1, <1>2
      <4> HIDE DEF P, Q, f
      <4>2. /\ f[o].desc = d => InKernel(Q, f, d) = InKernel(P, f, d) + 1
            /\ f[o].desc # d => InKernel(Q, f, d) = InKernel(P, f, d)
        BY <4>1, KernelStep
      <4> QED BY <4>2 DEF P, Q, f
    <3>2. /\ op[o].desc = d => InPort(port', op, d) = InPort(port, op, d) + 1
          /\ op[o].desc # d => InPort(port', op, d) = InPort(port, op, d)
      <4>1. /\ InPort(port', op, d) = InPort(port, op, d) + One(x.op # Null /\ op[x.op].desc = d)
            /\ InPort(port, op, d) \in Nat
        BY <1>2, <1>4, PortAdd, PortNat
      <4> QED BY <1>4, <4>1, PortAssumption DEF One
    <3>3. InKernel(pending', op, d) \in Nat
      BY <1>6, KernelCount
    <3>4. /\ Handles(handle, d) \in Nat /\ InKernel(pending, op, d) \in Nat
          /\ InPort(port, op, d) \in Nat /\ Unbinds(opq, d) \in Nat
          /\ Unbinds(ops, d) \in Nat /\ Owed(cur, d) \in Nat
      BY Numbers DEF IInv
    <3>5. Total(d)' = Handles(handle, d) + InKernel(pending', op, d) + InPort(port', op, d)
                        + Unbinds(opq, d) + Unbinds(ops, d) + Owed(cur, d)
      BY <1>1 DEF Total
    <3> QED BY <3>1, <3>2, <3>3, <3>4, <3>5 DEF Total
  <2> QED BY <1>1, <1>5, <2>1 DEF IInv, RefCounts, Connected
<1>14. Engine'
  <2>1. Existing(desc') = Existing(desc)
    BY <1>5 DEF Existing
  <2> QED BY <1>1, <2>1 DEF IInv, Engine
<1> QED BY <1>7, <1>8, <1>10, <1>11, <1>12, <1>13, <1>14 DEF IInv

-----------------------------------------------------------------------------
(* The loop.                                                               *)

\* Nor does taking one.
LEMMA WakeTaken ==
  ASSUME NEW p \in Seq(Pkt), p # <<>>, Head(p) = Wake, NEW t, t = Tail(p)
  PROVE  /\ t \in Seq(Pkt) /\ (\A u \in Op : Packs(t, u) = Packs(p, u))
         /\ \A f : \A d \in Desc : InPort(t, f, d) = InPort(p, f, d)
<1> DEFINE x == Head(p)
<1>1. /\ t \in Seq(Pkt)
      /\ \A o \in Op : Packs(p, o) = Packs(t, o) + One(x.op = o)
      /\ \A f : \A d \in Desc : InPort(p, f, d) = InPort(t, f, d) + One(x.op # Null /\ f[x.op].desc = d)
  BY PortTake
<1>2. x.op = Null
  BY Wakes
<1> HIDE DEF x
<1>3. ASSUME NEW u \in Op PROVE Packs(t, u) = Packs(p, u)
  <2>1. Packs(p, u) = Packs(t, u) + One(x.op = u) /\ Packs(t, u) \in Nat
    BY <1>1, PortNat
  <2> QED BY <1>2, <2>1, PortAssumption DEF One
<1>4. ASSUME NEW f, NEW d \in Desc PROVE InPort(t, f, d) = InPort(p, f, d)
  <2>1. InPort(p, f, d) = InPort(t, f, d) + One(x.op # Null /\ f[x.op].desc = d) /\ InPort(t, f, d) \in Nat
    BY <1>1, PortNat
  <2> QED BY <1>2, <2>1 DEF One
<1> QED BY <1>1, <1>3, <1>4

\* run() takes a wake-up and with it the queue, and ends the batch.
LEMMA StepBatch ==
  ASSUME IInv, run_wake \/ run_drained
  PROVE  IInv'
<1>1. /\ pending' = pending /\ handle' = handle /\ desc' = desc /\ op' = op /\ active' = active /\ cur' = cur
  BY DEF run_wake, run_drained, queueVars
<1>2. opq \in Seq(Closure) /\ ops \in Seq(Closure) /\ port \in Seq(Pkt) /\ <<>> \in Seq(Closure)
  BY DEF IInv, Types
<1>3. \/ opq' = opq /\ ops' = ops /\ port' = port /\ lpc = "drain" /\ lpc' = "wait" /\ ops = <<>>
      \/ /\ ops = <<>> /\ ops' = opq /\ opq' = <<>> /\ port # <<>> /\ Head(port) = Wake /\ port' = Tail(port)
         /\ lpc' = "drain" /\ lpc = "wait"
  BY DEF run_wake, run_drained, queueVars, IInv, Shape
<1>4. Shape'
  BY <1>1, <1>3 DEF IInv, Shape
<1>5. /\ port' \in Seq(Pkt) /\ (\A u \in Op : Packs(port', u) = Packs(port, u))
      /\ \A d \in Desc : InPort(port', op, d) = InPort(port, op, d)
  <2>1. CASE port' = port
    BY <1>2, <2>1
  <2>2. CASE port # <<>> /\ Head(port) = Wake /\ port' = Tail(port)
    <3> DEFINE p == port
               t == port'
    <3>1. p \in Seq(Pkt) /\ p # <<>> /\ Head(p) = Wake /\ t = Tail(p)
      BY <1>2, <2>2
    <3> HIDE DEF p, t
    <3>2. /\ t \in Seq(Pkt) /\ (\A u \in Op : Packs(t, u) = Packs(p, u))
          /\ \A f : \A d \in Desc : InPort(t, f, d) = InPort(p, f, d)
      BY <3>1, WakeTaken
    <3>3. \A d \in Desc : InPort(t, op, d) = InPort(p, op, d)
      BY <3>2
    <3> QED BY <3>2, <3>3 DEF p, t
  <2> QED BY <1>3, <2>1, <2>2
<1>6. Types'
  BY <1>1, <1>2, <1>3, <1>5 DEF IInv, Types
<1>7. /\ \A u \in Op : Runs(opq', u) + Runs(ops', u) = Runs(opq, u) + Runs(ops, u)
      /\ \A d \in Desc : Unbinds(opq', d) + Unbinds(ops', d) = Unbinds(opq, d) + Unbinds(ops, d)
      /\ Len(opq') + Len(ops') = Len(opq) + Len(ops)
  <2>1. /\ \A u \in Op : Runs(<<>>, u) = 0 /\ Runs(opq, u) \in Nat
        /\ \A d \in Desc : Unbinds(<<>>, d) = 0 /\ Unbinds(opq, d) \in Nat
        /\ Len(opq) \in Nat /\ Len(<<>>) = 0
    BY <1>2, QueueNat
  <2> QED BY <1>3, <2>1
<1>8. Places'
  <2>1. ASSUME NEW u \in Op PROVE Place(u)' = Place(u)
    <3>1. Place(u)' = op[u].calls + One(u \in pending) + Packs(port, u) + Runs(opq', u) + Runs(ops', u)
      BY <1>1, <1>5 DEF Place
    <3>2. op[u].calls \in Nat /\ Packs(port, u) \in Nat /\ Runs(opq, u) \in Nat /\ Runs(ops, u) \in Nat /\ One(u \in pending) \in Nat
      BY Numbers DEF IInv, One
    <3>3. Runs(opq', u) \in Nat /\ Runs(ops', u) \in Nat
      BY <1>6, QueueNat DEF Types
    <3>4. Runs(opq', u) + Runs(ops', u) = Runs(opq, u) + Runs(ops, u)
      BY <1>7
    <3>5. Place(u) = op[u].calls + One(u \in pending) + Packs(port, u) + Runs(opq, u) + Runs(ops, u)
      BY DEF Place
    <3> QED BY <3>1, <3>2, <3>3, <3>4, <3>5
  <2> QED BY <1>1, <2>1 DEF IInv, Places
<1>9. Homes' /\ Targets'
  BY <1>1, <1>5 DEF IInv, Homes, Targets, Waits
<1>10. RefCounts'
  <2>1. ASSUME NEW d \in Desc PROVE Total(d)' = Total(d)
    <3>1. Total(d)' = Handles(handle, d) + InKernel(pending, op, d) + InPort(port, op, d)
                        + Unbinds(opq', d) + Unbinds(ops', d) + Owed(cur, d)
      BY <1>1, <1>5 DEF Total
    <3>2. /\ Handles(handle, d) \in Nat /\ InKernel(pending, op, d) \in Nat
          /\ InPort(port, op, d) \in Nat /\ Unbinds(opq, d) \in Nat
          /\ Unbinds(ops, d) \in Nat /\ Owed(cur, d) \in Nat
      BY Numbers DEF IInv
    <3>3. Unbinds(opq', d) \in Nat /\ Unbinds(ops', d) \in Nat
      BY <1>6, QueueNat DEF Types
    <3> QED BY <1>7, <3>1, <3>2, <3>3, SMTT(20) DEF Total
  <2> QED BY <1>1, <2>1 DEF IInv, RefCounts, Connected
<1>11. Engine'
  <2>1. /\ Existing(desc) \in Nat /\ Len(opq) \in Nat /\ Len(ops) \in Nat
    BY Numbers DEF IInv
  <2>2. Len(opq') \in Nat /\ Len(ops') \in Nat
    BY <1>6, QueueNat DEF Types
  <2> QED BY <1>1, <1>7, <2>1, <2>2 DEF IInv, Engine
<1> QED BY <1>4, <1>6, <1>8, <1>9, <1>10, <1>11 DEF IInv

\* The packet in front of the port is taken: its operation is in one place
\* less, its descriptor has one reference in the port less.
LEMMA PacketTaken ==
  ASSUME IInv, port # <<>>, Head(port).op # Null, NEW o, o = Head(port).op, NEW t, t = Tail(port)
  PROVE  /\ t \in Seq(Pkt)
         /\ \A u \in Op : u # o => Packs(t, u) = Packs(port, u)
         /\ Packs(port, o) = 1 /\ Packs(t, o) = 0
         /\ \A d \in Desc : /\ op[o].desc = d => InPort(port, op, d) = InPort(t, op, d) + 1
                            /\ op[o].desc # d => InPort(port, op, d) = InPort(t, op, d)
                            /\ InPort(t, op, d) \in Nat
         /\ \A k \in DOMAIN t : t[k].op # Null => t[k].op \in Op /\ op[t[k].op].kind # "none"
<1>1. port \in Seq(Pkt)
  BY DEF IInv, Types
<1>2. o \in Op /\ Packs(port, o) = 1
  BY InFront
<1>3. /\ t \in Seq(Pkt)
      /\ \A u \in Op : Packs(port, u) = Packs(t, u) + One(o = u)
      /\ \A f : \A d \in Desc : InPort(port, f, d) = InPort(t, f, d) + One(o # Null /\ f[o].desc = d)
  BY <1>1, PortTake
<1>4. ASSUME NEW u \in Op PROVE /\ u # o => Packs(t, u) = Packs(port, u)
                                /\ u = o => Packs(port, u) = Packs(t, u) + 1
                                /\ Packs(t, u) \in Nat
  <2>1. Packs(port, u) = Packs(t, u) + One(o = u) /\ Packs(t, u) \in Nat
    BY <1>3, PortNat
  <2> QED BY <2>1 DEF One
<1>5. Packs(t, o) = 0
  BY <1>2, <1>4
<1>6. ASSUME NEW d \in Desc
      PROVE  /\ op[o].desc = d => InPort(port, op, d) = InPort(t, op, d) + 1
             /\ op[o].desc # d => InPort(port, op, d) = InPort(t, op, d)
             /\ InPort(t, op, d) \in Nat
  <2>1. /\ InPort(port, op, d) = InPort(t, op, d) + One(o # Null /\ op[o].desc = d) /\ InPort(t, op, d) \in Nat
    BY <1>3, PortNat
  <2> QED BY <2>1 DEF One
<1>7. ASSUME NEW k \in DOMAIN t, t[k].op # Null PROVE t[k].op \in Op /\ op[t[k].op].kind # "none"
  <2> DEFINE u == t[k].op
  <2>1. t[k] \in Pkt
    BY <1>3
  <2>2. u \in Op
    BY <1>7, <2>1 DEF Pkt
  <2>3. Packs(t, u) # 0
    BY <1>3, <2>2, PortNat
  <2>4. Packs(port, u) > 0
    BY <1>4, <1>5, <2>2, <2>3
  <2> QED BY <2>2, <2>4, Somewhere DEF IInv
<1> QED BY <1>2, <1>3, <1>4, <1>5, <1>6, <1>7

\* The handler of an operation is called.
LEMMA CallUpdate ==
  ASSUME NEW x \in OpType, NEW e \in ErrSet
  PROVE  LET z == [x EXCEPT !.err = e, !.calls = @ + 1] IN
         /\ z \in OpType /\ z.kind = x.kind /\ z.desc = x.desc /\ z.to = x.to /\ z.calls = x.calls + 1
<1> DEFINE n == x.calls + 1
           w == [x EXCEPT !.err = e]
           z == [w EXCEPT !.calls = n]
<1>1. w \in OpType /\ w.kind = x.kind /\ w.desc = x.desc /\ w.to = x.to /\ w.calls = x.calls
  BY DEF OpType
<1>2. n \in Nat
  BY DEF OpType
<1>3. [x EXCEPT !.err = e, !.calls = @ + 1] = z
  BY DEF OpType
<1> HIDE DEF w, n
<1>4. z \in OpType /\ z.kind = w.kind /\ z.desc = w.desc /\ z.to = w.to /\ z.calls = n
  BY <1>1, <1>2 DEF OpType
<1> QED BY <1>1, <1>3, <1>4 DEF n

\* The handler is called, and run() owes the release the packet was for.
LEMMA HandledEffect ==
  ASSUME IInv, lpc = "wait", port # <<>>, Head(port).op # Null, NEW e \in ErrSet, handled(e), NEW o, o = Head(port).op,
         handle' \in [Sock -> Desc \cup {Null}]
  PROVE  /\ Kept /\ Places' /\ Shape' /\ port' \in Seq(Pkt) /\ opq' = opq /\ ops' = ops /\ pending' = pending
         /\ o \in Op /\ op[o].calls = 0 /\ op'[o].calls = 1
         /\ \A u \in Op : u # o => op'[u] = op[u]
         /\ \A u \in Op : op'[u].desc = op[u].desc /\ op'[u].kind = op[u].kind /\ op'[u].to = op[u].to
         /\ \A u \in Op : op[u].desc = Null => u \notin pending' /\ Packs(port', u) = 0
         /\ \A d \in Desc : /\ Total(d) \in Nat
                            /\ Total(d)' = Total(d) + Handles(handle', d) - Handles(handle, d)
<1>1. /\ op' = [op EXCEPT ![o].err = e, ![o].calls = @ + 1] /\ lpc' = "release" /\ cur' = op[o].desc
      /\ port' = Tail(port) /\ opq' = opq /\ ops' = ops /\ pending' = pending
  BY DEF handled
<1>2. /\ o \in Op /\ op[o] \in OpType /\ op[o].kind # "none" /\ op[o].calls = 0 /\ op[o].desc \in Desc
      /\ o \notin pending /\ Packs(port, o) = 1 /\ Runs(opq, o) = 0 /\ Runs(ops, o) = 0
  BY InFront
<1>3. /\ port' \in Seq(Pkt)
      /\ \A u \in Op : u # o => Packs(port', u) = Packs(port, u)
      /\ Packs(port', o) = 0
      /\ \A d \in Desc : /\ op[o].desc = d => InPort(port, op, d) = InPort(port', op, d) + 1
                         /\ op[o].desc # d => InPort(port, op, d) = InPort(port', op, d)
                         /\ InPort(port', op, d) \in Nat
      /\ \A k \in DOMAIN port' : port'[k].op # Null => port'[k].op \in Op /\ op[port'[k].op].kind # "none"
  BY <1>1, PacketTaken
<1>4. op \in [Op -> OpType]
  BY DEF IInv, Types
<1> DEFINE y == [op[o] EXCEPT !.err = e, !.calls = @ + 1]
<1>41. y \in OpType /\ y.kind = op[o].kind /\ y.desc = op[o].desc /\ y.to = op[o].to /\ y.calls = op[o].calls + 1
  BY <1>2, CallUpdate
<1>42. op' = [op EXCEPT ![o] = y]
  BY <1>1, <1>2, <1>4
<1> HIDE DEF y
<1>5. /\ \A u \in Op : u # o => op'[u] = op[u]
      /\ op'[o].desc = op[o].desc /\ op'[o].kind = op[o].kind /\ op'[o].to = op[o].to
      /\ op'[o].calls = 1
  BY <1>2, <1>4, <1>41, <1>42
<1>6. op' \in [Op -> OpType]
  BY <1>2, <1>4, <1>41, <1>42
<1>7. Kept /\ \A u \in Op : op'[u].desc = op[u].desc /\ op'[u].kind = op[u].kind /\ op'[u].to = op[u].to
  BY <1>5, <1>6 DEF Kept
<1>8. Places'
  <2>1. ASSUME NEW u \in Op PROVE Place(u)' = One(op'[u].kind # "none")
    <3>1. Place(u)' = op'[u].calls + One(u \in pending) + Packs(port', u) + Runs(opq, u) + Runs(ops, u)
      BY <1>1 DEF Place
    <3>2. CASE u = o
      <4>1. op'[u].calls = 1 /\ One(u \in pending) = 0 /\ Packs(port', u) = 0 /\ Runs(opq, u) = 0 /\ Runs(ops, u) = 0
        BY <1>2, <1>3, <1>5, <3>2 DEF One
      <4>2. One(op'[u].kind # "none") = 1
        BY <1>2, <1>5, <3>2 DEF One
      <4> QED BY <3>1, <4>1, <4>2
    <3>3. CASE u # o
      <4>1. Place(u)' = Place(u) /\ op'[u].kind = op[u].kind
        BY <1>3, <1>5, <3>1, <3>3 DEF Place
      <4> QED BY <4>1 DEF IInv, Places
    <3> QED BY <3>2, <3>3
  <2> QED BY <2>1 DEF Places
<1>9. Shape' /\ cur = Null
  BY <1>1, <1>2, PortAssumption DEF IInv, Shape
<1>10. ASSUME NEW u \in Op, op[u].desc = Null PROVE u \notin pending' /\ Packs(port', u) = 0
  BY <1>1, <1>2, <1>3, <1>10, PortAssumption DEF IInv, Homes
<1>11. ASSUME NEW d \in Desc
       PROVE  Total(d) \in Nat /\ Total(d)' = Total(d) + Handles(handle', d) - Handles(handle, d)
  <2>1. InPort(port', op', d) = InPort(port', op, d)
    <3>1. \A k \in DOMAIN port' : port'[k].op # Null => op'[port'[k].op].desc = op[port'[k].op].desc
      BY <1>3, <1>7
    <3> DEFINE p == port'
               f == op'
               g == op
    <3>2. p \in Seq(Pkt) /\ \A k \in DOMAIN p : p[k].op # Null => f[p[k].op].desc = g[p[k].op].desc
      BY <1>3, <3>1
    <3> HIDE DEF p, f, g
    <3>3. InPort(p, f, d) = InPort(p, g, d)
      BY <3>2, PortFrame
    <3> QED BY <3>3 DEF p, f, g
  <2>2. InKernel(pending, op', d) = InKernel(pending, op, d)
    BY <1>7, KeptCounts DEF IInv
  <2>3. /\ op[o].desc = d => Owed(cur', d) = 1
        /\ op[o].desc # d => Owed(cur', d) = 0
        /\ Owed(cur, d) = 0
    BY <1>1, <1>9, PortAssumption DEF Owed, One
  <2>4. InPort(port', op, d) + Owed(cur', d) = InPort(port, op, d) + Owed(cur, d)
    BY <1>3, <2>3
  <2>5. /\ Handles(handle, d) \in Nat /\ InKernel(pending, op, d) \in Nat
        /\ InPort(port, op, d) \in Nat /\ Unbinds(opq, d) \in Nat
        /\ Unbinds(ops, d) \in Nat /\ Owed(cur, d) \in Nat
    BY Numbers DEF IInv
  <2>6. Total(d)' = Handles(handle', d) + InKernel(pending, op, d) + InPort(port', op, d)
                      + Unbinds(opq, d) + Unbinds(ops, d) + Owed(cur', d)
    BY <1>1, <2>1, <2>2 DEF Total
  <2>7. Handles(handle', d) \in Nat /\ InPort(port', op, d) \in Nat /\ Owed(cur', d) \in Nat
    BY <1>3, <2>3, HandleCount
  <2>8. Total(d) = Handles(handle, d) + InKernel(pending, op, d) + InPort(port, op, d)
                     + Unbinds(opq, d) + Unbinds(ops, d) + Owed(cur, d)
    BY DEF Total
  <2>9. Total(d) \in Nat
    BY <2>5, <2>8
  <2> DEFINE h == Handles(handle, d)
             g == Handles(handle', d)
             k == InKernel(pending, op, d)
             b == Unbinds(opq, d) + Unbinds(ops, d)
             i == InPort(port, op, d)
             j == InPort(port', op, d)
             v == Owed(cur, d)
             w == Owed(cur', d)
  <2>10. /\ h \in Nat /\ g \in Nat /\ k \in Nat /\ b \in Nat /\ i \in Nat /\ j \in Nat /\ v \in Nat /\ w \in Nat
    BY <2>5, <2>7
  <2>11. Total(d) = h + k + i + b + v
    BY <2>5, <2>8
  <2>12. Total(d)' = g + k + j + b + w
    BY <2>5, <2>6, <2>7
  <2> HIDE DEF h, g, k, b, i, j, v, w
  <2>13. j + w = i + v
    BY <2>4 DEF i, j, v, w
  <2>14. Total(d)' = Total(d) + g - h
    BY <2>10, <2>11, <2>12, <2>13
  <2> QED BY <2>9, <2>14 DEF g, h
<1> QED BY <1>1, <1>2, <1>3, <1>5, <1>7, <1>8, <1>9, <1>10, <1>11

\* What a step of run() that calls a handler does to a descriptor: nothing,
\* or it makes it, for a socket object or in vain.
Untouched(x) == desc'[x] = desc[x] /\ Handles(handle', x) = Handles(handle, x)
Gained(x) ==
  /\ desc[x].st = "new" /\ desc'[x].st = "live" /\ desc'[x].ref = 1
  /\ Handles(handle', x) = Handles(handle, x) + 1

\* run() calls the handler of the operation in front of the port.
LEMMA HandledStep ==
  ASSUME IInv, lpc = "wait", port # <<>>, Head(port).op # Null, NEW e \in ErrSet, handled(e), NEW o, o = Head(port).op,
         handle' \in [Sock -> Desc \cup {Null}], desc' \in [Desc -> DescType],
         \A u \in Op : u # o /\ Waits(u) => handle'[op[u].to] = Null,
         \A x \in Desc : /\ desc'[x].st = "new" => desc[x].st = "new"
                         /\ desc'[x].fd => desc'[x].st = "live"
                         /\ Untouched(x) \/ Gained(x) \/ desc'[x].st = "leaked",
         active' \in Int, active' = active + Existing(desc') - Existing(desc)
  PROVE  IInv'
<1>1. /\ Kept /\ Places' /\ Shape' /\ port' \in Seq(Pkt) /\ opq' = opq /\ ops' = ops /\ pending' = pending
      /\ o \in Op /\ op[o].calls = 0 /\ op'[o].calls = 1
      /\ \A u \in Op : u # o => op'[u] = op[u]
      /\ \A u \in Op : op'[u].desc = op[u].desc /\ op'[u].kind = op[u].kind /\ op'[u].to = op[u].to
      /\ \A u \in Op : op[u].desc = Null => u \notin pending' /\ Packs(port', u) = 0
      /\ \A d \in Desc : /\ Total(d) \in Nat
                         /\ Total(d)' = Total(d) + Handles(handle', d) - Handles(handle, d)
  BY HandledEffect
<1>2. Types'
  BY <1>1 DEF IInv, Types, Kept
<1>3. Homes'
  <2>1. \A u \in Op : op[u].desc # Null => op[u].desc \in Desc
    BY DEF IInv, Types, OpType
  <2> QED BY <1>1, <2>1 DEF IInv, Homes
<1>4. Targets'
  <2>1. ASSUME NEW u \in Op, Waits(u)' PROVE u # o /\ Waits(u)
    BY <1>1, <2>1 DEF Waits
  <2>2. ASSUME NEW u \in Op, op'[u].kind = "accept" PROVE op'[u].to \in Sock
    BY <1>1, <2>2 DEF IInv, Targets
  <2>3. ASSUME NEW u \in Op, op'[u].kind = "accept", op'[u].calls # 1
        PROVE  /\ handle'[op'[u].to] = Null
               /\ \A w \in Op : Waits(w)' /\ op'[w].to = op'[u].to => w = u
    <3>1. u # o /\ Waits(u)
      BY <2>1, <2>3 DEF Waits
    <3>2. handle'[op'[u].to] = Null
      BY <1>1, <3>1
    <3>3. ASSUME NEW w \in Op, Waits(w)', op'[w].to = op'[u].to PROVE w = u
      <4>1. Waits(w) /\ op[w].to = op[u].to
        BY <1>1, <2>1, <3>3
      <4> QED BY <3>1, <4>1 DEF IInv, Targets, Waits
    <3> QED BY <3>2, <3>3
  <2> QED BY <2>2, <2>3 DEF Targets
<1>5. RefCounts'
  <2>1. ASSUME NEW x \in Desc, ~Connected(x)'
        PROVE  /\ desc'[x].st = "live" => desc'[x].ref = Total(x)'
               /\ desc'[x].st \in {"new", "freed"} => Total(x)' = 0
    <3>1. ~Connected(x)
      BY <1>1, <2>1, KeptConnected
    <3>2. /\ desc[x].st = "live" => desc[x].ref = Total(x)
          /\ desc[x].st \in {"new", "freed"} => Total(x) = 0
      BY <3>1 DEF IInv, RefCounts
    <3>3. Total(x) \in Nat /\ Total(x)' = Total(x) + Handles(handle', x) - Handles(handle, x) /\ Handles(handle, x) \in Nat
      BY <1>1, Numbers DEF IInv
    <3>4. CASE Untouched(x)
      <4>1. Total(x)' = Total(x) /\ desc'[x] = desc[x]
        BY <3>3, <3>4 DEF Untouched
      <4> QED BY <3>2, <4>1
    <3>5. CASE Gained(x)
      <4>1. Total(x)' = Total(x) + 1 /\ desc[x].st = "new" /\ desc'[x].st = "live" /\ desc'[x].ref = 1
        BY <3>3, <3>5 DEF Gained
      <4> QED BY <3>2, <3>3, <4>1
    <3>6. CASE desc'[x].st = "leaked"
      BY <3>6
    <3> QED BY <3>4, <3>5, <3>6
  <2> QED BY <2>1 DEF RefCounts
<1>6. Engine'
  <2>1. /\ Existing(desc) \in Nat /\ Len(opq) \in Nat /\ Len(ops) \in Nat /\ Existing(desc') \in Nat
        /\ active = Existing(desc) + Len(opq) + Len(ops)
    BY Numbers, ExistingCount DEF IInv, Engine
  <2> QED BY <1>1, <2>1 DEF Engine
<1> QED BY <1>1, <1>2, <1>3, <1>4, <1>5, <1>6 DEF IInv

\* The handler is called and nothing else is done.
LEMMA StepHandled ==
  ASSUME IInv, run_packet \/ run_transfer_done \/ run_accept_failed
  PROVE  IInv'
<1> DEFINE o == Head(port).op
<1>1. lpc = "wait" /\ port # <<>> /\ o # Null /\ active' = active /\ handle' = handle /\ desc' = desc
  BY DEF run_packet, run_transfer_done, run_accept_failed, Front
<1>2. Head(port).err \in {"none", "error"}
  <2>1. Head(port) \in Pkt
    BY <1>1, InFront
  <2> QED BY <2>1 DEF Pkt
<1>3. PICK e \in ErrSet : handled(e)
  <2>1. /\ Head(port).err \in ErrSet /\ "disconnected" \in ErrSet /\ "invalid" \in ErrSet
    BY <1>2 DEF ErrSet
  <2> QED BY <2>1 DEF run_packet, run_transfer_done, run_accept_failed
<1>4. /\ handle' \in [Sock -> Desc \cup {Null}] /\ desc' \in [Desc -> DescType] /\ active' \in Int
      /\ \A u \in Op : u # o /\ Waits(u) => handle'[op[u].to] = Null
      /\ \A x \in Desc : /\ desc'[x].st = "new" => desc[x].st = "new"
                         /\ desc'[x].fd => desc'[x].st = "live"
                         /\ Untouched(x) \/ Gained(x) \/ desc'[x].st = "leaked"
  BY <1>1 DEF IInv, Types, Targets, Waits, Homes, Untouched
<1>5. active' = active + Existing(desc') - Existing(desc)
  <2>1. Existing(desc) \in Nat /\ active \in Int
    BY Numbers DEF IInv, Types
  <2> QED BY <1>1, <2>1
<1> HIDE DEF o
<1>6. o = Head(port).op
  BY DEF o
<1> QED BY <1>1, <1>3, <1>4, <1>5, <1>6, HandledStep DEF o

\* An accepted connection.
LEMMA StepAccepted ==
  ASSUME IInv, NEW c \in Desc, run_accepted(c)
  PROVE  IInv'
<1> DEFINE o == Head(port).op
           s == op[o].to
<1>1. lpc = "wait" /\ port # <<>> /\ o # Null /\ c \in NewDesc /\ active' = active + 1 /\ op[o].kind = "accept"
  BY DEF run_accepted, Front
<1>2. o \in Op /\ op[o].calls = 0
  BY <1>1, InFront
<1>3. s \in Sock /\ handle[s] = Null /\ \A u \in Op : Waits(u) /\ op[u].to = s => u = o
  BY <1>1, <1>2 DEF IInv, Targets
<1>4. desc[c].st = "new" /\ active \in Int /\ handle \in [Sock -> Desc \cup {Null}] /\ desc \in [Desc -> DescType] /\ Existing(desc) \in Nat
  BY <1>1, Numbers DEF IInv, Types, NewDesc
<1>5. ASSUME NEW u \in Op, u # o, Waits(u) PROVE op[u].to \in Sock /\ op[u].to # s /\ handle[op[u].to] = Null
  BY <1>3, <1>5 DEF IInv, Targets, Waits
<1>6. o = Head(port).op
  OBVIOUS
<1> HIDE DEF o
<1>7. CASE /\ handled("none") /\ handle' = [handle EXCEPT ![s] = c]
           /\ desc' = [desc EXCEPT ![c] = descriptor_create("stream", 1)]
  <2> DEFINE t == "stream"
             n == 1
             e == "none"
  <2>1. /\ t \in {"listen", "dgram", "connecting", "stream"} /\ n \in Int /\ n = 1 /\ e \in ErrSet /\ handled(e)
        /\ handle' = [handle EXCEPT ![s] = c] /\ desc' = [desc EXCEPT ![c] = descriptor_create(t, n)]
    BY <1>7 DEF ErrSet
  <2> HIDE DEF t, n, e, s
  <2>2. /\ handle' \in [Sock -> Desc \cup {Null}] /\ desc' \in [Desc -> DescType]
        /\ desc'[c].st = "live" /\ desc'[c].fd /\ desc'[c].ref = n
        /\ \A x \in Desc : x # c => desc'[x] = desc[x] /\ Handles(handle', x) = Handles(handle, x)
        /\ Handles(handle', c) = Handles(handle, c) + 1
        /\ Existing(desc') = Existing(desc) + 1
        /\ \A x \in Desc : /\ desc'[x].st = "new" => desc[x].st = "new"
                           /\ desc'[x].fd => desc'[x].st = "live"
    <3>1. /\ c \in NewDesc /\ s \in Sock /\ handle[s] = Null /\ t \in {"listen", "dgram", "connecting", "stream"} /\ n \in Int
          /\ handle' = [handle EXCEPT ![s] = c] /\ desc' = [desc EXCEPT ![c] = descriptor_create(t, n)]
      BY <1>1, <1>3, <2>1
    <3> QED BY <3>1, MadeEffect
  <2>3. \A u \in Op : u # o /\ Waits(u) => handle'[op[u].to] = Null
    BY <1>3, <1>4, <1>5, <2>1
  <2>4. \A x \in Desc : Untouched(x) \/ Gained(x) \/ desc'[x].st = "leaked"
    BY <1>4, <2>1, <2>2 DEF Untouched, Gained
  <2>5. active' \in Int /\ active' = active + Existing(desc') - Existing(desc)
    BY <1>1, <1>4, <2>2
  <2>7. /\ lpc = "wait" /\ port # <<>> /\ Head(port).op # Null /\ e \in ErrSet /\ handled(e) /\ o = Head(port).op
        /\ handle' \in [Sock -> Desc \cup {Null}] /\ desc' \in [Desc -> DescType]
        /\ \A u \in Op : u # o /\ Waits(u) => handle'[op[u].to] = Null
        /\ \A x \in Desc : /\ desc'[x].st = "new" => desc[x].st = "new"
                           /\ desc'[x].fd => desc'[x].st = "live"
                           /\ Untouched(x) \/ Gained(x) \/ desc'[x].st = "leaked"
        /\ active' \in Int /\ active' = active + Existing(desc') - Existing(desc)
    BY <1>1, <1>6, <2>1, <2>2, <2>3, <2>4, <2>5
  <2> QED BY <2>7, HandledStep
<1>8. CASE handled("error") /\ handle' = handle /\ desc' = [desc EXCEPT ![c] = bind_failed]
  <2> DEFINE e == "error"
  <2>1. e \in ErrSet /\ handled(e)
    BY <1>8 DEF ErrSet
  <2> HIDE DEF e, s
  <2>2. /\ handle' \in [Sock -> Desc \cup {Null}] /\ desc' \in [Desc -> DescType] /\ desc'[c].st = "leaked" /\ ~desc'[c].fd
        /\ \A x \in Desc : x # c => desc'[x] = desc[x]
    BY <1>4, <1>8, BindFailed
  <2>3. \A u \in Op : u # o /\ Waits(u) => handle'[op[u].to] = Null
    BY <1>5, <1>8
  <2>4. \A x \in Desc : /\ desc'[x].st = "new" => desc[x].st = "new"
                        /\ desc'[x].fd => desc'[x].st = "live"
                        /\ Untouched(x) \/ Gained(x) \/ desc'[x].st = "leaked"
    BY <1>8, <2>2 DEF Untouched, IInv, Homes
  <2>5. Existing(desc') = Existing(desc) + 1
    <3>1. Exists(desc'[c]) /\ ~Exists(desc[c])
      BY <1>4, <2>2 DEF Exists
    <3> QED BY <1>4, <2>2, <3>1, ExistingStep
  <2>6. active' \in Int /\ active' = active + Existing(desc') - Existing(desc)
    BY <1>1, <1>4, <2>5
  <2>7. /\ lpc = "wait" /\ port # <<>> /\ Head(port).op # Null /\ e \in ErrSet /\ handled(e) /\ o = Head(port).op
        /\ handle' \in [Sock -> Desc \cup {Null}] /\ desc' \in [Desc -> DescType]
        /\ \A u \in Op : u # o /\ Waits(u) => handle'[op[u].to] = Null
        /\ \A x \in Desc : /\ desc'[x].st = "new" => desc[x].st = "new"
                           /\ desc'[x].fd => desc'[x].st = "live"
                           /\ Untouched(x) \/ Gained(x) \/ desc'[x].st = "leaked"
        /\ active' \in Int /\ active' = active + Existing(desc') - Existing(desc)
    BY <1>1, <1>6, <2>1, <2>2, <2>3, <2>4, <2>6
  <2> QED BY <2>7, HandledStep
<1> QED BY <1>7, <1>8 DEF run_accepted, o

\* An operation with fewer bytes left, which may have failed.
LEMMA LeftUpdate ==
  ASSUME NEW x \in OpType, NEW n \in Int
  PROVE  LET z == [x EXCEPT !.left = n]
             e == [z EXCEPT !.err = "error"]
         IN  /\ z \in OpType /\ z.kind = x.kind /\ z.desc = x.desc /\ z.to = x.to /\ z.calls = x.calls
             /\ e \in OpType /\ e.kind = x.kind /\ e.desc = x.desc /\ e.to = x.to /\ e.calls = x.calls
<1> DEFINE z == [x EXCEPT !.left = n]
           e == [z EXCEPT !.err = "error"]
<1>1. z \in OpType /\ z.kind = x.kind /\ z.desc = x.desc /\ z.to = x.to /\ z.calls = x.calls
  BY DEF OpType
<1>2. "error" \in ErrSet
  BY DEF ErrSet
<1> HIDE DEF z
<1>3. e \in OpType /\ e.kind = z.kind /\ e.desc = z.desc /\ e.to = z.to /\ e.calls = z.calls
  BY <1>1, <1>2 DEF OpType
<1> QED BY <1>1, <1>3 DEF z

\* It goes from the port t back to the kernel, or to the queue.
AgainKernel(o, t) == pending' = pending \cup {o} /\ port' = t /\ opq' = opq
AgainQueue(o, t)  == pending' = pending /\ port' = Append(t, Wake) /\ opq' = Append(opq, RunC(o))

\* Then it is in one place still, and run() owes the reference the packet
\* had; a new one is counted in the kernel.
LEMMA AgainEffect ==
  ASSUME IInv, lpc = "wait", port # <<>>, Head(port).op # Null, NEW o, o = Head(port).op, NEW t, t = Tail(port),
         NEW rec \in OpType, rec.kind = op[o].kind, rec.desc = op[o].desc, rec.to = op[o].to, rec.calls = op[o].calls,
         op' = [op EXCEPT ![o] = rec], AgainKernel(o, t) \/ AgainQueue(o, t),
         handle' = handle, ops' = ops, cur' = op[o].desc, lpc' = "release"
  PROVE  /\ Kept /\ Places' /\ Shape' /\ opq' \in Seq(Closure) /\ port' \in Seq(Pkt) /\ pending' \in SUBSET Op
         /\ AgainQueue(o, t) => Len(opq') = Len(opq) + 1
         /\ \A u \in Op : /\ op'[u].desc = op[u].desc /\ op'[u].kind = op[u].kind /\ op'[u].to = op[u].to
                          /\ op'[u].calls = op[u].calls
                          /\ op[u].desc = Null => u \notin pending' /\ Packs(port', u) = 0
         /\ \A d \in Desc : /\ Total(d) \in Nat
                            /\ AgainKernel(o, t) /\ op[o].desc = d => Total(d)' = Total(d) + 1
                            /\ AgainQueue(o, t) \/ op[o].desc # d => Total(d)' = Total(d)
<1>1. /\ o \in Op /\ op[o] \in OpType /\ op[o].kind # "none" /\ op[o].calls = 0 /\ op[o].desc \in Desc
      /\ o \notin pending /\ Packs(port, o) = 1 /\ Runs(opq, o) = 0 /\ Runs(ops, o) = 0
  BY InFront
<1>2. /\ t \in Seq(Pkt)
      /\ \A u \in Op : u # o => Packs(t, u) = Packs(port, u)
      /\ Packs(port, o) = 1 /\ Packs(t, o) = 0
      /\ \A d \in Desc : /\ op[o].desc = d => InPort(port, op, d) = InPort(t, op, d) + 1
                         /\ op[o].desc # d => InPort(port, op, d) = InPort(t, op, d)
                         /\ InPort(t, op, d) \in Nat
      /\ \A k \in DOMAIN t : t[k].op # Null => t[k].op \in Op /\ op[t[k].op].kind # "none"
  BY PacketTaken
<1>3. /\ opq \in Seq(Closure) /\ pending \in SUBSET Op /\ op \in [Op -> OpType] /\ RunC(o) \in Closure
  BY <1>1, Closures DEF IInv, Types
<1>4. /\ \A u \in Op : u # o => op'[u] = op[u]
      /\ op'[o] = rec /\ op' \in [Op -> OpType]
  BY <1>1, <1>3
<1>5. \A u \in Op : /\ op'[u].desc = op[u].desc /\ op'[u].kind = op[u].kind /\ op'[u].to = op[u].to
                    /\ op'[u].calls = op[u].calls
  BY <1>4
<1>6. Kept
  BY <1>4, <1>5 DEF Kept
<1>7. Append(t, Wake) \in Seq(Pkt) /\ (\A u \in Op : Packs(Append(t, Wake), u) = Packs(t, u))
      /\ \A f : \A d \in Desc : InPort(Append(t, Wake), f, d) = InPort(t, f, d)
  BY <1>2, WakeEffect
<1>8. opq' \in Seq(Closure) /\ port' \in Seq(Pkt) /\ pending' \in SUBSET Op
  <2>1. Append(opq, RunC(o)) \in Seq(Closure)
    BY <1>3, QueueAdd
  <2> QED BY <1>1, <1>2, <1>3, <1>7, <2>1 DEF AgainKernel, AgainQueue
<1>9. \A u \in Op : Packs(port', u) = Packs(t, u)
  BY <1>7 DEF AgainKernel, AgainQueue
<1>10. ASSUME NEW u \in Op
       PROVE  /\ u # o \/ AgainKernel(o, t) => Runs(opq', u) = Runs(opq, u)
              /\ u = o /\ AgainQueue(o, t) => Runs(opq', u) = 1
  <2>1. Runs(Append(opq, RunC(o)), u) = Runs(opq, u) + One(RunC(o) = RunC(u)) /\ Runs(opq, u) \in Nat
    BY <1>3, QueueAdd, QueueNat
  <2>2. RunC(o) = RunC(u) <=> u = o
    BY <1>1, Closures
  <2>3. /\ u # o => Runs(Append(opq, RunC(o)), u) = Runs(opq, u)
        /\ u = o => Runs(Append(opq, RunC(o)), u) = Runs(opq, u) + 1
    BY <2>1, <2>2 DEF One
  <2>4. u = o => Runs(Append(opq, RunC(o)), u) = 1
    BY <1>1, <2>3
  <2>5. opq' = opq \/ opq' = Append(opq, RunC(o))
    BY DEF AgainKernel, AgainQueue
  <2>6. u # o => Runs(opq', u) = Runs(opq, u)
    BY <2>3, <2>5
  <2>7. AgainKernel(o, t) => Runs(opq', u) = Runs(opq, u)
    BY DEF AgainKernel
  <2>8. AgainQueue(o, t) => opq' = Append(opq, RunC(o))
    BY DEF AgainQueue
  <2> QED BY <2>4, <2>6, <2>7, <2>8
<1>11. Places'
  <2>1. ASSUME NEW u \in Op PROVE Place(u)' = One(op'[u].kind # "none")
    <3>1. Place(u)' = op'[u].calls + One(u \in pending') + Packs(port', u) + Runs(opq', u) + Runs(ops, u)
      BY DEF Place
    <3>2. CASE u = o
      <4>1. op'[u].calls = 0 /\ One(op'[u].kind # "none") = 1 /\ Packs(port', u) = 0 /\ Runs(ops, u) = 0
        BY <1>1, <1>2, <1>5, <1>9, <3>2 DEF One
      <4>2. CASE AgainKernel(o, t)
        <5>1. One(u \in pending') = 1 /\ Runs(opq', u) = 0
          BY <1>1, <1>10, <3>2, <4>2 DEF AgainKernel, One
        <5> QED BY <3>1, <4>1, <5>1
      <4>3. CASE AgainQueue(o, t)
        <5>1. One(u \in pending') = 0 /\ Runs(opq', u) = 1
          BY <1>1, <1>10, <3>2, <4>3 DEF AgainQueue, One
        <5> QED BY <3>1, <4>1, <5>1
      <4> QED BY <4>2, <4>3
    <3>3. CASE u # o
      <4>1. One(u \in pending') = One(u \in pending)
        BY <3>3 DEF One, AgainKernel, AgainQueue
      <4>2. Place(u)' = Place(u)
        BY <1>2, <1>5, <1>9, <1>10, <3>1, <3>3, <4>1 DEF Place
      <4> QED BY <1>5, <4>2 DEF IInv, Places
    <3> QED BY <3>2, <3>3
  <2> QED BY <2>1 DEF Places
<1>12. Shape' /\ cur = Null
  BY <1>1, PortAssumption DEF IInv, Shape
<1>13. ASSUME NEW u \in Op, op[u].desc = Null PROVE u \notin pending' /\ Packs(port', u) = 0
  <2>1. u # o
    BY <1>1, <1>13, PortAssumption
  <2>2. u \notin pending /\ Packs(port, u) = 0
    BY <1>13 DEF IInv, Homes
  <2> QED BY <1>2, <1>9, <2>1, <2>2 DEF AgainKernel, AgainQueue
<1>14. AgainQueue(o, t) => Len(opq') = Len(opq) + 1
  BY <1>3, QueueAdd DEF AgainQueue
<1>15. ASSUME NEW d \in Desc
       PROVE  /\ Total(d) \in Nat
              /\ AgainKernel(o, t) /\ op[o].desc = d => Total(d)' = Total(d) + 1
              /\ AgainQueue(o, t) \/ op[o].desc # d => Total(d)' = Total(d)
  <2>1. InPort(port', op', d) = InPort(t, op, d)
    <3>1. InPort(port', op', d) = InPort(t, op', d)
      BY <1>7 DEF AgainKernel, AgainQueue
    <3> DEFINE f == op'
               g == op
    <3>2. t \in Seq(Pkt) /\ \A k \in DOMAIN t : t[k].op # Null => f[t[k].op].desc = g[t[k].op].desc
      BY <1>2, <1>5
    <3> HIDE DEF f, g
    <3>3. InPort(t, f, d) = InPort(t, g, d)
      BY <3>2, PortFrame
    <3> QED BY <3>1, <3>3 DEF f, g
  <2>2. InKernel(pending, op', d) = InKernel(pending, op, d)
    BY <1>6, KeptCounts DEF IInv
  <2>3. /\ AgainKernel(o, t) /\ op[o].desc = d => InKernel(pending', op', d) = InKernel(pending, op', d) + 1
        /\ AgainQueue(o, t) \/ op[o].desc # d => InKernel(pending', op', d) = InKernel(pending, op', d)
    <3>1. CASE AgainKernel(o, t)
      <4> DEFINE P == pending
                 Q == pending'
                 f == op'
      <4>1. P \in SUBSET Op /\ o \in Op /\ o \notin P /\ Q = P \cup {o} /\ f[o].desc = op[o].desc
        BY <1>1, <1>3, <1>5, <3>1 DEF AgainKernel
      <4> HIDE DEF P, Q, f
      <4>2. /\ f[o].desc = d => InKernel(Q, f, d) = InKernel(P, f, d) + 1
            /\ f[o].desc # d => InKernel(Q, f, d) = InKernel(P, f, d)
        BY <4>1, KernelStep
      <4>3. Q # P
        BY <4>1
      <4> QED BY <4>1, <4>2, <4>3 DEF P, Q, f, AgainQueue
    <3>2. CASE ~AgainKernel(o, t)
      BY <3>2 DEF AgainQueue
    <3> QED BY <3>1, <3>2
  <2>4. /\ op[o].desc = d => Owed(cur', d) = 1
        /\ op[o].desc # d => Owed(cur', d) = 0
        /\ Owed(cur, d) = 0
    BY <1>12, PortAssumption DEF Owed, One
  <2>5. Unbinds(opq', d) = Unbinds(opq, d)
    <3>1. Unbinds(Append(opq, RunC(o)), d) = Unbinds(opq, d) + One(RunC(o) = UnbindC(d)) /\ Unbinds(opq, d) \in Nat
      BY <1>3, QueueAdd, QueueNat
    <3>2. RunC(o) # UnbindC(d)
      BY <1>1, Closures
    <3>3. Unbinds(Append(opq, RunC(o)), d) = Unbinds(opq, d)
      BY <3>1, <3>2 DEF One
    <3> QED BY <3>3 DEF AgainKernel, AgainQueue
  <2> DEFINE h == Handles(handle, d)
             k == InKernel(pending, op, d)
             l == InKernel(pending', op', d)
             b == Unbinds(opq, d) + Unbinds(ops, d)
             i == InPort(port, op, d)
             j == InPort(t, op, d)
             v == Owed(cur, d)
             w == Owed(cur', d)
  <2>6. h \in Nat /\ k \in Nat /\ b \in Nat /\ i \in Nat /\ j \in Nat /\ v \in Nat /\ w \in Nat
    <3>1. /\ Handles(handle, d) \in Nat /\ InKernel(pending, op, d) \in Nat
          /\ InPort(port, op, d) \in Nat /\ Unbinds(opq, d) \in Nat /\ Unbinds(ops, d) \in Nat
      BY Numbers DEF IInv
    <3> QED BY <1>2, <2>4, <3>1
  <2>7. Total(d) = h + k + i + b + v
    BY <2>6, Numbers DEF Total, IInv
  <2>8. Total(d)' = Handles(handle, d) + InKernel(pending', op', d) + InPort(t, op, d)
                      + Unbinds(opq, d) + Unbinds(ops, d) + Owed(cur', d)
    BY <2>1, <2>5 DEF Total
  <2>9. /\ AgainKernel(o, t) /\ op[o].desc = d => l = k + 1
        /\ AgainQueue(o, t) \/ op[o].desc # d => l = k
    BY <2>2, <2>3
  <2>10. /\ op[o].desc = d => w = 1 /\ i = j + 1
         /\ op[o].desc # d => w = 0 /\ i = j
         /\ v = 0
    BY <1>2, <2>4
  <2>11. l \in Nat
    BY <1>8, KernelCount
  <2>12. Total(d)' = h + l + j + b + w
    <3>1. Unbinds(opq, d) \in Nat /\ Unbinds(ops, d) \in Nat
      BY Numbers DEF IInv
    <3> QED BY <2>6, <2>8, <2>11, <3>1
  <2> HIDE DEF h, k, l, b, i, j, v, w
  <2> QED BY <2>6, <2>7, <2>9, <2>10, <2>11, <2>12
<1> QED BY <1>5, <1>6, <1>8, <1>11, <1>12, <1>13, <1>14, <1>15

\* A write, or a fixed-length read, is started again for what is left.
LEMMA StepMore ==
  ASSUME IInv, run_transfer_more
  PROVE  IInv'
<1> DEFINE o == Head(port).op
           x == op[o].desc
           t == Tail(port)
           n == Remain
           r == [op[o] EXCEPT !.left = Remain]
           e == [r EXCEPT !.err = "error"]
<1>1. /\ lpc = "wait" /\ port # <<>> /\ o # Null /\ cur' = x /\ lpc' = "release" /\ ops' = ops /\ handle' = handle
      /\ Overlapped(o, x, r, t)
  BY DEF run_transfer_more, Front
<1>2. o \in Op /\ Head(port) \in Pkt /\ op[o] \in OpType /\ x \in Desc
  BY <1>1, InFront
<1>3. n \in Int
  <2>1. op[o].left \in Int /\ Head(port).n \in Int
    BY <1>2 DEF OpType, Pkt
  <2> QED BY <2>1 DEF Remain
<1>4. /\ r \in OpType /\ r.kind = op[o].kind /\ r.desc = op[o].desc /\ r.to = op[o].to /\ r.calls = op[o].calls
      /\ e \in OpType /\ e.kind = op[o].kind /\ e.desc = op[o].desc /\ e.to = op[o].to /\ e.calls = op[o].calls
  BY <1>2, <1>3, LeftUpdate
<1>5. \/ /\ desc[x].fd /\ desc' = [desc EXCEPT ![x].ref = @ + 1]
         /\ op' = [op EXCEPT ![o] = r] /\ AgainKernel(o, t) /\ active' = active
      \/ op' = [op EXCEPT ![o] = e] /\ AgainQueue(o, t) /\ active' = active + 0 + 1 /\ desc' = desc
  BY <1>1 DEF Overlapped, AgainKernel, AgainQueue, post
<1>6. PICK rec \in {r, e} : op' = [op EXCEPT ![o] = rec]
  BY <1>5
<1>7. /\ rec \in OpType /\ rec.kind = op[o].kind /\ rec.desc = op[o].desc /\ rec.to = op[o].to /\ rec.calls = op[o].calls
      /\ AgainKernel(o, t) \/ AgainQueue(o, t)
  BY <1>4, <1>5, <1>6
<1>8. o = Head(port).op /\ t = Tail(port) /\ cur' = op[o].desc /\ x = op[o].desc
  BY <1>1
<1> HIDE DEF o, x, t, n, r, e
<1>9. /\ Kept /\ Places' /\ Shape' /\ opq' \in Seq(Closure) /\ port' \in Seq(Pkt) /\ pending' \in SUBSET Op
      /\ AgainQueue(o, t) => Len(opq') = Len(opq) + 1
      /\ \A u \in Op : /\ op'[u].desc = op[u].desc /\ op'[u].kind = op[u].kind /\ op'[u].to = op[u].to
                       /\ op'[u].calls = op[u].calls
                       /\ op[u].desc = Null => u \notin pending' /\ Packs(port', u) = 0
      /\ \A d \in Desc : /\ Total(d) \in Nat
                         /\ AgainKernel(o, t) /\ op[o].desc = d => Total(d)' = Total(d) + 1
                         /\ AgainQueue(o, t) \/ op[o].desc # d => Total(d)' = Total(d)
  <2>1. Head(port).op # Null
    BY <1>1, <1>8
  <2> QED BY <1>1, <1>6, <1>7, <1>8, <2>1, AgainEffect
<1>10. Targets'
  BY <1>1, <1>9 DEF IInv, Targets, Waits
<1>11. \A u \in Op : op[u].desc # Null => op[u].desc \in Desc
  BY DEF IInv, Types, OpType
<1>12. /\ desc \in [Desc -> DescType] /\ desc[x] \in DescType /\ desc[x].ref \in Int /\ active \in Int
       /\ Existing(desc) \in Nat /\ Len(opq) \in Nat /\ Len(ops) \in Nat
       /\ active = Existing(desc) + Len(opq) + Len(ops)
  BY <1>2, Numbers DEF IInv, Types, DescType, Engine
<1>13. CASE /\ desc[x].fd /\ desc' = [desc EXCEPT ![x].ref = @ + 1]
            /\ op' = [op EXCEPT ![o] = r] /\ AgainKernel(o, t) /\ active' = active
  <2> DEFINE y == [desc[x] EXCEPT !.ref = desc[x].ref + 1]
  <2>1. y \in DescType /\ y.st = desc[x].st /\ y.fd = desc[x].fd /\ y.ref = desc[x].ref + 1
    <3>1. desc[x].ref + 1 \in Int
      BY <1>12
    <3> QED BY <1>12, <3>1, RefUpdate
  <2>2. desc' = [desc EXCEPT ![x] = y]
    BY <1>12, <1>13
  <2> HIDE DEF y
  <2>3. desc' \in [Desc -> DescType] /\ \A d \in Desc : desc'[d] = IF d = x THEN y ELSE desc[d]
    BY <1>2, <1>12, <2>1, <2>2
  <2>4. \A d \in Desc : desc'[d].st = desc[d].st /\ desc'[d].fd = desc[d].fd
    BY <2>1, <2>3
  <2>5. Types'
    BY <1>1, <1>9, <1>12, <1>13, <2>3 DEF IInv, Types, Kept
  <2>6. Homes'
    BY <1>9, <1>11, <2>4 DEF IInv, Homes
  <2>7. RefCounts'
    <3>1. desc[x].st = "live"
      BY <1>2, <1>13 DEF IInv, Homes
    <3>2. ASSUME NEW d \in Desc, ~Connected(d)'
          PROVE  /\ ~Connected(d) /\ Total(d) \in Nat /\ desc'[d].st = desc[d].st
                 /\ d # x => desc'[d].ref = desc[d].ref /\ Total(d)' = Total(d)
                 /\ d = x => desc'[d].ref = desc[d].ref + 1 /\ Total(d)' = Total(d) + 1
      BY <1>8, <1>9, <1>13, <2>1, <2>3, <2>4, <3>2, KeptConnected
    <3> QED BY <3>1, <3>2 DEF IInv, RefCounts
  <2>8. Engine'
    <3>1. opq' = opq
      BY <1>13 DEF AgainKernel
    <3>2. Existing(desc') = Existing(desc)
      BY <2>4 DEF Existing
    <3> QED BY <1>1, <1>12, <1>13, <3>1, <3>2 DEF Engine
  <2> QED BY <1>9, <1>10, <2>5, <2>6, <2>7, <2>8 DEF IInv
<1>14. CASE op' = [op EXCEPT ![o] = e] /\ AgainQueue(o, t) /\ active' = active + 0 + 1 /\ desc' = desc
  <2>1. Types'
    BY <1>1, <1>9, <1>12, <1>14, SMTT(20) DEF IInv, Types, Kept
  <2>2. Homes'
    BY <1>9, <1>14 DEF IInv, Homes
  <2>3. RefCounts'
    <3>1. ASSUME NEW d \in Desc, ~Connected(d)' PROVE ~Connected(d) /\ Total(d)' = Total(d)
      BY <1>9, <1>14, <3>1, KeptConnected
    <3> QED BY <1>14, <3>1 DEF IInv, RefCounts
  <2>4. Engine'
    <3>1. Len(opq') = Len(opq) + 1 /\ active' = active + 1 /\ ops' = ops /\ desc' = desc
      BY <1>1, <1>9, <1>12, <1>14
    <3> QED BY <1>12, <3>1 DEF Engine
  <2> QED BY <1>9, <1>10, <2>1, <2>2, <2>3, <2>4 DEF IInv
<1> QED BY <1>5, <1>13, <1>14

\* A reference is dropped; the descriptor is deleted with its last one.
LEMMA ReleasedEffect ==
  ASSUME NEW ds \in [Desc -> DescType], NEW d \in Desc, ds[d].st = "live", NEW es, es = Released(ds, d)
  PROVE  /\ es \in [Desc -> DescType] /\ (\A x \in Desc : x # d => es[x] = ds[x])
         /\ ds[d].ref = 1 => es[d].st = "freed" /\ ~es[d].fd /\ Existing(ds) = Existing(es) + 1
         /\ ds[d].ref # 1 => /\ es[d].st = "live" /\ es[d].fd = ds[d].fd /\ es[d].ref = ds[d].ref - 1
                             /\ Existing(es) = Existing(ds)
<1> DEFINE f == [NoDesc EXCEPT !.st = "freed"]
           n == ds[d].ref - 1
           y == [ds[d] EXCEPT !.ref = n]
<1>1. f \in DescType /\ f.st = "freed" /\ ~f.fd
  <2>1. NoDesc \in DescType /\ ~NoDesc.fd
    BY DEF NoDesc, DescType, DescSt
  <2> QED BY <2>1, DescUpdate DEF DescSt
<1>2. n \in Int
  BY DEF DescType
<1>3. y \in DescType /\ y.st = "live" /\ y.fd = ds[d].fd /\ y.ref = n
  BY <1>2, RefUpdate
<1>4. es = [ds EXCEPT ![d] = IF ds[d].ref = 1 THEN f ELSE y]
  BY DEF Released
<1> HIDE DEF f, y
<1>5. /\ es \in [Desc -> DescType] /\ (\A x \in Desc : x # d => es[x] = ds[x])
      /\ ds[d].ref = 1 => es[d] = f
      /\ ds[d].ref # 1 => es[d] = y
  BY <1>1, <1>3, <1>4
<1>6. /\ Exists(ds[d]) /\ (ds[d].ref = 1 => ~Exists(es[d])) /\ (ds[d].ref # 1 => Exists(es[d]))
  BY <1>1, <1>3, <1>5 DEF Exists
<1>7. /\ ds[d].ref = 1 => Existing(ds) = Existing(es) + 1
      /\ ds[d].ref # 1 => Existing(es) = Existing(ds)
  BY <1>5, <1>6, ExistingStep
<1> QED BY <1>1, <1>3, <1>5, <1>7

\* A count of three parts that each lose what it loses.
LEMMA Balance ==
  ASSUME NEW a \in Int, NEW x \in Nat, NEW y \in Nat, NEW q \in Nat, NEW l \in Nat, NEW m \in Nat,
         NEW n \in {0, 1}, NEW k \in {0, 1}, a = x + q + l, l = m + n, x = y + k
  PROVE  a - n - k = y + q + m
OBVIOUS

\* What the loop gives up: one thing that refers to d.
GivesUp(d) ==
  \A x \in Desc : /\ Unbinds(ops', x) \in Nat /\ Owed(cur', x) \in Nat
                  /\ x # d => Unbinds(ops', x) + Owed(cur', x) = Unbinds(ops, x) + Owed(cur, x)
                  /\ x = d => Unbinds(ops', x) + Owed(cur', x) + 1 = Unbinds(ops, x) + Owed(cur, x)

\* The loop drops a reference.
LEMMA StepRelease ==
  ASSUME IInv, NEW d \in Desc, NEW ds \in [Desc -> DescType], ds[d].st = "live", desc' = Released(ds, d),
         \A x \in Desc : ds[x].st = desc[x].st /\ ds[x].ref = desc[x].ref /\ (ds[x].fd => desc[x].fd),
         op' = op, handle' = handle, pending' = pending, port' = port, opq' = opq, Shape',
         ops' \in Seq(Closure), \A u \in Op : Runs(ops', u) = Runs(ops, u), GivesUp(d),
         NEW n \in {0, 1}, Len(ops) = Len(ops') + n,
         active' = active - n - (IF ds[d].ref = 1 THEN 1 ELSE 0)
  PROVE  IInv'
<1>1. /\ desc' \in [Desc -> DescType] /\ (\A x \in Desc : x # d => desc'[x] = ds[x])
      /\ ds[d].ref = 1 => desc'[d].st = "freed" /\ ~desc'[d].fd /\ Existing(ds) = Existing(desc') + 1
      /\ ds[d].ref # 1 => /\ desc'[d].st = "live" /\ desc'[d].fd = ds[d].fd /\ desc'[d].ref = ds[d].ref - 1
                          /\ Existing(desc') = Existing(ds)
  <2> DEFINE es == desc'
  <2>1. es = Released(ds, d)
    OBVIOUS
  <2> HIDE DEF es
  <2>2. /\ es \in [Desc -> DescType] /\ (\A x \in Desc : x # d => es[x] = ds[x])
        /\ ds[d].ref = 1 => es[d].st = "freed" /\ ~es[d].fd /\ Existing(ds) = Existing(es) + 1
        /\ ds[d].ref # 1 => /\ es[d].st = "live" /\ es[d].fd = ds[d].fd /\ es[d].ref = ds[d].ref - 1
                            /\ Existing(es) = Existing(ds)
    BY <2>1, ReleasedEffect
  <2> QED BY <2>2 DEF es
<1>2. Existing(ds) = Existing(desc)
  BY DEF Existing
<1>3. /\ Existing(desc) \in Nat /\ Existing(desc') \in Nat /\ Len(opq) \in Nat /\ Len(ops) \in Nat /\ Len(ops') \in Nat
      /\ active = Existing(desc) + Len(opq) + Len(ops) /\ active \in Int
  BY <1>1, Numbers, ExistingCount, QueueNat DEF IInv, Types, Engine
<1>4. Engine'
  <2> DEFINE k == IF ds[d].ref = 1 THEN 1 ELSE 0
             a == active
             x == Existing(desc)
             y == Existing(desc')
             q == Len(opq)
             l == Len(ops)
             m == Len(ops')
  <2>1. /\ a \in Int /\ x \in Nat /\ y \in Nat /\ q \in Nat /\ l \in Nat /\ m \in Nat /\ k \in {0, 1}
        /\ a = x + q + l /\ l = m + n
    BY <1>3
  <2>2. x = y + k
    <3>1. CASE ds[d].ref = 1
      <4>1. k = 1 /\ Existing(ds) = Existing(desc') + 1
        BY <1>1, <3>1
      <4> QED BY <1>2, <4>1
    <3>2. CASE ds[d].ref # 1
      <4>1. k = 0 /\ Existing(ds) = Existing(desc')
        BY <1>1, <3>2
      <4> QED BY <1>2, <1>3, <4>1
    <3> QED BY <3>1, <3>2
  <2>3. active' = a - n - k
    OBVIOUS
  <2> HIDE DEF k, a, x, y, q, l, m
  <2>4. a - n - k = y + q + m
    BY <2>1, <2>2, Balance
  <2>5. active' = Existing(desc') + Len(opq) + Len(ops')
    BY <2>3, <2>4 DEF y, q, m
  <2> QED BY <2>5 DEF Engine
<1>5. Types'
  <2>1. active' \in Int
    BY <1>3
  <2> QED BY <1>1, <2>1 DEF IInv, Types
<1>6. Places'
  BY DEF IInv, Places, Place
<1>7. Homes'
  <2>1. \A x \in Desc : /\ desc'[x].st = "new" => desc[x].st = "new"
                        /\ desc'[x].fd => desc'[x].st = "live"
    BY <1>1 DEF IInv, Homes
  <2>2. \A u \in Op : op[u].desc # Null => op[u].desc \in Desc
    BY DEF IInv, Types, OpType
  <2> QED BY <2>1, <2>2 DEF IInv, Homes
<1>8. Targets'
  BY DEF IInv, Targets, Waits
<1>9. RefCounts'
  <2>1. ASSUME NEW x \in Desc
        PROVE  /\ Total(x) \in Nat
               /\ x # d => Total(x)' = Total(x)
               /\ x = d => Total(x)' = Total(x) - 1
    <3>1. /\ Handles(handle, x) \in Nat /\ InKernel(pending, op, x) \in Nat
          /\ InPort(port, op, x) \in Nat /\ Unbinds(opq, x) \in Nat
          /\ Unbinds(ops, x) \in Nat /\ Owed(cur, x) \in Nat
      <4>1. Types
        BY DEF IInv
      <4>2. \A z \in Desc : /\ Handles(handle, z) \in Nat /\ InKernel(pending, op, z) \in Nat
                            /\ InPort(port, op, z) \in Nat /\ Unbinds(opq, z) \in Nat
                            /\ Unbinds(ops, z) \in Nat /\ Owed(cur, z) \in {0, 1}
        BY <4>1, Numbers
      <4> QED BY <4>2, SMTT(20)
    <3> DEFINE a == Handles(handle, x) + InKernel(pending, op, x) + InPort(port, op, x) + Unbinds(opq, x)
               b == Unbinds(ops, x)
               c == Owed(cur, x)
               v == Unbinds(ops', x)
               w == Owed(cur', x)
    <3>2. a \in Nat /\ b \in Nat /\ c \in Nat
      BY <3>1
    <3>3. /\ v \in Nat /\ w \in Nat
          /\ x # d => v + w = b + c
          /\ x = d => v + w + 1 = b + c
      BY DEF GivesUp
    <3>4. Total(x) = a + b + c /\ Total(x)' = a + v + w
      BY DEF Total
    <3> HIDE DEF a, b, c, v, w
    <3> QED BY <3>2, <3>3, <3>4
  <2>2. ASSUME NEW x \in Desc, ~Connected(x)'
        PROVE  /\ desc'[x].st = "live" => desc'[x].ref = Total(x)'
               /\ desc'[x].st \in {"new", "freed"} => Total(x)' = 0
    <3>1. ~Connected(x)
      BY <2>2 DEF Connected
    <3>2. /\ desc[x].st = "live" => desc[x].ref = Total(x)
          /\ desc[x].st \in {"new", "freed"} => Total(x) = 0
      BY <3>1 DEF IInv, RefCounts
    <3>3. CASE x # d
      BY <1>1, <2>1, <3>2, <3>3
    <3>4. CASE x = d
      <4>1. desc[x].st = "live" /\ ds[x].ref = Total(x) /\ Total(x)' = Total(x) - 1 /\ Total(x) \in Nat
        BY <2>1, <3>2, <3>4
      <4> QED BY <1>1, <3>4, <4>1
    <3> QED BY <3>3, <3>4
  <2> QED BY <2>2 DEF RefCounts
<1> QED BY <1>4, <1>5, <1>6, <1>7, <1>8, <1>9 DEF IInv

\* run() drops the reference of the operation it answered.
LEMMA StepRunRelease ==
  ASSUME IInv, run_release
  PROVE  IInv'
<1> DEFINE n == 0
<1>1. /\ lpc = "release" /\ lpc' = "wait" /\ cur' = Null /\ opq' = opq /\ port' = port /\ ops' = ops
      /\ pending' = pending /\ handle' = handle /\ op' = op
      /\ desc[cur].st = "live" /\ desc' = Released(desc, cur)
      /\ active' = active - n - (IF desc[cur].ref = 1 THEN 1 ELSE 0)
  BY DEF run_release, descriptor_release
<1>2. cur \in Desc /\ ops = <<>>
  BY <1>1 DEF IInv, Shape
<1>3. Shape'
  BY <1>1, <1>2 DEF Shape
<1>4. desc \in [Desc -> DescType] /\ ops' \in Seq(Closure) /\ Len(ops) \in Nat
  BY <1>1, Numbers DEF IInv, Types
<1>5. GivesUp(cur)
  <2>1. ASSUME NEW x \in Desc
        PROVE  /\ Unbinds(ops, x) \in Nat /\ Owed(Null, x) = 0
               /\ x = cur => Owed(cur, x) = 1
               /\ x # cur => Owed(cur, x) = 0
    BY <1>2, Numbers, PortAssumption DEF IInv, Owed, One
  <2> QED BY <1>1, <2>1 DEF GivesUp
<1>6. n \in {0, 1} /\ Len(ops) = Len(ops') + n
  BY <1>1, <1>4
<1>7. /\ \A x \in Desc : desc[x].st = desc[x].st /\ desc[x].ref = desc[x].ref /\ (desc[x].fd => desc[x].fd)
      /\ \A u \in Op : Runs(ops', u) = Runs(ops, u)
  BY <1>1
<1> HIDE DEF n
<1> QED BY <1>1, <1>2, <1>3, <1>4, <1>5, <1>6, <1>7, StepRelease

\* The closure in front of the batch is taken.
LEMMA BatchTaken ==
  ASSUME IInv, NEW k, NextOp(k)
  PROVE  /\ lpc = "drain" /\ ops # <<>> /\ Head(ops) \in Closure /\ Head(ops).k = k /\ ops' \in Seq(Closure)
         /\ Len(ops) = Len(ops') + 1
         /\ \A u \in Op : /\ Head(ops) = RunC(u) => Runs(ops, u) = Runs(ops', u) + 1
                          /\ Head(ops) # RunC(u) => Runs(ops, u) = Runs(ops', u)
                          /\ Runs(ops', u) \in Nat
         /\ \A d \in Desc : /\ Head(ops) = UnbindC(d) => Unbinds(ops, d) = Unbinds(ops', d) + 1
                            /\ Head(ops) # UnbindC(d) => Unbinds(ops, d) = Unbinds(ops', d)
                            /\ Unbinds(ops', d) \in Nat
<1>1. lpc = "drain" /\ ops # <<>> /\ Head(ops).k = k /\ ops' = Tail(ops) /\ ops \in Seq(Closure)
  BY DEF NextOp, IInv, Types
<1>2. /\ Head(ops) \in Closure /\ ops' \in Seq(Closure) /\ Len(ops) = Len(ops') + 1
      /\ \A o \in Op : Runs(ops, o) = Runs(ops', o) + One(Head(ops) = RunC(o))
      /\ \A d \in Desc : Unbinds(ops, d) = Unbinds(ops', d) + One(Head(ops) = UnbindC(d))
  BY <1>1, QueueTake
<1>3. ASSUME NEW u \in Op PROVE /\ Head(ops) = RunC(u) => Runs(ops, u) = Runs(ops', u) + 1
                                /\ Head(ops) # RunC(u) => Runs(ops, u) = Runs(ops', u)
                                /\ Runs(ops', u) \in Nat
  <2>1. Runs(ops, u) = Runs(ops', u) + One(Head(ops) = RunC(u)) /\ Runs(ops', u) \in Nat
    BY <1>2, QueueNat
  <2> QED BY <2>1 DEF One
<1>4. ASSUME NEW d \in Desc PROVE /\ Head(ops) = UnbindC(d) => Unbinds(ops, d) = Unbinds(ops', d) + 1
                                  /\ Head(ops) # UnbindC(d) => Unbinds(ops, d) = Unbinds(ops', d)
                                  /\ Unbinds(ops', d) \in Nat
  <2>1. Unbinds(ops, d) = Unbinds(ops', d) + One(Head(ops) = UnbindC(d)) /\ Unbinds(ops', d) \in Nat
    BY <1>2, QueueNat
  <2> QED BY <2>1 DEF One
<1> QED BY <1>1, <1>2, <1>3, <1>4

\* The closure that closes drops the socket object's reference.
LEMMA StepRunUnbind ==
  ASSUME IInv, op_run_unbind
  PROVE  IInv'
<1> DEFINE d == Head(ops).desc
           ds == [desc EXCEPT ![d].fd = FALSE]
           n == 1
<1>1. /\ NextOp("unbind") /\ opq' = opq /\ port' = port /\ lpc' = lpc /\ cur' = cur
      /\ pending' = pending /\ handle' = handle /\ op' = op
      /\ ds[d].st = "live" /\ desc' = Released(ds, d)
      /\ active' = active - n - (IF ds[d].ref = 1 THEN 1 ELSE 0)
  BY DEF op_run_unbind, descriptor_release
<1>2. /\ lpc = "drain" /\ ops # <<>> /\ Head(ops) \in Closure /\ Head(ops).k = "unbind" /\ ops' \in Seq(Closure)
      /\ Len(ops) = Len(ops') + 1
      /\ \A u \in Op : /\ Head(ops) = RunC(u) => Runs(ops, u) = Runs(ops', u) + 1
                       /\ Head(ops) # RunC(u) => Runs(ops, u) = Runs(ops', u)
      /\ \A x \in Desc : /\ Head(ops) = UnbindC(x) => Unbinds(ops, x) = Unbinds(ops', x) + 1
                         /\ Head(ops) # UnbindC(x) => Unbinds(ops, x) = Unbinds(ops', x)
                         /\ Unbinds(ops', x) \in Nat
  <2> DEFINE k == "unbind"
  <2>1. NextOp(k) /\ k = "unbind"
    BY <1>1
  <2> HIDE DEF k
  <2> QED BY <2>1, BatchTaken
<1>3. d \in Desc /\ Head(ops) = UnbindC(d)
  BY <1>2, Closures
<1>4. /\ \A u \in Op : Head(ops) # RunC(u)
      /\ \A x \in Desc : Head(ops) = UnbindC(x) <=> x = d
  BY <1>3, Closures
<1>5. desc \in [Desc -> DescType] /\ desc[d] \in DescType
  BY <1>3 DEF IInv, Types
<1>6. /\ ds \in [Desc -> DescType]
      /\ \A x \in Desc : ds[x].st = desc[x].st /\ ds[x].ref = desc[x].ref /\ (ds[x].fd => desc[x].fd)
  <2> DEFINE y == [desc[d] EXCEPT !.fd = FALSE]
  <2>1. y \in DescType /\ y.st = desc[d].st /\ ~y.fd /\ y.ref = desc[d].ref
    BY <1>5, DescUpdate
  <2>2. ds = [desc EXCEPT ![d] = y]
    BY <1>3, <1>5
  <2> HIDE DEF y, ds, d
  <2> QED BY <1>3, <1>5, <2>1, <2>2
<1>7. Shape'
  BY <1>1, <1>2 DEF IInv, Shape
<1>8. GivesUp(d)
  <2>1. ASSUME NEW x \in Desc
        PROVE  /\ Unbinds(ops', x) \in Nat /\ Owed(cur', x) \in Nat /\ Owed(cur', x) = Owed(cur, x)
               /\ x = d => Unbinds(ops, x) = Unbinds(ops', x) + 1
               /\ x # d => Unbinds(ops, x) = Unbinds(ops', x)
    BY <1>1, <1>2, <1>4 DEF Owed, One
  <2> HIDE DEF d
  <2> QED BY <2>1 DEF GivesUp
<1>9. n \in {0, 1} /\ Len(ops) = Len(ops') + n /\ \A u \in Op : Runs(ops', u) = Runs(ops, u)
  BY <1>2, <1>4
<1> HIDE DEF d, ds, n
<1> QED BY <1>1, <1>2, <1>3, <1>6, <1>7, <1>8, <1>9, StepRelease

\* The closure of an operation calls its handler.
LEMMA StepRunHandler ==
  ASSUME IInv, op_run_handler
  PROVE  IInv'
<1> DEFINE o == Head(ops).op
<1>1. /\ NextOp("run") /\ opq' = opq /\ port' = port /\ lpc' = lpc /\ cur' = cur
      /\ pending' = pending /\ handle' = handle /\ desc' = desc
      /\ active' = active - 1 /\ op' = [op EXCEPT ![o].calls = @ + 1]
  BY DEF op_run_handler
<1>2. /\ lpc = "drain" /\ ops # <<>> /\ Head(ops) \in Closure /\ Head(ops).k = "run" /\ ops' \in Seq(Closure)
      /\ Len(ops) = Len(ops') + 1
      /\ \A u \in Op : /\ Head(ops) = RunC(u) => Runs(ops, u) = Runs(ops', u) + 1
                       /\ Head(ops) # RunC(u) => Runs(ops, u) = Runs(ops', u)
                       /\ Runs(ops', u) \in Nat
      /\ \A x \in Desc : /\ Head(ops) = UnbindC(x) => Unbinds(ops, x) = Unbinds(ops', x) + 1
                         /\ Head(ops) # UnbindC(x) => Unbinds(ops, x) = Unbinds(ops', x)
  <2> DEFINE k == "run"
  <2>1. NextOp(k) /\ k = "run"
    BY <1>1
  <2> HIDE DEF k
  <2> QED BY <2>1, BatchTaken
<1>3. o \in Op /\ Head(ops) = RunC(o)
  BY <1>2, Closures
<1>4. /\ \A u \in Op : Head(ops) = RunC(u) <=> u = o
      /\ \A x \in Desc : Head(ops) # UnbindC(x)
  BY <1>3, Closures
<1> HIDE DEF o
<1>5. op \in [Op -> OpType] /\ op[o] \in OpType /\ active \in Int
  BY <1>3 DEF IInv, Types
<1> DEFINE n == op[o].calls + 1
           y == [op[o] EXCEPT !.calls = n]
<1>6. n \in Nat
  BY <1>5 DEF OpType
<1>7. op' = [op EXCEPT ![o] = y]
  BY <1>1, <1>5
<1> HIDE DEF n
<1>8. y \in OpType /\ y.kind = op[o].kind /\ y.desc = op[o].desc /\ y.to = op[o].to /\ y.calls = n
  BY <1>5, <1>6 DEF OpType
<1> HIDE DEF y
<1>9. /\ op' \in [Op -> OpType] /\ (\A u \in Op : u # o => op'[u] = op[u])
      /\ op'[o].calls = op[o].calls + 1
      /\ \A u \in Op : op'[u].desc = op[u].desc /\ op'[u].kind = op[u].kind /\ op'[u].to = op[u].to
  BY <1>3, <1>5, <1>7, <1>8 DEF n
<1>10. Kept
  BY <1>9 DEF Kept
<1>11. Types'
  BY <1>1, <1>2, <1>5, <1>9 DEF IInv, Types
<1>12. Shape'
  BY <1>1, <1>2 DEF IInv, Shape
<1>13. Places'
  <2>1. ASSUME NEW u \in Op PROVE Place(u)' = Place(u)
    <3> DEFINE a == op[u].calls
               b == op'[u].calls
               c == One(u \in pending)
               i == Packs(port, u)
               j == Runs(opq, u)
               v == Runs(ops, u)
               w == Runs(ops', u)
    <3>1. /\ op[u].calls \in Nat /\ Packs(port, u) \in Nat /\ Runs(opq, u) \in Nat /\ Runs(ops, u) \in Nat
          /\ One(u \in pending) \in Nat
      BY Numbers DEF IInv, One
    <3>2. a \in Nat /\ c \in Nat /\ i \in Nat /\ j \in Nat /\ v \in Nat /\ w \in Nat
      BY <1>2, <3>1
    <3>3. /\ u = o => b = a + 1 /\ v = w + 1
          /\ u # o => b = a /\ v = w
      BY <1>2, <1>4, <1>9
    <3>4. Place(u) = a + c + i + j + v
      BY DEF Place
    <3>5. Place(u)' = b + c + i + j + w
      BY <1>1 DEF Place
    <3> HIDE DEF a, b, c, i, j, v, w
    <3> QED BY <3>2, <3>3, <3>4, <3>5
  <2> QED BY <1>9, <2>1 DEF IInv, Places
<1>14. Homes'
  BY <1>1, <1>9 DEF IInv, Homes
<1>15. Targets'
  <2>1. op[o].calls = 0
    <3>1. Runs(ops, o) > 0
      BY <1>2, <1>3
    <3> QED BY <1>3, <3>1, Somewhere DEF IInv
  <2>2. ASSUME NEW u \in Op, op'[u].calls # 1 PROVE op[u].calls # 1
    BY <1>9, <2>1, <2>2
  <2> QED BY <1>1, <1>9, <2>2 DEF IInv, Targets, Waits
<1>16. RefCounts'
  <2>1. ASSUME NEW d \in Desc PROVE Total(d)' = Total(d)
    <3>1. InKernel(pending, op', d) = InKernel(pending, op, d) /\ InPort(port, op', d) = InPort(port, op, d)
      BY <1>10, KeptCounts DEF IInv
    <3>2. Unbinds(ops', d) = Unbinds(ops, d)
      BY <1>2, <1>4
    <3> QED BY <1>1, <3>1, <3>2 DEF Total
  <2>2. ASSUME NEW d \in Desc, ~Connected(d)' PROVE ~Connected(d)
    BY <1>10, <2>2, KeptConnected
  <2> QED BY <1>1, <2>1, <2>2 DEF IInv, RefCounts
<1>17. Engine'
  <2>1. /\ Existing(desc) \in Nat /\ Len(opq) \in Nat /\ Len(ops) \in Nat
        /\ active = Existing(desc) + Len(opq) + Len(ops)
    BY Numbers DEF IInv, Engine
  <2>2. Len(ops') \in Nat
    BY <1>2, QueueNat
  <2> QED BY <1>1, <1>2, <2>1, <2>2 DEF Engine
<1> QED BY <1>11, <1>12, <1>13, <1>14, <1>15, <1>16, <1>17 DEF IInv

-----------------------------------------------------------------------------
(* The invariant.                                                          *)

\* At the start nothing refers to anything.
LEMMA InitIInv == Init => IInv
<1>1. SUFFICES ASSUME Init PROVE IInv
  OBVIOUS
<1>2. /\ opq = <<>> /\ ops = <<>> /\ port = <<>> /\ pending = {} /\ active = 0 /\ lpc = "wait" /\ cur = Null
      /\ handle = [s \in Sock |-> Null] /\ desc = [d \in Desc |-> NoDesc]
      /\ op = [o \in Op |-> [kind |-> "none", desc |-> Null, to |-> Null, left |-> 0, err |-> "none", calls |-> 0]]
  BY <1>1 DEF Init
<1> DEFINE z == [kind |-> "none", desc |-> Null, to |-> Null, left |-> 0, err |-> "none", calls |-> 0]
<1>3. z \in OpType /\ z.kind = "none" /\ z.desc = Null /\ z.calls = 0
  BY DEF OpType, Kind, ErrSet
<1>4. NoDesc \in DescType /\ NoDesc.st = "new" /\ ~NoDesc.fd
  BY DEF NoDesc, DescType, DescSt
<1>5. op = [o \in Op |-> z]
  BY <1>2
<1> HIDE DEF z
<1>6. \A o \in Op : op[o] = z
  BY <1>5
<1>7. \A d \in Desc : desc[d] = NoDesc
  BY <1>2
<1>8. Types
  <2>1. op \in [Op -> OpType] /\ desc \in [Desc -> DescType] /\ handle \in [Sock -> Desc \cup {Null}]
    BY <1>2, <1>3, <1>4, <1>5
  <2> QED BY <1>2, <2>1 DEF Types
<1>9. Shape
  BY <1>2 DEF Shape
<1>10. /\ \A u \in Op : Packs(port, u) = 0 /\ Runs(opq, u) = 0 /\ Runs(ops, u) = 0
       /\ \A d \in Desc : Unbinds(opq, d) = 0 /\ Unbinds(ops, d) = 0
  <2>1. port \in Seq(Pkt) /\ opq \in Seq(Closure) /\ ops \in Seq(Closure)
    BY <1>8 DEF Types
  <2>2. \A u \in Op : Packs(port, u) = 0
    BY <1>2, <2>1, CountSmall DEF Packs
  <2> QED BY <1>2, <2>1, <2>2, QueueNat
<1>11. Places
  <2>1. ASSUME NEW u \in Op PROVE Place(u) = One(op[u].kind # "none")
    <3>1. op[u].calls = 0 /\ One(u \in pending) = 0 /\ One(op[u].kind # "none") = 0
      BY <1>2, <1>3, <1>6 DEF One
    <3> QED BY <1>10, <3>1 DEF Place
  <2> QED BY <2>1 DEF Places
<1>12. Homes
  BY <1>2, <1>3, <1>4, <1>6, <1>7, <1>10 DEF Homes
<1>13. Targets
  BY <1>3, <1>6 DEF Targets
<1>14. RefCounts
  <2>1. ASSUME NEW d \in Desc PROVE Total(d) = 0 /\ desc[d].st = "new"
    <3>1. Handles(handle, d) = 0
      BY <1>2, <1>8, HandleCount, PortAssumption DEF Types
    <3>2. InKernel(pending, op, d) = 0
      <4>1. {o \in pending : op[o].desc = d} = {}
        BY <1>2
      <4> QED BY <4>1, FS_EmptySet DEF InKernel
    <3>3. InPort(port, op, d) = 0
      BY <1>2, <1>8, CountSmall DEF InPort, Types
    <3>4. Owed(cur, d) = 0
      BY <1>2, PortAssumption DEF Owed, One
    <3> QED BY <1>4, <1>7, <1>10, <3>1, <3>2, <3>3, <3>4 DEF Total
  <2> QED BY <2>1 DEF RefCounts
<1>15. Engine
  <2>1. {d \in Desc : desc[d].st \in {"live", "leaked"}} = {}
    BY <1>4, <1>7
  <2>2. Existing(desc) = 0
    BY <2>1, FS_EmptySet DEF Existing
  <2> QED BY <1>2, <2>2 DEF Engine
<1> QED BY <1>8, <1>9, <1>11, <1>12, <1>13, <1>14, <1>15 DEF IInv

\* A step that changes nothing.
LEMMA StepStutter == ASSUME IInv, UNCHANGED vars PROVE IInv'
<1>1. /\ opq' = opq /\ port' = port /\ active' = active /\ ops' = ops /\ lpc' = lpc /\ cur' = cur
      /\ pending' = pending /\ handle' = handle /\ desc' = desc /\ op' = op
  BY DEF vars, queueVars, loopVars
<1> QED BY <1>1 DEF IInv, Types, Shape, RefCounts, Places, Place, Homes, Targets, Engine, Total, Connected, Waits

\* Every step keeps the invariant.
LEMMA NextIInv == IInv /\ [Next]_vars => IInv'
<1>1. SUFFICES ASSUME IInv, [Next]_vars PROVE IInv'
  OBVIOUS
<1>2. ASSUME Call PROVE IInv'
  <2>1. ASSUME NEW o \in Op, execute(o) PROVE IInv'
    BY <1>1, <2>1, StepFail
  <2>2. ASSUME NEW s \in Sock, unbind(s) PROVE IInv'
    BY <1>1, <2>2, StepUnbind
  <2>3. ASSUME NEW d \in Desc, NEW s \in Sock, listen(d, s) \/ udp_bind(d, s) PROVE IInv'
    BY <1>1, <2>3, StepOpen
  <2>4. ASSUME NEW s \in Sock, NEW o \in Op, NEW k \in {"connect", "send", "recv"}, NEW d \in Desc \cup {Null},
               fail_op(s, o, k, d)
        PROVE  IInv'
    BY <1>1, <2>4, StepFail
  <2>5. ASSUME NEW d \in Desc, NEW s \in Sock, NEW o \in Op, connect(d, s, o) \/ udp_write_open(d, s, o) PROVE IInv'
    BY <1>1, <2>5, StepFirst
  <2>6. ASSUME NEW s \in Sock, NEW to \in Sock, NEW o \in Op,
               \/ read(s, o) \/ read_n(s, o) \/ write(s, o) \/ udp_read(s, o) \/ udp_write(s, o)
               \/ accept(s, o, to) \/ accept_no_socket(s, o, to)
        PROVE  IInv'
    BY <1>1, <2>6, StepIo
  <2> QED BY <1>2, <2>1, <2>2, <2>3, <2>4, <2>5, <2>6 DEF Call
<1>3. ASSUME LoopStep PROVE IInv'
  <2>1. CASE run_wake \/ run_drained
    BY <1>1, <2>1, StepBatch
  <2>2. CASE run_packet \/ run_transfer_done \/ run_accept_failed
    BY <1>1, <2>2, StepHandled
  <2>3. CASE run_transfer_more
    BY <1>1, <2>3, StepMore
  <2>4. ASSUME NEW c \in Desc, run_accepted(c) PROVE IInv'
    BY <1>1, <2>4, StepAccepted
  <2>5. CASE run_release
    BY <1>1, <2>5, StepRunRelease
  <2>6. CASE op_run_handler
    BY <1>1, <2>6, StepRunHandler
  <2>7. CASE op_run_unbind
    BY <1>1, <2>7, StepRunUnbind
  <2> QED BY <1>3, <2>1, <2>2, <2>3, <2>4, <2>5, <2>6, <2>7 DEF LoopStep
<1>4. ASSUME NEW o \in Op, complete(o) PROVE IInv'
  BY <1>1, <1>4, StepComplete
<1>5. CASE UNCHANGED vars
  BY <1>1, <1>5, StepStutter
<1> QED BY <1>1, <1>2, <1>3, <1>4, <1>5 DEF Next

\* What the properties count is what the invariant counts.
LEMMA QueueBoth ==
  ASSUME Types
  PROVE  /\ \A d \in Desc : Cardinality({i \in DOMAIN (opq \o ops) : (opq \o ops)[i].k = "unbind" /\ (opq \o ops)[i].desc = d})
                              = Unbinds(opq, d) + Unbinds(ops, d)
         /\ \A o \in Op : Cardinality({i \in DOMAIN (opq \o ops) : (opq \o ops)[i].k = "run" /\ (opq \o ops)[i].op = o})
                              = Runs(opq, o) + Runs(ops, o)
<1> DEFINE q == opq \o ops
<1>1. opq \in Seq(Closure) /\ ops \in Seq(Closure) /\ q \in Seq(Closure)
  BY DEF Types
<1>2. \A T : Count(q, T) = Count(opq, T) + Count(ops, T)
  BY <1>1, CountConcat
<1>3. \A i \in DOMAIN q : q[i] \in Closure
  BY <1>1
<1> HIDE DEF q
<1>4. ASSUME NEW d \in Desc
      PROVE  Cardinality({i \in DOMAIN q : q[i].k = "unbind" /\ q[i].desc = d}) = Unbinds(opq, d) + Unbinds(ops, d)
  <2>1. \A c \in Closure : c.k = "unbind" /\ c.desc = d <=> c = UnbindC(d)
    <3>1. UnbindC(d).k = "unbind" /\ UnbindC(d).desc = d
      BY DEF UnbindC
    <3> QED BY <3>1, Closures
  <2>2. {i \in DOMAIN q : q[i].k = "unbind" /\ q[i].desc = d} = PlacesOf(q, {UnbindC(d)})
    BY <1>3, <2>1 DEF PlacesOf
  <2> QED BY <1>2, <2>2 DEF Count, Unbinds
<1>5. ASSUME NEW o \in Op
      PROVE  Cardinality({i \in DOMAIN q : q[i].k = "run" /\ q[i].op = o}) = Runs(opq, o) + Runs(ops, o)
  <2>1. \A c \in Closure : c.k = "run" /\ c.op = o <=> c = RunC(o)
    <3>1. RunC(o).k = "run" /\ RunC(o).op = o
      BY DEF RunC
    <3> QED BY <3>1, Closures
  <2>2. {i \in DOMAIN q : q[i].k = "run" /\ q[i].op = o} = PlacesOf(q, {RunC(o)})
    BY <1>3, <2>1 DEF PlacesOf
  <2> QED BY <1>2, <2>2 DEF Count, Runs
<1> QED BY <1>4, <1>5 DEF q

\* The references of the property are those of the invariant ...
LEMMA RefsTotal ==
  ASSUME Types, NEW d \in Desc
  PROVE  Refs(d) = Total(d)
<1>1. port \in Seq(Pkt) /\ handle \in [Sock -> Desc \cup {Null}] /\ \A i \in DOMAIN port : port[i] \in Pkt
  BY DEF Types
<1>2. Cardinality({i \in DOMAIN port : port[i].op # Null /\ op[port[i].op].desc = d}) = InPort(port, op, d)
  <2>1. {i \in DOMAIN port : port[i].op # Null /\ op[port[i].op].desc = d} = PlacesOf(port, OfDesc(op, d))
    BY <1>1 DEF PlacesOf, OfDesc
  <2> QED BY <2>1 DEF InPort, Count
<1>3. Cardinality({s \in Sock : handle[s] = d}) = Handles(handle, d)
  <2>1. {s \in Sock : handle[s] = d} = {s \in DOMAIN handle : handle[s] \in {d}}
    BY <1>1
  <2> QED BY <2>1 DEF Handles, Tally
<1>4. Cardinality({o \in pending : op[o].desc = d}) = InKernel(pending, op, d)
  BY DEF InKernel
<1> DEFINE a == Cardinality({s \in Sock : handle[s] = d})
           b == Cardinality({o \in pending : op[o].desc = d})
           c == Cardinality({i \in DOMAIN port : port[i].op # Null /\ op[port[i].op].desc = d})
           e == Cardinality({i \in DOMAIN (opq \o ops) : (opq \o ops)[i].k = "unbind" /\ (opq \o ops)[i].desc = d})
           f == IF cur = d THEN 1 ELSE 0
<1>5. Refs(d) = a + b + c + e + f
  BY DEF Refs, HowMany
<1>6. e = Unbinds(opq, d) + Unbinds(ops, d)
  BY QueueBoth
<1>7. f = Owed(cur, d)
  BY DEF Owed, One
<1>8. a = Handles(handle, d) /\ b = InKernel(pending, op, d) /\ c = InPort(port, op, d)
  BY <1>2, <1>3, <1>4
<1> HIDE DEF a, b, c, e, f
<1>9. /\ Handles(handle, d) \in Nat /\ InKernel(pending, op, d) \in Nat
      /\ InPort(port, op, d) \in Nat /\ Unbinds(opq, d) \in Nat
      /\ Unbinds(ops, d) \in Nat /\ Owed(cur, d) \in Nat
  BY Numbers
<1> QED BY <1>5, <1>6, <1>7, <1>8, <1>9 DEF Total

\* ... and so are the places of an operation.
LEMMA PlacesAnswered ==
  ASSUME Types, Places
  PROVE  AnsweredOnce
<1>1. ASSUME NEW o \in Op, op[o].kind # "none"
      PROVE  op[o].calls + (IF o \in pending THEN 1 ELSE 0) + Cardinality({i \in DOMAIN port : port[i].op = o})
               + Cardinality({i \in DOMAIN (opq \o ops) : (opq \o ops)[i].k = "run" /\ (opq \o ops)[i].op = o}) = 1
  <2> DEFINE a == op[o].calls
             b == IF o \in pending THEN 1 ELSE 0
             c == Cardinality({i \in DOMAIN port : port[i].op = o})
             e == Cardinality({i \in DOMAIN (opq \o ops) : (opq \o ops)[i].k = "run" /\ (opq \o ops)[i].op = o})
  <2>1. \A i \in DOMAIN port : port[i] \in Pkt
    BY DEF Types
  <2>2. {i \in DOMAIN port : port[i].op = o} = PlacesOf(port, OfOp(o))
    BY <2>1 DEF PlacesOf, OfOp
  <2>3. c = Packs(port, o)
    BY <2>2 DEF Packs, Count
  <2>4. e = Runs(opq, o) + Runs(ops, o)
    BY QueueBoth
  <2>5. b = One(o \in pending) /\ One(o \in pending) \in Nat
    BY DEF One
  <2>6. a + One(o \in pending) + Packs(port, o) + Runs(opq, o) + Runs(ops, o) = 1
    BY <1>1 DEF Places, Place, One
  <2>7. /\ a \in Nat /\ Packs(port, o) \in Nat /\ Runs(opq, o) \in Nat /\ Runs(ops, o) \in Nat
    BY Numbers
  <2> HIDE DEF a, b, c, e
  <2>8. a + b + c + e = 1
    BY <2>3, <2>4, <2>5, <2>6, <2>7
  <2> QED BY <2>8 DEF a, b, c, e
<1> QED BY <1>1 DEF AnsweredOnce, HowMany

\* The counts of descriptors and operations hold at all times.
THEOREM PortInvariant == Spec => []IInv
<1>1. Init => IInv
  BY InitIInv
<1>2. IInv /\ [Next]_vars => IInv'
  BY NextIInv
<1> QED BY <1>1, <1>2, PTL DEF Spec

\* The count of a descriptor made by listen, accept or a datagram call is
\* the number of socket objects, operations in the kernel and in the port,
\* closures that close it and releases run() owes; it is deleted with the
\* last of them; and the engine counts the descriptors and the queued
\* operations (DescriptorCounted).
THEOREM DescriptorsCounted == Spec => []DescriptorCounted
<1>1. IInv => DescriptorCounted
  <2> SUFFICES ASSUME IInv PROVE DescriptorCounted
    OBVIOUS
  <2>1. \A d \in Desc : Refs(d) = Total(d)
    BY RefsTotal DEF IInv
  <2>2. active = Cardinality({d \in Desc : desc[d].st \in {"live", "leaked"}}) + Len(opq) + Len(ops)
    BY DEF IInv, Engine, Existing
  <2> QED BY <2>1, <2>2 DEF IInv, RefCounts, DescriptorCounted
<1> QED BY <1>1, PortInvariant, PTL

\* A started operation is in the kernel, in the port or in the queue, in one
\* of them only, until its handler is called, and that happens once
\* (AnsweredOnce).
THEOREM EachAnswered == Spec => []AnsweredOnce
<1>1. IInv => AnsweredOnce
  BY PlacesAnswered DEF IInv
<1> QED BY <1>1, PortInvariant, PTL
=============================================================================
