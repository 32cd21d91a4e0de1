--------------------------- MODULE BackendsProofs ---------------------------
(***************************************************************************)
(* Proofs about the readiness back ends: the counts that poll, kqueue and  *)
(* select share, and the table of poll, for any sockets, descriptors,      *)
(* operations and applications.                                            *)
(***************************************************************************)
EXTENDS Backends, Counting

Kind == {"none", "task", "connect", "accept", "read", "write", "recv", "send"}
Err  == {"none", "error", "aborted", "invalid"}

Closure == [k: {"run"}, op: Op, desc: {Null}] \cup [k: {"dispatch"}, op: Op, desc: Desc]
             \cup [k: {"bind", "unbind"}, op: {Null}, desc: Desc]

QType    == [Ev -> Seq(Op)]
DescType == [st: {"new", "live", "freed"}, fd: BOOLEAN, ref: Int, q: QType]
SockType == [st: {"none", "connecting", "up", "down", "listening", "dgram"}, rx: Int, tx: Int]
OpType   == [kind: Kind, desc: Desc \cup {Null}, to: Sock \cup {Null}, err: Err, calls: Nat]

MuxTypes ==
  /\ opq \in Seq(Closure) /\ ops \in Seq(Closure) /\ active \in Int
  /\ lpc \in {"wait", "change", "events", "drain", "dispatch"}
  /\ evs \in [Desc -> SUBSET Ev] /\ cur \in CurType \cup {Null}
  /\ handle \in [Sock -> Desc \cup {Null}]
  /\ desc \in [Desc -> DescType] /\ sock \in [Desc -> SockType] /\ op \in [Op -> OpType]

\* What each place of the loop says about the loop's local variables.
LoopShape ==
  /\ lpc = "dispatch" <=> cur # Null
  /\ ops # <<>> => lpc = "drain" \/ (lpc = "dispatch" /\ cur.release)
  /\ \A d \in Desc : evs[d] # {} => lpc = "events" \/ (lpc = "dispatch" /\ ~cur.release)

One(b) == IF b THEN 1 ELSE 0

\* The closures there are, oldest first.
Work == ops \o opq

\* Counted closures about a descriptor, those that close it, closures of an
\* operation, places of an operation in a descriptor's queues.
Counted(w, d) == Count(w, {c \in Closure : c.desc = d /\ c.k \in {"dispatch", "unbind"}})
Closing(w, d) == Count(w, {c \in Closure : c.desc = d /\ c.k = "unbind"})
Carry(w, o)   == Count(w, {c \in Closure : c.op = o})
Queued(x, o)  == Count(x.q["read"], {o}) + Count(x.q["write"], {o})

LiveDesc == {x \in DescType : x.st = "live"}
InUse(c, d) == c # Null /\ c.desc = d

\* The engine's count.
Engine == active = Len(Work) + Tally(desc, LiveDesc)

\* The closure that binds a descriptor comes before all others about it, the
\* one that closes it after them.
Ordered(w) ==
  \A i, j \in DOMAIN w : i < j /\ (w[j].k = "bind" \/ w[i].k = "unbind") => w[i].desc # w[j].desc

\* A descriptor in use has one owner, its socket object or the closure that
\* closes it; it is counted for the owner, closures and the dispatch.
InService(d) ==
  /\ desc[d].fd
  /\ Tally(handle, {d}) + Closing(Work, d) = 1
  /\ desc[d].ref = Tally(handle, {d}) + Counted(Work, d) + One(InUse(cur, d) /\ cur.release)

\* Nothing is left of one that is not.
Gone(d) ==
  /\ Tally(handle, {d}) = 0 /\ (\A i \in DOMAIN Work : Work[i].desc # d)
  /\ evs[d] = {} /\ ~InUse(cur, d)
  /\ desc[d].q["read"] = <<>> /\ desc[d].q["write"] = <<>> /\ sock[d] = NoSock

DescOK(d) == IF desc[d].st = "live" THEN InService(d) ELSE Gone(d)

\* The place of an operation.
Started(o) == op[o].kind # "none"
Place(o) ==
  op[o].calls + Carry(Work, o) + (IF op[o].desc = Null THEN 0 ELSE Queued(desc[op[o].desc], o))
OpPlace(o) ==
  /\ Place(o) = One(Started(o))
  /\ \A d \in Desc \ {op[o].desc} : Queued(desc[d], o) = 0
  /\ ~Started(o) => op[o].desc = Null

\* A dispatch closure queues its operation where the operation belongs.
Sent(w, v) == \A i \in DOMAIN w : w[i].k = "dispatch" => v[w[i].op].desc = w[i].desc

\* An accept that is under way has an empty socket object of its own.
Accepting(o) == op[o].kind = "accept" /\ op[o].calls # 1
Targets ==
  \A o \in Op : Accepting(o) =>
    /\ op[o].to \in Sock /\ handle[op[o].to] = Null
    /\ \A p \in Op : Accepting(p) /\ op[p].to = op[o].to => p = o

OpInv   == Sent(Work, op) /\ Targets /\ \A o \in Op : OpPlace(o)
DescInv == Engine /\ Ordered(Work) /\ \A d \in Desc : DescOK(d)

MuxInv == MuxTypes /\ LoopShape /\ OpInv /\ DescInv

\* poll's table: the descriptors that are bound, in their positions.
InTable(d) == \E i \in DOMAIN tab : tab[i].desc = d
Binds(w, d) == \E i \in DOMAIN w : w[i] = BindC(d)
ToBind(d)  == Binds(Work, d)
TabType == [desc: Desc, ev: SUBSET Ev]
TableInv ==
  mux = "poll" =>
    /\ tab \in Seq(TabType) /\ pollidx \in [Desc -> Nat]
    /\ \A i \in DOMAIN tab : /\ desc[tab[i].desc].st = "live" /\ pollidx[tab[i].desc] = i
                             /\ ~ToBind(tab[i].desc)
    /\ \A d \in Desc : desc[d].st = "live" /\ ~ToBind(d) => InTable(d)
    /\ \A d \in Desc : InUse(cur, d) \/ evs[d] # {} => InTable(d)

-----------------------------------------------------------------------------
(* Sequences of closures. *)

\* A Boolean as a number.
LEMMA OneNat == \A b : One(b) \in {0, 1} /\ One(b) \in Nat /\ (b => One(b) = 1) /\ (~b => One(b) = 0)
BY DEF One

\* The closures the calls post are closures.
LEMMA ClosureType ==
  /\ \A o \in Op : RunC(o) \in Closure /\ RunC(o).k = "run" /\ RunC(o).op = o /\ RunC(o).desc = Null
  /\ \A o \in Op, d \in Desc : DispC(d, o) \in Closure /\ DispC(d, o).k = "dispatch" /\ DispC(d, o).op = o
                                 /\ DispC(d, o).desc = d
  /\ \A d \in Desc : BindC(d) \in Closure /\ BindC(d).k = "bind" /\ BindC(d).op = Null /\ BindC(d).desc = d
  /\ \A d \in Desc : UnbindC(d) \in Closure /\ UnbindC(d).k = "unbind" /\ UnbindC(d).op = Null /\ UnbindC(d).desc = d
BY DEF RunC, DispC, BindC, UnbindC, Closure

\* What a closure holds, by its kind.
LEMMA ClosureFields ==
  ASSUME NEW c \in Closure
  PROVE  /\ c.k \in {"run", "dispatch", "bind", "unbind"}
         /\ c.k = "run" => c.op \in Op /\ c.desc = Null
         /\ c.k = "dispatch" => c.op \in Op /\ c.desc \in Desc
         /\ c.k = "bind" => c.op = Null /\ c.desc \in Desc /\ c = BindC(c.desc)
         /\ c.k = "unbind" => c.op = Null /\ c.desc \in Desc
BY DEF Closure, BindC

\* The counts of closures are numbers, zero exactly if there are none.
LEMMA WorkNat ==
  ASSUME NEW w \in Seq(Closure), NEW x
  PROVE  /\ Counted(w, x) \in Nat /\ Closing(w, x) \in Nat /\ Carry(w, x) \in Nat /\ Len(w) \in Nat
         /\ Counted(w, x) = 0 <=> \A i \in DOMAIN w : ~(w[i].desc = x /\ w[i].k \in {"dispatch", "unbind"})
         /\ Closing(w, x) = 0 <=> \A i \in DOMAIN w : ~(w[i].desc = x /\ w[i].k = "unbind")
         /\ Carry(w, x) = 0 <=> \A i \in DOMAIN w : w[i].op # x
<1> DEFINE T == {c \in Closure : c.desc = x /\ c.k \in {"dispatch", "unbind"}}
           S == {c \in Closure : c.desc = x /\ c.k = "unbind"}
           U == {c \in Closure : c.op = x}
<1>1. \A i \in DOMAIN w : w[i] \in Closure
  OBVIOUS
<1>2. \A c \in Closure : /\ c \in T <=> c.desc = x /\ c.k \in {"dispatch", "unbind"}
                         /\ c \in S <=> c.desc = x /\ c.k = "unbind"
                         /\ c \in U <=> c.op = x
  OBVIOUS
<1>3. Counted(w, x) = Count(w, T) /\ Closing(w, x) = Count(w, S) /\ Carry(w, x) = Count(w, U)
  BY DEF Counted, Closing, Carry
<1> HIDE DEF T, S, U
<1>4. Count(w, T) \in Nat /\ (Count(w, T) = 0 <=> \A i \in DOMAIN w : w[i] \notin T)
  BY CountType
<1>5. Count(w, S) \in Nat /\ (Count(w, S) = 0 <=> \A i \in DOMAIN w : w[i] \notin S)
  BY CountType
<1>6. Count(w, U) \in Nat /\ (Count(w, U) = 0 <=> \A i \in DOMAIN w : w[i] \notin U)
  BY CountType
<1>7. Len(w) \in Nat
  OBVIOUS
<1> QED BY <1>1, <1>2, <1>3, <1>4, <1>5, <1>6, <1>7

\* The counts of one closure.
Counts(c, x)  == One(c.desc = x /\ c.k \in {"dispatch", "unbind"})
Closes(c, x)  == One(c.desc = x /\ c.k = "unbind")
Carries(c, x) == One(c.op = x)

\* A closure is posted.
LEMMA WorkAdd ==
  ASSUME NEW w \in Seq(Closure), NEW c \in Closure, NEW x
  PROVE  /\ Append(w, c) \in Seq(Closure) /\ Len(Append(w, c)) = Len(w) + 1
         /\ Counted(Append(w, c), x) = Counted(w, x) + Counts(c, x)
         /\ Closing(Append(w, c), x) = Closing(w, x) + Closes(c, x)
         /\ Carry(Append(w, c), x) = Carry(w, x) + Carries(c, x)
<1> DEFINE T == {e \in Closure : e.desc = x /\ e.k \in {"dispatch", "unbind"}}
           S == {e \in Closure : e.desc = x /\ e.k = "unbind"}
           U == {e \in Closure : e.op = x}
           v == Append(w, c)
<1>1. v \in Seq(Closure) /\ Len(v) = Len(w) + 1
  OBVIOUS
<1>2. /\ c \in T <=> c.desc = x /\ c.k \in {"dispatch", "unbind"}
      /\ c \in S <=> c.desc = x /\ c.k = "unbind"
      /\ c \in U <=> c.op = x
  OBVIOUS
<1>3. Counted(w, x) = Count(w, T) /\ Closing(w, x) = Count(w, S) /\ Carry(w, x) = Count(w, U)
  BY DEF Counted, Closing, Carry
<1>4. Counted(v, x) = Count(v, T) /\ Closing(v, x) = Count(v, S) /\ Carry(v, x) = Count(v, U)
  BY DEF Counted, Closing, Carry
<1> HIDE DEF T, S, U
<1>5. Count(v, T) = Count(w, T) + IF c \in T THEN 1 ELSE 0
  BY CountAppend
<1>6. Count(v, S) = Count(w, S) + IF c \in S THEN 1 ELSE 0
  BY CountAppend
<1>7. Count(v, U) = Count(w, U) + IF c \in U THEN 1 ELSE 0
  BY CountAppend
<1> HIDE DEF v
<1>8. Counted(v, x) = Counted(w, x) + Counts(c, x)
  BY <1>2, <1>3, <1>4, <1>5 DEF Counts, One
<1>9. Closing(v, x) = Closing(w, x) + Closes(c, x)
  BY <1>2, <1>3, <1>4, <1>6 DEF Closes, One
<1>10. Carry(v, x) = Carry(w, x) + Carries(c, x)
  BY <1>2, <1>3, <1>4, <1>7 DEF Carries, One
<1> QED BY <1>1, <1>8, <1>9, <1>10 DEF v

\* The first closure is taken.
LEMMA WorkTake ==
  ASSUME NEW w \in Seq(Closure), w # <<>>, NEW x
  PROVE  /\ Head(w) \in Closure /\ Tail(w) \in Seq(Closure) /\ Len(w) = Len(Tail(w)) + 1
         /\ Counted(w, x) = Counted(Tail(w), x) + Counts(Head(w), x)
         /\ Closing(w, x) = Closing(Tail(w), x) + Closes(Head(w), x)
         /\ Carry(w, x) = Carry(Tail(w), x) + Carries(Head(w), x)
<1> DEFINE T == {e \in Closure : e.desc = x /\ e.k \in {"dispatch", "unbind"}}
           S == {e \in Closure : e.desc = x /\ e.k = "unbind"}
           U == {e \in Closure : e.op = x}
           v == Tail(w)
           c == Head(w)
<1>1. v \in Seq(Closure) /\ Len(w) = Len(v) + 1 /\ c \in Closure
  OBVIOUS
<1>3. Counted(w, x) = Count(w, T) /\ Closing(w, x) = Count(w, S) /\ Carry(w, x) = Count(w, U)
  BY DEF Counted, Closing, Carry
<1>4. Counted(v, x) = Count(v, T) /\ Closing(v, x) = Count(v, S) /\ Carry(v, x) = Count(v, U)
  BY DEF Counted, Closing, Carry
<1> HIDE DEF T, S, U
<1>5. Count(w, T) = Count(v, T) + IF c \in T THEN 1 ELSE 0
  BY CountTail
<1>6. Count(w, S) = Count(v, S) + IF c \in S THEN 1 ELSE 0
  BY CountTail
<1>7. Count(w, U) = Count(v, U) + IF c \in U THEN 1 ELSE 0
  BY CountTail
<1> HIDE DEF v, c
<1>2. /\ c \in T <=> c.desc = x /\ c.k \in {"dispatch", "unbind"}
      /\ c \in S <=> c.desc = x /\ c.k = "unbind"
      /\ c \in U <=> c.op = x
  BY <1>1 DEF T, S, U
<1>8. Counted(w, x) = Counted(v, x) + Counts(c, x)
  BY <1>2, <1>3, <1>4, <1>5 DEF Counts, One
<1>9. Closing(w, x) = Closing(v, x) + Closes(c, x)
  BY <1>2, <1>3, <1>4, <1>6 DEF Closes, One
<1>10. Carry(w, x) = Carry(v, x) + Carries(c, x)
  BY <1>2, <1>3, <1>4, <1>7 DEF Carries, One
<1> QED BY <1>1, <1>8, <1>9, <1>10 DEF v, c

\* The operations s go back to the engine's queue.
Aborts(s) == [i \in DOMAIN s |-> RunC(s[i])]

\* They carry each of their operations once and are about no descriptor.
LEMMA WorkAbort ==
  ASSUME NEW w \in Seq(Closure), NEW s \in Seq(Op), NEW r, r = Aborts(s)
  PROVE  /\ r \in Seq(Closure) /\ w \o r \in Seq(Closure) /\ Len(w \o r) = Len(w) + Len(s)
         /\ \A d \in Desc : Counted(w \o r, d) = Counted(w, d) /\ Closing(w \o r, d) = Closing(w, d)
         /\ \A o \in Op : Carry(w \o r, o) = Carry(w, o) + Count(s, {o})
         /\ \A i \in DOMAIN r : r[i].k = "run" /\ r[i].desc = Null
<1>1. Len(s) \in Nat /\ DOMAIN s = 1..Len(s) /\ \A i \in 1..Len(s) : s[i] \in Op /\ RunC(s[i]) \in Closure
  BY ClosureType
<1>2. r \in Seq(Closure) /\ Len(r) = Len(s) /\ DOMAIN r = 1..Len(s)
      /\ \A i \in 1..Len(s) : r[i] = RunC(s[i])
  BY <1>1 DEF Aborts
<1>3. w \o r \in Seq(Closure) /\ Len(w \o r) = Len(w) + Len(s)
  BY <1>2
<1>4. \A i \in DOMAIN r : r[i].k = "run" /\ r[i].desc = Null /\ r[i].op = s[i]
  BY <1>2 DEF RunC
<1>5. ASSUME NEW d \in Desc PROVE Counted(w \o r, d) = Counted(w, d) /\ Closing(w \o r, d) = Closing(w, d)
  <2> DEFINE T == {e \in Closure : e.desc = d /\ e.k \in {"dispatch", "unbind"}}
             S == {e \in Closure : e.desc = d /\ e.k = "unbind"}
  <2>1. \A i \in DOMAIN r : r[i] \notin T /\ r[i] \notin S
    BY <1>4
  <2> HIDE DEF T, S
  <2>2. Count(w \o r, T) = Count(w, T) + Count(r, T) /\ Count(w \o r, S) = Count(w, S) + Count(r, S)
    BY <1>2, CountConcat
  <2>3. Count(r, T) = 0 /\ Count(w, T) \in Nat /\ Count(r, S) = 0 /\ Count(w, S) \in Nat
    BY <1>2, <2>1, CountType
  <2>4. Count(w \o r, T) = Count(w, T) /\ Count(w \o r, S) = Count(w, S)
    BY <2>2, <2>3
  <2> QED BY <2>4 DEF Counted, Closing, T, S
<1>6. ASSUME NEW o \in Op PROVE Carry(w \o r, o) = Carry(w, o) + Count(s, {o})
  <2> DEFINE U == {e \in Closure : e.op = o}
  <2>1. PlacesOf(r, U) = PlacesOf(s, {o})
    BY <1>1, <1>2, <1>4 DEF PlacesOf
  <2>2. Count(r, U) = Count(s, {o})
    BY <2>1 DEF Count
  <2> HIDE DEF U
  <2>3. Count(w \o r, U) = Count(w, U) + Count(r, U)
    BY <1>2, CountConcat
  <2> QED BY <2>2, <2>3 DEF Carry, U
<1> QED BY <1>2, <1>3, <1>4, <1>5, <1>6

\* The order of closures, as one is posted.
LEMMA OrderAdd ==
  ASSUME NEW w \in Seq(Closure), NEW c \in Closure, Ordered(w),
         \A i \in DOMAIN w : (c.k = "bind" \/ w[i].k = "unbind") => w[i].desc # c.desc
  PROVE  Ordered(Append(w, c))
<1> DEFINE v == Append(w, c)
           n == Len(w)
<1>1. n \in Nat /\ DOMAIN w = 1..n /\ DOMAIN v = 1..(n + 1) /\ v[n + 1] = c /\ \A i \in 1..n : v[i] = w[i]
  OBVIOUS
<1> HIDE DEF v, n
<1> SUFFICES ASSUME NEW i \in DOMAIN v, NEW j \in DOMAIN v, i < j, v[j].k = "bind" \/ v[i].k = "unbind"
             PROVE  v[i].desc # v[j].desc
  BY DEF Ordered, v
<1>2. i \in 1..n
  BY <1>1
<1>3. CASE j = n + 1
  BY <1>1, <1>2, <1>3
<1>4. CASE j # n + 1
  <2>1. j \in 1..n
    BY <1>1, <1>4
  <2> QED BY <1>1, <1>2, <2>1 DEF Ordered
<1> QED BY <1>3, <1>4

\* The same as the first is taken: what it says about the rest.
LEMMA OrderTake ==
  ASSUME NEW w \in Seq(Closure), w # <<>>, Ordered(w)
  PROVE  /\ Ordered(Tail(w))
         /\ \A i \in DOMAIN Tail(w) : Tail(w)[i].k = "bind" \/ Head(w).k = "unbind" => Tail(w)[i].desc # Head(w).desc
<1> DEFINE v == Tail(w)
           n == Len(v)
<1>1. n \in Nat /\ DOMAIN v = 1..n /\ DOMAIN w = 1..(n + 1) /\ Head(w) = w[1] /\ \A i \in 1..n : v[i] = w[i + 1]
  OBVIOUS
<1> HIDE DEF v, n
<1>2. ASSUME NEW i \in 1..n PROVE i + 1 \in 1..(n + 1) /\ 1 \in 1..(n + 1) /\ 1 < i + 1
  BY <1>1
<1>3. ASSUME NEW i \in 1..n, v[i].k = "bind" \/ Head(w).k = "unbind" PROVE v[i].desc # Head(w).desc
  BY <1>1, <1>2, <1>3 DEF Ordered
<1>4. ASSUME NEW i \in 1..n, NEW j \in 1..n, i < j, v[j].k = "bind" \/ v[i].k = "unbind" PROVE v[i].desc # v[j].desc
  <2>1. i + 1 < j + 1 /\ i + 1 \in DOMAIN w /\ j + 1 \in DOMAIN w /\ v[i] = w[i + 1] /\ v[j] = w[j + 1]
    BY <1>1, <1>2, <1>4
  <2>2. w[j + 1].k = "bind" \/ w[i + 1].k = "unbind" => w[i + 1].desc # w[j + 1].desc
    BY <2>1 DEF Ordered
  <2> QED BY <1>4, <2>1, <2>2
<1> QED BY <1>1, <1>3, <1>4 DEF Ordered, v

\* Closures that complete operations are in nobody's way.
LEMMA OrderAbort ==
  ASSUME NEW w \in Seq(Closure), NEW r \in Seq(Closure), Ordered(w), \A i \in DOMAIN r : r[i].k = "run" /\ r[i].desc = Null
  PROVE  /\ Ordered(w \o r)
         /\ \A i \in DOMAIN (w \o r) : \/ i \in DOMAIN w /\ (w \o r)[i] = w[i]
                                       \/ (w \o r)[i].k = "run" /\ (w \o r)[i].desc = Null
<1> DEFINE v == w \o r
           n == Len(w)
           m == Len(r)
<1>1. n \in Nat /\ m \in Nat /\ DOMAIN w = 1..n /\ DOMAIN r = 1..m /\ DOMAIN v = 1..(n + m)
      /\ (\A i \in 1..n : v[i] = w[i]) /\ \A i \in 1..(n + m) : i > n => v[i] = r[i - n]
  OBVIOUS
<1>2. \A i \in DOMAIN w : w[i] \in Closure
  OBVIOUS
<1> HIDE DEF v, n, m
<1>3. ASSUME NEW i \in DOMAIN v PROVE (i \in DOMAIN w /\ v[i] = w[i]) \/ (v[i].k = "run" /\ v[i].desc = Null /\ i \notin DOMAIN w)
  <2>1. CASE i <= n
    BY <1>1, <2>1
  <2>2. CASE ~(i <= n)
    <3>1. i - n \in 1..m /\ i > n
      BY <1>1, <2>2
    <3> QED BY <1>1, <3>1
  <2> QED BY <2>1, <2>2
<1>4. ASSUME NEW i \in DOMAIN v, NEW j \in DOMAIN v, i < j, v[j].k = "bind" \/ v[i].k = "unbind" PROVE v[i].desc # v[j].desc
  <2>1. CASE v[j].k = "bind"
    <3>1. j \in DOMAIN w /\ v[j] = w[j]
      BY <1>3, <2>1
    <3>2. i \in DOMAIN w
      BY <1>1, <1>4, <3>1
    <3> QED BY <1>3, <1>4, <2>1, <3>1, <3>2 DEF Ordered
  <2>2. CASE v[i].k = "unbind"
    <3>1. i \in DOMAIN w /\ v[i] = w[i]
      BY <1>3, <2>2
    <3>2. v[i].desc \in Desc
      BY <1>2, <2>2, <3>1, ClosureFields
    <3>3. CASE v[j].desc = Null
      BY <3>2, <3>3, MuxAssumption
    <3>4. CASE j \in DOMAIN w /\ v[j] = w[j]
      BY <1>4, <2>2, <3>1, <3>4 DEF Ordered
    <3> QED BY <1>3, <3>3, <3>4
  <2> QED BY <1>4, <2>1, <2>2
<1> QED BY <1>3, <1>4 DEF Ordered, v

(* Queues of operations, live descriptors, socket objects. *)

\* Where an operation lies in a descriptor.
LEMMA QueuedNat ==
  ASSUME NEW x \in DescType, NEW o
  PROVE  /\ Queued(x, o) \in Nat /\ x.q \in QType /\ x.q["read"] \in Seq(Op) /\ x.q["write"] \in Seq(Op)
         /\ Count(x.q["read"], {o}) \in Nat /\ Count(x.q["write"], {o}) \in Nat
         /\ Count(x.q["read"] \o x.q["write"], {o}) = Queued(x, o)
<1>1. x.q \in QType
  BY DEF DescType
<1>2. x.q["read"] \in Seq(Op) /\ x.q["write"] \in Seq(Op)
  BY <1>1 DEF QType, Ev
<1>3. Count(x.q["read"], {o}) \in Nat /\ Count(x.q["write"], {o}) \in Nat
  BY <1>2, CountType
<1>4. Count(x.q["read"] \o x.q["write"], {o}) = Count(x.q["read"], {o}) + Count(x.q["write"], {o})
  BY <1>2, CountConcat
<1> QED BY <1>1, <1>2, <1>3, <1>4 DEF Queued

\* An operation is queued, or taken from the front.
LEMMA QueuedChange ==
  ASSUME NEW x \in DescType, NEW y \in DescType, NEW e \in Ev, NEW p \in Op, NEW o,
         \A f \in Ev : f # e => y.q[f] = x.q[f]
  PROVE  /\ y.q[e] = Append(x.q[e], p) => Queued(y, o) = Queued(x, o) + One(p = o)
         /\ x.q[e] # <<>> /\ y.q[e] = Tail(x.q[e]) => Queued(x, o) = Queued(y, o) + One(Head(x.q[e]) = o)
<1> DEFINE T == {o}
           a == Count(x.q[e], T)
           b == Count(y.q[e], T)
<1>1. x.q[e] \in Seq(Op) /\ y.q[e] \in Seq(Op) /\ e \in {"read", "write"}
  BY QueuedNat DEF Ev
<1>2. PICK f \in {"read", "write"} : f # e
  BY <1>1
<1> DEFINE c == Count(x.q[f], T)
<1>3. y.q[f] = x.q[f] /\ x.q[f] \in Seq(Op) /\ \A q \in Op : q \in T <=> q = o
  BY <1>2, QueuedNat DEF Ev
<1>4. Queued(x, o) = Count(x.q["read"], T) + Count(x.q["write"], T)
      /\ Queued(y, o) = Count(y.q["read"], T) + Count(y.q["write"], T)
  BY DEF Queued
<1> HIDE DEF T
<1>5. a \in Nat /\ b \in Nat /\ c \in Nat
  BY <1>1, <1>3, CountType
<1>6. Queued(x, o) = a + c /\ Queued(y, o) = b + c
  <2>1. CASE e = "read" /\ f = "write"
    BY <1>3, <1>4, <2>1
  <2>2. CASE e = "write" /\ f = "read"
    <3>1. Queued(x, o) = c + a /\ Queued(y, o) = c + b
      BY <1>3, <1>4, <2>2
    <3> HIDE DEF a, b, c
    <3> QED BY <1>5, <3>1
  <2> QED BY <1>1, <1>2, <2>1, <2>2
<1>7. y.q[e] = Append(x.q[e], p) => b = a + One(p = o)
  <2>1. Count(Append(x.q[e], p), T) = Count(x.q[e], T) + IF p \in T THEN 1 ELSE 0
    BY <1>1, CountAppend
  <2> QED BY <1>3, <2>1 DEF One
<1>8. x.q[e] # <<>> /\ y.q[e] = Tail(x.q[e]) => a = b + One(Head(x.q[e]) = o)
  <2>1. x.q[e] # <<>> => Head(x.q[e]) \in Op /\ Count(x.q[e], T) = Count(Tail(x.q[e]), T) + IF Head(x.q[e]) \in T THEN 1 ELSE 0
    BY <1>1, CountTail
  <2> QED BY <1>3, <2>1 DEF One
<1>9. ASSUME y.q[e] = Append(x.q[e], p) PROVE Queued(y, o) = Queued(x, o) + One(p = o)
  <2> DEFINE m == One(p = o)
  <2>1. m \in Nat /\ b = a + m
    BY <1>7, <1>9, OneNat
  <2> HIDE DEF a, b, c, m
  <2>2. b + c = (a + c) + m
    BY <1>5, <2>1
  <2> QED BY <1>6, <2>2 DEF m
<1>10. ASSUME x.q[e] # <<>>, y.q[e] = Tail(x.q[e]) PROVE Queued(x, o) = Queued(y, o) + One(Head(x.q[e]) = o)
  <2> DEFINE m == One(Head(x.q[e]) = o)
  <2>1. m \in Nat /\ a = b + m
    BY <1>8, <1>10, OneNat
  <2> HIDE DEF a, b, c, m
  <2>2. a + c = (b + c) + m
    BY <1>5, <2>1
  <2> QED BY <1>6, <2>2 DEF m
<1> QED BY <1>9, <1>10

\* The same in the form the steps use.
LEMMA QueuedAdd ==
  ASSUME NEW x \in DescType, NEW y \in DescType, NEW e \in Ev, NEW p \in Op,
         \A f \in Ev : f # e => y.q[f] = x.q[f], y.q[e] = Append(x.q[e], p)
  PROVE  \A o : Queued(y, o) = Queued(x, o) + One(p = o)
BY QueuedChange

\* One operation less in a queue.
LEMMA QueuedPop ==
  ASSUME NEW x \in DescType, NEW y \in DescType, NEW e \in Ev,
         \A f \in Ev : f # e => y.q[f] = x.q[f], x.q[e] # <<>>, y.q[e] = Tail(x.q[e])
  PROVE  \A o : Queued(x, o) = Queued(y, o) + One(Head(x.q[e]) = o)
<1>1. x.q[e] \in Seq(Op)
  BY QueuedNat DEF Ev
<1>2. Head(x.q[e]) \in Op
  BY <1>1
<1> QED BY <1>2, QueuedChange

\* Empty queues hold nothing.
LEMMA QueuedEmpty ==
  ASSUME NEW y, NEW p, y.q["read"] = <<>>, y.q["write"] = <<>>
  PROVE  Queued(y, p) = 0
<1>1. Count(<<>>, {p}) = 0
  BY CountSmall
<1> QED BY <1>1 DEF Queued

\* The live descriptors, when one descriptor changes, and when none is
\* created or deleted.
LEMMA LiveChange ==
  ASSUME NEW ds \in [Desc -> DescType], NEW es \in [Desc -> DescType]
  PROVE  /\ Tally(ds, LiveDesc) \in Nat /\ (Tally(ds, LiveDesc) = 0 <=> \A d \in Desc : ds[d].st # "live")
         /\ (\A d \in Desc : es[d].st = ds[d].st) => Tally(es, LiveDesc) = Tally(ds, LiveDesc)
         /\ \A d \in Desc : (\A c \in Desc : c # d => es[c] = ds[c]) =>
              /\ ds[d].st # "live" /\ es[d].st = "live" => Tally(es, LiveDesc) = Tally(ds, LiveDesc) + 1
              /\ ds[d].st = "live" /\ es[d].st # "live" => Tally(ds, LiveDesc) = Tally(es, LiveDesc) + 1
<1>1. IsFiniteSet(Desc)
  BY MuxAssumption
<1>2. \A d \in Desc : (ds[d] \in LiveDesc <=> ds[d].st = "live") /\ (es[d] \in LiveDesc <=> es[d].st = "live")
  BY DEF LiveDesc
<1>3. Tally(ds, LiveDesc) \in Nat /\ (Tally(ds, LiveDesc) = 0 <=> \A d \in Desc : ds[d] \notin LiveDesc)
  BY <1>1, TallyType
<1>4. ASSUME \A d \in Desc : es[d].st = ds[d].st PROVE Tally(es, LiveDesc) = Tally(ds, LiveDesc)
  <2>1. {x \in DOMAIN es : es[x] \in LiveDesc} = {x \in DOMAIN ds : ds[x] \in LiveDesc}
    BY <1>2, <1>4
  <2> QED BY <2>1 DEF Tally
<1>5. ASSUME NEW d \in Desc, \A c \in Desc : c # d => es[c] = ds[c]
      PROVE  /\ ds[d] \notin LiveDesc /\ es[d] \in LiveDesc => Tally(es, LiveDesc) = Tally(ds, LiveDesc) + 1
             /\ ds[d] \in LiveDesc /\ es[d] \notin LiveDesc => Tally(ds, LiveDesc) = Tally(es, LiveDesc) + 1
  BY <1>1, <1>5, TallyChange
<1> QED BY <1>2, <1>3, <1>4, <1>5

\* How many socket objects refer to a descriptor.
LEMMA HandleNat ==
  ASSUME NEW h \in [Sock -> Desc \cup {Null}], NEW d
  PROVE  Tally(h, {d}) \in Nat /\ (Tally(h, {d}) = 0 <=> \A s \in Sock : h[s] # d)
<1>1. IsFiniteSet(Sock)
  BY MuxAssumption
<1>2. Tally(h, {d}) \in Nat /\ (Tally(h, {d}) = 0 <=> \A s \in Sock : h[s] \notin {d})
  BY <1>1, TallyType
<1> QED BY <1>2

\* The same, when one of them is assigned.
LEMMA HandleChange ==
  ASSUME NEW h \in [Sock -> Desc \cup {Null}], NEW g \in [Sock -> Desc \cup {Null}], NEW s \in Sock, NEW d,
         \A y \in Sock : y # s => g[y] = h[y]
  PROVE  /\ (h[s] = d <=> g[s] = d) => Tally(g, {d}) = Tally(h, {d})
         /\ h[s] # d /\ g[s] = d => Tally(g, {d}) = Tally(h, {d}) + 1
         /\ h[s] = d /\ g[s] # d => Tally(h, {d}) = Tally(g, {d}) + 1
<1> DEFINE T == {d}
           B == Desc \cup {Null}
<1>1. IsFiniteSet(Sock) /\ h \in [Sock -> B] /\ g \in [Sock -> B]
  BY MuxAssumption
<1>2. (h[s] \in T <=> h[s] = d) /\ (g[s] \in T <=> g[s] = d)
  OBVIOUS
<1> HIDE DEF T, B
<1>3. /\ (h[s] \in T <=> g[s] \in T) => Tally(g, T) = Tally(h, T)
      /\ h[s] \notin T /\ g[s] \in T => Tally(g, T) = Tally(h, T) + 1
      /\ h[s] \in T /\ g[s] \notin T => Tally(h, T) = Tally(g, T) + 1
  BY <1>1, TallyChange
<1> QED BY <1>2, <1>3 DEF T

\* An empty socket object is given the descriptor d.
Given(h, g, d) == \A x \in Desc : Tally(g, {x}) = Tally(h, {x}) + One(d = x)

\* Filling an empty socket object gives it the descriptor.
LEMMA HandleSet ==
  ASSUME NEW h \in [Sock -> Desc \cup {Null}], NEW g \in [Sock -> Desc \cup {Null}], NEW s \in Sock, h[s] = Null,
         NEW d \in Desc, g[s] = d, \A y \in Sock : y # s => g[y] = h[y]
  PROVE  Given(h, g, d)
<1> SUFFICES ASSUME NEW x \in Desc PROVE Tally(g, {x}) = Tally(h, {x}) + One(d = x)
  BY DEF Given
<1>1. h[s] # x
  BY MuxAssumption
<1>2. /\ (h[s] = x <=> g[s] = x) => Tally(g, {x}) = Tally(h, {x})
      /\ h[s] # x /\ g[s] = x => Tally(g, {x}) = Tally(h, {x}) + 1
  BY HandleChange
<1>3. Tally(h, {x}) \in Nat
  BY HandleNat
<1> QED BY <1>1, <1>2, <1>3 DEF One

\* The closures of a queue stay with their descriptors while operations do.
LEMMA SentKeep ==
  ASSUME NEW q \in Seq(Closure), NEW v, NEW w, Sent(q, v), \A o \in Op : w[o].desc = v[o].desc
  PROVE  Sent(q, w)
<1> SUFFICES ASSUME NEW i \in DOMAIN q, q[i].k = "dispatch" PROVE w[q[i].op].desc = q[i].desc
  BY DEF Sent
<1>1. q[i] \in Closure
  OBVIOUS
<1>2. q[i].op \in Op
  BY <1>1, ClosureFields
<1> QED BY <1>2 DEF Sent

\* A queue that loses its first closure, or gets one more.
LEMMA SentChange ==
  ASSUME NEW q \in Seq(Closure), NEW w, Sent(q, w)
  PROVE  /\ q # <<>> => Sent(Tail(q), w)
         /\ \A c \in Closure : (c.k = "dispatch" => w[c.op].desc = c.desc) => Sent(Append(q, c), w)
<1>1. \A i \in DOMAIN q : q[i].k = "dispatch" => w[q[i].op].desc = q[i].desc
  BY DEF Sent
<1>2. ASSUME q # <<>> PROVE Sent(Tail(q), w)
  <2>1. \A i \in DOMAIN Tail(q) : i + 1 \in DOMAIN q /\ Tail(q)[i] = q[i + 1]
    BY <1>2
  <2> QED BY <1>1, <2>1 DEF Sent
<1>3. ASSUME NEW c \in Closure, c.k = "dispatch" => w[c.op].desc = c.desc PROVE Sent(Append(q, c), w)
  <2>1. \A i \in DOMAIN Append(q, c) : (i \in DOMAIN q /\ Append(q, c)[i] = q[i]) \/ Append(q, c)[i] = c
    OBVIOUS
  <2> QED BY <1>1, <1>3, <2>1 DEF Sent
<1> QED BY <1>2, <1>3

(* Steps of the queue of closures. *)

\* The batch and the queue behind it, as one sequence.
LEMMA Joined ==
  ASSUME NEW p \in Seq(Closure), NEW q \in Seq(Closure)
  PROVE  /\ p \o q \in Seq(Closure)
         /\ \A c \in Closure : p \o Append(q, c) = Append(p \o q, c)
         /\ p # <<>> => p \o q # <<>> /\ Head(p \o q) = Head(p) /\ Tail(p) \o q = Tail(p \o q)
         /\ \A r \in Seq(Closure) : p \o (q \o r) = (p \o q) \o r
         /\ p = <<>> => p \o q = q
<1>1. p \o q \in Seq(Closure)
  OBVIOUS
<1>2. ASSUME NEW c \in Closure PROVE p \o Append(q, c) = Append(p \o q, c)
  <2>1. <<c>> \in Seq(Closure) /\ Append(q, c) = q \o <<c>> /\ Append(p \o q, c) = (p \o q) \o <<c>>
    BY <1>1, AppendIsConcat
  <2> QED BY <2>1, ConcatAssociative
<1>3. ASSUME p # <<>> PROVE p \o q # <<>> /\ Head(p \o q) = Head(p) /\ Tail(p) \o q = Tail(p \o q)
  <2> DEFINE h == <<Head(p)>>
             t == Tail(p)
  <2>1. h \in Seq(Closure) /\ t \in Seq(Closure) /\ p = h \o t
    BY <1>3
  <2>2. p \o q = h \o (t \o q)
    BY <2>1, ConcatAssociative
  <2>3. t \o q \in Seq(Closure) /\ Head(p) \in Closure
    BY <1>3, <2>1
  <2>4. \A v \in Seq(Closure) : h \o v # <<>> /\ Head(h \o v) = Head(p) /\ Tail(h \o v) = v
    <3>1. ASSUME NEW v \in Seq(Closure) PROVE h \o v # <<>> /\ Head(h \o v) = Head(p)
      BY <2>3
    <3>2. ASSUME NEW v \in Seq(Closure) PROVE Tail(h \o v) = v
      <4>1. Len(Tail(h \o v)) = Len(v) /\ Tail(h \o v) \in Seq(Closure) /\ \A i \in 1..Len(v) : Tail(h \o v)[i] = v[i]
        BY <2>3
      <4> QED BY <4>1, SeqEqual
    <3> QED BY <3>1, <3>2
  <2> QED BY <2>2, <2>3, <2>4
<1>4. ASSUME NEW r \in Seq(Closure) PROVE p \o (q \o r) = (p \o q) \o r
  BY ConcatAssociative, SMTT(20)
<1>5. p = <<>> => p \o q = q
  BY ConcatEmptySeq
<1> QED BY <1>1, <1>2, <1>3, <1>4, <1>5

\* The types of the two parts.
LEMMA WorkType ==
  ASSUME MuxTypes
  PROVE  Work \in Seq(Closure) /\ ops \in Seq(Closure) /\ opq \in Seq(Closure)
BY Joined DEF MuxTypes, Work

\* op_add.
LEMMA Posts ==
  ASSUME MuxTypes, NEW c \in Closure, opq' = Append(opq, c), ops' = ops
  PROVE  opq' \in Seq(Closure) /\ Work' = Append(Work, c)
<1>1. opq \in Seq(Closure) /\ ops \in Seq(Closure)
  BY WorkType
<1>2. ops \o Append(opq, c) = Append(ops \o opq, c)
  BY <1>1, Joined
<1> QED BY <1>1, <1>2 DEF Work

\* op_run takes the first closure of the batch.
LEMMA Takes ==
  ASSUME MuxTypes, ops # <<>>, ops' = Tail(ops)
  PROVE  /\ ops' \in Seq(Closure) /\ Work # <<>> /\ Head(Work) = Head(ops)
         /\ opq' = opq => Work' = Tail(Work)
         /\ \A r \in Seq(Closure) : opq' = opq \o r => opq' \in Seq(Closure) /\ Work' = Tail(Work) \o r
<1>1. opq \in Seq(Closure) /\ ops \in Seq(Closure)
  BY WorkType
<1>2. Tail(ops) \in Seq(Closure) /\ Work # <<>> /\ Head(Work) = Head(ops) /\ Tail(ops) \o opq = Tail(Work)
  BY <1>1, Joined DEF Work
<1>3. ASSUME NEW r \in Seq(Closure), opq' = opq \o r PROVE opq' \in Seq(Closure) /\ Work' = Tail(Work) \o r
  <2>1. opq \o r \in Seq(Closure)
    BY <1>1
  <2>2. Tail(ops) \o (opq \o r) = (Tail(ops) \o opq) \o r
    <3> DEFINE t == Tail(ops)
    <3>1. t \in Seq(Closure) /\ opq \in Seq(Closure)
      BY <1>1, <1>2
    <3> HIDE DEF t
    <3>2. t \o (opq \o r) = (t \o opq) \o r
      BY ONLY <3>1, r \in Seq(Closure), ConcatAssociative, SMTT(20)
    <3> QED BY <3>2 DEF t
  <2> QED BY <1>2, <1>3, <2>1, <2>2 DEF Work
<1> QED BY <1>2, <1>3 DEF Work

\* What a closure more says about other descriptors.
LEMMA AddOther ==
  ASSUME NEW w \in Seq(Closure), NEW c \in Closure, NEW x, c.desc # x
  PROVE  /\ Counted(Append(w, c), x) = Counted(w, x) /\ Closing(Append(w, c), x) = Closing(w, x)
         /\ (\A i \in DOMAIN w : w[i].desc # x) => \A i \in DOMAIN Append(w, c) : Append(w, c)[i].desc # x
<1>1. Counted(w, x) \in Nat /\ Closing(w, x) \in Nat
  BY WorkNat
<1>2. Counts(c, x) = 0 /\ Closes(c, x) = 0
  BY DEF Counts, Closes, One
<1>3. Counted(Append(w, c), x) = Counted(w, x) + 0 /\ Closing(Append(w, c), x) = Closing(w, x) + 0
  BY <1>2, WorkAdd
<1>4. \A i \in DOMAIN Append(w, c) : (i \in DOMAIN w /\ Append(w, c)[i] = w[i]) \/ Append(w, c)[i] = c
  OBVIOUS
<1> QED BY <1>1, <1>3, <1>4

\* What a closure less says about them.
LEMMA TakeOther ==
  ASSUME NEW w \in Seq(Closure), w # <<>>, NEW x, Head(w).desc # x \/ Head(w).k \in {"run", "bind"}
  PROVE  /\ Counted(Tail(w), x) = Counted(w, x) /\ Closing(Tail(w), x) = Closing(w, x)
         /\ (\A i \in DOMAIN w : w[i].desc # x) => \A i \in DOMAIN Tail(w) : Tail(w)[i].desc # x
<1>1. Tail(w) \in Seq(Closure) /\ \A i \in DOMAIN Tail(w) : i + 1 \in DOMAIN w /\ Tail(w)[i] = w[i + 1]
  OBVIOUS
<1>2. Counted(Tail(w), x) \in Nat /\ Closing(Tail(w), x) \in Nat
  BY <1>1, WorkNat
<1>3. Counts(Head(w), x) = 0 /\ Closes(Head(w), x) = 0
  BY DEF Counts, Closes, One
<1>4. Counted(w, x) = Counted(Tail(w), x) + 0 /\ Closing(w, x) = Closing(Tail(w), x) + 0
  BY <1>3, WorkTake
<1> QED BY <1>1, <1>2, <1>4

-----------------------------------------------------------------------------
(* What the invariant says of a state, and what a step leaves of it.       *)

\* The counts of a state are numbers.
LEMMA Numbers ==
  ASSUME MuxTypes
  PROVE  /\ \A x : Counted(Work, x) \in Nat /\ Closing(Work, x) \in Nat /\ Carry(Work, x) \in Nat
         /\ Len(Work) \in Nat /\ Tally(desc, LiveDesc) \in Nat /\ active \in Int
         /\ \A d \in Desc : \A o : Queued(desc[d], o) \in Nat
         /\ \A d \in Desc : Tally(handle, {d}) \in Nat /\ desc[d].ref \in Int
         /\ \A o \in Op : op[o].calls \in Nat /\ op[o].desc \in Desc \cup {Null}
<1>1. /\ desc \in [Desc -> DescType] /\ active \in Int
      /\ handle \in [Sock -> Desc \cup {Null}] /\ op \in [Op -> OpType]
  BY DEF MuxTypes
<1>2. Work \in Seq(Closure)
  BY WorkType
<1>3. /\ \A x : Counted(Work, x) \in Nat /\ Closing(Work, x) \in Nat /\ Carry(Work, x) \in Nat
      /\ Len(Work) \in Nat
  BY <1>2, WorkNat
<1>4. Tally(desc, LiveDesc) \in Nat
  BY <1>1, LiveChange
<1>5. \A d \in Desc : \A o : Queued(desc[d], o) \in Nat
  BY <1>1, QueuedNat
<1>6. \A d \in Desc : Tally(handle, {d}) \in Nat
  BY <1>1, HandleNat
<1>7. \A d \in Desc : desc[d].ref \in Int
  BY <1>1 DEF DescType
<1>8. \A o \in Op : op[o].calls \in Nat /\ op[o].desc \in Desc \cup {Null}
  BY <1>1 DEF OpType
<1> QED BY <1>1, <1>3, <1>4, <1>5, <1>6, <1>7, <1>8

\* What refers to a descriptor keeps it in service.
LEMMA Referred ==
  ASSUME MuxInv, NEW d \in Desc,
         \/ \E s \in Sock : handle[s] = d
         \/ \E i \in DOMAIN Work : Work[i].desc = d
         \/ InUse(cur, d) \/ evs[d] # {} \/ desc[d].q["read"] # <<>> \/ desc[d].q["write"] # <<>>
  PROVE  desc[d].st = "live" /\ InService(d)
<1>1. DescOK(d)
  BY DEF MuxInv, DescInv
<1> SUFFICES ASSUME Gone(d) PROVE FALSE
  BY <1>1 DEF DescOK
<1>2. handle \in [Sock -> Desc \cup {Null}]
  BY DEF MuxInv, MuxTypes
<1>3. Tally(handle, {d}) = 0 <=> \A s \in Sock : handle[s] # d
  BY <1>2, HandleNat
<1> QED BY <1>3 DEF Gone

\* An operation that has not been started is nowhere.
LEMMA FreshNowhere ==
  ASSUME MuxInv, NEW o \in Op, ~Started(o)
  PROVE  /\ op[o].desc = Null /\ op[o].calls = 0 /\ Carry(Work, o) = 0
         /\ \A d \in Desc : Queued(desc[d], o) = 0
<1>1. OpPlace(o) /\ MuxTypes
  BY DEF MuxInv, OpInv
<1>2. op[o].desc = Null /\ Place(o) = 0
  BY <1>1 DEF OpPlace, One
<1>3. op[o].calls + Carry(Work, o) + 0 = 0
  BY <1>2 DEF Place
<1>4. \A d \in Desc : Queued(desc[d], o) = 0
  BY <1>1, <1>2, MuxAssumption DEF OpPlace
<1> DEFINE a == op[o].calls
           b == Carry(Work, o)
<1>5. a \in Nat /\ b \in Nat /\ a + b + 0 = 0
  BY <1>1, <1>3, Numbers
<1> HIDE DEF a, b
<1>6. a = 0 /\ b = 0
  BY <1>5
<1> QED BY <1>2, <1>4, <1>6 DEF a, b

\* An operation that a step leaves where it is.
LEMMA OpFrame ==
  ASSUME NEW o \in Op, OpPlace(o), op'[o].kind = op[o].kind, op'[o].desc = op[o].desc,
         op'[o].calls = op[o].calls, Carry(Work', o) = Carry(Work, o),
         op[o].desc \in Desc \cup {Null}, \A d \in Desc : Queued(desc'[d], o) = Queued(desc[d], o)
  PROVE  OpPlace(o)'
<1>1. Started(o)' = Started(o)
  BY DEF Started
<1>2. Place(o)' = Place(o)
  BY DEF Place
<1> QED BY <1>1, <1>2 DEF OpPlace

\* One that moves from one place to another.
LEMMA OpMoves ==
  ASSUME NEW o \in Op, OpPlace(o), op'[o].kind = op[o].kind, op'[o].desc = op[o].desc,
         Place(o)' = Place(o), \A d \in Desc \ {op[o].desc} : Queued(desc'[d], o) = Queued(desc[d], o)
  PROVE  OpPlace(o)'
<1>1. Started(o)' = Started(o)
  BY DEF Started
<1> QED BY <1>1 DEF OpPlace

\* The socket objects that accepts fill, when no accept starts.
LEMMA TargetsKeep ==
  ASSUME Targets,
         \A o \in Op : Accepting(o)' => Accepting(o) /\ op'[o].to = op[o].to /\ handle'[op[o].to] = Null
  PROVE  Targets'
BY DEF Targets

\* A socket object that an accept fills is not unused.
LEMMA TargetInUse ==
  ASSUME Targets, NEW o \in Op, Accepting(o)
  PROVE  op[o].to \in Sock /\ handle[op[o].to] = Null /\ ~Unused(op[o].to)
BY DEF Targets, Accepting, Unused

\* A step that moves no operation.
LEMMA OpKeep ==
  ASSUME MuxInv, \A p \in Op : op'[p].kind = op[p].kind /\ op'[p].desc = op[p].desc /\ op'[p].calls = op[p].calls
                                 /\ op'[p].to = op[p].to,
         \A p \in Op : Carry(Work', p) = Carry(Work, p),
         \A x \in Desc, p \in Op : Queued(desc'[x], p) = Queued(desc[x], p), Sent(Work', op'),
         \A s \in Sock : handle'[s] = handle[s] \/ handle'[s] = Null \/ Unused(s)
  PROVE  OpInv'
<1>1. MuxTypes /\ Targets /\ \A p \in Op : OpPlace(p)
  BY DEF MuxInv, OpInv
<1>2. ASSUME NEW p \in Op PROVE OpPlace(p)'
  BY <1>1, Numbers, OpFrame
<1>3. ASSUME NEW o \in Op, Accepting(o)' PROVE Accepting(o) /\ op'[o].to = op[o].to /\ handle'[op[o].to] = Null
  <2>1. Accepting(o)
    BY <1>3 DEF Accepting
  <2> QED BY <1>1, <2>1, TargetInUse
<1>4. Targets'
  BY <1>1, <1>3, TargetsKeep
<1> QED BY <1>2, <1>4 DEF OpInv

\* A descriptor that a step leaves alone.
LEMMA DescFrame ==
  ASSUME NEW x \in Desc, DescOK(x), Tally(handle', {x}) = Tally(handle, {x}),
         Counted(Work', x) = Counted(Work, x), Closing(Work', x) = Closing(Work, x),
         (InUse(cur', x) /\ cur'.release) <=> (InUse(cur, x) /\ cur.release),
         desc'[x].st = desc[x].st, desc'[x].fd = desc[x].fd, desc'[x].ref = desc[x].ref,
         desc[x].st # "live" => /\ (\A i \in DOMAIN Work : Work[i].desc # x) => \A i \in DOMAIN Work' : Work'[i].desc # x
                                /\ evs'[x] = {} /\ ~InUse(cur', x) /\ desc'[x].q = desc[x].q /\ sock'[x] = sock[x]
  PROVE  DescOK(x)'
<1>1. One(InUse(cur', x) /\ cur'.release) = One(InUse(cur, x) /\ cur.release)
  BY DEF One
<1>2. CASE desc[x].st = "live"
  BY <1>1, <1>2 DEF DescOK, InService
<1>3. CASE desc[x].st # "live"
  BY <1>3 DEF DescOK, Gone
<1> QED BY <1>2, <1>3

-----------------------------------------------------------------------------
(* Steps that move no reference and no operation. *)

\* Nothing changes but where the loop is and what it looks at.
LEMMA Quiet ==
  ASSUME MuxInv, MuxTypes', LoopShape', Work' = Work, UNCHANGED <<active, handle, desc, op>>,
         \A x \in Desc : (InUse(cur', x) /\ cur'.release) <=> (InUse(cur, x) /\ cur.release),
         \A x \in Desc : desc[x].st # "live" => evs'[x] = {} /\ ~InUse(cur', x) /\ sock'[x] = sock[x]
  PROVE  MuxInv'
<1>1. OpInv'
  <2>1. Sent(Work', op')
    BY DEF MuxInv, OpInv
  <2> QED BY <2>1, OpKeep
<1>2. Engine' /\ Ordered(Work)'
  BY DEF MuxInv, DescInv, Engine
<1>3. ASSUME NEW x \in Desc PROVE DescOK(x)'
  <2>1. DescOK(x)
    BY DEF MuxInv, DescInv
  <2> QED BY <2>1, DescFrame
<1> QED BY <1>1, <1>2, <1>3 DEF MuxInv, DescInv

\* The places of the loop.
LEMMA AtPlace ==
  ASSUME MuxInv
  PROVE  /\ lpc # "dispatch" => cur = Null /\ \A x \in Desc : ~InUse(cur, x)
         /\ lpc \in {"wait", "change", "events"} => ops = <<>>
         /\ lpc \in {"wait", "change", "drain"} => \A x \in Desc : evs[x] = {}
         /\ lpc = "dispatch" => cur \in CurType /\ cur.desc \in Desc /\ cur.evs \in SUBSET Ev /\ cur.release \in BOOLEAN
                                  /\ \A x \in Desc : InUse(cur, x) <=> x = cur.desc
         /\ lpc = "dispatch" /\ cur.release => \A x \in Desc : evs[x] = {}
         /\ lpc = "dispatch" /\ ~cur.release => ops = <<>>
<1>1. MuxTypes /\ LoopShape
  BY DEF MuxInv
<1>2. lpc # "dispatch" => cur = Null /\ \A x \in Desc : ~InUse(cur, x)
  BY <1>1 DEF LoopShape, InUse
<1>3. lpc = "dispatch" => cur \in CurType /\ cur # Null
  BY <1>1 DEF MuxTypes, LoopShape
<1>4. lpc = "dispatch" => cur.desc \in Desc /\ cur.evs \in SUBSET Ev /\ cur.release \in BOOLEAN
                            /\ \A x \in Desc : InUse(cur, x) <=> x = cur.desc
  BY <1>3 DEF CurType, InUse
<1> QED BY <1>1, <1>2, <1>3, <1>4 DEF LoopShape

\* The wait ends: only descriptors in service are reported.
LEMMA StepWait ==
  ASSUME MuxInv, NEW r \in [Desc -> SUBSET Ev], evs' = r, lpc = "wait", lpc' = "events",
         UNCHANGED <<queueVars, ops, cur, handle, desc, sock, op>>,
         \A d \in Desc : desc[d].st # "live" => r[d] = {}
  PROVE  MuxInv'
<1>1. cur = Null /\ ops = <<>>
  BY AtPlace
<1>2. MuxTypes'
  BY DEF MuxInv, MuxTypes, queueVars
<1>3. LoopShape'
  BY <1>1 DEF LoopShape
<1>4. Work' = Work /\ active' = active
  BY DEF Work, queueVars
<1>5. \A x \in Desc : ~InUse(cur', x) /\ ~InUse(cur, x)
  BY <1>1 DEF InUse
<1> QED BY <1>2, <1>3, <1>4, <1>5, Quiet

\* The loop moves on without an event.
LEMMA StepMove ==
  ASSUME MuxInv, lpc \in {"wait", "change"}, lpc' \in {"wait", "change"},
         UNCHANGED <<queueVars, ops, evs, cur, handle, desc, sock, op>>
  PROVE  MuxInv'
<1>1. cur = Null /\ ops = <<>> /\ \A x \in Desc : evs[x] = {} /\ ~InUse(cur, x)
  BY AtPlace
<1>2. MuxTypes'
  BY DEF MuxInv, MuxTypes, queueVars
<1>3. LoopShape'
  BY <1>1 DEF LoopShape
<1>4. Work' = Work /\ active' = active
  BY DEF Work, queueVars
<1> QED BY <1>1, <1>2, <1>3, <1>4, Quiet

\* An event is dispatched.
LEMMA StepEvent ==
  ASSUME MuxInv, NEW d \in Desc, NEW dirs, run_event(d, dirs)
  PROVE  MuxInv'
<1>1. /\ lpc = "events" /\ evs[d] # {} /\ dirs \subseteq evs[d] /\ cur' = [desc |-> d, evs |-> dirs, release |-> FALSE]
      /\ evs' = [evs EXCEPT ![d] = @ \ dirs] /\ lpc' = "dispatch"
      /\ UNCHANGED <<opq, active, ops, handle, desc, sock, op>>
  BY DEF run_event, queueVars
<1>2. cur = Null /\ ops = <<>> /\ evs \in [Desc -> SUBSET Ev] /\ desc[d].st = "live"
  BY <1>1, AtPlace, Referred DEF MuxInv, MuxTypes
<1>3. evs' \in [Desc -> SUBSET Ev] /\ \A x \in Desc : evs'[x] \subseteq evs[x]
  BY <1>1, <1>2
<1>4. cur' \in CurType /\ cur'.desc = d /\ cur'.release = FALSE
  BY <1>1, <1>2 DEF CurType
<1>5. cur' # Null
  BY <1>4, MuxAssumption
<1>6. MuxTypes'
  BY <1>1, <1>3, <1>4 DEF MuxInv, MuxTypes
<1>7. LoopShape'
  BY <1>1, <1>2, <1>4, <1>5 DEF LoopShape
<1>8. Work' = Work
  BY <1>1 DEF Work
<1>9. \A x \in Desc : (InUse(cur', x) <=> x = d) /\ ~InUse(cur, x)
  BY <1>2, <1>4, <1>5 DEF InUse
<1>10. \A x \in Desc : desc[x].st # "live" => evs[x] = {}
  BY Referred
<1> QED BY <1>1, <1>2, <1>3, <1>4, <1>6, <1>7, <1>8, <1>9, <1>10, Quiet

\* The batch is taken, or there is none.
LEMMA StepTake ==
  ASSUME MuxInv, NEW back \in {"wait", "change"}, run_take(back) \/ run_drained(back)
  PROVE  MuxInv' /\ Work' = Work
<1>1. lpc \in {"events", "drain"} /\ UNCHANGED <<active, evs, cur, handle, desc, sock, op>>
  BY DEF run_take, run_drained, queueVars
<1>2. cur = Null /\ \A x \in Desc : ~InUse(cur, x)
  BY <1>1, AtPlace
<1>3. \A x \in Desc : evs[x] = {}
  <2>1. CASE run_take(back)
    BY <2>1 DEF run_take, NoEv
  <2>2. CASE run_drained(back)
    BY <2>2, AtPlace DEF run_drained
  <2> QED BY <2>1, <2>2
<1>4. opq \in Seq(Closure) /\ ops \in Seq(Closure) /\ <<>> \in Seq(Closure) /\ <<>> \o opq = opq /\ opq \o <<>> = opq
  BY WorkType, ConcatEmptySeq DEF MuxInv
<1>5. ops = <<>>
  BY AtPlace DEF run_take, run_drained
<1>6. /\ lpc' \in {"drain", "wait", "change"} /\ opq' \in Seq(Closure) /\ ops' \in Seq(Closure)
      /\ (ops' # <<>> => lpc' = "drain") /\ ops' \o opq' = ops \o opq
  BY <1>4, <1>5 DEF run_take, run_drained, queueVars
<1>7. MuxTypes'
  BY <1>1, <1>6 DEF MuxInv, MuxTypes
<1>8. LoopShape'
  BY <1>1, <1>2, <1>3, <1>6 DEF LoopShape
<1>9. Work' = Work
  BY <1>6 DEF Work
<1>10. MuxInv'
  BY <1>1, <1>2, <1>3, <1>7, <1>8, <1>9, Quiet
<1> QED BY <1>9, <1>10

\* The dispatch goes on to the next direction.
LEMMA StepDirection ==
  ASSUME MuxInv, NEW e, dispatch_next(e)
  PROVE  MuxInv'
<1>1. /\ lpc = "dispatch" /\ cur' = [cur EXCEPT !.evs = @ \ {e}]
      /\ UNCHANGED <<opq, active, ops, lpc, evs, handle, desc, sock, op>>
  BY DEF dispatch_next, Dispatching, queueVars
<1>2. cur \in CurType /\ cur # Null
  BY <1>1, AtPlace DEF MuxInv, LoopShape
<1>3. cur' \in CurType /\ cur'.desc = cur.desc /\ cur'.release = cur.release
  BY <1>1, <1>2 DEF CurType
<1>4. cur' # Null
  BY <1>3, MuxAssumption
<1>5. MuxTypes'
  BY <1>1, <1>3 DEF MuxInv, MuxTypes
<1>6. LoopShape'
  BY <1>1, <1>3, <1>4 DEF MuxInv, LoopShape
<1>7. Work' = Work
  BY <1>1 DEF Work
<1>8. \A x \in Desc : InUse(cur', x) <=> InUse(cur, x)
  BY <1>2, <1>3, <1>4 DEF InUse
<1>9. \A x \in Desc : desc[x].st # "live" => evs[x] = {} /\ ~InUse(cur, x)
  BY Referred
<1> QED BY <1>1, <1>3, <1>5, <1>6, <1>7, <1>8, <1>9, Quiet

\* A socket changes in the kernel.
LEMMA StepKernel ==
  ASSUME MuxInv, KernelStep
  PROVE  MuxInv'
<1>1. PICK d \in Desc : connected(d) \/ arrive(d) \/ drain_tx(d) \/ peer_down(d)
  BY DEF KernelStep
<1>2. sock \in [Desc -> SockType] /\ sock[d] \in SockType
  BY DEF MuxInv, MuxTypes
<1>3. PICK k \in SockType : Kernel(d, k)
  <2>1. CASE connected(d)
    <3>1. [sock[d] EXCEPT !.st = "up"] \in SockType
      BY <1>2 DEF SockType
    <3> QED BY <2>1, <3>1 DEF connected
  <2>2. CASE arrive(d)
    <3>1. [sock[d] EXCEPT !.rx = @ + 1] \in SockType
      BY <1>2 DEF SockType
    <3> QED BY <2>2, <3>1 DEF arrive
  <2>3. CASE drain_tx(d)
    <3>1. [sock[d] EXCEPT !.tx = @ + 1] \in SockType
      BY <1>2 DEF SockType
    <3> QED BY <2>3, <3>1 DEF drain_tx
  <2>4. CASE peer_down(d)
    <3>1. [sock[d] EXCEPT !.st = "down"] \in SockType
      BY <1>2 DEF SockType
    <3> QED BY <2>4, <3>1 DEF peer_down
  <2> QED BY <1>1, <2>1, <2>2, <2>3, <2>4
<1>4. /\ desc[d].st = "live" /\ sock' = [sock EXCEPT ![d] = k]
      /\ UNCHANGED <<opq, active, ops, lpc, evs, cur, handle, desc, op>>
  BY <1>3 DEF Kernel, Live, queueVars, loopVars
<1>5. sock' \in [Desc -> SockType] /\ \A x \in Desc : x # d => sock'[x] = sock[x]
  BY <1>2, <1>4
<1>6. MuxTypes'
  BY <1>4, <1>5 DEF MuxInv, MuxTypes
<1>7. LoopShape'
  BY <1>4 DEF MuxInv, LoopShape
<1>8. Work' = Work
  BY <1>4 DEF Work
<1>9. \A x \in Desc : desc[x].st # "live" => evs[x] = {} /\ ~InUse(cur, x)
  BY Referred
<1> QED BY <1>4, <1>5, <1>6, <1>7, <1>8, <1>9, Quiet

-----------------------------------------------------------------------------
(* Calls. *)

\* The operation a call starts.
LEMMA StartFields ==
  ASSUME MuxTypes, NEW o, NEW k, NEW d, NEW s, NEW e, StartOp(o, k, d, s, e)
  PROVE  /\ o \in Op /\ ~Started(o) /\ op'[o].kind = k /\ op'[o].desc = d /\ op'[o].to = s /\ op'[o].calls = 0
         /\ \A p \in Op : p # o => op'[p] = op[p]
         /\ k \in Kind /\ d \in Desc \cup {Null} /\ s \in Sock \cup {Null} /\ e \in Err => op' \in [Op -> OpType]
<1>1. o \in Op /\ ~Started(o) /\ op \in [Op -> OpType]
      /\ op' = [op EXCEPT ![o] = [kind |-> k, desc |-> d, to |-> s, err |-> e, calls |-> 0]]
  BY DEF StartOp, Fresh, Started, MuxTypes
<1>2. k \in Kind /\ d \in Desc \cup {Null} /\ s \in Sock \cup {Null} /\ e \in Err
        => [kind |-> k, desc |-> d, to |-> s, err |-> e, calls |-> 0] \in OpType
  BY DEF OpType
<1> QED BY <1>1, <1>2

\* A socket object is handed to one accept at a time, and to nothing else
\* before that accept is over.
LEMMA StartTargets ==
  ASSUME MuxInv, NEW o, NEW k, NEW d, NEW s, NEW e, StartOp(o, k, d, s, e),
         k = "accept" => s \in Sock /\ Unused(s) /\ handle' = handle,
         \A x \in Sock : handle'[x] = handle[x] \/ Unused(x)
  PROVE  Targets'
<1>1. /\ o \in Op /\ op'[o].kind = k /\ op'[o].to = s /\ \A p \in Op : p # o => op'[p] = op[p]
  BY StartFields DEF MuxInv
<1>2. \A p \in Op : p # o => (Accepting(p)' <=> Accepting(p)) /\ op'[p].to = op[p].to
  BY <1>1 DEF Accepting
<1>3. \A p \in Op : Accepting(p) => op[p].to \in Sock /\ handle[op[p].to] = Null /\ ~Unused(op[p].to)
  BY TargetInUse DEF MuxInv, OpInv
<1>4. Accepting(o)' => s \in Sock /\ Unused(s) /\ handle'[s] = Null
  BY <1>1 DEF Accepting, Unused
<1>5. \A p \in Op : Accepting(p)' => op'[p].to \in Sock /\ handle'[op'[p].to] = Null
  BY <1>1, <1>2, <1>3, <1>4
<1>6. \A p, q \in Op : Accepting(p) /\ Accepting(q) /\ op[p].to = op[q].to => p = q
  BY DEF MuxInv, OpInv, Targets
<1>7. \A p, q \in Op : Accepting(p)' /\ Accepting(q)' /\ op'[q].to = op'[p].to => q = p
  BY <1>1, <1>2, <1>3, <1>4, <1>6
<1> QED BY <1>5, <1>7 DEF Targets

\* The closures there are stay with their operations.
LEMMA StartSent ==
  ASSUME MuxInv, NEW o, NEW k, NEW d, NEW s, NEW e, StartOp(o, k, d, s, e)
  PROVE  Sent(Work, op')
<1>1. o \in Op /\ ~Started(o) /\ \A p \in Op : p # o => op'[p] = op[p]
  BY StartFields DEF MuxInv
<1>2. Work \in Seq(Closure) /\ Sent(Work, op) /\ Carry(Work, o) = 0
  BY <1>1, WorkType, FreshNowhere DEF MuxInv, OpInv
<1>3. \A i \in DOMAIN Work : Work[i].op # o
  BY <1>2, WorkNat
<1>4. \A i \in DOMAIN Work : Work[i] \in Closure
  BY <1>2
<1>5. \A i \in DOMAIN Work : Work[i].k = "dispatch" => Work[i].op \in Op
  BY <1>4, ClosureFields
<1> QED BY <1>1, <1>2, <1>3, <1>5 DEF Sent

\* The new operation has one place, the others keep theirs.
LEMMA StartPlaces ==
  ASSUME MuxInv, NEW o, NEW k, NEW d \in Desc \cup {Null}, NEW s, NEW e, StartOp(o, k, d, s, e), k # "none",
         \A p \in Op : p # o => Carry(Work', p) = Carry(Work, p) /\ \A x \in Desc : Queued(desc'[x], p) = Queued(desc[x], p),
         \A x \in Desc : x # d => Queued(desc'[x], o) = Queued(desc[x], o),
         Carry(Work', o) \in Nat, Carry(Work', o) + (IF d = Null THEN 0 ELSE Queued(desc'[d], o)) = 1
  PROVE  \A p \in Op : OpPlace(p)'
<1>1. /\ o \in Op /\ ~Started(o) /\ op'[o].kind = k /\ op'[o].desc = d /\ op'[o].calls = 0
      /\ (\A p \in Op : p # o => op'[p] = op[p]) /\ MuxTypes
  BY StartFields DEF MuxInv
<1>2. \A x \in Desc : Queued(desc[x], o) = 0
  BY <1>1, FreshNowhere
<1>3. OpPlace(o)'
  <2>1. Started(o)'
    BY <1>1 DEF Started
  <2> DEFINE a == Carry(Work', o)
             b == IF d = Null THEN 0 ELSE Queued(desc'[d], o)
  <2>2. Place(o)' = 0 + a + b /\ a + b = 1 /\ a \in Nat
    BY <1>1 DEF Place
  <2> HIDE DEF a, b
  <2>3. 0 + a = a
    BY <2>2
  <2>4. Place(o)' = 1
    BY <2>2, <2>3
  <2> QED BY <1>1, <1>2, <2>1, <2>4 DEF OpPlace, One
<1>4. ASSUME NEW p \in Op, p # o PROVE OpPlace(p)'
  <2>1. OpPlace(p) /\ op[p].desc \in Desc \cup {Null}
    BY <1>1, Numbers DEF MuxInv, OpInv
  <2> QED BY <1>1, <1>4, <2>1, OpFrame
<1> QED BY <1>3, <1>4

\* Who owns a descriptor, and what that excludes.
LEMMA Owned ==
  ASSUME MuxInv, NEW s \in Sock, NEW d, handle[s] = d, d # Null
  PROVE  /\ d \in Desc /\ desc[d].st = "live" /\ InService(d) /\ Tally(handle, {d}) = 1 /\ Closing(Work, d) = 0
         /\ \A i \in DOMAIN Work : Work[i].k = "unbind" => Work[i].desc # d
<1>1. d \in Desc /\ handle \in [Sock -> Desc \cup {Null}] /\ Work \in Seq(Closure) /\ MuxTypes
  BY WorkType DEF MuxInv, MuxTypes
<1>2. desc[d].st = "live" /\ InService(d)
  BY <1>1, Referred
<1>3. Tally(handle, {d}) # 0 /\ Tally(handle, {d}) \in Nat /\ Closing(Work, d) \in Nat
  BY <1>1, HandleNat, Numbers
<1>4. Tally(handle, {d}) + Closing(Work, d) = 1
  BY <1>2 DEF InService
<1> DEFINE a == Tally(handle, {d})
           b == Closing(Work, d)
<1>5. a = 1 /\ b = 0
  <2> HIDE DEF a, b
  <2>1. a # 0 /\ a \in Nat /\ b \in Nat /\ a + b = 1
    BY <1>3, <1>4 DEF a, b
  <2> QED BY <2>1
<1>6. \A i \in DOMAIN Work : ~(Work[i].desc = d /\ Work[i].k = "unbind")
  BY <1>1, <1>5, WorkNat
<1> QED BY <1>1, <1>2, <1>5, <1>6

\* A closure that carries no operation, or a new one.
LEMMA CarryAdd ==
  ASSUME NEW w \in Seq(Closure), NEW c \in Closure, NEW p
  PROVE  /\ c.op # p => Carry(Append(w, c), p) = Carry(w, p)
         /\ c.op = p => Carry(Append(w, c), p) = Carry(w, p) + 1
         /\ Carry(Append(w, c), p) \in Nat
<1>1. Carry(w, p) \in Nat /\ Carry(Append(w, c), p) = Carry(w, p) + Carries(c, p)
  BY WorkNat, WorkAdd
<1>2. (c.op = p => Carries(c, p) = 1) /\ (c.op # p => Carries(c, p) = 0)
  BY DEF Carries, One
<1> QED BY <1>1, <1>2

\* A closure is posted, and no descriptor made or deleted.
LEMMA EnginePost ==
  ASSUME MuxInv, MuxTypes', Len(Work') = Len(Work) + 1, active' = active + 1, \A x \in Desc : desc'[x].st = desc[x].st
  PROVE  Engine'
<1> DEFINE a == Len(Work)
           c == Tally(desc, LiveDesc)
<1>1. a \in Nat /\ c \in Nat /\ active = a + c
  BY Numbers DEF MuxInv, DescInv, Engine
<1>2. Tally(desc', LiveDesc) = c
  BY LiveChange DEF MuxInv, MuxTypes
<1>3. Engine' <=> active' = (a + 1) + c
  BY <1>2 DEF Engine
<1> HIDE DEF a, c
<1> QED BY <1>1, <1>3

\* A closure is taken.
LEMMA EngineTake ==
  ASSUME MuxInv, MuxTypes', Len(Work) = Len(Work') + 1, Len(Work') \in Nat, active' = active - 1,
         \A x \in Desc : desc'[x].st = desc[x].st
  PROVE  Engine'
<1> DEFINE a == Len(Work')
           c == Tally(desc, LiveDesc)
<1>1. a \in Nat /\ c \in Nat /\ active = (a + 1) + c
  BY Numbers DEF MuxInv, DescInv, Engine
<1>2. Tally(desc', LiveDesc) = c
  BY LiveChange DEF MuxInv, MuxTypes
<1>3. Engine' <=> active' = a + c
  BY <1>2 DEF Engine
<1> HIDE DEF a, c
<1> QED BY <1>1, <1>3

\* execute(), and a call that fails: the operation is answered through the
\* engine's queue.
LEMMA StepPlain ==
  ASSUME MuxInv, NEW o, NEW k \in Kind, k \notin {"none", "accept"}, NEW e \in Err, StartOp(o, k, Null, Null, e),
         execute_op(RunC(o)), UNCHANGED <<ops, loopVars, handle, desc, sock>>
  PROVE  MuxInv'
<1>1. /\ o \in Op /\ ~Started(o) /\ op' \in [Op -> OpType] /\ MuxTypes
      /\ RunC(o) \in Closure /\ RunC(o).k = "run" /\ RunC(o).op = o /\ RunC(o).desc = Null
  BY StartFields, ClosureType DEF MuxInv
<1> DEFINE c == RunC(o)
<1>2. c \in Closure /\ opq' = Append(opq, c) /\ ops' = ops /\ active' = active + 1 /\ UNCHANGED <<lpc, evs, cur>>
  BY <1>1 DEF execute_op, loopVars
<1>c. c.k = "run" /\ c.op = o /\ c.desc = Null
  BY <1>1
<1> HIDE DEF c
<1>3. opq' \in Seq(Closure) /\ Work' = Append(Work, c) /\ Work \in Seq(Closure)
  BY <1>1, <1>2, Posts, WorkType
<1>4. MuxTypes'
  BY <1>1, <1>2, <1>3 DEF MuxTypes
<1>5. LoopShape'
  BY <1>2 DEF MuxInv, LoopShape
<1>6. Sent(Work', op')
  <2>1. Sent(Work, op')
    BY StartSent
  <2> QED BY <1>2, <1>c, <1>3, <2>1, SentChange
<1>7. Targets'
  BY StartTargets
<1>8. \A p \in Op : OpPlace(p)'
  <2>1. \A p \in Op : p # o => Carry(Work', p) = Carry(Work, p)
    BY <1>2, <1>c, <1>3, CarryAdd
  <2>2. Carry(Work, o) = 0
    BY <1>1, FreshNowhere
  <2>3. Carry(Work', o) = Carry(Work, o) + 1 /\ Carry(Work', o) \in Nat
    BY <1>2, <1>c, <1>3, CarryAdd
  <2>4. Carry(Work', o) = 1
    BY <2>2, <2>3
  <2>5. Carry(Work', o) + (IF Null = Null THEN 0 ELSE Queued(desc'[Null], o)) = 1
    BY <2>4
  <2>6. Null \in Desc \cup {Null} /\ k # "none" /\ \A x \in Desc, p \in Op : Queued(desc'[x], p) = Queued(desc[x], p)
    OBVIOUS
  <2> QED BY <1>1, <2>1, <2>3, <2>5, <2>6, StartPlaces
<1>9. Engine'
  <2>1. Len(Work') = Len(Work) + 1
    BY <1>2, <1>3, WorkAdd
  <2> QED BY <1>2, <1>4, <2>1, EnginePost
<1>10. Ordered(Work)'
  <2>1. Ordered(Work) /\ \A i \in DOMAIN Work : Work[i] \in Closure
    BY <1>3 DEF MuxInv, DescInv
  <2>2. \A i \in DOMAIN Work : Work[i].k = "unbind" => Work[i].desc # Null
    BY <2>1, ClosureFields, MuxAssumption
  <2>3. Ordered(Append(Work, c))
    BY <1>2, <1>c, <1>3, <2>1, <2>2, OrderAdd
  <2> QED BY <1>3, <2>3
<1>11. ASSUME NEW x \in Desc PROVE DescOK(x)'
  <2>1. c.desc # x /\ DescOK(x) /\ (desc[x].st # "live" => evs[x] = {} /\ ~InUse(cur, x))
    BY <1>c, MuxAssumption, Referred DEF MuxInv, DescInv
  <2>2. /\ Counted(Work', x) = Counted(Work, x) /\ Closing(Work', x) = Closing(Work, x)
        /\ (\A i \in DOMAIN Work : Work[i].desc # x) => \A i \in DOMAIN Work' : Work'[i].desc # x
    BY <1>2, <1>3, <2>1, AddOther
  <2> QED BY <1>2, <2>1, <2>2, DescFrame
<1> QED BY <1>4, <1>5, <1>6, <1>7, <1>8, <1>9, <1>10, <1>11 DEF MuxInv, OpInv, DescInv

\* read, write and accept: the closure holds a reference.
LEMMA StepPostIo ==
  ASSUME MuxInv, NEW s \in Sock, NEW o, NEW k \in Kind, k # "none", NEW to \in Sock \cup {Null}, NEW states,
         post_io(s, o, k, to, states), k = "accept" => to \in Sock /\ Unused(to)
  PROVE  MuxInv'
<1>0. PICK d : d = handle[s]
  OBVIOUS
<1>1. /\ d # Null /\ StartOp(o, k, d, to, "none") /\ execute_op(DispC(d, o))
      /\ desc' = [desc EXCEPT ![d].ref = @ + 1] /\ UNCHANGED <<ops, lpc, evs, cur, handle, sock>>
  BY <1>0 DEF post_io, loopVars
<1>2. /\ d \in Desc /\ desc[d].st = "live" /\ InService(d)
      /\ \A i \in DOMAIN Work : Work[i].k = "unbind" => Work[i].desc # d
  BY <1>0, <1>1, Owned
<1>3. MuxTypes /\ "none" \in Err /\ d \in Desc \cup {Null}
  BY <1>2 DEF MuxInv, Err
<1>4. o \in Op /\ ~Started(o) /\ op' \in [Op -> OpType] /\ op'[o].desc = d
  BY <1>1, <1>3, StartFields
<1> DEFINE c == DispC(d, o)
<1>5. c \in Closure /\ c.k = "dispatch" /\ c.op = o /\ c.desc = d
  BY <1>2, <1>4, ClosureType
<1>6. opq' = Append(opq, c) /\ active' = active + 1
  BY <1>1 DEF execute_op
<1> HIDE DEF c
<1>7. opq' \in Seq(Closure) /\ Work' = Append(Work, c) /\ Work \in Seq(Closure)
  BY <1>1, <1>3, <1>5, <1>6, Posts, WorkType
<1>8. /\ desc \in [Desc -> DescType] /\ desc' \in [Desc -> DescType] /\ desc'[d].ref = desc[d].ref + 1
      /\ \A x \in Desc : desc'[x].st = desc[x].st /\ desc'[x].fd = desc[x].fd /\ desc'[x].q = desc[x].q
                           /\ (x # d => desc'[x] = desc[x])
  BY <1>1, <1>2, <1>3, SMTT(20) DEF MuxTypes, DescType
<1>9. MuxTypes'
  BY <1>1, <1>3, <1>4, <1>6, <1>7, <1>8 DEF MuxTypes
<1>10. LoopShape'
  BY <1>1 DEF MuxInv, LoopShape
<1>11. Sent(Work', op')
  <2>1. Sent(Work, op')
    BY <1>1, StartSent
  <2> QED BY <1>4, <1>5, <1>7, <2>1, SentChange
<1>12. Targets'
  BY <1>1, StartTargets
<1>13. \A p : \A x \in Desc : Queued(desc'[x], p) = Queued(desc[x], p)
  BY <1>8 DEF Queued
<1>14. \A p \in Op : OpPlace(p)'
  <2>1. \A p \in Op : p # o => Carry(Work', p) = Carry(Work, p)
    BY <1>5, <1>7, CarryAdd
  <2>2. Carry(Work, o) = 0 /\ Queued(desc[d], o) = 0
    BY <1>2, <1>4, FreshNowhere
  <2>3. Carry(Work', o) = Carry(Work, o) + 1 /\ Carry(Work', o) \in Nat
    BY <1>5, <1>7, CarryAdd
  <2>4. Carry(Work', o) = 1 /\ Queued(desc'[d], o) = 0
    BY <1>2, <1>13, <2>2, <2>3
  <2>5. Carry(Work', o) + (IF d = Null THEN 0 ELSE Queued(desc'[d], o)) = 1
    BY <2>4
  <2> QED BY <1>1, <1>3, <1>13, <2>1, <2>3, <2>5, StartPlaces
<1>15. Engine'
  <2>1. Len(Work') = Len(Work) + 1
    BY <1>5, <1>7, WorkAdd
  <2> QED BY <1>6, <1>8, <1>9, <2>1, EnginePost
<1>16. Ordered(Work)'
  <2>1. Ordered(Work)
    BY DEF MuxInv, DescInv
  <2>2. Ordered(Append(Work, c))
    BY <1>2, <1>5, <1>7, <2>1, OrderAdd
  <2> QED BY <1>7, <2>2
<1>17. ASSUME NEW x \in Desc, x # d PROVE DescOK(x)'
  <2>1. c.desc # x /\ DescOK(x) /\ (desc[x].st # "live" => evs[x] = {} /\ ~InUse(cur, x))
    BY <1>5, <1>17, Referred DEF MuxInv, DescInv
  <2>2. /\ Counted(Work', x) = Counted(Work, x) /\ Closing(Work', x) = Closing(Work, x)
        /\ (\A i \in DOMAIN Work : Work[i].desc # x) => \A i \in DOMAIN Work' : Work'[i].desc # x
    BY <1>5, <1>7, <2>1, AddOther
  <2> QED BY <1>1, <1>8, <1>17, <2>1, <2>2, DescFrame
<1>18. DescOK(d)'
  <2> DEFINE a == Tally(handle, {d})
             b == Counted(Work, d)
             m == One(InUse(cur, d) /\ cur.release)
  <2>1. Counts(c, d) = 1 /\ Closes(c, d) = 0
    BY <1>5 DEF Counts, Closes, One
  <2>2. Counted(Work', d) = b + 1 /\ Closing(Work', d) = Closing(Work, d) + 0 /\ Closing(Work, d) \in Nat
    BY <1>3, <1>5, <1>7, <2>1, WorkAdd, Numbers
  <2>3. a \in Nat /\ b \in Nat /\ m \in Nat /\ desc[d].ref = a + b + m
    BY <1>2, <1>3, Numbers, OneNat DEF InService
  <2>4. Closing(Work', d) = Closing(Work, d)
    BY <2>2
  <2>5. desc'[d].ref = a + (b + 1) + m
    <3> HIDE DEF a, b, m
    <3> QED BY <1>8, <2>3
  <2>6. InService(d)'
    BY <1>1, <1>2, <1>8, <2>2, <2>4, <2>5 DEF InService
  <2> QED BY <1>2, <1>8, <2>6 DEF DescOK
<1> QED BY <1>9, <1>10, <1>11, <1>12, <1>14, <1>15, <1>16, <1>17, <1>18 DEF MuxInv, OpInv, DescInv

\* close: the socket object's reference goes to the closure.
LEMMA StepUnbind ==
  ASSUME MuxInv, NEW s \in Sock, unbind(s)
  PROVE  MuxInv'
<1>0. PICK d : d = handle[s]
  OBVIOUS
<1>1. /\ d # Null /\ handle' = [handle EXCEPT ![s] = Null] /\ execute_op(UnbindC(d))
      /\ UNCHANGED <<ops, lpc, evs, cur, desc, sock, op>>
  BY <1>0 DEF unbind, loopVars
<1>2. /\ d \in Desc /\ desc[d].st = "live" /\ InService(d) /\ Tally(handle, {d}) = 1 /\ Closing(Work, d) = 0
      /\ \A i \in DOMAIN Work : Work[i].k = "unbind" => Work[i].desc # d
  BY <1>0, <1>1, Owned
<1>3. MuxTypes /\ handle \in [Sock -> Desc \cup {Null}] /\ handle' \in [Sock -> Desc \cup {Null}]
      /\ handle'[s] = Null /\ \A y \in Sock : y # s => handle'[y] = handle[y]
  BY <1>1 DEF MuxInv, MuxTypes
<1> DEFINE c == UnbindC(d)
<1>5. c \in Closure /\ c.k = "unbind" /\ c.op = Null /\ c.desc = d
  BY <1>2, ClosureType
<1>6. opq' = Append(opq, c) /\ active' = active + 1
  BY <1>1 DEF execute_op
<1> HIDE DEF c
<1>7. opq' \in Seq(Closure) /\ Work' = Append(Work, c) /\ Work \in Seq(Closure)
  BY <1>1, <1>3, <1>5, <1>6, Posts, WorkType
<1>8. MuxTypes'
  BY <1>1, <1>3, <1>6, <1>7 DEF MuxTypes
<1>9. LoopShape'
  BY <1>1 DEF MuxInv, LoopShape
<1>10. OpInv'
  <2>1. \A p \in Op : Carry(Work', p) = Carry(Work, p)
    BY <1>5, <1>7, CarryAdd, MuxAssumption
  <2>2. Sent(Work', op')
    BY <1>1, <1>5, <1>7, SentChange DEF MuxInv, OpInv
  <2> QED BY <1>1, <1>3, <2>1, <2>2, OpKeep
<1>11. Engine'
  <2>1. Len(Work') = Len(Work) + 1
    BY <1>5, <1>7, WorkAdd
  <2> QED BY <1>1, <1>6, <1>8, <2>1, EnginePost
<1>12. Ordered(Work)'
  <2>1. Ordered(Work)
    BY DEF MuxInv, DescInv
  <2>2. Ordered(Append(Work, c))
    BY <1>2, <1>5, <1>7, <2>1, OrderAdd
  <2> QED BY <1>7, <2>2
<1>13. ASSUME NEW x \in Desc, x # d PROVE DescOK(x)'
  <2>1. c.desc # x /\ DescOK(x) /\ (desc[x].st # "live" => evs[x] = {} /\ ~InUse(cur, x)) /\ x # Null
    BY <1>5, <1>13, Referred, MuxAssumption DEF MuxInv, DescInv
  <2>2. /\ Counted(Work', x) = Counted(Work, x) /\ Closing(Work', x) = Closing(Work, x)
        /\ (\A i \in DOMAIN Work : Work[i].desc # x) => \A i \in DOMAIN Work' : Work'[i].desc # x
    BY <1>5, <1>7, <2>1, AddOther
  <2>3. Tally(handle', {x}) = Tally(handle, {x})
    BY <1>0, <1>3, <1>13, <2>1, HandleChange
  <2> QED BY <1>1, <2>1, <2>2, <2>3, DescFrame
<1>14. DescOK(d)'
  <2> DEFINE b == Counted(Work, d)
             m == One(InUse(cur, d) /\ cur.release)
  <2>1. Counts(c, d) = 1 /\ Closes(c, d) = 1
    BY <1>5 DEF Counts, Closes, One
  <2>2. Counted(Work', d) = b + 1 /\ Closing(Work', d) = 0 + 1
    BY <1>2, <1>3, <1>5, <1>7, <2>1, WorkAdd
  <2>3. b \in Nat /\ m \in Nat /\ desc[d].ref = 1 + b + m /\ desc[d].fd
    BY <1>2, <1>3, Numbers, OneNat DEF InService
  <2>h. handle[s] = d /\ handle'[s] # d
    BY <1>0, <1>1, <1>3
  <2>g. Tally(handle, {d}) = Tally(handle', {d}) + 1
    BY <1>3, <2>h, HandleChange
  <2>4. Tally(handle, {d}) = Tally(handle', {d}) + 1 /\ Tally(handle', {d}) \in Nat
    BY <1>3, <2>g, HandleNat
  <2>5. Tally(handle', {d}) = 0
    BY <1>2, <2>4
  <2>6. desc[d].ref = 0 + (b + 1) + m
    <3> HIDE DEF b, m
    <3> QED BY <2>3
  <2>7. InService(d)'
    BY <1>1, <2>2, <2>3, <2>5, <2>6 DEF InService
  <2> QED BY <1>1, <1>2, <2>7 DEF DescOK
<1> QED BY <1>8, <1>9, <1>10, <1>11, <1>12, <1>13, <1>14 DEF MuxInv, DescInv

\* The closure of bind goes behind what there is, in poll and select.
BindPosts(w, v, d) == v = w \/ v = Append(w, BindC(d))

\* It is not counted, carries no operation and comes first of its descriptor.
LEMMA BindAdd ==
  ASSUME NEW w \in Seq(Closure), NEW d \in Desc, NEW v, BindPosts(w, v, d), \A i \in DOMAIN w : w[i].desc # d
  PROVE  /\ v \in Seq(Closure) /\ (Ordered(w) => Ordered(v)) /\ \A p \in Op : Carry(v, p) = Carry(w, p)
         /\ \A x \in Desc : /\ Counted(v, x) = Counted(w, x) /\ Closing(v, x) = Closing(w, x)
                            /\ x # d /\ (\A i \in DOMAIN w : w[i].desc # x) => \A i \in DOMAIN v : v[i].desc # x
         /\ \A u : Sent(w, u) => Sent(v, u)
         /\ \A i \in DOMAIN v : v[i].k = "unbind" => v[i].desc # d
<1>1. CASE v = w
  BY <1>1
<1>2. CASE v = Append(w, BindC(d))
  <2> DEFINE c == BindC(d)
  <2>1. c \in Closure /\ c.k = "bind" /\ c.op = Null /\ c.desc = d
    BY ClosureType
  <2>2. v = Append(w, c)
    BY <1>2
  <2> HIDE DEF c
  <2>3. v \in Seq(Closure)
    BY <2>1, <2>2
  <2>4. Ordered(w) => Ordered(v)
    BY <2>1, <2>2, OrderAdd
  <2>5. \A p \in Op : Carry(v, p) = Carry(w, p)
    BY <2>1, <2>2, CarryAdd, MuxAssumption
  <2>6. ASSUME NEW x \in Desc PROVE Counted(v, x) = Counted(w, x) /\ Closing(v, x) = Closing(w, x)
    <3>1. Counts(c, x) = 0 /\ Closes(c, x) = 0
      BY <2>1 DEF Counts, Closes, One
    <3>2. Counted(v, x) = Counted(w, x) + 0 /\ Closing(v, x) = Closing(w, x) + 0
      BY <2>1, <2>2, <3>1, WorkAdd
    <3>3. Counted(w, x) \in Nat /\ Closing(w, x) \in Nat
      BY WorkNat
    <3> QED BY <3>2, <3>3
  <2>7. ASSUME NEW x \in Desc, x # d, \A i \in DOMAIN w : w[i].desc # x PROVE \A i \in DOMAIN v : v[i].desc # x
    BY <2>1, <2>2, <2>7, AddOther
  <2>8. ASSUME NEW u, Sent(w, u) PROVE Sent(v, u)
    BY <2>1, <2>2, <2>8, SentChange
  <2>9. \A i \in DOMAIN v : (i \in DOMAIN w /\ v[i] = w[i]) \/ v[i] = c
    BY <2>1, <2>2
  <2>10. \A i \in DOMAIN v : v[i].k = "unbind" => v[i].desc # d
    BY <2>1, <2>9
  <2> QED BY <2>3, <2>4, <2>5, <2>6, <2>7, <2>8, <2>10
<1> QED BY <1>1, <1>2 DEF BindPosts

\* What a call posts for a new descriptor, and a closure behind it.
LEMMA PostsBind ==
  ASSUME MuxTypes, NEW d \in Desc, NEW b \in {<<>>, <<BindC(d)>>}, ops' = ops
  PROVE  /\ Len(b) \in Nat
         /\ opq' = opq \o b => /\ opq' \in Seq(Closure) /\ BindPosts(Work, Work', d)
                               /\ Len(Work') = Len(Work) + Len(b)
         /\ \A c \in Closure : opq' = opq \o (b \o <<c>>) =>
              /\ opq' \in Seq(Closure) /\ Len(b \o <<c>>) = Len(b) + 1
              /\ \E v : BindPosts(Work, v, d) /\ Len(v) = Len(Work) + Len(b) /\ Work' = Append(v, c)
<1>1. opq \in Seq(Closure) /\ ops \in Seq(Closure) /\ Work \in Seq(Closure) /\ Work = ops \o opq /\ Work' = ops \o opq'
  BY WorkType DEF Work
<1>2. BindC(d) \in Closure
  BY ClosureType
<1> DEFINE e == BindC(d)
<1>3. e \in Closure /\ b \in {<<>>, <<e>>}
  BY <1>2
<1>4. e = BindC(d)
  OBVIOUS
<1> HIDE DEF e
<1>5. b \in Seq(Closure) /\ Len(b) \in Nat /\ \A c \in Closure : <<c>> \in Seq(Closure)
  <2>1. <<>> \in Seq(Closure) /\ \A c \in Closure : <<c>> \in Seq(Closure)
    OBVIOUS
  <2>2. b \in Seq(Closure)
    BY <1>3, <2>1
  <2> QED BY <2>1, <2>2
<1>6. opq \o b \in Seq(Closure) /\ ops \o (opq \o b) = Work \o b /\ Len(Work \o b) = Len(Work) + Len(b)
  <2>1. ops \o (opq \o b) = (ops \o opq) \o b
    BY ONLY <1>1, <1>5, ConcatAssociative
  <2> QED BY <1>1, <1>5, <2>1
<1>7. BindPosts(Work, Work \o b, d)
  <2>1. CASE b = <<>>
    BY <1>1, <2>1, ConcatEmptySeq DEF BindPosts
  <2>2. CASE b = <<e>>
    BY <1>1, <1>3, <1>4, <2>2, AppendIsConcat DEF BindPosts
  <2> QED BY <1>3, <2>1, <2>2
<1>8. ASSUME NEW c \in Closure, opq' = opq \o (b \o <<c>>)
      PROVE  /\ opq' \in Seq(Closure) /\ Len(b \o <<c>>) = Len(b) + 1
             /\ \E v : BindPosts(Work, v, d) /\ Len(v) = Len(Work) + Len(b) /\ Work' = Append(v, c)
  <2> DEFINE u == <<c>>
             v == Work \o b
  <2>1. u \in Seq(Closure) /\ Len(b \o u) = Len(b) + 1 /\ b \o u \in Seq(Closure) /\ v \in Seq(Closure)
    BY <1>1, <1>5
  <2>2. opq \o (b \o u) \in Seq(Closure)
    BY <1>1, <2>1
  <2>3. ops \o (opq \o (b \o u)) = v \o u
    <3> DEFINE t == b \o u
    <3>1. t \in Seq(Closure) /\ ops \in Seq(Closure) /\ opq \in Seq(Closure)
      BY <1>1, <2>1
    <3>0. Work \in Seq(Closure) /\ b \in Seq(Closure) /\ u \in Seq(Closure)
      BY <1>1, <1>5, <2>1
    <3> HIDE DEF t
    <3>2. ops \o (opq \o t) = (ops \o opq) \o t
      BY ONLY <3>1, ConcatAssociative
    <3> HIDE DEF u
    <3>3. Work \o (b \o u) = (Work \o b) \o u
      BY ONLY <3>0, ConcatAssociative, SMTT(20)
    <3> QED BY <1>1, <3>2, <3>3 DEF t
  <2>4. v \o u = Append(v, c)
    <3> HIDE DEF v
    <3> QED BY <2>1, AppendIsConcat
  <2>5. BindPosts(Work, v, d) /\ Len(v) = Len(Work) + Len(b) /\ Work' = Append(v, c)
    BY <1>1, <1>6, <1>7, <1>8, <2>3, <2>4
  <2>6. opq' \in Seq(Closure) /\ Len(b \o <<c>>) = Len(b) + 1
    BY <1>8, <2>1, <2>2
  <2> HIDE DEF u, v
  <2> QED BY <2>5, <2>6
<1> QED BY <1>1, <1>5, <1>6, <1>7, <1>8

\* A new descriptor: nothing is left of, or refers to, what is not in service.
LEMMA NewGone ==
  ASSUME MuxInv, NEW d \in NewDesc
  PROVE  d \in Desc /\ desc[d].st = "new" /\ Gone(d)
<1>1. d \in Desc /\ desc[d].st = "new"
  BY DEF NewDesc
<1>2. DescOK(d)
  BY <1>1 DEF MuxInv, DescInv
<1> QED BY <1>1, <1>2 DEF DescOK

\* It has no closures and no operations.
LEMMA GoneCounts ==
  ASSUME MuxTypes, NEW d \in Desc, Gone(d)
  PROVE  Counted(Work, d) = 0 /\ Closing(Work, d) = 0 /\ \A p : Queued(desc[d], p) = 0
<1>1. Work \in Seq(Closure) /\ \A i \in DOMAIN Work : Work[i].desc # d
  BY WorkType DEF Gone
<1>2. Counted(Work, d) = 0 /\ Closing(Work, d) = 0
  BY <1>1, WorkNat
<1> QED BY <1>2, QueuedEmpty DEF Gone

\* A new descriptor in a socket object that was empty, and what is posted.
Created(d, s, wq, ref, b) ==
  /\ d \in Desc /\ desc[d].st = "new" /\ Gone(d) /\ Unused(s) /\ handle[s] = Null
  /\ desc'[d].st = "live" /\ desc'[d].fd = TRUE /\ desc'[d].ref = ref
  /\ desc'[d].q["read"] = <<>> /\ desc'[d].q["write"] = wq
  /\ desc' \in [Desc -> DescType] /\ sock' \in [Desc -> SockType] /\ handle' \in [Sock -> Desc \cup {Null}]
  /\ \A x \in Desc : x # d => desc'[x] = desc[x] /\ sock'[x] = sock[x]
  /\ handle'[s] = d /\ \A y \in Sock : y # s => handle'[y] = handle[y]
  /\ opq' = opq \o b /\ active' = active + 1 + Len(b)

\* What the constructor of a descriptor and the assignment to its socket object
\* leave.
LEMMA Creates ==
  ASSUME MuxInv, NEW d, NEW s \in Sock, NEW st \in {"connecting", "listening", "dgram"}, NEW wq \in Seq(Op),
         NEW ref \in Nat, NEW b, create(d, s, st, wq, ref, b)
  PROVE  Created(d, s, wq, ref, b)
<1> DEFINE y == [st |-> "live", fd |-> TRUE, ref |-> ref, q |-> [NoQ EXCEPT !["write"] = wq]]
           z == [st |-> st, rx |-> 0, tx |-> MaxReady]
<1>1. /\ d \in NewDesc /\ Unused(s) /\ desc' = [desc EXCEPT ![d] = y] /\ sock' = [sock EXCEPT ![d] = z]
      /\ handle' = [handle EXCEPT ![s] = d] /\ opq' = opq \o b /\ active' = active + 1 + Len(b)
  BY DEF create
<1>2. d \in Desc /\ desc[d].st = "new" /\ Gone(d) /\ handle[s] = Null
  BY <1>1, NewGone DEF Unused
<1>3. NoQ = [e \in Ev |-> <<>>] /\ Ev = {"read", "write"}
  BY DEF NoQ, Ev
<1>4. y.q \in QType /\ y.q["read"] = <<>> /\ y.q["write"] = wq
  <2>1. NoQ \in [Ev -> Seq(Op)] /\ NoQ["read"] = <<>>
    BY <1>3
  <2>2. y.q = [NoQ EXCEPT !["write"] = wq]
    OBVIOUS
  <2> QED BY <1>3, <2>1, <2>2 DEF QType
<1>5. y \in DescType /\ y.st = "live" /\ y.fd = TRUE /\ y.ref = ref
  BY <1>4 DEF DescType
<1>6. z \in SockType
  BY MuxAssumption DEF SockType
<1>7. desc \in [Desc -> DescType] /\ sock \in [Desc -> SockType] /\ handle \in [Sock -> Desc \cup {Null}]
  BY DEF MuxInv, MuxTypes
<1> HIDE DEF y, z
<1>8. /\ desc' \in [Desc -> DescType] /\ sock' \in [Desc -> SockType] /\ handle' \in [Sock -> Desc \cup {Null}]
      /\ desc'[d] = y
      /\ \A x \in Desc : x # d => desc'[x] = desc[x] /\ sock'[x] = sock[x]
      /\ handle'[s] = d /\ \A t \in Sock : t # s => handle'[t] = handle[t]
  BY <1>1, <1>2, <1>5, <1>6, <1>7
<1> QED BY <1>1, <1>2, <1>4, <1>5, <1>8 DEF Created

\* A descriptor is born: owned by a socket object, and held by n closures.
LEMMA Born ==
  ASSUME MuxInv, MuxTypes', NEW d \in Desc, Gone(d), desc[d].st # "live", NEW n \in Nat,
         desc'[d].st = "live", desc'[d].fd = TRUE, desc'[d].ref = 1 + n, ~InUse(cur', d),
         NEW s \in Sock, handle[s] = Null, handle'[s] = d, \A y \in Sock : y # s => handle'[y] = handle[y],
         Counted(Work', d) = n, Closing(Work', d) = 0, Ordered(Work'),
         NEW m \in Nat, Len(Work') = Len(Work) + m, active' = active + 1 + m,
         \A x \in Desc : x # d => desc'[x].st = desc[x].st,
         \A x \in Desc : x # d /\ Tally(handle', {x}) = Tally(handle, {x}) => DescOK(x)'
  PROVE  DescInv'
<1>1. handle \in [Sock -> Desc \cup {Null}] /\ handle' \in [Sock -> Desc \cup {Null}]
      /\ desc \in [Desc -> DescType] /\ desc' \in [Desc -> DescType]
  BY DEF MuxInv, MuxTypes
<1>h. s \in Sock /\ d \in Desc /\ handle[s] = Null /\ handle'[s] = d /\ \A y \in Sock : y # s => handle'[y] = handle[y]
  OBVIOUS
<1>g. Given(handle, handle', d)
  <2> DEFINE h == handle
             g == handle'
  <2>1. /\ h \in [Sock -> Desc \cup {Null}] /\ g \in [Sock -> Desc \cup {Null}] /\ s \in Sock /\ d \in Desc
        /\ h[s] = Null /\ g[s] = d /\ \A y \in Sock : y # s => g[y] = h[y]
    BY ONLY <1>1, <1>h
  <2> HIDE DEF h, g
  <2>2. Given(h, g, d)
    BY ONLY <2>1, HandleSet
  <2> QED BY ONLY <2>2 DEF h, g
<1>2. \A x \in Desc : Tally(handle', {x}) = Tally(handle, {x}) + One(d = x)
  BY ONLY <1>g DEF Given
<1>3. DescOK(d)'
  <2>1. Tally(handle', {d}) = 0 + 1
    BY <1>2 DEF Gone, One
  <2>2. One(InUse(cur', d) /\ cur'.release) = 0
    BY DEF One
  <2>3. InService(d)'
    BY <2>1, <2>2 DEF InService
  <2> QED BY <2>3 DEF DescOK
<1>4. ASSUME NEW x \in Desc, x # d PROVE DescOK(x)'
  <2>1. Tally(handle', {x}) = Tally(handle, {x}) + 0 /\ Tally(handle, {x}) \in Nat
    BY <1>1, <1>2, <1>4, HandleNat DEF One
  <2>2. Tally(handle', {x}) = Tally(handle, {x})
    BY <2>1
  <2> QED BY <1>4, <2>2
<1>5. Engine'
  <2> DEFINE es == [x \in Desc |-> IF x = d THEN desc'[d] ELSE desc[x]]
             a == Len(Work)
             c == Tally(desc, LiveDesc)
  <2>1. es \in [Desc -> DescType] /\ es[d].st = "live" /\ (\A x \in Desc : x # d => es[x] = desc[x])
        /\ \A x \in Desc : desc'[x].st = es[x].st
    BY <1>1
  <2> HIDE DEF es
  <2>2. Tally(es, LiveDesc) = c + 1
    BY <1>1, <2>1, LiveChange
  <2>3. Tally(desc', LiveDesc) = Tally(es, LiveDesc)
    BY <1>1, <2>1, LiveChange
  <2>4. a \in Nat /\ c \in Nat /\ active = a + c
    BY Numbers DEF MuxInv, DescInv, Engine
  <2>5. Engine' <=> active' = (a + m) + (c + 1)
    BY <2>2, <2>3 DEF Engine
  <2> HIDE DEF a, c
  <2> QED BY <2>4, <2>5
<1> QED BY <1>3, <1>4, <1>5 DEF DescInv

\* A call creates a descriptor.
LEMMA Opens ==
  ASSUME MuxInv, MuxTypes', NEW d, NEW s \in Sock, NEW st \in {"connecting", "listening", "dgram"}, NEW wq \in Seq(Op),
         NEW ref \in Nat, NEW b, create(d, s, st, wq, ref, b), UNCHANGED <<evs, cur>>,
         NEW n \in Nat, ref = 1 + n, Len(b) \in Nat, Len(Work') = Len(Work) + Len(b), Ordered(Work'),
         Counted(Work', d) = n, Closing(Work', d) = 0,
         \A x \in Desc : x # d => /\ Counted(Work', x) = Counted(Work, x) /\ Closing(Work', x) = Closing(Work, x)
                                  /\ (\A i \in DOMAIN Work : Work[i].desc # x) => \A i \in DOMAIN Work' : Work'[i].desc # x
  PROVE  DescInv'
<1>c. Created(d, s, wq, ref, b)
  BY Creates
<1>1. /\ d \in Desc /\ desc[d].st = "new" /\ Gone(d) /\ handle[s] = Null
      /\ desc'[d].st = "live" /\ desc'[d].fd = TRUE /\ desc'[d].ref = ref
      /\ \A x \in Desc : x # d => desc'[x] = desc[x] /\ sock'[x] = sock[x]
      /\ handle'[s] = d /\ \A y \in Sock : y # s => handle'[y] = handle[y]
      /\ active' = active + 1 + Len(b)
  BY <1>c DEF Created
<1>2. ~InUse(cur', d)
  BY <1>1 DEF Gone
<1>3. ASSUME NEW x \in Desc, x # d, Tally(handle', {x}) = Tally(handle, {x}) PROVE DescOK(x)'
  <2>1. DescOK(x) /\ (desc[x].st # "live" => evs[x] = {} /\ ~InUse(cur, x))
    BY Referred DEF MuxInv, DescInv
  <2> QED BY <1>1, <1>3, <2>1, DescFrame
<1> DEFINE m == Len(b)
<1>4. /\ d \in Desc /\ Gone(d) /\ desc[d].st # "live" /\ n \in Nat /\ desc'[d].st = "live" /\ desc'[d].fd = TRUE
      /\ desc'[d].ref = 1 + n /\ ~InUse(cur', d) /\ s \in Sock /\ handle[s] = Null /\ handle'[s] = d
      /\ (\A y \in Sock : y # s => handle'[y] = handle[y]) /\ Counted(Work', d) = n /\ Closing(Work', d) = 0
      /\ Ordered(Work') /\ m \in Nat /\ Len(Work') = Len(Work) + m /\ active' = active + 1 + m
      /\ (\A x \in Desc : x # d => desc'[x].st = desc[x].st) /\ MuxInv /\ MuxTypes'
  BY <1>1, <1>2
<1>5. \A x \in Desc : x # d /\ Tally(handle', {x}) = Tally(handle, {x}) => DescOK(x)'
  BY <1>3
<1> HIDE DEF m
<1> QED BY ONLY <1>4, <1>5, Born

\* listen(), and bind() of a datagram socket.
LEMMA StepOpen ==
  ASSUME MuxInv, NEW d \in Desc, NEW s \in Sock, NEW st \in {"listening", "dgram"}, NEW b \in {<<>>, <<BindC(d)>>},
         create(d, s, st, <<>>, 1, b), UNCHANGED <<ops, loopVars, op>>
  PROVE  MuxInv'
<1>0. PICK n, wq, ref : n = 0 /\ wq = <<>> /\ ref = 1
  OBVIOUS
<1>1. n \in Nat /\ wq \in Seq(Op) /\ ref \in Nat /\ ref = 1 + n /\ create(d, s, st, wq, ref, b)
      /\ st \in {"connecting", "listening", "dgram"} /\ UNCHANGED <<lpc, evs, cur>>
  BY <1>0 DEF loopVars
<1>c. Created(d, s, wq, ref, b)
  BY <1>1, Creates
<1>2. /\ d \in Desc /\ Gone(d) /\ Unused(s)
      /\ desc'[d].q["read"] = <<>> /\ desc'[d].q["write"] = <<>>
      /\ desc' \in [Desc -> DescType] /\ sock' \in [Desc -> SockType] /\ handle' \in [Sock -> Desc \cup {Null}]
      /\ \A x \in Desc : x # d => desc'[x] = desc[x]
      /\ handle'[s] = d /\ \A y \in Sock : y # s => handle'[y] = handle[y]
      /\ opq' = opq \o b /\ active' = active + 1 + Len(b)
  BY <1>0, <1>c DEF Created
<1>3. MuxTypes /\ Work \in Seq(Closure) /\ \A i \in DOMAIN Work : Work[i].desc # d
  BY <1>2, WorkType DEF MuxInv, Gone
<1>4. Len(b) \in Nat /\ opq' \in Seq(Closure) /\ BindPosts(Work, Work', d) /\ Len(Work') = Len(Work) + Len(b)
  BY <1>2, <1>3, PostsBind
<1>5. /\ Ordered(Work') /\ (\A p \in Op : Carry(Work', p) = Carry(Work, p)) /\ Sent(Work', op)
      /\ \A x \in Desc : /\ Counted(Work', x) = Counted(Work, x) /\ Closing(Work', x) = Closing(Work, x)
                         /\ x # d /\ (\A i \in DOMAIN Work : Work[i].desc # x) => \A i \in DOMAIN Work' : Work'[i].desc # x
  <2>1. Ordered(Work) /\ Sent(Work, op)
    BY DEF MuxInv, OpInv, DescInv
  <2> QED BY <1>3, <1>4, <2>1, BindAdd
<1>6. MuxTypes'
  <2>1. active' \in Int
    BY <1>2, <1>3, <1>4, Numbers
  <2> QED BY <1>1, <1>2, <1>3, <1>4, <2>1 DEF MuxTypes
<1>7. LoopShape'
  BY <1>1 DEF MuxInv, LoopShape
<1>8. OpInv'
  <2>1. \A x \in Desc, p \in Op : Queued(desc'[x], p) = Queued(desc[x], p)
    <3>1. \A p : Queued(desc[d], p) = 0 /\ Queued(desc'[d], p) = 0
      BY <1>2, <1>3, GoneCounts, QueuedEmpty
    <3> QED BY <1>2, <3>1
  <2> QED BY <1>2, <1>5, <2>1, OpKeep
<1>9. DescInv'
  <2>1. Counted(Work, d) = 0 /\ Closing(Work, d) = 0
    BY <1>2, <1>3, GoneCounts
  <2>2. Counted(Work', d) = n /\ Closing(Work', d) = 0
    BY <1>0, <1>2, <1>5, <2>1
  <2>3. \A x \in Desc : x # d => /\ Counted(Work', x) = Counted(Work, x) /\ Closing(Work', x) = Closing(Work, x)
                                 /\ (\A i \in DOMAIN Work : Work[i].desc # x) => \A i \in DOMAIN Work' : Work'[i].desc # x
    BY <1>5
  <2>4. Ordered(Work') /\ UNCHANGED <<evs, cur>> /\ s \in Sock /\ MuxInv
    BY <1>1, <1>5
  <2> QED BY ONLY <1>1, <1>4, <1>6, <2>2, <2>3, <2>4, Opens
<1> QED BY <1>6, <1>7, <1>8, <1>9 DEF MuxInv

\* connect(): the operation waits in the new descriptor.
LEMMA StepConnect ==
  ASSUME MuxInv, NEW d \in Desc, NEW s \in Sock, NEW o, NEW b \in {<<>>, <<BindC(d)>>}, connect(d, s, o, b)
  PROVE  MuxInv'
<1>0. PICK n, wq, ref, st, k, e : n = 0 /\ wq = <<o>> /\ ref = 1 /\ st = "connecting" /\ k = "connect" /\ e = "none"
  OBVIOUS
<1>s. /\ StartOp(o, k, d, Null, e) /\ k \in Kind /\ e \in Err /\ k # "none" /\ k # "accept" /\ d \in Desc \cup {Null}
      /\ Null \in Sock \cup {Null}
  BY <1>0 DEF connect, Kind, Err
<1>o. o \in Op /\ ~Started(o) /\ op' \in [Op -> OpType]
  BY <1>s, StartFields DEF MuxInv
<1>1. n \in Nat /\ wq \in Seq(Op) /\ ref \in Nat /\ ref = 1 + n /\ create(d, s, st, wq, ref, b)
      /\ st \in {"connecting", "listening", "dgram"} /\ UNCHANGED <<ops, lpc, evs, cur>>
  BY <1>0, <1>o DEF connect, loopVars
<1>c. Created(d, s, wq, ref, b)
  BY <1>1, Creates
<1>2. /\ d \in Desc /\ Gone(d) /\ Unused(s)
      /\ desc'[d].q["read"] = <<>> /\ desc'[d].q["write"] = <<o>>
      /\ desc' \in [Desc -> DescType] /\ sock' \in [Desc -> SockType] /\ handle' \in [Sock -> Desc \cup {Null}]
      /\ \A x \in Desc : x # d => desc'[x] = desc[x]
      /\ handle'[s] = d /\ \A y \in Sock : y # s => handle'[y] = handle[y]
      /\ opq' = opq \o b /\ active' = active + 1 + Len(b)
  BY <1>0, <1>c DEF Created
<1>3. MuxTypes /\ Work \in Seq(Closure) /\ \A i \in DOMAIN Work : Work[i].desc # d
  BY <1>2, WorkType DEF MuxInv, Gone
<1>4. Len(b) \in Nat /\ opq' \in Seq(Closure) /\ BindPosts(Work, Work', d) /\ Len(Work') = Len(Work) + Len(b)
  BY <1>1, <1>2, <1>3, PostsBind
<1>5. /\ Work' \in Seq(Closure) /\ Ordered(Work') /\ (\A p \in Op : Carry(Work', p) = Carry(Work, p)) /\ Sent(Work', op')
      /\ \A x \in Desc : /\ Counted(Work', x) = Counted(Work, x) /\ Closing(Work', x) = Closing(Work, x)
                         /\ x # d /\ (\A i \in DOMAIN Work : Work[i].desc # x) => \A i \in DOMAIN Work' : Work'[i].desc # x
  <2>1. Ordered(Work) /\ Sent(Work, op')
    BY <1>s, StartSent DEF MuxInv, DescInv
  <2> QED BY <1>3, <1>4, <2>1, BindAdd
<1>6. MuxTypes'
  <2>1. active' \in Int
    BY <1>2, <1>3, <1>4, Numbers
  <2> QED BY <1>1, <1>2, <1>3, <1>4, <1>o, <2>1 DEF MuxTypes
<1>7. LoopShape'
  BY <1>1 DEF MuxInv, LoopShape
<1>8. Targets'
  BY <1>s, <1>2, StartTargets
<1>9. \A p \in Op : OpPlace(p)'
  <2>1. \A p : Queued(desc[d], p) = 0
    BY <1>2, <1>3, GoneCounts
  <2>2. \A p : Queued(desc'[d], p) = IF p = o THEN 1 ELSE 0
    <3>1. ASSUME NEW p PROVE Queued(desc'[d], p) = IF p = o THEN 1 ELSE 0
      <4>1. Count(<<>>, {p}) = 0 /\ Count(<<o>>, {p}) = IF o \in {p} THEN 1 ELSE 0
        BY CountSmall
      <4>2. Queued(desc'[d], p) = 0 + IF o \in {p} THEN 1 ELSE 0
        BY <1>2, <4>1 DEF Queued
      <4> QED BY <4>2
    <3> QED BY <3>1
  <2>3. \A p \in Op : p # o => Carry(Work', p) = Carry(Work, p) /\ \A x \in Desc : Queued(desc'[x], p) = Queued(desc[x], p)
    BY <1>2, <1>5, <2>1, <2>2
  <2>4. \A x \in Desc : x # d => Queued(desc'[x], o) = Queued(desc[x], o)
    BY <1>2
  <2>5. Carry(Work', o) = 0 /\ d # Null
    BY <1>o, <1>5, FreshNowhere, MuxAssumption
  <2>6. Carry(Work', o) \in Nat /\ Carry(Work', o) + (IF d = Null THEN 0 ELSE Queued(desc'[d], o)) = 1
    BY <2>2, <2>5
  <2> QED BY <1>s, <2>3, <2>4, <2>6, StartPlaces
<1>10. DescInv'
  <2>1. Counted(Work, d) = 0 /\ Closing(Work, d) = 0
    BY <1>2, <1>3, GoneCounts
  <2>2. Counted(Work', d) = n /\ Closing(Work', d) = 0
    BY <1>0, <1>2, <1>5, <2>1
  <2>3. \A x \in Desc : x # d => /\ Counted(Work', x) = Counted(Work, x) /\ Closing(Work', x) = Closing(Work, x)
                                 /\ (\A i \in DOMAIN Work : Work[i].desc # x) => \A i \in DOMAIN Work' : Work'[i].desc # x
    BY <1>5
  <2>4. Ordered(Work') /\ UNCHANGED <<evs, cur>> /\ s \in Sock /\ MuxInv
    BY <1>1, <1>5
  <2> QED BY ONLY <1>1, <1>4, <1>6, <2>2, <2>3, <2>4, Opens
<1> QED BY <1>5, <1>6, <1>7, <1>8, <1>9, <1>10 DEF MuxInv, OpInv

\* The first datagram written: a descriptor, and a closure that holds it.
LEMMA StepUdpOpen ==
  ASSUME MuxInv, NEW d \in Desc, NEW s \in Sock, NEW o, NEW b \in {<<>>, <<BindC(d)>>}, udp_write_open(d, s, o, b)
  PROVE  MuxInv'
<1>0. PICK n, wq, ref, st, k, e, c, a : /\ n = 1 /\ wq = <<>> /\ ref = 2 /\ st = "dgram" /\ k = "send" /\ e = "none"
                                        /\ c = DispC(d, o) /\ a = b \o <<DispC(d, o)>>
  OBVIOUS
<1>s. /\ StartOp(o, k, d, Null, e) /\ k \in Kind /\ e \in Err /\ k # "none" /\ k # "accept" /\ d \in Desc \cup {Null}
      /\ Null \in Sock \cup {Null}
  BY <1>0 DEF udp_write_open, Kind, Err
<1>o. o \in Op /\ ~Started(o) /\ op' \in [Op -> OpType] /\ op'[o].desc = d
  BY <1>s, StartFields DEF MuxInv
<1>d. c \in Closure /\ c.k = "dispatch" /\ c.op = o /\ c.desc = d
  BY <1>0, <1>o, ClosureType
<1>1. n \in Nat /\ wq \in Seq(Op) /\ ref \in Nat /\ ref = 1 + n /\ create(d, s, st, wq, ref, a)
      /\ st \in {"connecting", "listening", "dgram"} /\ UNCHANGED <<ops, lpc, evs, cur>>
  BY <1>0, <1>o DEF udp_write_open, loopVars
<1>c. Created(d, s, wq, ref, a)
  BY <1>1, Creates
<1>2. /\ d \in Desc /\ Gone(d) /\ Unused(s)
      /\ desc'[d].q["read"] = <<>> /\ desc'[d].q["write"] = <<>>
      /\ desc' \in [Desc -> DescType] /\ sock' \in [Desc -> SockType] /\ handle' \in [Sock -> Desc \cup {Null}]
      /\ \A x \in Desc : x # d => desc'[x] = desc[x]
      /\ handle'[s] = d /\ \A y \in Sock : y # s => handle'[y] = handle[y]
      /\ opq' = opq \o a /\ active' = active + 1 + Len(a)
  BY <1>0, <1>c DEF Created
<1>3. MuxTypes /\ Work \in Seq(Closure) /\ \A i \in DOMAIN Work : Work[i].desc # d
  BY <1>2, WorkType DEF MuxInv, Gone
<1>4. /\ Len(b) \in Nat /\ opq' \in Seq(Closure) /\ Len(a) = Len(b) + 1
      /\ \E v : BindPosts(Work, v, d) /\ Len(v) = Len(Work) + Len(b) /\ Work' = Append(v, c)
  <2>1. opq' = opq \o (b \o <<c>>) /\ a = b \o <<c>>
    BY <1>0, <1>2
  <2> QED BY <1>d, <1>1, <1>3, <2>1, PostsBind
<1>v. PICK v : BindPosts(Work, v, d) /\ Len(v) = Len(Work) + Len(b) /\ Work' = Append(v, c)
  BY <1>4
<1>5. /\ v \in Seq(Closure) /\ Ordered(v) /\ (\A p \in Op : Carry(v, p) = Carry(Work, p)) /\ Sent(v, op')
      /\ \A x \in Desc : /\ Counted(v, x) = Counted(Work, x) /\ Closing(v, x) = Closing(Work, x)
                         /\ x # d /\ (\A i \in DOMAIN Work : Work[i].desc # x) => \A i \in DOMAIN v : v[i].desc # x
      /\ \A i \in DOMAIN v : v[i].k = "unbind" => v[i].desc # d
  <2>1. Ordered(Work) /\ Sent(Work, op')
    BY <1>s, StartSent DEF MuxInv, DescInv
  <2> QED BY <1>3, <1>v, <2>1, BindAdd
<1>6. Ordered(Work') /\ Sent(Work', op')
  <2>1. Ordered(Append(v, c))
    BY <1>d, <1>5, OrderAdd
  <2>2. Sent(Append(v, c), op')
    BY <1>d, <1>o, <1>5, SentChange
  <2> QED BY <1>v, <2>1, <2>2
<1>7. Len(a) \in Nat /\ Len(Work') = Len(Work) + Len(a)
  <2>1. Len(Work') = Len(v) + 1 /\ Len(Work) \in Nat
    BY <1>d, <1>3, <1>5, <1>v, WorkAdd, Numbers
  <2> QED BY <1>4, <1>v, <2>1
<1>8. MuxTypes'
  <2>1. active' \in Int
    BY <1>2, <1>3, <1>7, Numbers
  <2> QED BY <1>1, <1>2, <1>3, <1>4, <1>o, <2>1 DEF MuxTypes
<1>9. LoopShape'
  BY <1>1 DEF MuxInv, LoopShape
<1>10. Targets'
  BY <1>s, <1>2, StartTargets
<1>11. \A p \in Op : OpPlace(p)'
  <2>1. \A p : Queued(desc[d], p) = 0 /\ Queued(desc'[d], p) = 0
    BY <1>2, <1>3, GoneCounts, QueuedEmpty
  <2>2. ASSUME NEW p \in Op, p # o PROVE Carry(Work', p) = Carry(Work, p)
    <3>1. Carry(Append(v, c), p) = Carry(v, p)
      BY <1>d, <1>5, <2>2, CarryAdd
    <3> QED BY <1>5, <1>v, <3>1
  <2>3. \A p \in Op : p # o => Carry(Work', p) = Carry(Work, p) /\ \A x \in Desc : Queued(desc'[x], p) = Queued(desc[x], p)
    BY <1>2, <2>1, <2>2
  <2>4. \A x \in Desc : x # d => Queued(desc'[x], o) = Queued(desc[x], o)
    BY <1>2
  <2>5. Carry(v, o) = 0
    BY <1>o, <1>5, FreshNowhere
  <2>6. Carry(Append(v, c), o) = Carry(v, o) + 1
    BY <1>d, <1>5, CarryAdd
  <2>7. Carry(Work', o) = 1
    BY <1>v, <2>5, <2>6
  <2>8. Carry(Work', o) \in Nat /\ Carry(Work', o) + (IF d = Null THEN 0 ELSE Queued(desc'[d], o)) = 1
    BY <2>1, <2>7
  <2> QED BY <1>s, <2>3, <2>4, <2>8, StartPlaces
<1>12. DescInv'
  <2>1. Counted(v, d) = 0 /\ Closing(v, d) = 0
    BY <1>2, <1>3, <1>5, GoneCounts
  <2>2. Counted(Work', d) = n /\ Closing(Work', d) = 0
    <3>1. Counts(c, d) = 1 /\ Closes(c, d) = 0
      BY <1>d DEF Counts, Closes, One
    <3>2. Counted(Append(v, c), d) = 0 + 1 /\ Closing(Append(v, c), d) = 0 + 0
      BY <1>d, <1>5, <2>1, <3>1, WorkAdd
    <3> QED BY <1>0, <1>v, <3>2
  <2>3. ASSUME NEW x \in Desc, x # d
        PROVE  /\ Counted(Work', x) = Counted(Work, x) /\ Closing(Work', x) = Closing(Work, x)
               /\ (\A i \in DOMAIN Work : Work[i].desc # x) => \A i \in DOMAIN Work' : Work'[i].desc # x
    <3>1. c.desc # x
      BY <1>d, <2>3
    <3>2. /\ Counted(Append(v, c), x) = Counted(v, x) /\ Closing(Append(v, c), x) = Closing(v, x)
          /\ (\A i \in DOMAIN v : v[i].desc # x) => \A i \in DOMAIN Append(v, c) : Append(v, c)[i].desc # x
      BY <1>d, <1>5, <3>1, AddOther
    <3> QED BY <1>5, <1>v, <2>3, <3>2
  <2>4. \A x \in Desc : x # d => /\ Counted(Work', x) = Counted(Work, x) /\ Closing(Work', x) = Closing(Work, x)
                                 /\ (\A i \in DOMAIN Work : Work[i].desc # x) => \A i \in DOMAIN Work' : Work'[i].desc # x
    BY <2>3
  <2>5. Ordered(Work') /\ UNCHANGED <<evs, cur>> /\ s \in Sock /\ MuxInv
    BY <1>1, <1>6
  <2> QED BY ONLY <1>1, <1>7, <1>8, <2>2, <2>4, <2>5, Opens
<1> QED BY <1>6, <1>8, <1>9, <1>10, <1>11, <1>12 DEF MuxInv, OpInv

\* The calls.
LEMMA StepCalls ==
  ASSUME MuxInv
  PROVE  /\ PlainCall => MuxInv'
         /\ \A d \in Desc : \A b \in {<<>>, <<BindC(d)>>} : BindingCall(d, b) => MuxInv'
<1> DEFINE K == Kind
<1>k. /\ "task" \in K /\ "connect" \in K /\ "accept" \in K /\ "read" \in K /\ "write" \in K /\ "recv" \in K /\ "send" \in K
      /\ "none" \in Err /\ "error" \in Err /\ "invalid" \in Err
  BY DEF Kind, Err
<1> HIDE DEF K
<1>1. ASSUME NEW o, execute(o) PROVE MuxInv'
  <2>1. PICK k, e : k = "task" /\ e = "none"
    OBVIOUS
  <2>2. k \in Kind /\ k \notin {"none", "accept"} /\ e \in Err /\ StartOp(o, k, Null, Null, e)
        /\ execute_op(RunC(o)) /\ UNCHANGED <<ops, loopVars, handle, desc, sock>>
    BY <1>k, <1>1, <2>1 DEF execute, K
  <2> QED BY <2>2, StepPlain
<1>2. ASSUME NEW s, NEW o, NEW k \in {"connect", "recv", "send"}, NEW e \in {"error", "invalid"}, fail_op(s, o, k, e)
      PROVE  MuxInv'
  <2>1. k \in Kind /\ k \notin {"none", "accept"} /\ e \in Err /\ StartOp(o, k, Null, Null, e)
        /\ execute_op(RunC(o)) /\ UNCHANGED <<ops, loopVars, handle, desc, sock>>
    BY <1>k, <1>2 DEF fail_op, K
  <2> QED BY <2>1, StepPlain
<1>3. ASSUME NEW s \in Sock, NEW o, NEW k \in {"read", "write", "recv", "send"}, NEW states, post_io(s, o, k, Null, states)
      PROVE  MuxInv'
  <2>1. PICK to : to = Null
    OBVIOUS
  <2>2. /\ k \in Kind /\ k # "none" /\ to \in Sock \cup {Null} /\ post_io(s, o, k, to, states)
        /\ k = "accept" => to \in Sock /\ Unused(to)
    BY <1>k, <1>3, <2>1 DEF K
  <2> QED BY <2>2, StepPostIo
<1>4. ASSUME NEW s \in Sock, NEW o, NEW to \in Sock, accept(s, o, to) PROVE MuxInv'
  <2>1. PICK k, states : k = "accept" /\ states = {"listening"}
    OBVIOUS
  <2>2. /\ k \in Kind /\ k # "none" /\ to \in Sock \cup {Null} /\ post_io(s, o, k, to, states)
        /\ k = "accept" => to \in Sock /\ Unused(to)
    BY <1>k, <1>4, <2>1 DEF K, accept
  <2> QED BY <2>2, StepPostIo
<1>5. ASSUME NEW s \in Sock, NEW o, read(s, o) \/ write(s, o) \/ udp_read(s, o) \/ udp_write(s, o) PROVE MuxInv'
  <2>1. PICK k, states : k \in {"read", "write", "recv", "send"} /\ post_io(s, o, k, Null, states)
    BY <1>5 DEF read, write, udp_read, udp_write
  <2> QED BY <1>3, <2>1
<1>6. ASSUME PlainCall PROVE MuxInv'
  <2>1. CASE \E o \in Op : execute(o)
    BY <1>1, <2>1
  <2>2. CASE \E s \in Sock, o \in Op : fail_op(s, o, "connect", "error") \/ fail_op(s, o, "recv", "invalid") \/ fail_op(s, o, "send", "error")
    <3>1. PICK s \in Sock, o \in Op, k \in {"connect", "recv", "send"}, e \in {"error", "invalid"} : fail_op(s, o, k, e)
      BY <2>2
    <3> QED BY <1>2, <3>1
  <2>3. CASE \E s \in Sock, o \in Op : read(s, o) \/ write(s, o) \/ udp_read(s, o) \/ udp_write(s, o)
    BY <1>5, <2>3
  <2>4. CASE \E s, to \in Sock, o \in Op : accept(s, o, to)
    BY <1>4, <2>4
  <2>5. CASE \E s \in Sock : unbind(s)
    BY <2>5, StepUnbind
  <2> QED BY <1>6, <2>1, <2>2, <2>3, <2>4, <2>5 DEF PlainCall
<1>7. ASSUME NEW d \in Desc, NEW b \in {<<>>, <<BindC(d)>>}, BindingCall(d, b) PROVE MuxInv'
  <2>1. ASSUME NEW s \in Sock, NEW st \in {"listening", "dgram"}, create(d, s, st, <<>>, 1, b), UNCHANGED <<ops, loopVars, op>>
        PROVE  MuxInv'
    BY <2>1, StepOpen
  <2>2. CASE \E s \in Sock : listen(d, s, b) \/ udp_bind(d, s, b)
    <3>1. PICK s \in Sock, st \in {"listening", "dgram"} : create(d, s, st, <<>>, 1, b) /\ UNCHANGED <<ops, loopVars, op>>
      BY <2>2 DEF listen, udp_bind
    <3> QED BY <2>1, <3>1
  <2>3. CASE \E s \in Sock, o \in Op : connect(d, s, o, b)
    BY <2>3, StepConnect
  <2>4. CASE \E s \in Sock, o \in Op : udp_write_open(d, s, o, b)
    BY <2>4, StepUdpOpen
  <2> QED BY <1>7, <2>2, <2>3, <2>4 DEF BindingCall
<1> QED BY <1>6, <1>7

-----------------------------------------------------------------------------
(* The batch of closures. *)

\* A closure leaves the batch.
Left(w, v, c) ==
  /\ w \in Seq(Closure) /\ v \in Seq(Closure) /\ w # <<>> /\ v = Tail(w) /\ c = Head(w) /\ c \in Closure
  /\ Len(w) = Len(v) + 1 /\ Len(v) \in Nat
  /\ \A x : /\ Counted(w, x) = Counted(v, x) + Counts(c, x) /\ Counted(v, x) \in Nat
            /\ Closing(w, x) = Closing(v, x) + Closes(c, x) /\ Closing(v, x) \in Nat
            /\ Carry(w, x) = Carry(v, x) + Carries(c, x) /\ Carry(v, x) \in Nat
  /\ (Ordered(w) => Ordered(v)) /\ \A u : Sent(w, u) => Sent(v, u) /\ (c.k = "dispatch" => u[c.op].desc = c.desc)
  /\ \E i \in DOMAIN w : w[i] = c

\* The first closure of a sequence is taken.
LEMMA LeaveWork ==
  ASSUME NEW w \in Seq(Closure), w # <<>>
  PROVE  Left(w, Tail(w), Head(w))
<1> DEFINE v == Tail(w)
           c == Head(w)
<1>1. /\ v \in Seq(Closure) /\ c \in Closure /\ Len(w) = Len(v) + 1
      /\ \A x : /\ Counted(w, x) = Counted(v, x) + Counts(c, x)
                /\ Closing(w, x) = Closing(v, x) + Closes(c, x)
                /\ Carry(w, x) = Carry(v, x) + Carries(c, x)
  BY WorkTake
<1>2. Ordered(w) => Ordered(v)
  BY OrderTake
<1>3. 1 \in DOMAIN w /\ w[1] = c
  OBVIOUS
<1>4. \A u : Sent(w, u) => Sent(v, u) /\ (c.k = "dispatch" => u[c.op].desc = c.desc)
  <2>1. \A u : Sent(w, u) => Sent(v, u)
    BY SentChange
  <2>2. \A u : Sent(w, u) => (c.k = "dispatch" => u[c.op].desc = c.desc)
    BY <1>3 DEF Sent
  <2> QED BY <2>1, <2>2
<1>5. \A x : Counted(v, x) \in Nat /\ Closing(v, x) \in Nat /\ Carry(v, x) \in Nat
  BY <1>1, WorkNat
<1>6. Len(v) \in Nat
  BY <1>1
<1> QED BY <1>1, <1>2, <1>3, <1>4, <1>5, <1>6 DEF Left

\* The first closure of the batch.
LEMMA BatchHead ==
  ASSUME MuxInv, ops # <<>>, ops' = Tail(ops), opq' = opq
  PROVE  Left(Work, Work', Head(ops)) /\ ops' \in Seq(Closure) /\ Ordered(Work') /\ Sent(Work', op)
<1>1. ops' \in Seq(Closure) /\ Work \in Seq(Closure) /\ Work # <<>> /\ Head(Work) = Head(ops) /\ Work' = Tail(Work)
  BY Takes, WorkType DEF MuxInv
<1>2. Left(Work, Tail(Work), Head(Work))
  BY <1>1, LeaveWork
<1>3. Ordered(Work) /\ Sent(Work, op)
  BY DEF MuxInv, OpInv, DescInv
<1>4. Left(Work, Work', Head(ops))
  BY <1>1, <1>2
<1> QED BY <1>1, <1>3, <1>4 DEF Left

\* A descriptor that the closure taken is not about, or not counted for.
LEMMA LeftOther ==
  ASSUME NEW w, NEW v, NEW c, Left(w, v, c), NEW x, c.desc # x \/ c.k \in {"run", "bind"}
  PROVE  /\ Counted(v, x) = Counted(w, x) /\ Closing(v, x) = Closing(w, x)
         /\ (\A i \in DOMAIN w : w[i].desc # x) => \A i \in DOMAIN v : v[i].desc # x
BY TakeOther DEF Left

\* The closure of bind runs.
LEMMA StepRunBind ==
  ASSUME MuxInv, Next_op("bind"), active' = active - 1, UNCHANGED <<opq, loopVars, handle, desc, sock, op>>
  PROVE  MuxInv'
<1>0. PICK c : c = Head(ops)
  OBVIOUS
<1>1. lpc = "drain" /\ ops # <<>> /\ c.k = "bind" /\ ops' = Tail(ops) /\ UNCHANGED <<opq, lpc, evs, cur>>
  BY <1>0 DEF Next_op, loopVars
<1>2. Left(Work, Work', c) /\ ops' \in Seq(Closure) /\ Ordered(Work') /\ Sent(Work', op)
  BY <1>0, <1>1, BatchHead
<1>3. c.op = Null
  BY <1>1, <1>2, ClosureFields DEF Left
<1>4. MuxTypes'
  BY <1>1, <1>2 DEF MuxInv, MuxTypes
<1>5. LoopShape'
  BY <1>1 DEF MuxInv, LoopShape
<1>6. OpInv'
  <2>1. ASSUME NEW p \in Op PROVE Carry(Work', p) = Carry(Work, p)
    <3>1. Carries(c, p) = 0
      BY <1>3, MuxAssumption DEF Carries, One
    <3>2. Carry(Work, p) = Carry(Work', p) + 0 /\ Carry(Work', p) \in Nat
      BY <1>2, <3>1 DEF Left
    <3> QED BY <3>2
  <2> QED BY <1>2, <2>1, OpKeep
<1>7. Engine'
  <2>1. Len(Work) = Len(Work') + 1 /\ Len(Work') \in Nat
    BY <1>2 DEF Left
  <2> QED BY <1>4, <2>1, EngineTake
<1>8. ASSUME NEW x \in Desc PROVE DescOK(x)'
  <2>1. DescOK(x) /\ (desc[x].st # "live" => evs[x] = {} /\ ~InUse(cur, x))
    BY Referred DEF MuxInv, DescInv
  <2>2. /\ Counted(Work', x) = Counted(Work, x) /\ Closing(Work', x) = Closing(Work, x)
        /\ (\A i \in DOMAIN Work : Work[i].desc # x) => \A i \in DOMAIN Work' : Work'[i].desc # x
    BY <1>1, <1>2, LeftOther
  <2> QED BY <1>1, <2>1, <2>2, DescFrame
<1> QED BY <1>2, <1>4, <1>5, <1>6, <1>7, <1>8 DEF MuxInv, DescInv

\* op_run of an operation's own closure: its handler runs.
LEMMA StepHandler ==
  ASSUME MuxInv, op_run_handler
  PROVE  MuxInv'
<1>0. PICK c, o : c = Head(ops) /\ o = c.op
  OBVIOUS
<1>1. /\ lpc = "drain" /\ ops # <<>> /\ c.k = "run" /\ ops' = Tail(ops) /\ active' = active - 1
      /\ op' = [op EXCEPT ![o].calls = @ + 1] /\ UNCHANGED <<opq, lpc, evs, cur, handle, desc, sock>>
  BY <1>0 DEF op_run_handler, Next_op, loopVars
<1>2. Left(Work, Work', c) /\ ops' \in Seq(Closure) /\ Ordered(Work') /\ Sent(Work', op)
  BY <1>0, <1>1, BatchHead
<1>3. o \in Op /\ c \in Closure /\ Work' \in Seq(Closure) /\ MuxTypes
  BY <1>0, <1>1, <1>2, ClosureFields DEF Left, MuxInv
<1>4. /\ op \in [Op -> OpType] /\ op' \in [Op -> OpType] /\ op'[o].calls = op[o].calls + 1
      /\ \A p \in Op : op'[p].kind = op[p].kind /\ op'[p].desc = op[p].desc /\ op'[p].to = op[p].to /\ (p # o => op'[p] = op[p])
  <2> DEFINE y == [op[o] EXCEPT !.calls = @ + 1]
  <2>1. op \in [Op -> OpType] /\ op[o] \in OpType
    BY <1>3 DEF MuxTypes
  <2>2. /\ y \in OpType /\ y.calls = op[o].calls + 1 /\ y.kind = op[o].kind /\ y.desc = op[o].desc /\ y.to = op[o].to
    BY <2>1 DEF OpType
  <2>3. op' = [op EXCEPT ![o] = y]
    BY <1>1, <1>3, <2>1
  <2> HIDE DEF y
  <2> QED BY <1>3, <2>1, <2>2, <2>3
<1>5. MuxTypes'
  BY <1>1, <1>2, <1>3, <1>4 DEF MuxTypes
<1>6. LoopShape'
  BY <1>1 DEF MuxInv, LoopShape
<1>7. Sent(Work', op')
  BY <1>2, <1>3, <1>4, SentKeep
<1> DEFINE n == op[o].calls
           b == Carry(Work', o)
           q == IF op[o].desc = Null THEN 0 ELSE Queued(desc[op[o].desc], o)
<1>8. n \in Nat /\ b \in Nat /\ q \in Nat /\ Carry(Work, o) = b + 1
  <2>1. Carries(c, o) = 1
    BY <1>0 DEF Carries, One
  <2>2. op[o].desc \in Desc \cup {Null} /\ n \in Nat /\ \A d \in Desc : Queued(desc[d], o) \in Nat
    BY <1>3, Numbers
  <2> QED BY <1>2, <2>1, <2>2 DEF Left
<1>9. Place(o) = n + (b + 1) + q /\ Place(o)' = (n + 1) + b + q
  BY <1>1, <1>4, <1>3, <1>8 DEF Place
<1>10. Place(o)' = Place(o) /\ (Place(o) \in {0, 1} => n = 0)
  <2> HIDE DEF n, b, q
  <2> QED BY <1>8, <1>9
<1>11. OpPlace(o) /\ Place(o) \in {0, 1}
  BY <1>3, OneNat DEF MuxInv, OpInv, OpPlace
<1>12. Targets'
  <2>1. op'[o].calls = 1
    BY <1>4, <1>10, <1>11
  <2>2. \A p \in Op : Accepting(p)' => Accepting(p) /\ op'[p].to = op[p].to
    BY <1>4, <2>1 DEF Accepting
  <2>3. Targets /\ \A p \in Op : Accepting(p) => handle'[op[p].to] = Null
    BY <1>1 DEF MuxInv, OpInv, Targets
  <2> QED BY <2>2, <2>3, TargetsKeep
<1>13. ASSUME NEW p \in Op PROVE OpPlace(p)'
  <2>1. CASE p = o
    BY <1>1, <1>3, <1>4, <1>10, <1>11, <2>1, OpMoves
  <2>2. CASE p # o
    <3>1. OpPlace(p) /\ op[p].desc \in Desc \cup {Null}
      BY <1>3, Numbers DEF MuxInv, OpInv
    <3>2. Carries(c, p) = 0
      BY <1>0, <2>2 DEF Carries, One
    <3>3. Carry(Work, p) = Carry(Work', p) + 0 /\ Carry(Work', p) \in Nat
      BY <1>2, <3>2 DEF Left
    <3>4. Carry(Work', p) = Carry(Work, p)
      BY <3>3
    <3> QED BY <1>1, <1>4, <2>2, <3>1, <3>4, OpFrame
  <2> QED BY <2>1, <2>2
<1>14. Engine'
  <2>1. Len(Work) = Len(Work') + 1 /\ Len(Work') \in Nat
    BY <1>2 DEF Left
  <2> QED BY <1>1, <1>5, <2>1, EngineTake
<1>15. ASSUME NEW x \in Desc PROVE DescOK(x)'
  <2>1. DescOK(x) /\ (desc[x].st # "live" => evs[x] = {} /\ ~InUse(cur, x))
    BY Referred DEF MuxInv, DescInv
  <2>2. /\ Counted(Work', x) = Counted(Work, x) /\ Closing(Work', x) = Closing(Work, x)
        /\ (\A i \in DOMAIN Work : Work[i].desc # x) => \A i \in DOMAIN Work' : Work'[i].desc # x
    BY <1>1, <1>2, LeftOther, SMTT(20)
  <2> QED BY <1>1, <2>1, <2>2, DescFrame
<1> QED BY <1>2, <1>5, <1>6, <1>7, <1>12, <1>13, <1>14, <1>15 DEF MuxInv, OpInv, DescInv

\* op_run of a dispatch closure: its operation goes to its descriptor, its
\* reference to the dispatch.
LEMMA StepEnqueue ==
  ASSUME MuxInv, op_run_dispatch
  PROVE  MuxInv'
<1>0. PICK c, o, d, e : c = Head(ops) /\ o = c.op /\ d = c.desc /\ e = EvOf(op[o].kind)
  OBVIOUS
<1>1. /\ lpc = "drain" /\ ops # <<>> /\ c.k = "dispatch" /\ ops' = Tail(ops) /\ active' = active - 1
      /\ desc' = [desc EXCEPT ![d].q[e] = Append(@, o)] /\ cur' = [desc |-> d, evs |-> {e}, release |-> TRUE]
      /\ lpc' = "dispatch" /\ UNCHANGED <<opq, evs, handle, sock, op>>
  BY <1>0 DEF op_run_dispatch, Next_op
<1>2. Left(Work, Work', c) /\ ops' \in Seq(Closure) /\ Ordered(Work') /\ Sent(Work', op)
  BY <1>0, <1>1, BatchHead
<1>3. o \in Op /\ d \in Desc /\ e \in Ev /\ op[o].desc = d /\ MuxTypes
  <2>1. Sent(Work, op) /\ o \in Op /\ d \in Desc
    BY <1>0, <1>1, <1>2, ClosureFields DEF MuxInv, OpInv, Left
  <2> QED BY <1>0, <1>1, <1>2, <2>1 DEF Left, EvOf, Ev, MuxInv
<1>4. cur = Null /\ (\A x \in Desc : evs[x] = {} /\ ~InUse(cur, x)) /\ cur' \in CurType /\ cur' # Null
  <2>1. cur' \in CurType
    BY <1>1, <1>3 DEF CurType
  <2> QED BY <1>1, <2>1, AtPlace, MuxAssumption
<1>5. \A x \in Desc : (InUse(cur', x) <=> x = d) /\ (InUse(cur', x) => cur'.release)
  BY <1>1, <1>4 DEF InUse
<1> DEFINE y == [desc[d] EXCEPT !.q[e] = Append(@, o)]
<1>6. /\ desc[d] \in DescType /\ y \in DescType /\ y.st = desc[d].st /\ y.fd = desc[d].fd /\ y.ref = desc[d].ref
      /\ y.q[e] = Append(desc[d].q[e], o) /\ \A f \in Ev : f # e => y.q[f] = desc[d].q[f]
  <2>1. desc[d] \in DescType
    BY <1>3 DEF MuxTypes
  <2>2. desc[d].q \in [Ev -> Seq(Op)]
    BY <2>1, QueuedNat DEF QType
  <2>3. [desc[d].q EXCEPT ![e] = Append(@, o)] \in [Ev -> Seq(Op)]
    BY <1>3, <2>2
  <2> QED BY <1>3, <2>1, <2>2, <2>3 DEF DescType, QType
<1>7. desc \in [Desc -> DescType] /\ desc' = [desc EXCEPT ![d] = y]
  BY <1>1, <1>3 DEF MuxTypes
<1> HIDE DEF y
<1>8. desc' \in [Desc -> DescType] /\ desc'[d] = y /\ \A x \in Desc : x # d => desc'[x] = desc[x]
  BY <1>3, <1>6, <1>7
<1>9. MuxTypes'
  BY <1>1, <1>2, <1>3, <1>4, <1>8 DEF MuxTypes
<1>10. LoopShape'
  BY <1>1, <1>4 DEF LoopShape
<1>11. \A p : Queued(y, p) = Queued(desc[d], p) + One(o = p)
  BY <1>3, <1>6, QueuedAdd, SMTT(20)
<1>12. Targets'
  BY <1>1 DEF MuxInv, OpInv, Targets, Accepting
<1>13. ASSUME NEW p \in Op PROVE OpPlace(p)'
  <2>1. OpPlace(p) /\ op[p].desc \in Desc \cup {Null} /\ op[p].calls \in Nat /\ Queued(desc[d], p) \in Nat
    BY <1>3, Numbers DEF MuxInv, OpInv
  <2> DEFINE m == One(o = p)
  <2>2. Carries(c, p) = m
    BY <1>0 DEF Carries
  <2>3. Carry(Work, p) = Carry(Work', p) + m /\ Carry(Work', p) \in Nat /\ Queued(y, p) = Queued(desc[d], p) + m
    BY <1>2, <1>11, <2>2 DEF Left
  <2>4. CASE p = o
    <3> DEFINE a == op[o].calls
               b == Carry(Work', o)
               q == Queued(desc[d], o)
    <3>1. a \in Nat /\ b \in Nat /\ q \in Nat /\ Carry(Work, o) = b + 1 /\ Queued(desc'[d], o) = q + 1 /\ d # Null
      BY <1>3, <1>8, <2>1, <2>3, <2>4, MuxAssumption DEF One
    <3>2. Place(o) = a + (b + 1) + q /\ Place(o)' = a + b + (q + 1)
      BY <1>1, <1>3, <3>1 DEF Place
    <3>3. Place(o)' = Place(o)
      <4> HIDE DEF a, b, q
      <4> QED BY <3>1, <3>2
    <3>4. \A x \in Desc \ {op[o].desc} : Queued(desc'[x], o) = Queued(desc[x], o)
      BY <1>3, <1>8
    <3> QED BY <1>1, <2>1, <2>4, <3>3, <3>4, OpMoves
  <2>5. CASE p # o
    <3>1. m = 0
      BY <2>5 DEF One
    <3>2. Carry(Work', p) = Carry(Work, p) /\ Queued(y, p) = Queued(desc[d], p)
      <4> HIDE DEF m
      <4> QED BY <2>1, <2>3, <3>1
    <3>3. \A x \in Desc : Queued(desc'[x], p) = Queued(desc[x], p)
      BY <1>8, <3>2
    <3> QED BY <1>1, <2>1, <3>2, <3>3, OpFrame
  <2> QED BY <2>4, <2>5
<1>14. Engine'
  <2>1. Len(Work) = Len(Work') + 1 /\ Len(Work') \in Nat
    BY <1>2 DEF Left
  <2> QED BY <1>1, <1>6, <1>8, <1>9, <2>1, EngineTake
<1>15. desc[d].st = "live" /\ InService(d)
  <2>1. \E i \in DOMAIN Work : Work[i].desc = d
    BY <1>0, <1>2 DEF Left
  <2> QED BY <1>3, <2>1, Referred
<1>16. ASSUME NEW x \in Desc, x # d PROVE DescOK(x)'
  <2>1. DescOK(x) /\ c.desc # x
    BY <1>0, <1>16 DEF MuxInv, DescInv
  <2>2. /\ Counted(Work', x) = Counted(Work, x) /\ Closing(Work', x) = Closing(Work, x)
        /\ (\A i \in DOMAIN Work : Work[i].desc # x) => \A i \in DOMAIN Work' : Work'[i].desc # x
    BY <1>2, <2>1, LeftOther
  <2> QED BY <1>1, <1>4, <1>5, <1>8, <1>16, <2>1, <2>2, DescFrame
<1>17. DescOK(d)'
  <2> DEFINE a == Tally(handle, {d})
             b == Counted(Work', d)
             g == Closing(Work', d)
  <2>1. Counts(c, d) = 1 /\ Closes(c, d) = 0
    BY <1>0, <1>1 DEF Counts, Closes, One
  <2>2. a \in Nat /\ b \in Nat /\ g \in Nat /\ Counted(Work, d) = b + 1 /\ Closing(Work, d) = g + 0
    BY <1>2, <1>3, <2>1, Numbers DEF Left
  <2>3. One(InUse(cur, d) /\ cur.release) = 0 /\ One(InUse(cur', d) /\ cur'.release) = 1
    BY <1>3, <1>4, <1>5 DEF One
  <2>4. desc[d].fd /\ a + (g + 0) = 1 /\ desc[d].ref = a + (b + 1) + 0
    BY <1>15, <2>2, <2>3 DEF InService
  <2>5. a + g = 1 /\ desc[d].ref = a + b + 1
    <3> HIDE DEF a, b, g
    <3> QED BY <2>2, <2>4
  <2>6. InService(d)'
    BY <1>1, <1>6, <1>8, <2>3, <2>4, <2>5 DEF InService
  <2> QED BY <1>6, <1>8, <1>15, <2>6 DEF DescOK
<1> QED BY <1>1, <1>2, <1>9, <1>10, <1>12, <1>13, <1>14, <1>16, <1>17 DEF MuxInv, OpInv, DescInv

\* The closure that closes a descriptor is the last reference to it.
LEMMA LastReference ==
  ASSUME MuxInv, lpc = "drain", ops # <<>>, ops' = Tail(ops), NEW d, d = Head(ops).desc, Head(ops).k = "unbind"
  PROVE  /\ d \in Desc /\ desc[d].st = "live" /\ desc[d].ref = 1 /\ Tally(handle, {d}) = 0
         /\ Left(Work, Tail(Work), Head(ops)) /\ \A i \in DOMAIN Tail(Work) : Tail(Work)[i].desc # d
<1>0. PICK c, v : c = Head(ops) /\ v = Tail(Work)
  OBVIOUS
<1>1. Work \in Seq(Closure) /\ Work # <<>> /\ Head(Work) = c /\ MuxTypes
  BY <1>0, Takes, WorkType DEF MuxInv
<1>2. Left(Work, Tail(Work), Head(Work))
  BY <1>1, LeaveWork
<1>3. Left(Work, v, c)
  BY <1>0, <1>1, <1>2
<1>4. d \in Desc /\ c.k = "unbind" /\ c.desc = d
  BY <1>0, <1>3, ClosureFields DEF Left
<1>5. \A i \in DOMAIN v : v[i].desc # d
  <2>1. Ordered(Work)
    BY DEF MuxInv, DescInv
  <2>2. \A i \in DOMAIN Tail(Work) : Head(Work).k = "unbind" => Tail(Work)[i].desc # Head(Work).desc
    BY <1>1, <2>1, OrderTake
  <2> QED BY <1>0, <1>1, <1>4, <2>2
<1>6. Counted(v, d) = 0 /\ Closing(v, d) = 0
  <2>1. v \in Seq(Closure)
    BY <1>3 DEF Left
  <2> QED BY <1>5, <2>1, WorkNat
<1>7. Counts(c, d) = 1 /\ Closes(c, d) = 1
  BY <1>4 DEF Counts, Closes, One
<1>8. Counted(Work, d) = 0 + 1 /\ Closing(Work, d) = 0 + 1
  BY <1>3, <1>6, <1>7 DEF Left
<1>9. desc[d].st = "live" /\ InService(d)
  <2>1. \E i \in DOMAIN Work : Work[i].desc = d
    BY <1>3, <1>4 DEF Left
  <2> QED BY <1>4, <2>1, Referred
<1>10. One(InUse(cur, d) /\ cur.release) = 0
  BY <1>4, AtPlace DEF One
<1> DEFINE a == Tally(handle, {d})
           g == desc[d].ref
<1>11. a \in Nat /\ a + 1 = 1 /\ g = a + 1 + 0
  BY <1>1, <1>4, <1>8, <1>9, <1>10, Numbers DEF InService
<1>12. a = 0 /\ g = 1
  <2> HIDE DEF a, g
  <2> QED BY <1>11
<1> QED BY <1>0, <1>3, <1>4, <1>5, <1>9, <1>12

\* The closure of unbind runs: the descriptor is deleted, what waits in it goes
\* to the engine's queue.
LEMMA StepRunUnbind ==
  ASSUME MuxInv, op_run_unbind
  PROVE  MuxInv'
<1>0. PICK c, d, z, y, v, r : /\ c = Head(ops) /\ d = c.desc /\ z = Orphans(d) /\ y = [NoDesc EXCEPT !.st = "freed"]
                              /\ v = Tail(Work) /\ r = Aborts(z)
  OBVIOUS
<1>1. /\ lpc = "drain" /\ ops # <<>> /\ c.k = "unbind" /\ ops' = Tail(ops) /\ UNCHANGED <<lpc, evs, cur, handle>>
      /\ release([desc EXCEPT ![d].fd = FALSE], d, 1) /\ sock' = [sock EXCEPT ![d] = NoSock]
  BY <1>0 DEF op_run_unbind, Next_op, loopVars
<1>2. /\ d \in Desc /\ desc[d].st = "live" /\ desc[d].ref = 1 /\ Tally(handle, {d}) = 0
      /\ Left(Work, v, c) /\ \A i \in DOMAIN v : v[i].desc # d
  BY <1>0, <1>1, LastReference
<1>3. MuxTypes /\ desc \in [Desc -> DescType] /\ desc[d] \in DescType /\ op \in [Op -> OpType]
  BY <1>2 DEF MuxInv, MuxTypes
<1>4. /\ desc' = [desc EXCEPT ![d] = y] /\ opq' = opq \o r /\ active' = active - 1 + (Len(z) - 1)
      /\ op' = [o \in Op |-> IF \E i \in DOMAIN z : z[i] = o THEN [op[o] EXCEPT !.err = "aborted"] ELSE op[o]]
  <2>1. [[desc EXCEPT ![d].fd = FALSE] EXCEPT ![d] = y] = [desc EXCEPT ![d] = y]
    BY <1>2, <1>3
  <2> QED BY <1>0, <1>1, <1>2, <2>1 DEF release, Aborts
<1>5. z \in Seq(Op) /\ Len(z) \in Nat /\ \A p : Count(z, {p}) = Queued(desc[d], p)
  <2>1. PICK x \in DescType : x = desc[d]
    BY <1>3
  <2>2. z = x.q["read"] \o x.q["write"]
    BY <1>0, <2>1 DEF Orphans
  <2>3. x.q["read"] \in Seq(Op) /\ x.q["write"] \in Seq(Op)
    BY QueuedNat
  <2>4. \A p : Count(x.q["read"] \o x.q["write"], {p}) = Queued(x, p)
    BY QueuedNat
  <2>5. z \in Seq(Op)
    BY <2>2, <2>3
  <2>6. Len(z) \in Nat
    BY <2>5
  <2>7. ASSUME NEW p PROVE Count(z, {p}) = Queued(desc[d], p)
    <3>1. Count(x.q["read"] \o x.q["write"], {p}) = Queued(x, p)
      BY <2>4
    <3> QED BY ONLY <2>1, <2>2, <3>1, Zenon
  <2> QED BY <2>5, <2>6, <2>7
<1>6. v \in Seq(Closure) /\ Ordered(v) /\ Sent(v, op) /\ c.op = Null /\ c.desc = d
  <2>1. Ordered(Work) /\ Sent(Work, op)
    BY DEF MuxInv, OpInv, DescInv
  <2> QED BY <1>0, <1>1, <1>2, <2>1, ClosureFields DEF Left
<1>7. /\ r \in Seq(Closure) /\ v \o r \in Seq(Closure) /\ Len(v \o r) = Len(v) + Len(z)
      /\ \A x \in Desc : Counted(v \o r, x) = Counted(v, x) /\ Closing(v \o r, x) = Closing(v, x)
      /\ \A p \in Op : Carry(v \o r, p) = Carry(v, p) + Count(z, {p})
      /\ \A i \in DOMAIN r : r[i].k = "run" /\ r[i].desc = Null
  <2>1. v \in Seq(Closure) /\ z \in Seq(Op) /\ r = Aborts(z)
    BY <1>0, <1>5, <1>6
  <2> QED BY ONLY <2>1, WorkAbort
<1>8. /\ Ordered(v \o r)
      /\ \A i \in DOMAIN (v \o r) : \/ i \in DOMAIN v /\ (v \o r)[i] = v[i]
                                    \/ (v \o r)[i].k = "run" /\ (v \o r)[i].desc = Null
  BY <1>6, <1>7, OrderAbort
<1>9. ops' \in Seq(Closure) /\ opq' \in Seq(Closure) /\ Work' = v \o r
  BY <1>0, <1>1, <1>3, <1>4, <1>7, Takes
<1>10. \A p \in Op : op'[p].kind = op[p].kind /\ op'[p].desc = op[p].desc /\ op'[p].calls = op[p].calls /\ op'[p].to = op[p].to
  BY <1>3, <1>4 DEF OpType
<1>11. op' \in [Op -> OpType]
  <2>1. \A p \in Op : op[p] \in OpType /\ [op[p] EXCEPT !.err = "aborted"] \in OpType
    BY <1>3 DEF OpType, Err
  <2> QED BY <1>4, <2>1
<1>12. y \in DescType /\ y.st = "freed" /\ y.q["read"] = <<>> /\ y.q["write"] = <<>>
  <2>1. NoQ \in QType /\ NoQ["read"] = <<>> /\ NoQ["write"] = <<>>
    BY DEF NoQ, QType, Ev
  <2>2. y = [st |-> "freed", fd |-> FALSE, ref |-> 0, q |-> NoQ]
    BY <1>0 DEF NoDesc
  <2>3. y.st = "freed" /\ y.q = NoQ
    BY <2>2
  <2> QED BY <2>1, <2>2, <2>3 DEF DescType
<1>13. desc' \in [Desc -> DescType] /\ desc'[d] = y /\ \A x \in Desc : x # d => desc'[x] = desc[x]
  BY <1>2, <1>3, <1>4, <1>12
<1>14. sock' \in [Desc -> SockType] /\ sock'[d] = NoSock /\ \A x \in Desc : x # d => sock'[x] = sock[x]
  BY <1>1, <1>2, <1>3 DEF MuxTypes, NoSock, SockType
<1>15. MuxTypes'
  <2>1. active' \in Int
    BY <1>3, <1>4, <1>5, Numbers
  <2> QED BY <1>1, <1>3, <1>9, <1>11, <1>13, <1>14, <2>1 DEF MuxTypes
<1>16. LoopShape'
  BY <1>1 DEF MuxInv, LoopShape
<1>17. Sent(Work', op')
  <2>1. Sent(v, op')
    BY <1>6, <1>10, SentKeep
  <2>2. Sent(v \o r, op')
    BY <1>8, <2>1 DEF Sent
  <2> QED BY <1>9, <2>2
<1>18. Targets'
  <2>1. Targets /\ \A o \in Op : Accepting(o)' => Accepting(o)
    BY <1>10 DEF Accepting, MuxInv, OpInv
  <2>2. \A o \in Op : Accepting(o) => handle'[op[o].to] = Null
    BY <1>1, <2>1 DEF Targets
  <2> QED BY <1>10, <2>1, <2>2, TargetsKeep
<1>19. ASSUME NEW p \in Op PROVE OpPlace(p)'
  <2>1. OpPlace(p) /\ op[p].desc \in Desc \cup {Null} /\ op[p].calls \in Nat /\ Queued(desc[d], p) \in Nat
    BY <1>2, <1>3, Numbers DEF MuxInv, OpInv
  <2>2. Carry(v, p) \in Nat /\ Carry(Work, p) = Carry(v, p)
    <3>1. Carries(c, p) = 0
      BY <1>6, MuxAssumption DEF Carries, One
    <3>2. Carry(Work, p) = Carry(v, p) + 0 /\ Carry(v, p) \in Nat
      BY <1>2, <3>1 DEF Left
    <3> QED BY <3>2
  <2>3. Carry(Work', p) = Carry(v, p) + Queued(desc[d], p)
    BY <1>5, <1>7, <1>9
  <2>4. Queued(desc'[d], p) = 0
    BY <1>12, <1>13, QueuedEmpty
  <2>5. CASE op[p].desc = d
    <3> DEFINE a == op[p].calls
               b == Carry(v, p)
               q == Queued(desc[d], p)
    <3>1. a \in Nat /\ b \in Nat /\ q \in Nat /\ d # Null
      BY <1>2, <2>1, <2>2, MuxAssumption
    <3>2. Place(p) = a + b + q /\ Place(p)' = a + (b + q) + 0
      BY <1>10, <2>2, <2>3, <2>4, <2>5, <3>1 DEF Place
    <3>3. Place(p)' = Place(p)
      <4> HIDE DEF a, b, q
      <4> QED BY <3>1, <3>2
    <3>4. \A x \in Desc \ {op[p].desc} : Queued(desc'[x], p) = Queued(desc[x], p)
      BY <1>13, <2>5
    <3> QED BY <1>10, <2>1, <3>3, <3>4, OpMoves
  <2>6. CASE op[p].desc # d
    <3>1. Queued(desc[d], p) = 0
      BY <1>2, <2>1, <2>6 DEF OpPlace
    <3>2. Carry(Work', p) = Carry(Work, p)
      BY <2>2, <2>3, <3>1
    <3>3. \A x \in Desc : Queued(desc'[x], p) = Queued(desc[x], p)
      BY <1>13, <2>4, <3>1
    <3> QED BY <1>10, <2>1, <3>2, <3>3, OpFrame
  <2> QED BY <2>5, <2>6
<1>20. Engine'
  <2> DEFINE a == Len(v)
             n == Len(z)
             g == Tally(desc', LiveDesc)
  <2>1. desc[d].st = "live" /\ desc'[d].st # "live"
    BY <1>2, <1>12, <1>13
  <2>2. Tally(desc, LiveDesc) = g + 1 /\ g \in Nat
    BY <1>2, <1>3, <1>13, <2>1, LiveChange
  <2>3. a \in Nat /\ n \in Nat /\ g \in Nat /\ active = (a + 1) + (g + 1)
    BY <1>2, <1>5, <2>2 DEF MuxInv, DescInv, Engine, Left
  <2>4. Engine' <=> active - 1 + (n - 1) = (a + n) + g
    BY <1>4, <1>7, <1>9 DEF Engine
  <2> HIDE DEF a, n, g
  <2> QED BY <2>3, <2>4
<1>21. \A x \in Desc : evs'[x] = {} /\ ~InUse(cur', x) /\ ~InUse(cur, x)
  BY <1>1, AtPlace
<1>22. ASSUME NEW x \in Desc, x # d PROVE DescOK(x)'
  <2>1. DescOK(x) /\ c.desc # x /\ x # Null
    BY <1>6, <1>22, MuxAssumption DEF MuxInv, DescInv
  <2>2. /\ Counted(v, x) = Counted(Work, x) /\ Closing(v, x) = Closing(Work, x)
        /\ (\A i \in DOMAIN Work : Work[i].desc # x) => \A i \in DOMAIN v : v[i].desc # x
    BY <1>2, <2>1, LeftOther
  <2>3. /\ Counted(Work', x) = Counted(Work, x) /\ Closing(Work', x) = Closing(Work, x)
        /\ (\A i \in DOMAIN Work : Work[i].desc # x) => \A i \in DOMAIN Work' : Work'[i].desc # x
    BY <1>7, <1>8, <1>9, <2>1, <2>2
  <2> QED BY <1>1, <1>13, <1>14, <1>21, <1>22, <2>1, <2>3, DescFrame
<1>23. DescOK(d)'
  <2>1. \A i \in DOMAIN Work' : Work'[i].desc # d
    BY <1>2, <1>8, <1>9, MuxAssumption
  <2>2. Gone(d)'
    BY <1>1, <1>2, <1>12, <1>13, <1>14, <1>21, <2>1 DEF Gone
  <2> QED BY <1>12, <1>13, <2>2 DEF DescOK
<1>24. Ordered(Work)'
  BY <1>8, <1>9
<1> QED BY <1>15, <1>16, <1>17, <1>18, <1>19, <1>20, <1>22, <1>23, <1>24 DEF MuxInv, OpInv, DescInv

\* The operation at the front of a queue: it belongs to the descriptor, and its
\* handler has not run.
LEMMA FrontPlace ==
  ASSUME MuxInv, NEW d \in Desc, NEW e \in Ev, desc[d].q[e] # <<>>, NEW o, o = Head(desc[d].q[e]),
         NEW y, y = [desc[d] EXCEPT !.q[e] = Tail(@)]
  PROVE  /\ desc[d].st = "live" /\ InService(d) /\ o \in Op /\ op[o].desc = d /\ op[o].calls = 0
         /\ y \in DescType /\ y.st = desc[d].st /\ y.fd = desc[d].fd /\ y.ref = desc[d].ref
         /\ \A p : Queued(desc[d], p) = Queued(y, p) + One(o = p)
<1>0. PICK x \in DescType : x = desc[d]
  BY DEF MuxInv, MuxTypes
<1>1. desc[d].st = "live" /\ InService(d)
  BY Referred DEF Ev
<1>2. x.q \in QType /\ x.q[e] \in Seq(Op) /\ x.q[e] # <<>> /\ o = Head(x.q[e])
  BY <1>0, QueuedNat DEF Ev
<1>3. o \in Op /\ Tail(x.q[e]) \in Seq(Op)
  BY <1>2
<1>4. y = [x EXCEPT !.q[e] = Tail(@)]
  BY <1>0
<1>5. /\ y \in DescType /\ y.st = x.st /\ y.fd = x.fd /\ y.ref = x.ref
      /\ y.q[e] = Tail(x.q[e]) /\ \A f \in Ev : f # e => y.q[f] = x.q[f]
  <2>1. x.q \in [Ev -> Seq(Op)]
    BY <1>2 DEF QType
  <2>2. [x.q EXCEPT ![e] = Tail(@)] \in [Ev -> Seq(Op)]
    BY <1>3, <2>1
  <2> QED BY <1>4, <2>1, <2>2 DEF DescType, QType
<1>6. \A p : Queued(x, p) = Queued(y, p) + One(o = p)
  <2>1. e \in Ev /\ x \in DescType /\ y \in DescType /\ x.q[e] # <<>> /\ y.q[e] = Tail(x.q[e])
        /\ \A f \in Ev : f # e => y.q[f] = x.q[f]
    BY <1>2, <1>5
  <2>2. \A p : Queued(x, p) = Queued(y, p) + One(Head(x.q[e]) = p)
    BY ONLY <2>1, QueuedPop
  <2> QED BY ONLY <1>2, <2>2
<1> DEFINE q == Queued(y, o)
           a == op[o].calls
           b == Carry(Work, o)
<1>7. Queued(desc[d], o) = q + 1 /\ q \in Nat /\ a \in Nat /\ b \in Nat /\ OpPlace(o) /\ MuxTypes
  <2>1. Queued(x, o) = Queued(y, o) + 1
    BY <1>6 DEF One
  <2>2. Queued(y, o) \in Nat
    BY <1>5, QueuedNat
  <2> QED BY <1>0, <1>3, <2>1, <2>2, Numbers DEF MuxInv, OpInv
<1>8. op[o].desc = d
  <2>1. q + 1 # 0
    <3> HIDE DEF q
    <3> QED BY <1>7
  <2> QED BY <1>7, <2>1 DEF OpPlace
<1>9. d # Null /\ a + b + (q + 1) \in {0, 1}
  BY <1>7, <1>8, MuxAssumption DEF OpPlace, Place, One
<1>10. a = 0
  <2> HIDE DEF a, b, q
  <2> QED BY <1>7, <1>9
<1> QED BY <1>0, <1>1, <1>3, <1>5, <1>6, <1>8, <1>10

\* It is taken from the queue and its handler runs.
Finishing(d, e, o, y, r) ==
  /\ d \in Desc /\ e \in Ev /\ desc[d].q[e] # <<>> /\ o = Head(desc[d].q[e])
  /\ y = [desc[d] EXCEPT !.q[e] = Tail(@)] /\ r \in Err
  /\ op' = [op EXCEPT ![o].err = r, ![o].calls = @ + 1] /\ desc'[d] = y
  /\ \A x \in Desc : x # d => \A p \in Op : Queued(desc'[x], p) = Queued(desc[x], p)
  /\ \A p \in Op : Carry(Work', p) = Carry(Work, p)

OneDone(o) ==
  /\ op' \in [Op -> OpType] /\ op'[o].calls = 1
  /\ \A p \in Op : /\ op'[p].kind = op[p].kind /\ op'[p].desc = op[p].desc /\ op'[p].to = op[p].to
                   /\ (p # o => op'[p] = op[p]) /\ OpPlace(p)'

\* The other operations stay where they are.
LEMMA FrontDone ==
  ASSUME MuxInv, NEW d, NEW e, NEW o, NEW y, NEW r, Finishing(d, e, o, y, r)
  PROVE  OneDone(o)
<1> USE DEF Finishing
<1>1. /\ o \in Op /\ op[o].desc = d /\ op[o].calls = 0 /\ y \in DescType
      /\ \A p : Queued(desc[d], p) = Queued(y, p) + One(o = p)
  <2>1. d \in Desc /\ e \in Ev /\ desc[d].q[e] # <<>> /\ o = Head(desc[d].q[e]) /\ y = [desc[d] EXCEPT !.q[e] = Tail(@)] /\ MuxInv
    OBVIOUS
  <2> HIDE DEF Finishing
  <2> QED BY <2>1, FrontPlace
<1>2. MuxTypes /\ op \in [Op -> OpType] /\ op[o] \in OpType
  BY <1>1 DEF MuxInv, MuxTypes
<1>3. PICK z : z = [op[o] EXCEPT !.err = r, !.calls = @ + 1]
  OBVIOUS
<1>4. z \in OpType /\ z.kind = op[o].kind /\ z.desc = d /\ z.to = op[o].to /\ z.calls = 1
  <2>1. op[o] \in OpType /\ op[o].calls = 0 /\ op[o].desc = d /\ r \in Err
    BY <1>1, <1>2
  <2>2. z.kind = op[o].kind /\ z.desc = op[o].desc /\ z.to = op[o].to /\ z.calls = op[o].calls + 1 /\ z.err = r
    BY ONLY <1>3, <2>1 DEF OpType
  <2>3. z \in OpType
    <3>1. op[o].kind \in Kind /\ op[o].desc \in Desc \cup {Null} /\ op[o].to \in Sock \cup {Null} /\ op[o].calls + 1 \in Nat
      BY ONLY <2>1 DEF OpType
    <3>2. z = [kind |-> op[o].kind, desc |-> op[o].desc, to |-> op[o].to, err |-> r, calls |-> op[o].calls + 1]
      BY ONLY <1>3, <2>1 DEF OpType
    <3> QED BY ONLY <2>1, <3>1, <3>2 DEF OpType
  <2> QED BY ONLY <2>1, <2>2, <2>3
<1>5. op' = [op EXCEPT ![o] = z]
  BY <1>1, <1>2, <1>3
<1>6. op' \in [Op -> OpType] /\ op'[o] = z /\ \A p \in Op : p # o => op'[p] = op[p]
  BY ONLY <1>1, <1>2, <1>4, <1>5
<1>7. \A p \in Op : op'[p].kind = op[p].kind /\ op'[p].desc = op[p].desc /\ op'[p].to = op[p].to
  BY <1>1, <1>4, <1>6
<1>8. ASSUME NEW p \in Op PROVE OpPlace(p)'
  <2>1. OpPlace(p) /\ op[p].desc \in Desc \cup {Null} /\ op[p].calls \in Nat /\ Carry(Work, p) \in Nat
    BY <1>2, Numbers DEF MuxInv, OpInv
  <2>2. Queued(y, p) \in Nat
    BY <1>1, QueuedNat
  <2>3. CASE p = o
    <3> DEFINE b == Carry(Work, o)
               q == Queued(y, o)
    <3>1. b \in Nat /\ q \in Nat /\ Queued(desc[d], o) = q + 1 /\ Carry(Work', o) = b /\ d # Null
      BY <1>1, <2>1, <2>2, <2>3, MuxAssumption DEF One
    <3>2. Place(o) = 0 + b + (q + 1) /\ Place(o)' = 1 + b + q
      BY <1>1, <1>4, <1>6, <3>1, ZenonT(30) DEF Place
    <3>3. Place(o)' = Place(o)
      <4> HIDE DEF b, q
      <4> QED BY ONLY <3>1, <3>2
    <3>4. \A x \in Desc \ {op[o].desc} : Queued(desc'[x], o) = Queued(desc[x], o)
      BY <1>1
    <3> QED BY <1>7, <2>1, <2>3, <3>3, <3>4, OpMoves
  <2>4. CASE p # o
    <3>1. Queued(desc[d], p) = Queued(y, p)
      <4>1. Queued(desc[d], p) = Queued(y, p) + 0
        BY <1>1, <2>4 DEF One
      <4> QED BY ONLY <2>2, <4>1
    <3>2. \A x \in Desc : Queued(desc'[x], p) = Queued(desc[x], p)
      BY <3>1
    <3>3. op'[p].kind = op[p].kind /\ op'[p].desc = op[p].desc /\ op'[p].calls = op[p].calls /\ Carry(Work', p) = Carry(Work, p)
      BY <1>6, <2>4
    <3> QED BY <2>1, <3>2, <3>3, OpFrame
  <2> QED BY <2>3, <2>4
<1> QED BY <1>4, <1>6, <1>7, <1>8 DEF OneDone

\* What the system calls answer.
LEMMA Answers ==
  ASSUME MuxInv, NEW d \in Desc, NEW o \in Op, NEW a, a = post_proc(o, d)
  PROVE  a.err \in Err /\ a.n \in {-1, 0, 1} /\ \A e \in Ev : \A k \in SockType : Moved(k, e, a.n) \in SockType
<1>1. \A n, r : Answer(n, r).n = n /\ Answer(n, r).err = r
  BY DEF Answer
<1>2. readv(d).err \in Err /\ readv(d).n \in {-1, 0, 1}
  BY <1>1 DEF readv, Err
<1>3. writev(d).err \in Err /\ writev(d).n \in {-1, 0, 1}
  BY <1>1 DEF writev, Err
<1>4. accept_fd(d).err \in Err /\ accept_fd(d).n \in {-1, 0, 1}
  BY <1>1 DEF accept_fd, Err
<1>5. a.err \in Err /\ a.n \in {-1, 0, 1}
  BY <1>1, <1>2, <1>3, <1>4 DEF post_proc, Err
<1>6. ASSUME NEW n \in {-1, 0, 1}, NEW e \in Ev, NEW k \in SockType PROVE Moved(k, e, n) \in SockType
  BY DEF Moved, SockType
<1> QED BY <1>5, <1>6

\* The first operation of a queue is done.
LEMMA StepDone ==
  ASSUME MuxInv, NEW e \in Ev, dispatch_done(e)
  PROVE  MuxInv'
<1>0. PICK d, o, a, y, r, n : /\ d = cur.desc /\ o = Head(desc[d].q[e]) /\ a = post_proc(o, d)
                              /\ y = [desc[d] EXCEPT !.q[e] = Tail(@)] /\ r = a.err /\ n = a.n
  OBVIOUS
<1>1. /\ lpc = "dispatch" /\ desc[d].q[e] # <<>> /\ op' = [op EXCEPT ![o].err = r, ![o].calls = @ + 1]
      /\ sock' = [sock EXCEPT ![d] = Moved(@, e, n)] /\ desc' = [desc EXCEPT ![d].q[e] = Tail(@)]
      /\ UNCHANGED <<opq, active, ops, lpc, evs, cur, handle>>
  BY <1>0 DEF dispatch_done, Dispatching, Finished, FrontOp, Pop, queueVars, loopVars
<1>2. d \in Desc /\ MuxTypes /\ desc \in [Desc -> DescType] /\ sock \in [Desc -> SockType] /\ op \in [Op -> OpType]
  BY <1>0, <1>1, AtPlace DEF MuxInv, MuxTypes
<1>3. /\ desc[d].st = "live" /\ InService(d) /\ o \in Op /\ op[o].desc = d /\ op[o].calls = 0
      /\ y \in DescType /\ y.st = desc[d].st /\ y.fd = desc[d].fd /\ y.ref = desc[d].ref
  <2>1. desc[d].q[e] # <<>> /\ o = Head(desc[d].q[e]) /\ y = [desc[d] EXCEPT !.q[e] = Tail(@)] /\ MuxInv /\ e \in Ev
    BY <1>0, <1>1
  <2> QED BY ONLY <1>2, <2>1, FrontPlace
<1>4. r \in Err /\ n \in {-1, 0, 1} /\ \A k \in SockType : Moved(k, e, n) \in SockType
  <2>1. a = post_proc(o, d)
    BY <1>0
  <2>2. a.err \in Err /\ a.n \in {-1, 0, 1} /\ \A k \in SockType : Moved(k, e, a.n) \in SockType
    BY <1>2, <1>3, <2>1, Answers
  <2> QED BY <1>0, <2>2
<1>5. desc' = [desc EXCEPT ![d] = y]
  BY <1>0, <1>1, <1>2
<1>6. desc' \in [Desc -> DescType] /\ desc'[d] = y /\ \A x \in Desc : x # d => desc'[x] = desc[x]
  BY ONLY <1>2, <1>3, <1>5
<1>7. sock' \in [Desc -> SockType] /\ \A x \in Desc : x # d => sock'[x] = sock[x]
  <2>1. PICK k : k = Moved(sock[d], e, n)
    OBVIOUS
  <2>2. k \in SockType /\ sock' = [sock EXCEPT ![d] = k]
    BY <1>1, <1>2, <1>4, <2>1
  <2> QED BY ONLY <1>2, <2>2
<1>8. Work' = Work
  BY <1>1 DEF Work
<1>9. /\ op' \in [Op -> OpType] /\ op'[o].calls = 1
      /\ \A p \in Op : /\ op'[p].kind = op[p].kind /\ op'[p].desc = op[p].desc /\ op'[p].to = op[p].to
                       /\ (p # o => op'[p] = op[p]) /\ OpPlace(p)'
  <2>1. \A x \in Desc : x # d => \A p \in Op : Queued(desc'[x], p) = Queued(desc[x], p)
    BY <1>6
  <2>2. \A p \in Op : Carry(Work', p) = Carry(Work, p)
    BY <1>8
  <2>3. Finishing(d, e, o, y, r)
    BY <1>0, <1>1, <1>2, <1>4, <1>6, <2>1, <2>2 DEF Finishing
  <2>4. OneDone(o)
    BY <2>3, FrontDone
  <2> QED BY <2>4 DEF OneDone
<1>10. MuxTypes'
  BY <1>1, <1>2, <1>6, <1>7, <1>9 DEF MuxTypes
<1>11. LoopShape'
  BY <1>1 DEF MuxInv, LoopShape
<1>12. Sent(Work', op')
  <2>1. Sent(Work, op) /\ Work \in Seq(Closure)
    BY <1>2, WorkType DEF MuxInv, OpInv
  <2> QED BY <1>8, <1>9, <2>1, SentKeep
<1>13. Targets'
  <2>1. Targets
    BY DEF MuxInv, OpInv
  <2>2. ASSUME NEW p \in Op, Accepting(p)' PROVE Accepting(p) /\ op'[p].to = op[p].to /\ handle'[op[p].to] = Null
    <3>1. p # o
      BY <1>9, <2>2 DEF Accepting
    <3> QED BY <1>1, <1>9, <2>1, <2>2, <3>1 DEF Accepting, Targets
  <2> QED BY <2>1, <2>2, TargetsKeep
<1>14. \A x \in Desc : desc'[x].st = desc[x].st /\ desc'[x].fd = desc[x].fd /\ desc'[x].ref = desc[x].ref
  BY <1>3, <1>6
<1>15. Engine'
  <2>1. Tally(desc', LiveDesc) = Tally(desc, LiveDesc)
    BY <1>2, <1>6, <1>14, LiveChange
  <2> QED BY <1>1, <1>8, <2>1 DEF MuxInv, DescInv, Engine
<1>16. ASSUME NEW x \in Desc PROVE DescOK(x)'
  <2>1. DescOK(x)
    BY DEF MuxInv, DescInv
  <2>2. desc[x].st # "live" => /\ evs'[x] = {} /\ ~InUse(cur', x) /\ desc'[x].q = desc[x].q /\ sock'[x] = sock[x]
    BY <1>1, <1>3, <1>6, <1>7, <2>1 DEF DescOK, Gone
  <2> QED BY <1>1, <1>8, <1>14, <2>1, <2>2, DescFrame
<1>17. Ordered(Work')
  BY <1>8 DEF MuxInv, DescInv
<1> QED BY <1>9, <1>10, <1>11, <1>12, <1>13, <1>15, <1>16, <1>17 DEF MuxInv, OpInv, DescInv

\* The dispatch ends.  A closure's drops its reference, never the last one: the
\* descriptor still has its owner.
LEMMA StepEnd ==
  ASSUME MuxInv, dispatch_end
  PROVE  MuxInv' /\ Work' = Work /\ op' = op /\ \A x \in Desc : desc'[x].st = desc[x].st /\ desc'[x].q = desc[x].q
<1>0. PICK d : d = cur.desc
  OBVIOUS
<1>1. lpc = "dispatch" /\ cur' = Null /\ UNCHANGED <<ops, evs, handle, sock>>
  BY DEF dispatch_end
<1>2. /\ cur \in CurType /\ cur # Null /\ d \in Desc /\ (\A x \in Desc : InUse(cur, x) <=> x = d)
      /\ \A x \in Desc : ~InUse(cur', x)
  BY <1>0, <1>1, AtPlace DEF MuxInv, LoopShape, InUse
<1>3. desc[d].st = "live" /\ InService(d) /\ MuxTypes /\ desc \in [Desc -> DescType] /\ desc[d] \in DescType
  BY <1>2, Referred DEF MuxInv, MuxTypes
<1>4. CASE ~cur.release
  <2>1. lpc' = "events" /\ UNCHANGED <<opq, active, desc, op>>
    BY <1>4 DEF dispatch_end, queueVars
  <2>2. ops = <<>>
    BY <1>1, <1>4, AtPlace
  <2>3. MuxTypes'
    BY <1>1, <1>3, <2>1 DEF MuxTypes
  <2>4. LoopShape'
    BY <1>1, <2>1, <2>2 DEF LoopShape
  <2>5. Work' = Work
    BY <1>1, <2>1 DEF Work
  <2>6. \A x \in Desc : desc[x].st # "live" => evs[x] = {}
    BY DEF MuxInv, DescInv, DescOK, Gone
  <2>7. MuxInv'
    BY <1>1, <1>2, <1>4, <2>1, <2>3, <2>4, <2>5, <2>6, Quiet
  <2> QED BY <2>1, <2>5, <2>7
<1>5. CASE cur.release
  <2> DEFINE a == Tally(handle, {d})
             b == Counted(Work, d)
             g == Closing(Work, d)
             m == desc[d].ref
  <2>1. a \in Nat /\ b \in Nat /\ g \in Nat /\ m \in Int /\ a + g = 1 /\ m = a + b + 1 /\ (b = 0 => g = 0)
    <3>1. One(InUse(cur, d) /\ cur.release) = 1
      BY <1>2, <1>5 DEF One
    <3>2. Work \in Seq(Closure)
      BY <1>3, WorkType
    <3>3. b = 0 => g = 0
      <4>1. Counted(Work, d) = 0 <=> \A i \in DOMAIN Work : ~(Work[i].desc = d /\ Work[i].k \in {"dispatch", "unbind"})
        BY <3>2, WorkNat
      <4>2. Closing(Work, d) = 0 <=> \A i \in DOMAIN Work : ~(Work[i].desc = d /\ Work[i].k = "unbind")
        BY <3>2, WorkNat
      <4> QED BY <4>1, <4>2
    <3> QED BY <1>2, <1>3, <3>1, <3>3, Numbers DEF InService
  <2>2. m # 1 /\ m - 1 = a + b + 0
    <3> HIDE DEF a, b, g, m
    <3> QED BY <2>1
  <2>3. PICK y : y = [desc[d] EXCEPT !.ref = m - 1]
    OBVIOUS
  <2>4. /\ lpc' = "drain" /\ desc' = [desc EXCEPT ![d] = y] /\ opq' = opq /\ active' = active - 0 + 0
        /\ op' = [o \in Op |-> op[o]]
    <3>1. lpc' = "drain" /\ release(desc, d, 0)
      BY <1>0, <1>5 DEF dispatch_end
    <3> DEFINE w == IF m = 1 THEN [NoDesc EXCEPT !.st = "freed"] ELSE [desc[d] EXCEPT !.ref = m - 1]
    <3>2. /\ desc' = [desc EXCEPT ![d] = w]
          /\ opq' = (IF m = 1 THEN opq \o Aborts(Orphans(d)) ELSE opq)
          /\ active' = active - 0 + (IF m = 1 THEN Len(Orphans(d)) - 1 ELSE 0)
          /\ op' = [o \in Op |-> IF m = 1 /\ \E i \in DOMAIN Orphans(d) : Orphans(d)[i] = o
                                  THEN [op[o] EXCEPT !.err = "aborted"] ELSE op[o]]
      BY <3>1 DEF release, Aborts
    <3>3. opq' = opq /\ active' = active - 0 + 0 /\ op' = [o \in Op |-> op[o]]
      <4> HIDE DEF m, w
      <4> QED BY <2>2, <3>2
    <3>4. w = y
      BY <2>2, <2>3
    <3> HIDE DEF w
    <3> QED BY <3>1, <3>2, <3>3, <3>4
  <2>5. op' = op /\ active' = active
    BY <1>3, <2>4 DEF MuxTypes
  <2>6. y \in DescType /\ y.st = desc[d].st /\ y.fd = desc[d].fd /\ y.q = desc[d].q /\ y.ref = m - 1
    BY <1>3, <2>1, <2>3 DEF DescType
  <2>7. desc' \in [Desc -> DescType] /\ desc'[d] = y /\ \A x \in Desc : x # d => desc'[x] = desc[x]
    BY ONLY <1>2, <1>3, <2>4, <2>6
  <2>8. MuxTypes'
    BY <1>1, <1>3, <2>4, <2>5, <2>7 DEF MuxTypes
  <2>9. \A x \in Desc : evs[x] = {}
    BY <1>1, <1>5, AtPlace
  <2>10. LoopShape'
    BY <1>1, <2>4, <2>9 DEF LoopShape
  <2>11. Work' = Work
    BY <1>1, <2>4 DEF Work
  <2>12. OpInv'
    <3>1. Sent(Work', op')
      BY <2>5, <2>11 DEF MuxInv, OpInv
    <3>2. \A x \in Desc, p \in Op : Queued(desc'[x], p) = Queued(desc[x], p)
      BY <2>6, <2>7 DEF Queued
    <3> QED BY <1>1, <2>5, <2>11, <3>1, <3>2, OpKeep
  <2>13. \A x \in Desc : desc'[x].st = desc[x].st /\ desc'[x].q = desc[x].q
    BY <2>6, <2>7
  <2>14. Engine' /\ Ordered(Work')
    <3>1. Tally(desc', LiveDesc) = Tally(desc, LiveDesc)
      BY <1>3, <2>7, <2>13, LiveChange
    <3> QED BY <2>5, <2>11, <3>1 DEF MuxInv, DescInv, Engine
  <2>15. ASSUME NEW x \in Desc, x # d PROVE DescOK(x)'
    <3>1. DescOK(x)
      BY DEF MuxInv, DescInv
    <3> QED BY <1>1, <1>2, <2>7, <2>9, <2>11, <2>15, <3>1, DescFrame
  <2>16. DescOK(d)'
    <3>1. One(InUse(cur', d) /\ cur'.release) = 0
      BY <1>2 DEF One
    <3>2. InService(d)'
      BY <1>1, <1>3, <2>1, <2>2, <2>6, <2>7, <2>11, <3>1 DEF InService
    <3> QED BY <1>3, <2>6, <2>7, <3>2 DEF DescOK
  <2>17. MuxInv'
    BY <2>8, <2>10, <2>12, <2>14, <2>15, <2>16 DEF MuxInv, DescInv
  <2> QED BY <2>5, <2>11, <2>13, <2>17
<1> QED BY <1>4, <1>5

\* A connection is accepted: the new descriptor goes to the socket object of
\* the operation, which nothing else fills.
LEMMA StepAccepted ==
  ASSUME MuxInv, NEW c \in Desc, NEW b \in {<<>>, <<BindC(c)>>}, dispatch_accepted(c, b)
  PROVE  MuxInv'
<1>0. PICK e, d, o, a, y, r, s, u, k : /\ e = "read" /\ d = cur.desc /\ o = Head(desc[d].q[e]) /\ a = post_proc(o, d)
                                       /\ y = [desc[d] EXCEPT !.q[e] = Tail(@)] /\ r = a.err /\ s = op[o].to
                                       /\ u = [NoDesc EXCEPT !.st = "live", !.fd = TRUE, !.ref = 1]
                                       /\ k = [st |-> "up", rx |-> 0, tx |-> MaxReady]
  OBVIOUS
<1>1. /\ lpc = "dispatch" /\ desc[d].q[e] # <<>> /\ c \in NewDesc /\ op[o].kind = "accept"
      /\ op' = [op EXCEPT ![o].err = r, ![o].calls = @ + 1]
      /\ sock' = [sock EXCEPT ![d] = Moved(@, e, 1), ![c] = k]
      /\ desc' = [[desc EXCEPT ![d].q[e] = Tail(@)] EXCEPT ![c] = u] /\ handle' = [handle EXCEPT ![s] = c]
      /\ opq' = opq \o b /\ active' = active + 1 + Len(b) /\ UNCHANGED <<ops, lpc, evs, cur>>
  BY <1>0 DEF dispatch_accepted, Dispatching, Finished, FrontOp, Pop, loopVars
<1>2. /\ d \in Desc /\ MuxTypes /\ desc \in [Desc -> DescType] /\ sock \in [Desc -> SockType]
      /\ op \in [Op -> OpType] /\ handle \in [Sock -> Desc \cup {Null}]
  BY <1>0, <1>1, AtPlace DEF MuxInv, MuxTypes
<1>e. e \in Ev
  BY <1>0 DEF Ev
<1>3. /\ desc[d].st = "live" /\ InService(d) /\ o \in Op /\ op[o].desc = d /\ op[o].calls = 0
      /\ y \in DescType /\ y.st = desc[d].st /\ y.fd = desc[d].fd /\ y.ref = desc[d].ref
  <2>1. desc[d].q[e] # <<>> /\ o = Head(desc[d].q[e]) /\ y = [desc[d] EXCEPT !.q[e] = Tail(@)] /\ MuxInv
    BY <1>0, <1>1
  <2> QED BY ONLY <1>2, <1>e, <2>1, FrontPlace
<1>4. desc[c].st = "new" /\ Gone(c) /\ c # d
  BY <1>1, <1>3, NewGone
<1>5. Targets /\ Accepting(o) /\ s \in Sock /\ handle[s] = Null /\ \A p \in Op : Accepting(p) /\ op[p].to = s => p = o
  <2>1. Targets /\ Accepting(o)
    BY <1>1, <1>3 DEF MuxInv, OpInv, Accepting
  <2> QED BY <1>0, <1>3, <2>1 DEF Targets
<1>6. r \in Err /\ \A z \in SockType : Moved(z, e, 1) \in SockType
  <2>1. a = post_proc(o, d)
    BY <1>0
  <2>2. a.err \in Err
    BY <1>2, <1>3, <2>1, Answers
  <2>3. \A z \in SockType : Moved(z, e, 1) \in SockType
    BY DEF Moved, SockType
  <2> QED BY <1>0, <2>2, <2>3
<1>7. /\ u \in DescType /\ u.st = "live" /\ u.fd = TRUE /\ u.ref = 1 /\ u.q["read"] = <<>> /\ u.q["write"] = <<>>
  <2>1. NoQ \in QType /\ NoQ["read"] = <<>> /\ NoQ["write"] = <<>>
    BY DEF NoQ, QType, Ev
  <2>2. u = [st |-> "live", fd |-> TRUE, ref |-> 1, q |-> NoQ]
    BY <1>0 DEF NoDesc
  <2> QED BY ONLY <2>1, <2>2 DEF DescType
<1>8. /\ desc' \in [Desc -> DescType] /\ desc'[d] = y /\ desc'[c] = u
      /\ \A x \in Desc : x # d /\ x # c => desc'[x] = desc[x]
  <2>1. [desc EXCEPT ![d].q[e] = Tail(@)] = [desc EXCEPT ![d] = y]
    BY <1>0, <1>2
  <2>2. desc' = [[desc EXCEPT ![d] = y] EXCEPT ![c] = u]
    BY <1>1, <2>1
  <2> QED BY ONLY <1>2, <1>3, <1>4, <1>7, <2>2
<1>9. sock' \in [Desc -> SockType] /\ \A x \in Desc : x # d /\ x # c => sock'[x] = sock[x]
  <2>1. PICK z : z = Moved(sock[d], e, 1)
    OBVIOUS
  <2>2. z \in SockType /\ k \in SockType
    <3>1. sock[d] \in SockType
      BY <1>2
    <3>2. z \in SockType
      BY ONLY <1>6, <2>1, <3>1
    <3>3. k \in SockType
      BY <1>0, MuxAssumption DEF SockType
    <3> QED BY <3>2, <3>3
  <2>3. sock' = [sock EXCEPT ![d] = z, ![c] = k]
    BY <1>1, <2>1
  <2> QED BY ONLY <1>2, <2>2, <2>3
<1>10. handle' \in [Sock -> Desc \cup {Null}] /\ handle'[s] = c /\ \A x \in Sock : x # s => handle'[x] = handle[x]
  BY <1>1, <1>2, <1>5
<1>11. Len(b) \in Nat /\ opq' \in Seq(Closure) /\ BindPosts(Work, Work', c) /\ Len(Work') = Len(Work) + Len(b)
  BY <1>1, <1>2, PostsBind
<1>12. Work \in Seq(Closure) /\ Ordered(Work) /\ Sent(Work, op) /\ \A i \in DOMAIN Work : Work[i].desc # c
  BY <1>2, <1>4, WorkType DEF MuxInv, OpInv, DescInv, Gone
<1>13. /\ Work' \in Seq(Closure) /\ Ordered(Work') /\ Sent(Work', op) /\ \A p \in Op : Carry(Work', p) = Carry(Work, p)
       /\ \A x \in Desc : /\ Counted(Work', x) = Counted(Work, x) /\ Closing(Work', x) = Closing(Work, x)
                          /\ x # c /\ (\A i \in DOMAIN Work : Work[i].desc # x) => \A i \in DOMAIN Work' : Work'[i].desc # x
  BY <1>11, <1>12, BindAdd
<1>14. /\ op' \in [Op -> OpType] /\ op'[o].calls = 1
       /\ \A p \in Op : /\ op'[p].kind = op[p].kind /\ op'[p].desc = op[p].desc /\ op'[p].to = op[p].to
                        /\ (p # o => op'[p] = op[p]) /\ OpPlace(p)'
  <2>1. \A p : Queued(desc'[c], p) = 0 /\ Queued(desc[c], p) = 0
    <3>1. \A p : Queued(desc[c], p) = 0
      BY <1>2, <1>4, GoneCounts
    <3>2. \A p : Queued(u, p) = 0
      BY <1>7, QueuedEmpty
    <3> QED BY <1>8, <3>1, <3>2
  <2>2. \A x \in Desc : x # d => \A p \in Op : Queued(desc'[x], p) = Queued(desc[x], p)
    BY <1>8, <2>1
  <2>3. Finishing(d, e, o, y, r)
    BY <1>0, <1>1, <1>2, <1>e, <1>6, <1>8, <1>13, <2>2 DEF Finishing
  <2>4. OneDone(o)
    BY <2>3, FrontDone
  <2> QED BY <2>4 DEF OneDone
<1>15. MuxTypes'
  <2>1. active' \in Int
    BY <1>1, <1>2, <1>11, Numbers
  <2> QED BY <1>1, <1>2, <1>8, <1>9, <1>10, <1>11, <1>14, <2>1 DEF MuxTypes
<1>16. LoopShape'
  BY <1>1 DEF MuxInv, LoopShape
<1>17. Sent(Work', op')
  BY <1>13, <1>14, SentKeep
<1>18. Targets'
  <2>1. ASSUME NEW p \in Op, Accepting(p)' PROVE Accepting(p) /\ op'[p].to = op[p].to /\ handle'[op[p].to] = Null
    <3>1. p # o
      BY <1>14, <2>1 DEF Accepting
    <3>2. Accepting(p) /\ op'[p].to = op[p].to
      BY <1>14, <2>1, <3>1 DEF Accepting
    <3>3. op[p].to # s /\ op[p].to \in Sock /\ handle[op[p].to] = Null
      BY <1>5, <3>1, <3>2 DEF Targets
    <3> QED BY <1>10, <3>2, <3>3
  <2> QED BY <1>5, <2>1, TargetsKeep
<1>19. DescInv'
  <2>0. PICK n, m : n = 0 /\ m = Len(b)
    OBVIOUS
  <2>1. Counted(Work', c) = n /\ Closing(Work', c) = 0 /\ n \in Nat /\ m \in Nat
    BY <1>2, <1>4, <1>11, <1>13, <2>0, GoneCounts
  <2>2. desc[c].st # "live" /\ desc'[c].st = "live" /\ desc'[c].fd = TRUE /\ desc'[c].ref = 1 + n
        /\ Len(Work') = Len(Work) + m /\ active' = active + 1 + m
    BY <1>1, <1>4, <1>7, <1>8, <1>11, <2>0
  <2>3. ~InUse(cur', c) /\ \A x \in Desc : x # c => desc'[x].st = desc[x].st
    BY <1>1, <1>3, <1>4, <1>8 DEF Gone
  <2>4. ASSUME NEW x \in Desc, x # c, Tally(handle', {x}) = Tally(handle, {x}) PROVE DescOK(x)'
    <3>1. DescOK(x)
      BY DEF MuxInv, DescInv
    <3>2. desc[x].st # "live" => /\ evs'[x] = {} /\ ~InUse(cur', x) /\ desc'[x].q = desc[x].q /\ sock'[x] = sock[x]
      BY <1>1, <1>3, <1>8, <1>9, <2>4, <3>1 DEF DescOK, Gone
    <3>3. desc'[x].st = desc[x].st /\ desc'[x].fd = desc[x].fd /\ desc'[x].ref = desc[x].ref
      BY <1>3, <1>8, <2>4
    <3>4. /\ Counted(Work', x) = Counted(Work, x) /\ Closing(Work', x) = Closing(Work, x)
          /\ (\A i \in DOMAIN Work : Work[i].desc # x) => \A i \in DOMAIN Work' : Work'[i].desc # x
      BY <1>13, <2>4
    <3> QED BY <1>1, <2>4, <3>1, <3>2, <3>3, <3>4, DescFrame
  <2>5. MuxInv /\ MuxTypes' /\ c \in Desc /\ Gone(c) /\ s \in Sock /\ handle[s] = Null /\ handle'[s] = c
        /\ (\A x \in Sock : x # s => handle'[x] = handle[x]) /\ Ordered(Work')
    BY <1>4, <1>5, <1>10, <1>13, <1>15
  <2> QED BY ONLY <2>1, <2>2, <2>3, <2>4, <2>5, Born
<1> QED BY <1>14, <1>15, <1>16, <1>17, <1>18, <1>19 DEF MuxInv, OpInv

-----------------------------------------------------------------------------
(* The invariant. *)

\* Nothing is there at the start.
LEMMA InitMux == Init => MuxInv /\ TableInv
<1> SUFFICES ASSUME Init PROVE MuxInv /\ TableInv
  OBVIOUS
<1>1. MuxInit /\ lpc \in {"wait", "change"} /\ tab = <<>> /\ pollidx = [d \in Desc |-> 0]
  BY DEF Init, PollInit, KqInit, SelInit, NoPoll
<1>2. opq = <<>> /\ ops = <<>> /\ active = 0 /\ evs = NoEv /\ cur = Null
  BY <1>1 DEF MuxInit
<1>3. /\ handle = [s \in Sock |-> Null] /\ desc = [d \in Desc |-> NoDesc] /\ sock = [d \in Desc |-> NoSock]
      /\ op = [o \in Op |-> [kind |-> "none", desc |-> Null, to |-> Null, err |-> "none", calls |-> 0]]
  BY <1>1 DEF MuxInit
<1>4. NoQ \in QType /\ NoQ["read"] = <<>> /\ NoQ["write"] = <<>>
  BY DEF NoQ, QType, Ev
<1>5. NoDesc \in DescType /\ NoDesc.st = "new" /\ NoDesc.q["read"] = <<>> /\ NoDesc.q["write"] = <<>>
  BY <1>4 DEF NoDesc, DescType
<1>6. NoSock \in SockType
  BY DEF NoSock, SockType
<1>7. /\ op \in [Op -> OpType]
      /\ \A o \in Op : op[o].kind = "none" /\ op[o].desc = Null /\ op[o].calls = 0
  BY <1>3 DEF OpType, Kind, Err
<1>8. desc \in [Desc -> DescType] /\ sock \in [Desc -> SockType] /\ handle \in [Sock -> Desc \cup {Null}]
      /\ evs \in [Desc -> SUBSET Ev] /\ \A d \in Desc : desc[d] = NoDesc /\ sock[d] = NoSock /\ evs[d] = {}
  BY <1>2, <1>3, <1>5, <1>6 DEF NoEv
<1>9. MuxTypes
  BY <1>1, <1>2, <1>7, <1>8 DEF MuxTypes
<1>10. Work = <<>> /\ Work \in Seq(Closure) /\ Len(Work) = 0
  BY <1>2 DEF Work
<1>11. LoopShape
  BY <1>1, <1>2, <1>8 DEF LoopShape
<1>12. \A p : Carry(Work, p) = 0
  <2>1. PICK w \in Seq(Closure) : w = Work /\ w = <<>>
    BY <1>10
  <2>2. \A p : Carry(w, p) = 0 <=> \A i \in DOMAIN w : w[i].op # p
    BY <2>1, WorkNat
  <2>3. DOMAIN w = {}
    BY <2>1
  <2> QED BY <2>1, <2>2, <2>3
<1>13. \A p : \A d \in Desc : Queued(desc[d], p) = 0
  BY <1>5, <1>8, QueuedEmpty
<1>14. OpInv
  <2>1. Sent(Work, op)
    BY <1>10 DEF Sent
  <2>2. Targets
    BY <1>7 DEF Targets, Accepting
  <2>3. \A o \in Op : OpPlace(o)
    BY <1>7, <1>12, <1>13 DEF OpPlace, Place, Started, One
  <2> QED BY <2>1, <2>2, <2>3 DEF OpInv
<1>15. Tally(desc, LiveDesc) = 0
  BY <1>5, <1>8, LiveChange
<1>16. Engine
  BY <1>2, <1>10, <1>15 DEF Engine
<1>17. ASSUME NEW d \in Desc PROVE DescOK(d)
  <2>1. Tally(handle, {d}) = 0
    BY <1>3, <1>8, HandleNat, MuxAssumption
  <2> QED BY <1>2, <1>5, <1>8, <1>10, <2>1 DEF DescOK, Gone, InUse
<1>18. Ordered(Work)
  BY <1>10 DEF Ordered
<1>19. TableInv
  BY <1>1, <1>2, <1>5, <1>8 DEF TableInv, InUse
<1> QED BY <1>9, <1>11, <1>14, <1>16, <1>17, <1>18, <1>19 DEF MuxInv, DescInv

\* The kernel reports nothing of what is not open.
LEMMA NotReported ==
  ASSUME MuxInv, NEW d \in Desc
  PROVE  Mask(d) \in SUBSET Ev /\ (desc[d].st # "live" => Mask(d) = {} /\ desc[d].q["read"] = <<>> /\ desc[d].q["write"] = <<>>)
<1>1. DescOK(d)
  BY DEF MuxInv, DescInv
<1>2. desc[d].st # "live" => sock[d] = NoSock /\ desc[d].q["read"] = <<>> /\ desc[d].q["write"] = <<>>
  BY <1>1 DEF DescOK, Gone
<1>3. sock[d] = NoSock => sock[d].st = "none" /\ sock[d].rx = 0
  BY DEF NoSock
<1>4. sock[d] = NoSock => Mask(d) = {}
  BY <1>3 DEF Mask
<1> QED BY <1>2, <1>4 DEF Mask

\* The steps the three multiplexers share.
LEMMA StepShared ==
  ASSUME MuxInv
  PROVE  /\ PlainStep => MuxInv'
         /\ \A c \in NewDesc : /\ BindingCall(c, <<>>) \/ BindingCall(c, <<BindC(c)>>) => MuxInv'
                               /\ dispatch_accepted(c, <<>>) \/ dispatch_accepted(c, <<BindC(c)>>) => MuxInv'
<1>1. PlainStep => MuxInv'
  BY StepHandler, StepEnqueue, StepDone, StepDirection DEF PlainStep
<1>2. ASSUME NEW c \in NewDesc, NEW b \in {<<>>, <<BindC(c)>>} PROVE BindingCall(c, b) \/ dispatch_accepted(c, b) => MuxInv'
  <2>1. c \in Desc
    BY DEF NewDesc
  <2> QED BY <1>2, <2>1, StepCalls, StepAccepted
<1> QED BY <1>1, <1>2

\* The wait returns.
LEMMA StepReported ==
  ASSUME MuxInv, NEW r, wait(r), r \in [Desc -> SUBSET Ev], \A d \in Desc : desc[d].st # "live" => r[d] = {}
  PROVE  MuxInv'
BY StepWait DEF wait

\* poll preserves the invariant.
LEMMA StepPoll ==
  ASSUME MuxInv, PollNext
  PROVE  MuxInv'
<1>1. ASSUME PollCall PROVE MuxInv'
  BY <1>1, StepShared, StepCalls DEF PollCall, poll_bind
<1>2. ASSUME poll_run PROVE MuxInv'
  <2> DEFINE r == [d \in Desc |-> PollReported(d)]
  <2>1. ASSUME NEW d \in Desc PROVE PollReported(d) \subseteq Mask(d)
    BY DEF PollReported
  <2>2. r \in [Desc -> SUBSET Ev] /\ \A d \in Desc : desc[d].st # "live" => r[d] = {}
    BY <2>1, NotReported
  <2>3. wait(r)
    BY <1>2 DEF poll_run
  <2> HIDE DEF r
  <2> QED BY <2>2, <2>3, StepReported
<1>3. ASSUME NEW d \in Desc, poll_event(d) PROVE MuxInv'
  BY <1>3, StepEvent DEF poll_event
<1>4. ASSUME poll_take \/ poll_drained PROVE MuxInv'
  <2>1. PICK back \in {"wait", "change"} : back = "wait"
    OBVIOUS
  <2>2. run_take(back) \/ run_drained(back)
    BY <1>4, <2>1 DEF poll_take, poll_drained
  <2> QED BY <2>2, StepTake
<1>5. ASSUME poll_op_bind PROVE MuxInv'
  BY <1>5, StepRunBind DEF poll_op_bind
<1>6. ASSUME poll_unbind PROVE MuxInv'
  BY <1>6, StepRunUnbind DEF poll_unbind
<1>7. ASSUME poll_accepted PROVE MuxInv'
  BY <1>7, StepShared DEF poll_accepted, poll_bind
<1>8. ASSUME poll_dispatch_end PROVE MuxInv'
  BY <1>8, StepEnd DEF poll_dispatch_end
<1>9. ASSUME PlainStep PROVE MuxInv'
  BY <1>9, StepShared
<1>10. ASSUME KernelStep PROVE MuxInv'
  BY <1>10, StepKernel
<1> QED BY <1>1, <1>2, <1>3, <1>4, <1>5, <1>6, <1>7, <1>8, <1>9, <1>10 DEF PollNext, PollStep

\* kqueue preserves the invariant.
LEMMA StepKqueue ==
  ASSUME MuxInv, KqNext
  PROVE  MuxInv'
<1>1. ASSUME KqCall PROVE MuxInv'
  BY <1>1, StepShared, StepCalls DEF KqCall
<1>2. ASSUME kq_run PROVE MuxInv'
  <2> DEFINE r == [d \in Desc |-> KqReported(d)]
  <2>1. ASSUME NEW d \in Desc PROVE KqReported(d) \subseteq Mask(d)
    BY DEF KqReported
  <2>2. r \in [Desc -> SUBSET Ev] /\ \A d \in Desc : desc[d].st # "live" => r[d] = {}
    BY <2>1, NotReported
  <2>3. wait(r)
    BY <1>2 DEF kq_run
  <2> HIDE DEF r
  <2> QED BY <2>2, <2>3, StepReported
<1>3. ASSUME NEW d \in Desc, NEW e \in Ev, kq_event(d, e) PROVE MuxInv'
  <2>1. PICK dirs : dirs = {e}
    OBVIOUS
  <2>2. run_event(d, dirs)
    BY <1>3, <2>1 DEF kq_event
  <2> QED BY <2>2, StepEvent
<1>4. ASSUME kq_take \/ kq_drained PROVE MuxInv'
  <2>1. PICK back \in {"wait", "change"} : back = "change"
    OBVIOUS
  <2>2. run_take(back) \/ run_drained(back)
    BY <1>4, <2>1 DEF kq_take, kq_drained
  <2> QED BY <2>2, StepTake
<1>5. ASSUME run_change \/ kq_timeout PROVE MuxInv'
  <2>1. lpc \in {"wait", "change"} /\ lpc' \in {"wait", "change"} /\ UNCHANGED <<queueVars, ops, evs, cur, handle, desc, sock, op>>
    BY <1>5 DEF run_change, kq_timeout
  <2> QED BY <2>1, StepMove
<1>6. ASSUME kq_unbind PROVE MuxInv'
  BY <1>6, StepRunUnbind DEF kq_unbind
<1>7. ASSUME kq_accepted PROVE MuxInv'
  BY <1>7, StepShared DEF kq_accepted
<1>8. ASSUME kq_dispatch_end PROVE MuxInv'
  BY <1>8, StepEnd DEF kq_dispatch_end
<1>9. ASSUME PlainStep PROVE MuxInv'
  BY <1>9, StepShared
<1>10. ASSUME KernelStep PROVE MuxInv'
  BY <1>10, StepKernel
<1> QED BY <1>1, <1>2, <1>3, <1>4, <1>5, <1>6, <1>7, <1>8, <1>9, <1>10 DEF KqNext, KqStep

\* select preserves the invariant.
LEMMA StepSelect ==
  ASSUME MuxInv, SelNext
  PROVE  MuxInv'
<1>1. ASSUME SelCall PROVE MuxInv'
  BY <1>1, StepShared, StepCalls DEF SelCall, sel_bind
<1>2. ASSUME select_run PROVE MuxInv'
  <2> DEFINE r == [d \in Desc |-> SelWanted(d)]
  <2>1. ASSUME NEW d \in Desc PROVE SelWanted(d) \in SUBSET Ev /\ (desc[d].st # "live" => SelWanted(d) = {})
    BY NotReported DEF SelWanted, Ev
  <2>2. r \in [Desc -> SUBSET Ev] /\ \A d \in Desc : desc[d].st # "live" => r[d] = {}
    BY <2>1
  <2>3. evs' = r /\ lpc = "wait" /\ lpc' = "events" /\ UNCHANGED <<queueVars, ops, cur, handle, desc, sock, op>>
    BY <1>2 DEF select_run
  <2> HIDE DEF r
  <2> QED BY <2>2, <2>3, StepWait
<1>3. ASSUME NEW d \in Desc, NEW e \in Ev, sel_event(d, e) PROVE MuxInv'
  <2>1. PICK dirs : dirs = {e}
    OBVIOUS
  <2>2. run_event(d, dirs)
    BY <1>3, <2>1 DEF sel_event
  <2> QED BY <2>2, StepEvent
<1>4. ASSUME sel_take \/ sel_drained PROVE MuxInv'
  <2>1. PICK back \in {"wait", "change"} : back = "wait"
    OBVIOUS
  <2>2. run_take(back) \/ run_drained(back)
    BY <1>4, <2>1 DEF sel_take, sel_drained
  <2> QED BY <2>2, StepTake
<1>5. ASSUME sel_op_bind PROVE MuxInv'
  BY <1>5, StepRunBind DEF sel_op_bind
<1>6. ASSUME sel_unbind PROVE MuxInv'
  BY <1>6, StepRunUnbind DEF sel_unbind
<1>7. ASSUME sel_accepted PROVE MuxInv'
  BY <1>7, StepShared DEF sel_accepted, sel_bind
<1>8. ASSUME sel_dispatch_end PROVE MuxInv'
  BY <1>8, StepEnd DEF sel_dispatch_end
<1>9. ASSUME PlainStep PROVE MuxInv'
  BY <1>9, StepShared
<1>10. ASSUME KernelStep PROVE MuxInv'
  BY <1>10, StepKernel
<1> QED BY <1>1, <1>2, <1>3, <1>4, <1>5, <1>6, <1>7, <1>8, <1>9, <1>10 DEF SelNext, SelStep

-----------------------------------------------------------------------------
(* The table of poll. *)

\* Which descriptors wait for their closure of bind, as closures come and go.
LEMMA BindsChange ==
  ASSUME NEW w \in Seq(Closure), NEW x
  PROVE  /\ \A c \in Closure : Binds(Append(w, c), x) <=> Binds(w, x) \/ c = BindC(x)
         /\ w # <<>> => (Binds(w, x) <=> Binds(Tail(w), x) \/ Head(w) = BindC(x))
         /\ \A r \in Seq(Closure) : (\A i \in DOMAIN r : r[i].k = "run") => (Binds(w \o r, x) <=> Binds(w, x))
<1>1. ASSUME NEW c \in Closure PROVE Binds(Append(w, c), x) <=> Binds(w, x) \/ c = BindC(x)
  <2>1. \A i \in DOMAIN Append(w, c) : (i \in DOMAIN w /\ Append(w, c)[i] = w[i]) \/ Append(w, c)[i] = c
    OBVIOUS
  <2>2. \A i \in DOMAIN w : i \in DOMAIN Append(w, c) /\ Append(w, c)[i] = w[i]
    OBVIOUS
  <2>3. Len(w) + 1 \in DOMAIN Append(w, c) /\ Append(w, c)[Len(w) + 1] = c
    OBVIOUS
  <2> QED BY ONLY <2>1, <2>2, <2>3 DEF Binds
<1>2. ASSUME w # <<>> PROVE Binds(w, x) <=> Binds(Tail(w), x) \/ Head(w) = BindC(x)
  <2>1. \A i \in DOMAIN Tail(w) : i + 1 \in DOMAIN w /\ Tail(w)[i] = w[i + 1]
    BY <1>2
  <2>2. \A i \in DOMAIN w : i = 1 \/ (i - 1 \in DOMAIN Tail(w) /\ Tail(w)[i - 1] = w[i])
    BY <1>2
  <2>3. 1 \in DOMAIN w /\ w[1] = Head(w)
    BY <1>2
  <2>4. ASSUME Binds(w, x) PROVE Binds(Tail(w), x) \/ Head(w) = BindC(x)
    BY ONLY <2>2, <2>3, <2>4 DEF Binds
  <2>5. ASSUME Binds(Tail(w), x) \/ Head(w) = BindC(x) PROVE Binds(w, x)
    BY ONLY <2>1, <2>3, <2>5 DEF Binds
  <2> QED BY <2>4, <2>5
<1>3. ASSUME NEW r \in Seq(Closure), \A i \in DOMAIN r : r[i].k = "run" PROVE Binds(w \o r, x) <=> Binds(w, x)
  <2>1. \A i \in DOMAIN (w \o r) : \/ i \in DOMAIN w /\ (w \o r)[i] = w[i]
                                   \/ i - Len(w) \in DOMAIN r /\ (w \o r)[i] = r[i - Len(w)]
    OBVIOUS
  <2>2. \A i \in DOMAIN w : i \in DOMAIN (w \o r) /\ (w \o r)[i] = w[i]
    OBVIOUS
  <2>3. \A c : c.k = "run" => c # BindC(x)
    BY DEF BindC
  <2> DEFINE v == w \o r
  <2>4. \A i \in DOMAIN v : (i \in DOMAIN w /\ v[i] = w[i]) \/ v[i] # BindC(x)
    BY <1>3, <2>1, <2>3
  <2>5. \A i \in DOMAIN w : i \in DOMAIN v /\ v[i] = w[i]
    BY <2>2
  <2> HIDE DEF v
  <2>6. Binds(v, x) <=> Binds(w, x)
    BY ONLY <2>4, <2>5 DEF Binds
  <2> QED BY <2>6 DEF v
<1> QED BY <1>1, <1>2, <1>3

\* Entries stay in place, and nothing is bound or deleted but what waits for it.
LEMMA TableKeep ==
  ASSUME mux = "poll", mux' = mux, TableInv, tab' \in Seq(TabType), DOMAIN tab' = DOMAIN tab,
         \A i \in DOMAIN tab : tab'[i].desc = tab[i].desc, pollidx' = pollidx,
         \A x \in Desc : desc[x].st = "live" => desc'[x].st = "live",
         \A x \in Desc : ToBind(x)' => ToBind(x) \/ desc[x].st # "live",
         \A x \in Desc : desc'[x].st = "live" /\ ~ToBind(x)' => desc[x].st = "live" /\ ~ToBind(x),
         \A x \in Desc : InUse(cur', x) \/ evs'[x] # {} => InTable(x)
  PROVE  TableInv'
<1>1. /\ tab \in Seq(TabType) /\ pollidx \in [Desc -> Nat]
      /\ \A i \in DOMAIN tab : /\ desc[tab[i].desc].st = "live" /\ pollidx[tab[i].desc] = i /\ ~ToBind(tab[i].desc)
      /\ \A d \in Desc : desc[d].st = "live" /\ ~ToBind(d) => InTable(d)
  BY DEF TableInv
<1>2. \A i \in DOMAIN tab : tab[i].desc \in Desc
  <2>1. \A i \in DOMAIN tab : tab[i] \in TabType
    BY ONLY <1>1
  <2> QED BY ONLY <2>1 DEF TabType
<1>3. \A d : InTable(d) => InTable(d)'
  BY DEF InTable
<1>4. \A i \in DOMAIN tab' : /\ desc'[tab'[i].desc].st = "live" /\ pollidx'[tab'[i].desc] = i /\ ~ToBind(tab[i].desc)'
  BY <1>1, <1>2
<1>6. \A d \in Desc : desc'[d].st = "live" /\ ~ToBind(d)' => InTable(d)'
  BY <1>1, <1>3
<1>7. \A d \in Desc : InUse(cur', d) \/ evs'[d] # {} => InTable(d)'
  BY <1>3
<1> QED BY <1>1, <1>4, <1>6, <1>7 DEF TableInv

\* A step that leaves the table, the closures of bind and the descriptors alone.
LEMMA TableStill ==
  ASSUME mux = "poll", mux' = mux, TableInv, UNCHANGED tabVars,
         \A x \in Desc : desc'[x].st = desc[x].st, \A x \in Desc : ToBind(x)' <=> ToBind(x),
         \A x \in Desc : InUse(cur', x) \/ evs'[x] # {} => InTable(x)
  PROVE  TableInv'
<1>1. tab \in Seq(TabType) /\ tab' = tab /\ pollidx' = pollidx
  BY DEF TableInv, tabVars
<1> QED BY <1>1, TableKeep

\* What a plain call posts.
LEMMA PlainPosts ==
  ASSUME MuxInv, PlainCall
  PROVE  /\ \E c \in Closure : c.k # "bind" /\ opq' = Append(opq, c)
         /\ UNCHANGED <<ops, evs, cur>> /\ \A x \in Desc : desc'[x].st = desc[x].st
<1>1. handle \in [Sock -> Desc \cup {Null}] /\ desc \in [Desc -> DescType]
  BY DEF MuxInv, MuxTypes
<1> DEFINE Goal == /\ \E c \in Closure : c.k # "bind" /\ opq' = Append(opq, c)
                   /\ UNCHANGED <<ops, evs, cur>> /\ \A x \in Desc : desc'[x].st = desc[x].st
<1>2. ASSUME NEW o, o \in Op, execute_op(RunC(o)), UNCHANGED <<ops, loopVars, handle, desc, sock>> PROVE Goal
  BY <1>2, ClosureType DEF execute_op, loopVars
<1>3. ASSUME NEW o, execute(o) PROVE Goal
  BY <1>2, <1>3 DEF execute, StartOp, Fresh
<1>4. ASSUME NEW s, NEW o, NEW k, NEW e, fail_op(s, o, k, e) PROVE Goal
  BY <1>2, <1>4 DEF fail_op, StartOp, Fresh
<1>5. ASSUME NEW s \in Sock, NEW o, NEW k, NEW to, NEW states, post_io(s, o, k, to, states) PROVE Goal
  <2>0. PICK d : d = handle[s]
    OBVIOUS
  <2>1. o \in Op /\ d # Null /\ opq' = Append(opq, DispC(d, o)) /\ UNCHANGED <<ops, evs, cur>>
        /\ desc' = [desc EXCEPT ![d].ref = @ + 1]
    BY <1>5, <2>0 DEF post_io, StartOp, Fresh, execute_op, loopVars
  <2>2. d \in Desc
    BY <1>1, <2>0, <2>1
  <2>3. DispC(d, o) \in Closure /\ DispC(d, o).k # "bind"
    BY <2>1, <2>2, ClosureType
  <2>4. \A x \in Desc : desc'[x].st = desc[x].st
    BY ONLY <1>1, <2>1, <2>2 DEF DescType
  <2> QED BY <2>1, <2>3, <2>4
<1>6. ASSUME NEW s \in Sock, unbind(s) PROVE Goal
  <2>0. PICK d : d = handle[s]
    OBVIOUS
  <2>1. d # Null /\ opq' = Append(opq, UnbindC(d)) /\ UNCHANGED <<ops, evs, cur, desc>>
    BY <1>6, <2>0 DEF unbind, execute_op, loopVars
  <2>2. UnbindC(d) \in Closure /\ UnbindC(d).k # "bind"
    BY <1>1, <2>0, <2>1, ClosureType
  <2> QED BY <2>1, <2>2
<1> HIDE DEF Goal
<1>7. Goal
  BY <1>3, <1>4, <1>5, <1>6 DEF PlainCall, read, write, accept, udp_read, udp_write
<1> QED BY <1>7 DEF Goal

\* The table when a call posts a closure.
LEMMA TablePlain ==
  ASSUME MuxInv, TableInv, mux = "poll", mux' = mux, PlainCall, UNCHANGED tabVars
  PROVE  TableInv'
<1>1. /\ \E c \in Closure : c.k # "bind" /\ opq' = Append(opq, c)
      /\ UNCHANGED <<ops, evs, cur>> /\ \A x \in Desc : desc'[x].st = desc[x].st
  BY PlainPosts
<1>2. PICK c \in Closure : c.k # "bind" /\ opq' = Append(opq, c)
  BY <1>1
<1>3. MuxTypes /\ Work \in Seq(Closure) /\ \A x : c # BindC(x)
  BY <1>2, WorkType, ClosureType DEF MuxInv, BindC
<1>4. Work' = Append(Work, c)
  BY <1>1, <1>2, <1>3, Posts
<1>5. \A x \in Desc : ToBind(x)' <=> ToBind(x)
  BY <1>3, <1>4, BindsChange DEF ToBind
<1>6. \A x \in Desc : InUse(cur', x) \/ evs'[x] # {} => InTable(x)
  BY <1>1 DEF TableInv
<1> QED BY <1>1, <1>5, <1>6, TableStill

\* The table when a descriptor is created: its closure of bind is posted.
LEMMA TableBorn ==
  ASSUME MuxInv, TableInv, mux = "poll", mux' = mux, UNCHANGED tabVars, NEW d \in NewDesc,
         desc'[d].st = "live", \A x \in Desc : x # d => desc'[x].st = desc[x].st, UNCHANGED <<evs, cur>>,
         \A x \in Desc : ToBind(x)' <=> ToBind(x) \/ x = d
  PROVE  TableInv'
<1>1. tab \in Seq(TabType) /\ tab' = tab /\ pollidx' = pollidx /\ d \in Desc /\ desc[d].st = "new"
  BY DEF TableInv, tabVars, NewDesc
<1>2. \A x \in Desc : InUse(cur', x) \/ evs'[x] # {} => InTable(x)
  BY DEF TableInv
<1>3. \A x \in Desc : desc[x].st = "live" => desc'[x].st = "live"
  BY <1>1
<1>4. \A x \in Desc : ToBind(x)' => ToBind(x) \/ desc[x].st # "live"
  BY <1>1
<1>5. \A x \in Desc : desc'[x].st = "live" /\ ~ToBind(x)' => desc[x].st = "live" /\ ~ToBind(x)
  BY <1>1
<1>6. /\ mux = "poll" /\ mux' = mux /\ TableInv /\ tab' \in Seq(TabType) /\ DOMAIN tab' = DOMAIN tab
      /\ (\A i \in DOMAIN tab : tab'[i].desc = tab[i].desc) /\ pollidx' = pollidx
  BY <1>1
<1> QED BY ONLY <1>2, <1>3, <1>4, <1>5, <1>6, TableKeep

\* What the closures of a new descriptor do to the queue.
LEMMA BoundPosts ==
  ASSUME MuxTypes, NEW d \in Desc, ops' = ops
  PROVE  /\ opq' = opq \o <<BindC(d)>> => \A x \in Desc : ToBind(x)' <=> ToBind(x) \/ x = d
         /\ \A c \in Closure : c.k # "bind" /\ opq' = opq \o (<<BindC(d)>> \o <<c>>)
              => \A x \in Desc : ToBind(x)' <=> ToBind(x) \/ x = d
<1>1. opq \in Seq(Closure) /\ ops \in Seq(Closure) /\ Work \in Seq(Closure) /\ BindC(d) \in Closure
  BY WorkType, ClosureType
<1>2. PICK b : b = BindC(d)
  OBVIOUS
<1>3. b \in Closure /\ \A x \in Desc : b = BindC(x) <=> x = d
  BY <1>1, <1>2 DEF BindC
<1>4. opq \o <<b>> = Append(opq, b) /\ Append(opq, b) \in Seq(Closure)
  BY <1>1, <1>3
<1>5. ops \o Append(opq, b) = Append(Work, b) /\ Append(Work, b) \in Seq(Closure)
  BY <1>1, <1>3, Joined DEF Work
<1>6. \A x \in Desc : Binds(Append(Work, b), x) <=> Binds(Work, x) \/ x = d
  BY <1>1, <1>3, BindsChange
<1>7. ASSUME opq' = opq \o <<BindC(d)>>, NEW x \in Desc PROVE ToBind(x)' <=> ToBind(x) \/ x = d
  <2>1. Work' = Append(Work, b)
    BY <1>2, <1>4, <1>5, <1>7 DEF Work
  <2> QED BY <1>6, <2>1 DEF ToBind
<1>8. ASSUME NEW c \in Closure, c.k # "bind", opq' = opq \o (<<BindC(d)>> \o <<c>>), NEW x \in Desc
      PROVE  ToBind(x)' <=> ToBind(x) \/ x = d
  <2>1. opq \o (<<b>> \o <<c>>) = Append(Append(opq, b), c)
    BY <1>1, <1>3
  <2>2. PICK v \in Seq(Closure) : v = Append(opq, b)
    BY <1>4
  <2>3. ops \o Append(v, c) = Append(ops \o v, c)
    BY <1>1, Joined
  <2>4. Work' = Append(Append(Work, b), c)
    <3>1. opq' = Append(v, c)
      BY <1>2, <1>8, <2>1, <2>2
    <3>2. ops \o v = Append(Work, b)
      BY <1>5, <2>2
    <3> QED BY <2>3, <3>1, <3>2 DEF Work
  <2>5. PICK w \in Seq(Closure) : w = Append(Work, b)
    BY <1>5
  <2>6. Binds(Append(w, c), x) <=> Binds(w, x) \/ c = BindC(x)
    BY BindsChange
  <2>7. c # BindC(x)
    BY <1>8 DEF BindC
  <2> QED BY <1>6, <2>4, <2>5, <2>6, <2>7 DEF ToBind
<1> QED BY <1>7, <1>8

\* The table when a call or an accept creates a descriptor.
LEMMA TableBinding ==
  ASSUME MuxInv, TableInv, mux = "poll", mux' = mux, UNCHANGED tabVars, NEW d \in NewDesc, NEW b, b = <<BindC(d)>>,
         BindingCall(d, b) \/ dispatch_accepted(d, b)
  PROVE  TableInv'
<1>1. d \in Desc /\ desc[d].st = "new" /\ MuxTypes /\ desc \in [Desc -> DescType]
  BY DEF NewDesc, MuxInv, MuxTypes
<1> DEFINE Made == /\ desc'[d].st = "live" /\ (\A x \in Desc : x # d => desc'[x].st = desc[x].st)
                   /\ UNCHANGED <<evs, cur>> /\ (\A x \in Desc : ToBind(x)' <=> ToBind(x) \/ x = d)
<1>2. ASSUME NEW s, NEW st, NEW wq, NEW ref, NEW q, create(d, s, st, wq, ref, q)
      PROVE  desc'[d].st = "live" /\ (\A x \in Desc : x # d => desc'[x].st = desc[x].st) /\ opq' = opq \o q
  <2>1. PICK y : y = [st |-> "live", fd |-> TRUE, ref |-> ref, q |-> [NoQ EXCEPT !["write"] = wq]]
    OBVIOUS
  <2>2. desc' = [desc EXCEPT ![d] = y] /\ opq' = opq \o q /\ y.st = "live"
    BY <1>2, <2>1 DEF create
  <2> QED BY ONLY <1>1, <2>2
<1>3. ASSUME NEW s, listen(d, s, b) \/ udp_bind(d, s, b) PROVE Made
  <2>1. opq' = opq \o b /\ desc'[d].st = "live" /\ (\A x \in Desc : x # d => desc'[x].st = desc[x].st)
    BY <1>2, <1>3 DEF listen, udp_bind
  <2>2. UNCHANGED <<ops, evs, cur>>
    BY <1>3 DEF listen, udp_bind, loopVars
  <2> QED BY <1>1, <2>1, <2>2, BoundPosts
<1>4. ASSUME NEW s, NEW o, connect(d, s, o, b) PROVE Made
  <2>1. opq' = opq \o b /\ desc'[d].st = "live" /\ (\A x \in Desc : x # d => desc'[x].st = desc[x].st)
    BY <1>2, <1>4 DEF connect
  <2>2. UNCHANGED <<ops, evs, cur>>
    BY <1>4 DEF connect, loopVars
  <2> QED BY <1>1, <2>1, <2>2, BoundPosts
<1>5. ASSUME NEW s, NEW o, udp_write_open(d, s, o, b) PROVE Made
  <2>0. PICK c : c = DispC(d, o)
    OBVIOUS
  <2>1. opq' = opq \o (b \o <<c>>) /\ desc'[d].st = "live" /\ (\A x \in Desc : x # d => desc'[x].st = desc[x].st)
    BY <1>2, <1>5, <2>0 DEF udp_write_open
  <2>2. UNCHANGED <<ops, evs, cur>> /\ o \in Op
    BY <1>5 DEF udp_write_open, loopVars, StartOp, Fresh
  <2>3. c \in Closure /\ c.k # "bind"
    BY <1>1, <2>0, <2>2, ClosureType
  <2> QED BY <1>1, <2>1, <2>2, <2>3, BoundPosts
<1>6. ASSUME dispatch_accepted(d, b) PROVE Made
  <2>0. PICK c, y : c = cur.desc /\ y = [NoDesc EXCEPT !.st = "live", !.fd = TRUE, !.ref = 1]
    OBVIOUS
  <2>1. /\ lpc = "dispatch" /\ opq' = opq \o b /\ UNCHANGED <<ops, evs, cur>>
        /\ desc' = [[desc EXCEPT ![c].q["read"] = Tail(@)] EXCEPT ![d] = y]
    BY <1>6, <2>0 DEF dispatch_accepted, Dispatching, Finished, Pop, loopVars
  <2>2. c \in Desc /\ y.st = "live"
    BY <2>0, <2>1, AtPlace DEF NoDesc
  <2>3. PICK z : z = [desc EXCEPT ![c].q["read"] = Tail(@)]
    OBVIOUS
  <2>4. DOMAIN z = Desc /\ \A x \in Desc : z[x].st = desc[x].st
    BY ONLY <1>1, <2>2, <2>3 DEF DescType
  <2>5. desc'[d].st = "live" /\ (\A x \in Desc : x # d => desc'[x].st = desc[x].st)
    <3>1. desc' = [z EXCEPT ![d] = y]
      BY <2>1, <2>3
    <3> QED BY ONLY <1>1, <2>2, <2>4, <3>1
  <2> QED BY <1>1, <2>1, <2>5, BoundPosts
<1>7. Made
  <2> HIDE DEF Made
  <2> QED BY <1>3, <1>4, <1>5, <1>6 DEF BindingCall
<1> QED BY <1>7, TableBorn

\* The wait returns with what the table asks for; an event is dispatched.
LEMMA TableEvents ==
  ASSUME MuxInv, TableInv, mux = "poll", mux' = mux, UNCHANGED tabVars,
         poll_run \/ (\E d \in Desc : poll_event(d)) \/ poll_take \/ poll_drained
  PROVE  TableInv'
<1>0. MuxTypes /\ \A x \in Desc : InUse(cur, x) \/ evs[x] # {} => InTable(x)
  BY DEF TableInv, MuxInv
<1>1. ASSUME poll_run PROVE TableInv'
  <2>1. evs' = [d \in Desc |-> PollReported(d)] /\ UNCHANGED <<opq, ops, cur, desc>>
    BY <1>1 DEF poll_run, wait, queueVars
  <2>2. ASSUME NEW d \in Desc, PollReported(d) # {} PROVE InTable(d)
    BY <2>2 DEF PollReported, InTable
  <2>3. \A x \in Desc : InUse(cur', x) \/ evs'[x] # {} => InTable(x)
    BY <1>0, <2>1, <2>2
  <2>4. Work' = Work
    BY <2>1 DEF Work
  <2> QED BY <2>1, <2>3, <2>4, TableStill DEF ToBind
<1>2. ASSUME NEW d \in Desc, poll_event(d) PROVE TableInv'
  <2>1. /\ evs[d] # {} /\ cur' = [desc |-> d, evs |-> evs[d], release |-> FALSE]
        /\ evs' = [evs EXCEPT ![d] = @ \ evs[d]] /\ UNCHANGED <<opq, ops, desc>>
    BY <1>2 DEF poll_event, run_event, queueVars
  <2>2. \A x \in Desc : evs'[x] # {} => evs[x] # {}
    BY <1>0, <2>1 DEF MuxTypes
  <2>3. \A x \in Desc : InUse(cur', x) => x = d
    BY <2>1 DEF InUse
  <2>4. \A x \in Desc : InUse(cur', x) \/ evs'[x] # {} => InTable(x)
    BY <1>0, <2>1, <2>2, <2>3
  <2>5. Work' = Work
    BY <2>1 DEF Work
  <2> QED BY <2>1, <2>4, <2>5, TableStill DEF ToBind
<1>3. ASSUME poll_take \/ poll_drained PROVE TableInv'
  <2>1. UNCHANGED <<evs, cur, desc>>
    BY <1>3 DEF poll_take, poll_drained, run_take, run_drained
  <2>2. Work' = Work
    <3>1. CASE poll_drained
      BY <3>1 DEF poll_drained, run_drained, queueVars, Work
    <3>2. CASE poll_take
      <4>1. ops = <<>> /\ opq \in Seq(Closure)
        BY <1>0, <3>2, AtPlace, WorkType DEF poll_take, run_take
      <4>2. <<>> \o opq = opq /\ opq \o <<>> = opq
        BY <4>1, ConcatEmptySeq
      <4>3. (ops' = opq /\ opq' = <<>>) \/ (ops' = <<>> /\ opq' = opq)
        BY <3>2 DEF poll_take, run_take
      <4> QED BY <4>1, <4>2, <4>3 DEF Work
    <3> QED BY <1>3, <3>1, <3>2
  <2>3. \A x \in Desc : InUse(cur', x) \/ evs'[x] # {} => InTable(x)
    BY <1>0, <2>1
  <2> QED BY <2>1, <2>2, <2>3, TableStill DEF ToBind
<1> QED BY <1>1, <1>2, <1>3

\* What the loop does with the operations of a descriptor.  A closure that
\* dispatches comes after the one that binds: its descriptor is in the table.
LEMMA TablePlainStep ==
  ASSUME MuxInv, TableInv, mux = "poll", mux' = mux, UNCHANGED tabVars, PlainStep \/ KernelStep
  PROVE  TableInv'
<1>0. /\ MuxTypes /\ desc \in [Desc -> DescType] /\ \A x \in Desc : InUse(cur, x) \/ evs[x] # {} => InTable(x)
      /\ \A x \in Desc : desc[x].st = "live" /\ ~ToBind(x) => InTable(x)
  BY DEF TableInv, MuxInv, MuxTypes
<1>1. ASSUME op_run_handler PROVE TableInv'
  <2>0. PICK c : c = Head(ops)
    OBVIOUS
  <2>1. ops # <<>> /\ ops' = Tail(ops) /\ opq' = opq /\ c.k = "run" /\ UNCHANGED <<evs, cur, desc>>
    BY <1>1, <2>0 DEF op_run_handler, Next_op, loopVars
  <2>2. Left(Work, Work', c)
    BY <2>0, <2>1, BatchHead
  <2>3. \A x : Binds(Work, x) <=> Binds(Work', x) \/ c = BindC(x)
    BY <2>2, BindsChange DEF Left
  <2>4. \A x : c # BindC(x)
    BY <2>1 DEF BindC
  <2>5. \A x \in Desc : ToBind(x)' <=> ToBind(x)
    BY <2>3, <2>4 DEF ToBind
  <2>6. \A x \in Desc : InUse(cur', x) \/ evs'[x] # {} => InTable(x)
    BY <1>0, <2>1
  <2> QED BY <2>1, <2>5, <2>6, TableStill
<1>2. ASSUME op_run_dispatch PROVE TableInv'
  <2>0. PICK c, d, e, o : c = Head(ops) /\ d = c.desc /\ o = c.op /\ e = EvOf(op[o].kind)
    OBVIOUS
  <2>1. /\ lpc = "drain" /\ ops # <<>> /\ ops' = Tail(ops) /\ opq' = opq /\ c.k = "dispatch" /\ UNCHANGED evs
        /\ cur' = [desc |-> d, evs |-> {e}, release |-> TRUE] /\ desc' = [desc EXCEPT ![d].q[e] = Append(@, o)]
    BY <1>2, <2>0 DEF op_run_dispatch, Next_op
  <2>2. Left(Work, Work', c)
    BY <2>0, <2>1, BatchHead
  <2>3. \A x : Binds(Work, x) <=> Binds(Work', x) \/ c = BindC(x)
    BY <2>2, BindsChange DEF Left
  <2>4. \A x : c # BindC(x)
    BY <2>1 DEF BindC
  <2>5. \A x \in Desc : ToBind(x)' <=> ToBind(x)
    BY <2>3, <2>4 DEF ToBind
  <2>6. Work \in Seq(Closure) /\ Work # <<>> /\ c = Head(Work) /\ c \in Closure /\ d \in Desc
    BY <2>0, <2>1, <2>2, ClosureFields DEF Left
  <2>7. desc[d].st = "live"
    <3>1. 1 \in DOMAIN Work /\ Work[1].desc = d
      BY <2>0, <2>6
    <3> QED BY <2>6, <3>1, Referred
  <2>8. ~ToBind(d)
    <3>1. Ordered(Work)
      BY DEF MuxInv, DescInv
    <3>2. 1 \in DOMAIN Work /\ Work[1] = c /\ \A j \in DOMAIN Work : j = 1 \/ 1 < j
      BY <2>6
    <3>3. BindC(d).k = "bind" /\ BindC(d).desc = d
      BY DEF BindC
    <3>4. \A j \in DOMAIN Work : Work[j] = BindC(d) => FALSE
      BY <2>0, <2>4, <3>1, <3>2, <3>3 DEF Ordered
    <3> QED BY <3>4 DEF ToBind, Binds
  <2>9. \A x \in Desc : InUse(cur', x) \/ evs'[x] # {} => InTable(x)
    <3>1. \A x : InUse(cur', x) => x = d
      BY <2>1 DEF InUse
    <3> QED BY <1>0, <2>1, <2>6, <2>7, <2>8, <3>1
  <2>10. \A x \in Desc : desc'[x].st = desc[x].st
    BY ONLY <1>0, <2>1, <2>6 DEF DescType
  <2> QED BY <2>5, <2>9, <2>10, TableStill
<1>3. ASSUME NEW e \in Ev, dispatch_done(e) PROVE TableInv'
  <2>0. PICK d : d = cur.desc
    OBVIOUS
  <2>1. lpc = "dispatch" /\ desc' = [desc EXCEPT ![d].q[e] = Tail(@)] /\ UNCHANGED <<opq, ops, evs, cur>>
    BY <1>3, <2>0 DEF dispatch_done, Dispatching, Finished, Pop, queueVars, loopVars
  <2>2. d \in Desc
    BY <2>0, <2>1, AtPlace
  <2>3. \A x \in Desc : desc'[x].st = desc[x].st
    BY ONLY <1>0, <2>1, <2>2 DEF DescType
  <2>4. Work' = Work /\ \A x \in Desc : InUse(cur', x) \/ evs'[x] # {} => InTable(x)
    BY <1>0, <2>1 DEF Work
  <2> QED BY <2>3, <2>4, TableStill DEF ToBind
<1>4. ASSUME NEW e \in Ev, dispatch_next(e) PROVE TableInv'
  <2>1. lpc = "dispatch" /\ cur' = [cur EXCEPT !.evs = @ \ {e}] /\ UNCHANGED <<opq, ops, evs, desc>>
    BY <1>4 DEF dispatch_next, Dispatching, queueVars
  <2>2. cur \in CurType /\ cur # Null
    BY <2>1, AtPlace DEF MuxInv, LoopShape
  <2>3. cur'.desc = cur.desc
    BY <2>1, <2>2 DEF CurType
  <2>4. Work' = Work /\ \A x \in Desc : InUse(cur', x) \/ evs'[x] # {} => InTable(x)
    BY <1>0, <2>1, <2>2, <2>3 DEF Work, InUse
  <2> QED BY <2>1, <2>4, TableStill DEF ToBind
<1>5. ASSUME KernelStep PROVE TableInv'
  <2>1. UNCHANGED <<opq, ops, evs, cur, desc>>
    BY <1>5 DEF KernelStep, connected, arrive, drain_tx, peer_down, Kernel, queueVars, loopVars
  <2>2. Work' = Work /\ \A x \in Desc : InUse(cur', x) \/ evs'[x] # {} => InTable(x)
    BY <1>0, <2>1 DEF Work
  <2> QED BY <2>1, <2>2, TableStill DEF ToBind
<1> QED BY <1>1, <1>2, <1>3, <1>4, <1>5 DEF PlainStep

\* The end of complete() writes the directions of its own descriptor's entry.
LEMMA TableEnd ==
  ASSUME MuxInv, TableInv, mux = "poll", mux' = mux, poll_dispatch_end
  PROVE  TableInv'
<1>0. /\ tab \in Seq(TabType) /\ pollidx \in [Desc -> Nat]
      /\ (\A i \in DOMAIN tab : pollidx[tab[i].desc] = i)
      /\ \A x \in Desc : InUse(cur, x) \/ evs[x] # {} => InTable(x)
  BY DEF TableInv
<1>1. PICK d, i, z : d = cur.desc /\ i = pollidx[d] /\ z = PollWanted(d)
  OBVIOUS
<1>2. dispatch_end /\ tab' = [tab EXCEPT ![i].ev = z] /\ pollidx' = pollidx
  BY <1>1 DEF poll_dispatch_end
<1>3. Work' = Work /\ \A x \in Desc : desc'[x].st = desc[x].st
  BY <1>2, StepEnd
<1>4. lpc = "dispatch" /\ cur' = Null /\ evs' = evs
  BY <1>2 DEF dispatch_end
<1>5. d \in Desc /\ InTable(d)
  BY <1>0, <1>1, <1>4, AtPlace
<1>6. i \in DOMAIN tab
  BY <1>0, <1>1, <1>5 DEF InTable
<1>7. tab' \in Seq(TabType) /\ DOMAIN tab' = DOMAIN tab /\ \A j \in DOMAIN tab : tab'[j].desc = tab[j].desc
  <2>1. PICK y : y = [tab[i] EXCEPT !.ev = z]
    OBVIOUS
  <2>2. tab[i] \in TabType /\ z \in SUBSET Ev
    BY <1>0, <1>1, <1>6 DEF PollWanted
  <2>3. y \in TabType /\ y.desc = tab[i].desc
    BY ONLY <2>1, <2>2 DEF TabType
  <2>4. tab' = [tab EXCEPT ![i] = y]
    BY <1>2, <2>1
  <2> QED BY ONLY <1>0, <1>6, <2>3, <2>4
<1>8. \A x \in Desc : InUse(cur', x) \/ evs'[x] # {} => InTable(x)
  BY <1>0, <1>4 DEF InUse
<1>9. \A x \in Desc : ToBind(x)' <=> ToBind(x)
  BY <1>3 DEF ToBind
<1>10. /\ \A x \in Desc : desc[x].st = "live" => desc'[x].st = "live"
       /\ \A x \in Desc : ToBind(x)' => ToBind(x) \/ desc[x].st # "live"
       /\ \A x \in Desc : desc'[x].st = "live" /\ ~ToBind(x)' => desc[x].st = "live" /\ ~ToBind(x)
  BY <1>3, <1>9
<1>11. mux = "poll" /\ mux' = mux /\ TableInv
  OBVIOUS
<1> QED BY ONLY <1>2, <1>7, <1>8, <1>10, <1>11, TableKeep

\* The closure of bind runs: the descriptor gets the entry at the end.
LEMMA TableRunBind ==
  ASSUME MuxInv, TableInv, mux = "poll", mux' = mux, poll_op_bind
  PROVE  TableInv'
<1>0. /\ tab \in Seq(TabType) /\ pollidx \in [Desc -> Nat]
      /\ \A i \in DOMAIN tab : desc[tab[i].desc].st = "live" /\ pollidx[tab[i].desc] = i /\ ~Binds(Work, tab[i].desc)
      /\ \A x \in Desc : desc[x].st = "live" /\ ~Binds(Work, x) => InTable(x)
  BY DEF TableInv, ToBind
<1>1. PICK c, d, n, y : c = Head(ops) /\ d = c.desc /\ n = Len(tab) /\ y = [desc |-> d, ev |-> Ev]
  OBVIOUS
<1>2. /\ lpc = "drain" /\ ops # <<>> /\ ops' = Tail(ops) /\ opq' = opq /\ c.k = "bind" /\ UNCHANGED <<evs, cur, desc>>
      /\ tab' = Append(tab, y) /\ pollidx' = [pollidx EXCEPT ![d] = n + 1]
  BY <1>1 DEF poll_op_bind, Next_op, loopVars
<1>3. Left(Work, Work', c)
  BY <1>1, <1>2, BatchHead
<1>4. Work \in Seq(Closure) /\ Work # <<>> /\ Head(Work) = c /\ Work' = Tail(Work) /\ d \in Desc /\ c = BindC(d)
  BY <1>1, <1>2, <1>3, ClosureFields DEF Left
<1>5. \A x : Binds(Work, x) <=> Binds(Work', x) \/ x = d
  <2>1. \A x : Binds(Work, x) <=> Binds(Work', x) \/ c = BindC(x)
    BY <1>4, BindsChange
  <2>2. \A x : c = BindC(x) <=> x = d
    BY <1>4 DEF BindC
  <2> QED BY <2>1, <2>2
<1>6. ~Binds(Work', d)
  <2>1. Ordered(Work)
    BY DEF MuxInv, DescInv
  <2>2. 1 \in DOMAIN Work /\ Work[1] = c /\ \A j \in DOMAIN Work' : j + 1 \in DOMAIN Work /\ 1 < j + 1 /\ Work'[j] = Work[j + 1]
    BY <1>4
  <2>3. c.k = "bind" /\ c.desc = d
    BY <1>4 DEF BindC
  <2>4. \A j \in DOMAIN Work' : Work'[j] # c
    BY <2>1, <2>2, <2>3 DEF Ordered
  <2> QED BY <1>4, <2>4 DEF Binds
<1>7. desc[d].st = "live"
  <2>1. 1 \in DOMAIN Work /\ Work[1].desc = d
    BY <1>1, <1>4
  <2> QED BY <1>4, <2>1, Referred
<1>8. n \in Nat /\ y \in TabType /\ y.desc = d /\ DOMAIN tab = 1..n
  BY <1>0, <1>1, <1>4 DEF TabType
<1>9. /\ tab' \in Seq(TabType) /\ DOMAIN tab' = 1..(n + 1) /\ tab'[n + 1] = y /\ \A i \in 1..n : tab'[i] = tab[i]
  <2>1. tab' = Append(tab, y) /\ tab \in Seq(TabType) /\ y \in TabType /\ n = Len(tab)
    BY <1>0, <1>1, <1>2, <1>8
  <2> QED BY ONLY <2>1
<1>10. pollidx' \in [Desc -> Nat] /\ pollidx'[d] = n + 1 /\ \A x \in Desc : x # d => pollidx'[x] = pollidx[x]
  BY ONLY <1>0, <1>2, <1>4, <1>8
<1>11. \A i \in 1..n : tab[i].desc \in Desc /\ tab[i].desc # d
  <2>1. \A i \in 1..n : tab[i] \in TabType
    BY ONLY <1>0, <1>8
  <2>2. \A i \in 1..n : tab[i].desc # d
    BY <1>0, <1>5, <1>8
  <2> QED BY <2>1, <2>2 DEF TabType
<1>12. ASSUME NEW i \in DOMAIN tab'
       PROVE  desc'[tab'[i].desc].st = "live" /\ pollidx'[tab'[i].desc] = i /\ ~Binds(Work', tab'[i].desc)
  <2>1. CASE i = n + 1
    BY <1>2, <1>6, <1>7, <1>8, <1>9, <1>10, <2>1
  <2>2. CASE i # n + 1
    <3>1. i \in 1..n
      BY <1>8, <1>9, <2>2
    <3> QED BY <1>0, <1>2, <1>5, <1>8, <1>9, <1>10, <1>11, <3>1
  <2> QED BY <2>1, <2>2
<1>13. \A x : InTable(x) \/ x = d => InTable(x)'
  <2>1. \A i \in 1..n : i \in DOMAIN tab' /\ tab'[i] = tab[i]
    BY <1>8, <1>9
  <2>2. n + 1 \in DOMAIN tab' /\ tab'[n + 1].desc = d
    BY <1>8, <1>9
  <2> QED BY <1>8, <2>1, <2>2 DEF InTable
<1>14. \A x \in Desc : desc'[x].st = "live" /\ ~Binds(Work', x) => InTable(x)'
  BY <1>0, <1>2, <1>5, <1>13
<1>15. \A x \in Desc : ~(InUse(cur', x) \/ evs'[x] # {})
  BY <1>2, AtPlace
<1> QED BY <1>9, <1>10, <1>12, <1>14, <1>15 DEF TableInv, ToBind

\* The closure of unbind runs: the last entry takes the place of the one that
\* is removed, and its descriptor is told.
LEMMA TableUnbind ==
  ASSUME MuxInv, TableInv, mux = "poll", mux' = mux, poll_unbind
  PROVE  TableInv'
<1>0. /\ tab \in Seq(TabType) /\ pollidx \in [Desc -> Nat]
      /\ \A i \in DOMAIN tab : desc[tab[i].desc].st = "live" /\ pollidx[tab[i].desc] = i /\ ~Binds(Work, tab[i].desc)
      /\ \A x \in Desc : desc[x].st = "live" /\ ~Binds(Work, x) => InTable(x)
  BY DEF TableInv, ToBind
<1>1. PICK c, d, n, z, r, u : /\ c = Head(ops) /\ d = c.desc /\ n = Len(tab) /\ z = Orphans(d) /\ r = Aborts(z)
                              /\ u = [NoDesc EXCEPT !.st = "freed"]
  OBVIOUS
<1>2. /\ lpc = "drain" /\ ops # <<>> /\ c.k = "unbind" /\ ops' = Tail(ops) /\ UNCHANGED <<evs, cur>>
      /\ release([desc EXCEPT ![d].fd = FALSE], d, 1)
  BY <1>1 DEF poll_unbind, op_run_unbind, Next_op, loopVars
<1>3. /\ d \in Desc /\ desc[d].st = "live" /\ desc[d].ref = 1
      /\ Left(Work, Tail(Work), c) /\ \A i \in DOMAIN Tail(Work) : Tail(Work)[i].desc # d
  BY <1>1, <1>2, LastReference
<1>4. MuxTypes /\ desc \in [Desc -> DescType] /\ desc[d] \in DescType
  BY <1>3 DEF MuxInv, MuxTypes
<1>5. opq' = opq \o r /\ desc'[d].st = "freed" /\ \A x \in Desc : x # d => desc'[x] = desc[x]
  <2>1. desc' = [[desc EXCEPT ![d].fd = FALSE] EXCEPT ![d] = u] /\ opq' = opq \o r
    BY <1>1, <1>2, <1>3 DEF release, Aborts
  <2>2. u.st = "freed"
    BY <1>1 DEF NoDesc
  <2> QED BY ONLY <1>3, <1>4, <2>1, <2>2
<1>6. \A x : Binds(Work', x) <=> Binds(Work, x)
  <2>1. z \in Seq(Op)
    <3>1. PICK y \in DescType : y = desc[d]
      BY <1>4
    <3>2. y.q["read"] \in Seq(Op) /\ y.q["write"] \in Seq(Op)
      BY QueuedNat
    <3>3. z = y.q["read"] \o y.q["write"]
      BY <1>1, <3>1 DEF Orphans
    <3> QED BY <3>2, <3>3
  <2>2. PICK w \in Seq(Closure) : w = Tail(Work)
    BY <1>3 DEF Left
  <2>3. r = Aborts(z)
    BY <1>1
  <2>4. r \in Seq(Closure) /\ \A i \in DOMAIN r : r[i].k = "run"
    BY ONLY <2>1, <2>2, <2>3, WorkAbort
  <2>5. Work' = w \o r
    BY <1>2, <1>4, <1>5, <2>2, <2>4, Takes
  <2>6. \A x : Binds(w \o r, x) <=> Binds(w, x)
    BY <2>2, <2>4, BindsChange
  <2>7. Work \in Seq(Closure) /\ Work # <<>> /\ Head(Work) = c
    BY <1>3 DEF Left
  <2>8. \A x : Binds(Work, x) <=> Binds(w, x) \/ c = BindC(x)
    BY <2>2, <2>7, BindsChange
  <2>9. \A x : c # BindC(x)
    BY <1>2 DEF BindC
  <2> QED BY <2>5, <2>6, <2>8, <2>9
<1>7. ~Binds(Work, d)
  <2>1. Work \in Seq(Closure) /\ Work # <<>> /\ Head(Work) = c
    BY <1>3 DEF Left
  <2>2. BindC(d).desc = d /\ BindC(d).k = "bind"
    BY DEF BindC
  <2>3. ~Binds(Tail(Work), d)
    BY <1>3, <2>2 DEF Binds
  <2>4. Binds(Work, d) <=> Binds(Tail(Work), d) \/ Head(Work) = BindC(d)
    BY <2>1, BindsChange
  <2> QED BY <1>2, <2>1, <2>2, <2>3, <2>4
<1>8. PICK i \in DOMAIN tab : tab[i].desc = d /\ remove(i)
  <2>1. {i \in DOMAIN tab : tab[i].desc = d} # {}
    BY <1>0, <1>3, <1>7 DEF InTable
  <2> QED BY <1>1, <2>1 DEF poll_unbind
<1>9. n \in Nat /\ DOMAIN tab = 1..n /\ i \in 1..n /\ n \in 1..n /\ \A j \in 1..n : tab[j] \in TabType /\ tab[j].desc \in Desc
  <2>1. n \in Nat /\ DOMAIN tab = 1..n /\ i \in 1..n /\ \A j \in 1..n : tab[j] \in TabType
    BY <1>0, <1>1
  <2> QED BY <2>1 DEF TabType
<1>10. /\ tab' = [j \in 1..(n - 1) |-> IF j = i THEN tab[n] ELSE tab[j]]
       /\ pollidx' = IF i < n THEN [pollidx EXCEPT ![tab[n].desc] = i] ELSE pollidx
  BY <1>1, <1>8 DEF remove
<1>11. \A j \in 1..n : tab[j].desc = d => j = i
  BY <1>0, <1>8, <1>9
<1>12. \A j, k \in 1..n : tab[j].desc = tab[k].desc => j = k
  BY <1>0, <1>9
<1>13. tab' \in Seq(TabType) /\ DOMAIN tab' = 1..(n - 1)
  <2>1. \A j \in 1..(n - 1) : tab'[j] \in TabType
    BY <1>9, <1>10
  <2>2. n - 1 \in Nat /\ DOMAIN tab' = 1..(n - 1) /\ tab' = [j \in 1..(n - 1) |-> tab'[j]]
    BY <1>9, <1>10
  <2> QED BY ONLY <2>1, <2>2
<1>14. /\ pollidx' \in [Desc -> Nat] /\ (i < n => pollidx'[tab[n].desc] = i)
       /\ \A x \in Desc : x # tab[n].desc => pollidx'[x] = pollidx[x]
  <2>1. i \in Nat
    BY <1>9
  <2> QED BY <1>0, <1>9, <1>10, <2>1
<1>15. ASSUME NEW j \in 1..(n - 1), NEW k \in 1..n, k = (IF j = i THEN n ELSE j)
       PROVE  /\ tab'[j] = tab[k] /\ tab[k].desc # d /\ pollidx'[tab[k].desc] = j
  <2>1. tab'[j] = tab[k] /\ k # i
    BY <1>9, <1>10, <1>15
  <2>2. tab[k].desc # d
    BY <1>11, <2>1
  <2>3. CASE j = i
    BY <1>9, <1>14, <1>15, <2>1, <2>2, <2>3
  <2>4. CASE j # i
    <3>1. k = j /\ k # n
      BY <1>9, <1>15, <2>4
    <3>2. tab[k].desc # tab[n].desc
      BY <1>9, <1>12, <3>1
    <3> QED BY <1>0, <1>9, <1>14, <2>1, <2>2, <3>1, <3>2
  <2> QED BY <2>3, <2>4
<1>16. ASSUME NEW j \in DOMAIN tab'
       PROVE  desc'[tab'[j].desc].st = "live" /\ pollidx'[tab'[j].desc] = j /\ ~Binds(Work', tab'[j].desc)
  <2>1. PICK k \in 1..n : k = (IF j = i THEN n ELSE j)
    BY <1>9, <1>13
  <2>2. tab'[j] = tab[k] /\ tab[k].desc # d /\ pollidx'[tab[k].desc] = j
    BY <1>13, <1>15, <2>1
  <2>3. PICK x \in Desc : x = tab[k].desc
    BY <1>9
  <2>4. desc[x].st = "live" /\ ~Binds(Work, x)
    BY <1>0, <1>9, <2>3
  <2>5. desc'[x].st = "live" /\ ~Binds(Work', x) /\ pollidx'[x] = j
    BY <1>5, <1>6, <2>2, <2>3, <2>4
  <2> QED BY <2>2, <2>3, <2>5
<1>17. ASSUME NEW x \in Desc, desc'[x].st = "live", ~Binds(Work', x) PROVE InTable(x)'
  <2>1. x # d /\ desc[x].st = "live" /\ ~Binds(Work, x)
    BY <1>5, <1>6, <1>17
  <2>2. PICK k \in 1..n : tab[k].desc = x
    BY <1>0, <1>9, <2>1 DEF InTable
  <2>3. k # i
    BY <1>8, <2>1, <2>2
  <2>4. PICK j \in 1..(n - 1) : k = IF j = i THEN n ELSE j
    <3>1. CASE k = n
      <4>1. i \in 1..(n - 1)
        BY <1>9, <2>3, <3>1
      <4> QED BY <3>1, <4>1
    <3>2. CASE k # n
      <4>1. k \in 1..(n - 1)
        BY <1>9, <3>2
      <4> QED BY <2>3, <4>1
    <3> QED BY <3>1, <3>2
  <2>5. tab'[j] = tab[k]
    BY <1>15, <2>4
  <2> QED BY <1>13, <2>2, <2>5 DEF InTable
<1>18. \A x \in Desc : ~(InUse(cur', x) \/ evs'[x] # {})
  BY <1>2, AtPlace
<1> QED BY <1>13, <1>14, <1>16, <1>17, <1>18 DEF TableInv, ToBind

\* Every step of poll keeps the table.
LEMMA TableNext ==
  ASSUME MuxInv, TableInv, mux = "poll", mux' = mux, PollNext
  PROVE  TableInv'
<1>1. ASSUME PollCall PROVE TableInv'
  <2>1. ASSUME PlainCall, UNCHANGED tabVars PROVE TableInv'
    BY <2>1, TablePlain
  <2>2. ASSUME NEW d \in NewDesc, BindingCall(d, poll_bind(d)), UNCHANGED tabVars PROVE TableInv'
    BY <2>2, TableBinding DEF poll_bind
  <2> QED BY <1>1, <2>1, <2>2 DEF PollCall
<1>2. ASSUME poll_run \/ (\E d \in Desc : poll_event(d)) \/ poll_take \/ poll_drained PROVE TableInv'
  <2>1. UNCHANGED tabVars
    BY <1>2 DEF poll_run, poll_event, poll_take, poll_drained
  <2> QED BY <1>2, <2>1, TableEvents
<1>3. ASSUME poll_op_bind PROVE TableInv'
  BY <1>3, TableRunBind
<1>4. ASSUME poll_unbind PROVE TableInv'
  BY <1>4, TableUnbind
<1>5. ASSUME poll_accepted PROVE TableInv'
  BY <1>5, TableBinding DEF poll_accepted, poll_bind
<1>6. ASSUME poll_dispatch_end PROVE TableInv'
  BY <1>6, TableEnd
<1>7. ASSUME PlainStep \/ KernelStep, UNCHANGED tabVars PROVE TableInv'
  BY <1>7, TablePlainStep
<1> QED BY <1>1, <1>2, <1>3, <1>4, <1>5, <1>6, <1>7 DEF PollNext, PollStep

\* Every step of every multiplexer keeps the invariant.
LEMMA NextMux == MuxInv /\ TableInv /\ [Next]_vars => MuxInv' /\ TableInv'
<1> SUFFICES ASSUME MuxInv, TableInv, [Next]_vars PROVE MuxInv' /\ TableInv'
  OBVIOUS
<1>1. CASE UNCHANGED vars
  <2>1. UNCHANGED <<mux, opq, active, ops, lpc, evs, cur, handle, desc, sock, op, tab, pollidx>>
    BY <1>1 DEF vars, buildVars, muxVars, queueVars, loopVars, tabVars
  <2>2. MuxTypes' /\ LoopShape' /\ Work' = Work
    BY <2>1 DEF MuxInv, MuxTypes, LoopShape, Work
  <2>3. \A x \in Desc : desc[x].st # "live" => evs[x] = {} /\ ~InUse(cur, x)
    BY DEF MuxInv, DescInv, DescOK, Gone
  <2>4. MuxInv'
    BY <2>1, <2>2, <2>3, Quiet
  <2>5. CASE mux = "poll"
    <3>1. \A x \in Desc : InUse(cur', x) \/ evs'[x] # {} => InTable(x)
      BY <2>1, <2>5 DEF TableInv
    <3> QED BY <2>1, <2>2, <2>4, <2>5, <3>1, TableStill DEF ToBind, tabVars
  <2>6. CASE mux # "poll"
    BY <2>1, <2>4, <2>6 DEF TableInv
  <2> QED BY <2>5, <2>6
<1>2. CASE InPoll /\ PollNext
  <2>1. mux = "poll" /\ mux' = mux
    BY <1>2 DEF InPoll, buildVars
  <2> QED BY <1>2, <2>1, StepPoll, TableNext
<1>3. CASE InKqueue /\ KqNext
  <2>1. mux' # "poll"
    BY <1>3 DEF InKqueue, buildVars
  <2> QED BY <1>3, <2>1, StepKqueue DEF TableInv
<1>4. CASE InSelect /\ SelNext
  <2>1. mux' # "poll"
    BY <1>4 DEF InSelect, buildVars
  <2> QED BY <1>4, <2>1, StepSelect DEF TableInv
<1> QED BY <1>1, <1>2, <1>3, <1>4 DEF Next

\* In every state of poll, kqueue and select, each descriptor, closure and
\* operation is where its counts say it is, and poll's table is in place.
THEOREM MuxInvariant == Spec => [](MuxInv /\ TableInv)
<1>1. Init => MuxInv /\ TableInv
  BY InitMux
<1>2. (MuxInv /\ TableInv) /\ [Next]_vars => (MuxInv /\ TableInv)'
  BY NextMux
<1> QED BY <1>1, <1>2, PTL DEF Spec

\* The counts of the invariant are those of the property.
LEMMA CountsAgree ==
  ASSUME MuxTypes, NEW d \in Desc
  PROVE  /\ Closures(d, {"dispatch", "unbind"}) = Counted(Work, d)
         /\ Cardinality({s \in Sock : handle[s] = d}) = Tally(handle, {d})
         /\ Cardinality(Live) = Tally(desc, LiveDesc)
<1>1. PICK w \in Seq(Closure) : w = ops \o opq /\ w = Work
  BY WorkType DEF Work
<1>2. {i \in DOMAIN w : w[i].desc = d /\ w[i].k \in {"dispatch", "unbind"}}
        = PlacesOf(w, {c \in Closure : c.desc = d /\ c.k \in {"dispatch", "unbind"}})
  <2>1. \A i \in DOMAIN w : w[i] \in Closure
    OBVIOUS
  <2> QED BY <2>1 DEF PlacesOf
<1>3. Closures(d, {"dispatch", "unbind"}) = Counted(Work, d)
  BY <1>1, <1>2 DEF Closures, Counted, Count
<1>4. handle \in [Sock -> Desc \cup {Null}] /\ desc \in [Desc -> DescType]
  BY DEF MuxTypes
<1>5. {s \in Sock : handle[s] = d} = {s \in DOMAIN handle : handle[s] \in {d}}
  BY <1>4
<1>6. Live = {x \in DOMAIN desc : desc[x] \in LiveDesc}
  BY <1>4 DEF Live, LiveDesc
<1> QED BY <1>3, <1>5, <1>6 DEF Tally

\* The references of every descriptor are those that are counted; what is
\* deleted is referred to by nothing, and the engine's count is exact, for any
\* number of sockets, descriptors and operations and any application.
THEOREM ReferencesAreCounted == Spec => []RefsCounted
<1>1. MuxInv => RefsCounted
  <2> SUFFICES ASSUME MuxInv PROVE RefsCounted
    OBVIOUS
  <2>1. MuxTypes /\ Engine /\ \A d \in Desc : DescOK(d)
    BY DEF MuxInv, DescInv
  <2>2. ASSUME NEW d \in Desc
        PROVE  Refs(d) = Tally(handle, {d}) + Counted(Work, d) + One(InUse(cur, d) /\ cur.release)
    BY <2>1, CountsAgree DEF Refs, One, InUse
  <2>3. ASSUME NEW d \in Live PROVE desc[d].ref = Refs(d)
    <3>1. d \in Desc /\ desc[d].st = "live"
      BY DEF Live
    <3> QED BY <2>1, <2>2, <3>1 DEF DescOK, InService
  <2>4. ASSUME NEW d \in Desc \ Live PROVE Refs(d) + Closures(d, {"bind"}) = 0 /\ evs[d] = {}
    <3>1. d \in Desc /\ Gone(d)
      BY <2>1 DEF Live, DescOK
    <3>2. Counted(Work, d) = 0
      BY <2>1, <3>1, GoneCounts
    <3>3. Tally(handle, {d}) = 0 /\ One(InUse(cur, d) /\ cur.release) = 0 /\ evs[d] = {}
      BY <3>1 DEF Gone, One
    <3>4. Closures(d, {"bind"}) = 0
      <4>1. {i \in DOMAIN (ops \o opq) : (ops \o opq)[i].desc = d /\ (ops \o opq)[i].k \in {"bind"}} = {}
        BY <3>1 DEF Gone, Work
      <4> QED BY <4>1, FS_EmptySet DEF Closures
    <3> QED BY <2>2, <3>1, <3>2, <3>3, <3>4
  <2>5. active = Len(opq) + Len(ops) + Cardinality(Live)
    <3>1. opq \in Seq(Closure) /\ ops \in Seq(Closure) /\ Tally(desc, LiveDesc) \in Nat
      BY <2>1, WorkType, Numbers
    <3>2. Len(Work) = Len(ops) + Len(opq) /\ Len(ops) \in Nat /\ Len(opq) \in Nat
      BY <3>1 DEF Work
    <3>3. Cardinality(Live) = Tally(desc, LiveDesc)
      <4>1. CASE Desc = {}
        <5>1. Live = {} /\ \A d \in Desc : desc[d].st # "live"
          BY <4>1 DEF Live
        <5> QED BY <2>1, <5>1, FS_EmptySet, LiveChange DEF MuxTypes
      <4>2. CASE Desc # {}
        BY <2>1, <4>2, CountsAgree
      <4> QED BY <4>1, <4>2
    <3> QED BY <2>1, <3>1, <3>2, <3>3 DEF Engine
  <2> QED BY <2>3, <2>4, <2>5 DEF RefsCounted
<1> QED BY <1>1, MuxInvariant, PTL

\* poll: each descriptor knows the position of its entry, whatever entries were
\* moved, and none is polled after it was deleted.
THEOREM TableIsIndexed == Spec => []TableIndexed
<1>1. MuxInv /\ TableInv => TableIndexed
  <2> SUFFICES ASSUME MuxInv, TableInv, mux = "poll"
               PROVE  /\ \A i \in DOMAIN tab : desc[tab[i].desc].st = "live" /\ pollidx[tab[i].desc] = i
                      /\ \A d \in Live : BindC(d) \notin Range(ops \o opq) /\ desc[d].fd
                                           => \E i \in DOMAIN tab : tab[i].desc = d
                      /\ cur # Null => \E i \in DOMAIN tab : tab[i].desc = cur.desc
    BY DEF TableIndexed
  <2>1. /\ \A i \in DOMAIN tab : desc[tab[i].desc].st = "live" /\ pollidx[tab[i].desc] = i
        /\ \A d \in Desc : desc[d].st = "live" /\ ~ToBind(d) => InTable(d)
        /\ \A d \in Desc : InUse(cur, d) => InTable(d)
    BY DEF TableInv
  <2>2. ASSUME NEW d \in Live, BindC(d) \notin Range(ops \o opq) PROVE \E i \in DOMAIN tab : tab[i].desc = d
    <3>1. ~ToBind(d)
      BY <2>2 DEF ToBind, Binds, Work, Range
    <3> QED BY <2>1, <3>1 DEF Live, InTable
  <2>3. cur # Null => cur.desc \in Desc /\ InUse(cur, cur.desc)
    BY DEF MuxInv, MuxTypes, CurType, InUse
  <2> QED BY <2>1, <2>2, <2>3 DEF InTable
<1> QED BY <1>1, MuxInvariant, PTL

-----------------------------------------------------------------------------
(* The promise of module Completion. *)

\* The unanswered operations of one direction: those that release() aborted,
\* those that wait in the descriptor, those on their way to it.
Dropped(d, e) == ClosureOps("run", d, e)
Coming(d, e)  == ClosureOps("dispatch", d, e)
Waits(d, e)   == (Dropped(d, e) \o desc[d].q[e]) \o Coming(d, e)

\* A queue holds operations of its own direction, and none is aborted before
\* the descriptor is deleted.
Lined(d, e) ==
  /\ desc[d].q[e] \in Seq(DirOps(d, e))
  /\ desc[d].st # "freed" => Dropped(d, e) = <<>>
LineInv == \A d \in Desc, e \in Ev : Lined(d, e)

\* One sequence after the other, named so that the provers need not look into it.
Cat(p, q) == p \o q

\* It is a sequence.
LEMMA CatType ==
  ASSUME NEW S, NEW p \in Seq(S), NEW q \in Seq(S)
  PROVE  Cat(p, q) \in Seq(S)
BY DEF Cat

\* Three in a row may be taken in any grouping.
LEMMA CatAssoc ==
  ASSUME NEW S, NEW p \in Seq(S), NEW q \in Seq(S), NEW r \in Seq(S)
  PROVE  Cat(Cat(p, q), r) = Cat(p, Cat(q, r))
<1>1. (p \o q) \o r = p \o (q \o r)
  BY ConcatAssociative
<1> QED BY ONLY <1>1 DEF Cat

\* The first of four sequences in a row, apart from the rest.
LEMMA CatFront ==
  ASSUME NEW S, NEW u \in Seq(S), NEW a \in Seq(S), NEW b \in Seq(S), NEW c \in Seq(S)
  PROVE  Cat(Cat(Cat(u, a), b), c) = Cat(u, Cat(Cat(a, b), c))
<1>1. Cat(Cat(u, a), b) = Cat(u, Cat(a, b))
  BY CatAssoc
<1>2. PICK r : r = Cat(a, b)
  OBVIOUS
<1>3. r \in Seq(S)
  BY <1>2, CatType
<1>4. Cat(Cat(u, r), c) = Cat(u, Cat(r, c))
  BY ONLY <1>3, u \in Seq(S), c \in Seq(S), CatAssoc
<1> QED BY ONLY <1>1, <1>2, <1>4

\* The second and third of four sequences in a row, together.
LEMMA CatMiddle ==
  ASSUME NEW S, NEW u \in Seq(S), NEW a \in Seq(S), NEW b \in Seq(S), NEW c \in Seq(S)
  PROVE  Cat(Cat(a, Cat(b, u)), c) = Cat(Cat(a, b), Cat(u, c))
<1>1. Cat(a, Cat(b, u)) = Cat(Cat(a, b), u)
  BY CatAssoc
<1>2. PICK r : r = Cat(a, b)
  OBVIOUS
<1>3. r \in Seq(S)
  BY <1>2, CatType
<1>4. Cat(Cat(r, u), c) = Cat(r, Cat(u, c))
  BY ONLY <1>3, u \in Seq(S), c \in Seq(S), CatAssoc
<1> QED BY ONLY <1>1, <1>2, <1>4

\* Three sequences in a row.
LEMMA Row ==
  ASSUME NEW S, NEW a \in Seq(S), NEW b \in Seq(S), NEW c \in Seq(S)
  PROVE  /\ (a \o b) \o c \in Seq(S) /\ <<>> \o a = a /\ a \o <<>> = a /\ (a \o b = <<>> => b = <<>>)
         /\ \A x \in S : /\ (a \o b) \o Append(c, x) = Append((a \o b) \o c, x)
                         /\ (a \o Append(b, x)) \o c = (a \o b) \o (<<x>> \o c)
                         /\ <<x>> \o a # <<>> /\ Head(<<x>> \o a) = x /\ Tail(<<x>> \o a) = a
                         /\ ((<<x>> \o a) \o b) \o c = <<x>> \o ((a \o b) \o c)
<1> DEFINE r == a \o b
<1>1. r \in Seq(S) /\ r \o c \in Seq(S) /\ <<>> \o a = a /\ a \o <<>> = a
  OBVIOUS
<1>r. r \in Seq(S)
  OBVIOUS
<1>2. a \o b = <<>> => b = <<>>
  <2>1. Len(a \o b) = Len(a) + Len(b) /\ Len(a) \in Nat /\ Len(b) \in Nat
    OBVIOUS
  <2> QED BY <2>1
<1> HIDE DEF r
<1>3. ASSUME NEW x \in S PROVE r \o Append(c, x) = Append(r \o c, x)
  <2> DEFINE u == <<x>>
  <2>1. u \in Seq(S) /\ Append(c, x) = c \o u /\ Append(r \o c, x) = (r \o c) \o u
    BY ONLY <1>1, <1>3, c \in Seq(S), AppendIsConcat
  <2> HIDE DEF u
  <2>2. Cat(Cat(r, c), u) = Cat(r, Cat(c, u))
    BY ONLY <1>r, <2>1, c \in Seq(S), CatAssoc
  <2>3. (r \o c) \o u = r \o (c \o u)
    BY ONLY <2>2 DEF Cat
  <2> QED BY ONLY <2>1, <2>3
<1>4. ASSUME NEW x \in S PROVE (a \o Append(b, x)) \o c = r \o (<<x>> \o c)
  <2> DEFINE u == <<x>>
  <2>1. u \in Seq(S) /\ Append(b, x) = b \o u
    BY ONLY <1>4, b \in Seq(S), AppendIsConcat
  <2> HIDE DEF u
  <2>2. (a \o (b \o u)) \o c = (a \o b) \o (u \o c)
    <3>1. Cat(Cat(a, Cat(b, u)), c) = Cat(Cat(a, b), Cat(u, c))
      BY ONLY <2>1, a \in Seq(S), b \in Seq(S), c \in Seq(S), CatMiddle
    <3> QED BY ONLY <3>1 DEF Cat
  <2> QED BY ONLY <2>1, <2>2 DEF r, u
<1>5. ASSUME NEW x \in S
      PROVE  /\ <<x>> \o a # <<>> /\ Head(<<x>> \o a) = x /\ Tail(<<x>> \o a) = a
             /\ ((<<x>> \o a) \o b) \o c = <<x>> \o (r \o c)
  <2>1. <<x>> \o a # <<>> /\ Head(<<x>> \o a) = x
    BY a \in Seq(S), x \in S
  <2>2. Tail(<<x>> \o a) = a
    <3>1. Len(Tail(<<x>> \o a)) = Len(a) /\ Tail(<<x>> \o a) \in Seq(S) /\ \A i \in 1..Len(a) : Tail(<<x>> \o a)[i] = a[i]
      BY a \in Seq(S), x \in S
    <3> QED BY <3>1, SeqEqual
  <2> DEFINE u == <<x>>
  <2>3. u \in Seq(S)
    OBVIOUS
  <2> HIDE DEF u
  <2>4. ((u \o a) \o b) \o c = u \o ((a \o b) \o c)
    <3>1. Cat(Cat(Cat(u, a), b), c) = Cat(u, Cat(Cat(a, b), c))
      BY ONLY <2>3, a \in Seq(S), b \in Seq(S), c \in Seq(S), CatFront
    <3> QED BY ONLY <3>1 DEF Cat
  <2> QED BY ONLY <2>1, <2>2, <2>4 DEF r, u
<1> QED BY <1>1, <1>2, <1>3, <1>4, <1>5 DEF r

\* The same operations, when a step leaves what they are for.
LEMMA DirKeep ==
  ASSUME \A p \in Op : op'[p].kind = op[p].kind /\ op'[p].desc = op[p].desc
  PROVE  \A x, f : DirOps(x, f)' = DirOps(x, f)
BY DEF DirOps

\* What a call adds to them: an operation that no closure carries.
LEMMA DirStart ==
  ASSUME MuxInv, NEW o, NEW k, NEW d \in Desc \cup {Null}, NEW s, NEW e, StartOp(o, k, d, s, e)
  PROVE  \A x \in Desc : \A f : /\ DirOps(x, f)' = IF x = d /\ f = EvOf(k) THEN DirOps(x, f) \cup {o} ELSE DirOps(x, f)
                                /\ \A j : Carried(Work, j, DirOps(x, f)') = ClosureOps(j, x, f)
<1>1. /\ o \in Op /\ ~Started(o) /\ op'[o].kind = k /\ op'[o].desc = d /\ \A p \in Op : p # o => op'[p] = op[p]
  BY StartFields DEF MuxInv
<1>2. op[o].desc = Null /\ Carry(Work, o) = 0 /\ Work \in Seq(Closure)
  BY <1>1, FreshNowhere, WorkType DEF MuxInv
<1>3. \A i \in DOMAIN Work : Work[i].op # o
  BY <1>2, WorkNat
<1> SUFFICES ASSUME NEW x \in Desc, NEW f
             PROVE  /\ DirOps(x, f)' = IF x = d /\ f = EvOf(k) THEN DirOps(x, f) \cup {o} ELSE DirOps(x, f)
                    /\ \A j : Carried(Work, j, DirOps(x, f)') = ClosureOps(j, x, f)
  OBVIOUS
<1> DEFINE O == DirOps(x, f)
           U == DirOps(x, f)'
<1>4. o \notin O
  BY <1>2, MuxAssumption DEF DirOps
<1>5. U = IF x = d /\ f = EvOf(k) THEN O \cup {o} ELSE O
  <2>1. \A p \in Op : p # o => (p \in U <=> p \in O)
    BY <1>1 DEF DirOps
  <2>2. o \in U <=> x = d /\ f = EvOf(k)
    BY <1>1 DEF DirOps
  <2>3. O \subseteq Op /\ U \subseteq Op
    BY DEF DirOps
  <2> HIDE DEF O, U
  <2> QED BY <1>1, <1>4, <2>1, <2>2, <2>3
<1>6. ASSUME NEW j PROVE Carried(Work, j, U) = Carried(Work, j, O)
  <2>1. \A i \in 1..Len(Work) : Work[i].op \in O <=> Work[i].op \in U
    <3>1. DOMAIN Work = 1..Len(Work)
      BY <1>2
    <3> HIDE DEF O, U
    <3> QED BY <1>3, <1>5, <3>1
  <2> HIDE DEF O, U
  <2> QED BY <1>2, <2>1, CarriedSame
<1> QED BY <1>5, <1>6 DEF ClosureOps, Work

\* Types of what is carried.
LEMMA CarriedOps ==
  ASSUME MuxTypes
  PROVE  \A d, e, k : ClosureOps(k, d, e) = Carried(Work, k, DirOps(d, e)) /\ ClosureOps(k, d, e) \in Seq(DirOps(d, e))
<1>1. Work \in Seq(Closure)
  BY WorkType
<1> QED BY <1>1, CarriedType DEF ClosureOps, Work

\* What waits for one direction are operations of that direction.
LEMMA WaitsType ==
  ASSUME MuxTypes, NEW d, NEW e, Lined(d, e)
  PROVE  Waits(d, e) \in Seq(DirOps(d, e)) /\ Dropped(d, e) \in Seq(DirOps(d, e)) /\ Coming(d, e) \in Seq(DirOps(d, e))
BY CarriedOps, Row DEF Lined, Waits, Dropped, Coming

-----------------------------------------------------------------------------
\* The states of descriptors, as the promise sees them.
LEMMA StatusKeep ==
  ASSUME \A x \in Desc : desc'[x].st = "new" <=> desc[x].st = "new", \A s \in Sock : handle'[s] = handle[s]
  PROVE  Status' = Status
<1>1. ASSUME NEW x \in Desc PROVE Opened(x)' <=> Opened(x)
  BY DEF Opened
<1> QED BY <1>1 DEF Status

\* What waits, as the promise sees it.
LEMMA PendingKeep ==
  ASSUME \A x \in Desc, f \in Ev : Waits(x, f)' = Waits(x, f)
  PROVE  Pending' = Pending
BY DEF Pending, Waits, Dropped, Coming

\* The answers.
LEMMA CallsKeep ==
  ASSUME \A p \in Op : op'[p].calls = op[p].calls
  PROVE  Calls' = Calls
BY DEF Calls

\* One direction of one descriptor changes.
LEMMA PendingChange ==
  ASSUME NEW d \in Desc, NEW e \in Ev, NEW w, Waits(d, e)' = w,
         \A x \in Desc, f \in Ev : x # d \/ f # e => Waits(x, f)' = Waits(x, f)
  PROVE  Pending' = [Pending EXCEPT ![d][e] = w] /\ Pending[d][e] = Waits(d, e)
<1>1. Pending = [x \in Desc |-> [f \in Ev |-> Waits(x, f)]] /\ Pending' = [x \in Desc |-> [f \in Ev |-> Waits(x, f)']]
  BY DEF Pending, Waits, Dropped, Coming
<1> DEFINE P == [Pending EXCEPT ![d][e] = w]
<1>2. \A x \in Desc : Pending'[x] = P[x]
  <2> SUFFICES ASSUME NEW x \in Desc PROVE [f \in Ev |-> Waits(x, f)'] = P[x]
    BY <1>1
  <2>1. CASE x = d
    <3>1. P[x] = [[f \in Ev |-> Waits(x, f)] EXCEPT ![e] = w]
      BY <1>1, <2>1
    <3>2. \A f \in Ev : Waits(x, f)' = IF f = e THEN w ELSE Waits(x, f)
      BY <2>1
    <3> QED BY <3>1, <3>2
  <2>2. CASE x # d
    <3>1. P[x] = [f \in Ev |-> Waits(x, f)]
      BY <1>1, <2>2
    <3>2. \A f \in Ev : Waits(x, f)' = Waits(x, f)
      BY <2>2
    <3> QED BY <3>1, <3>2
  <2> QED BY <2>1, <2>2
<1>3. P = [x \in Desc |-> P[x]]
  BY <1>1
<1> HIDE DEF P
<1> QED BY <1>1, <1>2, <1>3 DEF P

\* A descriptor is created in an empty socket object.
LEMMA StatusOpen ==
  ASSUME NEW d \in Desc, desc[d].st = "new", desc'[d].st = "live", NEW s \in Sock, handle[s] = Null, handle'[s] = d,
         \A y \in Sock : y # s => handle'[y] = handle[y], \A x \in Desc : x # d => desc'[x].st = desc[x].st
  PROVE  Status[d] = "none" /\ Status' = [Status EXCEPT ![d] = "open"]
<1>1. Opened(d)'
  BY DEF Opened
<1>2. ASSUME NEW x \in Desc, x # d PROVE Opened(x)' <=> Opened(x)
  BY <1>2, MuxAssumption DEF Opened
<1>3. ASSUME NEW x \in Desc PROVE Status'[x] = [Status EXCEPT ![d] = "open"][x]
  BY <1>1, <1>2 DEF Status
<1> QED BY <1>3 DEF Status

\* A socket object lets go of its descriptor.
LEMMA StatusClose ==
  ASSUME MuxInv, NEW s \in Sock, NEW d \in Desc, handle[s] = d, handle' = [handle EXCEPT ![s] = Null],
         \A x \in Desc : desc'[x].st = desc[x].st
  PROVE  Status[d] = "open" /\ Status' = [Status EXCEPT ![d] = "closed"]
<1>1. /\ handle \in [Sock -> Desc \cup {Null}] /\ handle' \in [Sock -> Desc \cup {Null}] /\ d # Null
      /\ handle'[s] = Null /\ \A y \in Sock : y # s => handle'[y] = handle[y]
  BY MuxAssumption DEF MuxInv, MuxTypes
<1>2. desc[d].st = "live" /\ Tally(handle, {d}) = 1
  BY <1>1, Owned
<1>3. ~Opened(d)'
  <2>0. PICK h, g : h = handle /\ g = handle'
    OBVIOUS
  <2>n. /\ h \in [Sock -> Desc \cup {Null}] /\ g \in [Sock -> Desc \cup {Null}] /\ h[s] = d /\ g[s] # d
        /\ \A y \in Sock : y # s => g[y] = h[y]
    BY <1>1, <2>0
  <2>1. Tally(handle, {d}) = Tally(handle', {d}) + 1 /\ Tally(handle', {d}) \in Nat
    <3>1. Tally(h, {d}) = Tally(g, {d}) + 1
      BY ONLY <2>n, s \in Sock, HandleChange
    <3>2. Tally(g, {d}) \in Nat
      BY ONLY <2>n, HandleNat
    <3> QED BY <2>0, <3>1, <3>2
  <2>2. Tally(handle', {d}) = 0
    BY <1>2, <2>1
  <2>3. \A y \in Sock : handle'[y] # d
    BY <1>1, <2>2, HandleNat
  <2> QED BY <2>3 DEF Opened
<1>4. Opened(d)
  BY DEF Opened
<1>5. ASSUME NEW x \in Desc, x # d PROVE Opened(x)' <=> Opened(x)
  BY <1>1, <1>5, MuxAssumption DEF Opened
<1>6. ASSUME NEW x \in Desc PROVE Status'[x] = [Status EXCEPT ![d] = "closed"][x]
  BY <1>2, <1>3, <1>5 DEF Status
<1> QED BY <1>2, <1>4, <1>6 DEF Status

\* One operation is answered.
LEMMA CallsOne ==
  ASSUME MuxTypes, NEW o \in Op, op'[o].calls = op[o].calls + 1, \A p \in Op : p # o => op'[p].calls = op[p].calls
  PROVE  Calls' = [Calls EXCEPT ![o] = @ + 1] /\ Calls[o] = op[o].calls
<1>1. ASSUME NEW p \in Op PROVE Calls'[p] = [Calls EXCEPT ![o] = @ + 1][p]
  BY DEF Calls
<1> QED BY <1>1 DEF Calls

\* An operation that is for no descriptor waits nowhere.
LEMMA IdleFree ==
  ASSUME MuxTypes, LineInv, NEW o \in Op, op[o].desc = Null, op[o].calls = 0
  PROVE  Promise!Idle(o)
<1>1. ASSUME NEW d \in Desc, NEW e \in Ev, NEW i \in DOMAIN Waits(d, e) PROVE Waits(d, e)[i] # o
  <2>1. Waits(d, e) \in Seq(DirOps(d, e))
    BY WaitsType DEF LineInv
  <2>2. Waits(d, e)[i] \in DirOps(d, e)
    BY <2>1
  <2>3. o \notin DirOps(d, e)
    BY MuxAssumption DEF DirOps
  <2> QED BY <2>2, <2>3
<1>2. \A d \in Desc, e \in Ev : Pending[d][e] = Waits(d, e)
  BY DEF Pending, Waits, Dropped, Coming
<1>3. Calls[o] = 0
  BY DEF Calls
<1> QED BY <1>1, <1>2, <1>3 DEF Promise!Idle

\* What a step of a multiplexer is to the promise: a step of it, or nothing.
Keeps == Promise!Next \/ UNCHANGED <<Status, Pending, Calls>>

\* The first operation that waits is answered.
LEMMA KeepsFinish ==
  ASSUME MuxTypes, NEW d \in Desc, NEW e \in Ev, NEW o \in Op, NEW S, NEW w \in Seq(S), o \in S, Waits(d, e) = <<o>> \o w,
         Waits(d, e)' = w, \A x \in Desc, f \in Ev : x # d \/ f # e => Waits(x, f)' = Waits(x, f),
         op'[o].calls = op[o].calls + 1, \A p \in Op : p # o => op'[p].calls = op[p].calls
  PROVE  Promise!Finish(d, e)
<1>1. Pending[d][e] = <<o>> \o w /\ Pending' = [Pending EXCEPT ![d][e] = w]
  BY PendingChange
<1>2. Calls' = [Calls EXCEPT ![o] = @ + 1]
  BY CallsOne
<1>3. <<o>> \o w # <<>> /\ Head(<<o>> \o w) = o /\ Tail(<<o>> \o w) = w
  BY Row
<1>4. Pending' = [Pending EXCEPT ![d][e] = Tail(@)]
  <2> DEFINE q == Pending[d][e]
             P == [Pending EXCEPT ![d][e] = Tail(@)]
             Q == [Pending EXCEPT ![d][e] = Tail(q)]
  <2>1. P = Q
    OBVIOUS
  <2>2. Tail(q) = w
    BY <1>1, <1>3
  <2> QED BY <1>1, <2>1, <2>2
<1>5. Pending[d][e] # <<>> /\ Calls' = [Calls EXCEPT ![Head(Pending[d][e])] = @ + 1]
  BY <1>1, <1>2, <1>3
<1> QED BY <1>4, <1>5 DEF Promise!Finish

-----------------------------------------------------------------------------
(* Calls, as the promise sees them. *)

\* A sequence of members of a set, and of a larger one.
LEMMA SeqWider ==
  ASSUME NEW A, NEW B, A \subseteq B, NEW q \in Seq(A)
  PROVE  q \in Seq(B)
<1>1. Len(q) \in Nat /\ q \in [1..Len(q) -> A]
  OBVIOUS
<1>2. q \in [1..Len(q) -> B]
  BY <1>1
<1> QED BY <1>1, <1>2

\* A direction that a step leaves alone.
LEMMA LineKeep ==
  ASSUME NEW x, NEW f, Lined(x, f), DirOps(x, f) \subseteq DirOps(x, f)', desc'[x].q[f] = desc[x].q[f],
         Dropped(x, f)' = Dropped(x, f), desc[x].st = "freed" => desc'[x].st = "freed"
  PROVE  Lined(x, f)'
BY SeqWider DEF Lined

\* A closure is posted.
LEMMA LinePost ==
  ASSUME MuxTypes, NEW c \in Closure, Work' = Append(Work, c), NEW x, NEW f,
         \A j : Carried(Work, j, DirOps(x, f)') = ClosureOps(j, x, f)
  PROVE  \A j : ClosureOps(j, x, f)' = IF c.k = j /\ c.op \in DirOps(x, f)'
                                       THEN Append(ClosureOps(j, x, f), c.op) ELSE ClosureOps(j, x, f)
<1>1. Work \in Seq(Closure)
  BY WorkType
<1> SUFFICES ASSUME NEW j
             PROVE  ClosureOps(j, x, f)' = IF c.k = j /\ c.op \in DirOps(x, f)'
                                           THEN Append(ClosureOps(j, x, f), c.op) ELSE ClosureOps(j, x, f)
  OBVIOUS
<1> DEFINE O == DirOps(x, f)'
<1>2. ClosureOps(j, x, f)' = Carried(Work', j, O)
  BY DEF ClosureOps, Work
<1>3. Carried(Append(Work, c), j, O) = IF c.k = j /\ c.op \in O THEN Append(Carried(Work, j, O), c.op) ELSE Carried(Work, j, O)
  BY <1>1, CarriedAppend
<1> QED BY <1>2, <1>3

\* execute(), and a call that fails: nothing the promise sees.
LEMMA KeepsPlain ==
  ASSUME MuxInv, LineInv, NEW o, NEW k, NEW e, StartOp(o, k, Null, Null, e),
         execute_op(RunC(o)), UNCHANGED <<ops, loopVars, handle, desc, sock>>
  PROVE  LineInv' /\ Keeps
<1>1. /\ o \in Op /\ ~Started(o) /\ op'[o].desc = Null /\ op'[o].calls = 0 /\ MuxTypes
      /\ \A p \in Op : p # o => op'[p] = op[p]
  BY StartFields DEF MuxInv
<1>2. PICK c \in Closure : c = RunC(o) /\ c.op = o
  BY <1>1, ClosureType
<1>3. Work' = Append(Work, c)
  BY <1>1, <1>2, Posts DEF execute_op
<1>4. \A x \in Desc : \A f : /\ DirOps(x, f)' = DirOps(x, f)
                             /\ \A j : Carried(Work, j, DirOps(x, f)') = ClosureOps(j, x, f)
  <2>1. Null \in Desc \cup {Null} /\ \A x \in Desc : x # Null
    BY MuxAssumption
  <2>2. \A x \in Desc : \A f : /\ DirOps(x, f)' = IF x = Null /\ f = EvOf(k) THEN DirOps(x, f) \cup {o} ELSE DirOps(x, f)
                               /\ \A j : Carried(Work, j, DirOps(x, f)') = ClosureOps(j, x, f)
    BY <2>1, DirStart
  <2> QED BY <2>1, <2>2
<1>5. \A x \in Desc : \A f : \A j : ClosureOps(j, x, f)' = ClosureOps(j, x, f)
  <2>1. \A x \in Desc : \A f : o \notin DirOps(x, f)'
    BY <1>1, MuxAssumption DEF DirOps
  <2> QED BY <1>1, <1>2, <1>3, <1>4, <2>1, LinePost
<1>6. LineInv'
  BY <1>4, <1>5, LineKeep DEF LineInv, Dropped
<1>7. Pending' = Pending
  BY <1>5, PendingKeep DEF Waits, Dropped, Coming
<1>8. Status' = Status
  BY StatusKeep
<1>9. Calls' = Calls
  <2>1. op[o].calls = 0
    BY <1>1, FreshNowhere
  <2> QED BY <1>1, <2>1, CallsKeep
<1> QED BY <1>6, <1>7, <1>8, <1>9 DEF Keeps

\* read, write and accept: the operation is the last that waits.
LEMMA KeepsPostIo ==
  ASSUME MuxInv, LineInv, NEW s \in Sock, NEW o, NEW k, NEW to, NEW states, post_io(s, o, k, to, states)
  PROVE  LineInv' /\ Keeps
<1>0. PICK d, e : d = handle[s] /\ e = EvOf(k)
  OBVIOUS
<1>1. /\ d # Null /\ StartOp(o, k, d, to, "none") /\ opq' = Append(opq, DispC(d, o))
      /\ desc' = [desc EXCEPT ![d].ref = @ + 1] /\ UNCHANGED <<ops, handle>>
  BY <1>0 DEF post_io, execute_op
<1>2. d \in Desc /\ desc[d].st = "live" /\ e \in Ev /\ MuxTypes /\ d \in Desc \cup {Null}
  BY <1>0, <1>1, Owned DEF MuxInv, EvOf, Ev
<1>3. o \in Op /\ ~Started(o) /\ op'[o].calls = 0 /\ \A p \in Op : p # o => op'[p] = op[p]
  BY <1>1, <1>2, StartFields
<1>4. op[o].desc = Null /\ op[o].calls = 0
  BY <1>3, FreshNowhere
<1>5. PICK c \in Closure : c = DispC(d, o) /\ c.k = "dispatch" /\ c.op = o
  BY <1>2, <1>3, ClosureType
<1>6. Work' = Append(Work, c)
  BY <1>1, <1>2, <1>5, Posts
<1>7. \A x \in Desc : \A f : /\ DirOps(x, f)' = IF x = d /\ f = e THEN DirOps(x, f) \cup {o} ELSE DirOps(x, f)
                             /\ \A j : Carried(Work, j, DirOps(x, f)') = ClosureOps(j, x, f)
  <2>1. PICK r : r = "none" /\ StartOp(o, k, d, to, r)
    BY <1>1
  <2>2. \A x \in Desc : \A f : /\ DirOps(x, f)' = IF x = d /\ f = EvOf(k) THEN DirOps(x, f) \cup {o} ELSE DirOps(x, f)
                               /\ \A j : Carried(Work, j, DirOps(x, f)') = ClosureOps(j, x, f)
    BY ONLY <1>2, <2>1, MuxInv, DirStart
  <2> QED BY <1>0, <2>2
<1>8. \A x \in Desc : \A f : \A j : ClosureOps(j, x, f)' = IF c.k = j /\ c.op \in DirOps(x, f)'
                                       THEN Append(ClosureOps(j, x, f), c.op) ELSE ClosureOps(j, x, f)
  BY <1>2, <1>6, <1>7, LinePost
<1>9. \A x \in Desc : \A f : o \in DirOps(x, f)' <=> x = d /\ f = e
  <2>1. \A x \in Desc : \A f : o \notin DirOps(x, f)
    BY <1>4, MuxAssumption DEF DirOps
  <2> QED BY <1>7, <2>1
<1>10. \A x \in Desc : \A f : /\ Dropped(x, f)' = Dropped(x, f)
                              /\ Coming(x, f)' = IF x = d /\ f = e THEN Append(Coming(x, f), o) ELSE Coming(x, f)
  BY <1>5, <1>8, <1>9 DEF Dropped, Coming
<1>11. \A x \in Desc : desc'[x].st = desc[x].st /\ desc'[x].q = desc[x].q
  <2>1. desc \in [Desc -> DescType]
    BY <1>2 DEF MuxTypes
  <2> QED BY ONLY <1>1, <1>2, <2>1 DEF DescType
<1>12. LineInv'
  <2> SUFFICES ASSUME NEW x \in Desc, NEW f \in Ev PROVE Lined(x, f)'
    BY DEF LineInv
  <2> QED BY <1>7, <1>10, <1>11, LineKeep DEF LineInv
<1>13. Pending' = [Pending EXCEPT ![d][e] = Append(Waits(d, e), o)] /\ Pending[d][e] = Waits(d, e)
  <2>1. Waits(d, e)' = Append(Waits(d, e), o)
    <3>0. PICK S, a, b, g : /\ S = DirOps(d, e) \cup {o} /\ a = Dropped(d, e) /\ b = desc[d].q[e] /\ g = Coming(d, e)
      OBVIOUS
    <3>1. a \in Seq(S) /\ b \in Seq(S) /\ g \in Seq(S) /\ o \in S
      <4>1. /\ Dropped(d, e) \in Seq(DirOps(d, e)) /\ Coming(d, e) \in Seq(DirOps(d, e))
            /\ desc[d].q[e] \in Seq(DirOps(d, e))
        BY <1>2, WaitsType DEF LineInv, Lined
      <4> QED BY <3>0, <4>1, SeqWider
    <3>2. Waits(d, e) = (a \o b) \o g /\ Waits(d, e)' = (a \o b) \o Append(g, o)
      BY <1>2, <1>10, <1>11, <3>0 DEF Waits
    <3>3. (a \o b) \o Append(g, o) = Append((a \o b) \o g, o)
      BY ONLY <3>1, Row
    <3> QED BY <3>2, <3>3
  <2>2. \A x \in Desc, f \in Ev : x # d \/ f # e => Waits(x, f)' = Waits(x, f)
    BY <1>10, <1>11 DEF Waits
  <2> QED BY <1>2, <2>1, <2>2, PendingChange
<1>14. Status' = Status /\ Status[d] = "open"
  <2>1. Opened(d)
    BY <1>0 DEF Opened
  <2>2. Status' = Status
    BY <1>1, <1>11, StatusKeep
  <2> QED BY <1>2, <2>1, <2>2 DEF Status
<1>15. Calls' = Calls
  BY <1>3, <1>4, CallsKeep
<1>16. Promise!Idle(o)
  BY <1>2, <1>3, <1>4, IdleFree
<1>17. Promise!Start(d, e, o)
  <2>1. Pending' = [Pending EXCEPT ![d][e] = Append(@, o)]
    BY <1>13
  <2> QED BY <1>14, <1>15, <1>16, <2>1 DEF Promise!Start
<1> QED BY <1>2, <1>3, <1>12, <1>17 DEF Keeps, Promise!Next

\* close: the descriptor is closed, what waits for it still waits.
LEMMA KeepsUnbind ==
  ASSUME MuxInv, LineInv, NEW s \in Sock, unbind(s)
  PROVE  LineInv' /\ Keeps
<1>0. PICK d : d = handle[s]
  OBVIOUS
<1>1. /\ d # Null /\ handle' = [handle EXCEPT ![s] = Null] /\ opq' = Append(opq, UnbindC(d))
      /\ UNCHANGED <<ops, desc, op>>
  BY <1>0 DEF unbind, execute_op
<1>2. d \in Desc /\ MuxTypes
  BY <1>0, <1>1, Owned DEF MuxInv
<1>3. PICK c \in Closure : c = UnbindC(d) /\ c.k = "unbind"
  BY <1>2, ClosureType
<1>4. Work' = Append(Work, c)
  BY <1>1, <1>2, <1>3, Posts
<1>5. \A x \in Desc : \A f : DirOps(x, f)' = DirOps(x, f)
  BY <1>1, DirKeep
<1>6. \A x \in Desc : \A f : \A j : Carried(Work, j, DirOps(x, f)') = ClosureOps(j, x, f)
  BY <1>2, <1>5, CarriedOps
<1>7. \A x \in Desc : \A f : Dropped(x, f)' = Dropped(x, f) /\ Coming(x, f)' = Coming(x, f)
  BY <1>2, <1>3, <1>4, <1>6, LinePost DEF Dropped, Coming
<1>8. LineInv'
  BY <1>1, <1>5, <1>7, LineKeep DEF LineInv
<1>9. Pending' = Pending
  BY <1>1, <1>7, PendingKeep DEF Waits
<1>10. Status[d] = "open" /\ Status' = [Status EXCEPT ![d] = "closed"]
  BY <1>0, <1>1, <1>2, StatusClose
<1>11. Calls' = Calls
  BY <1>1, CallsKeep
<1>12. Promise!Close(d)
  BY <1>9, <1>10, <1>11 DEF Promise!Close
<1> QED BY <1>2, <1>8, <1>12 DEF Keeps, Promise!Next

\* The closure of bind carries no operation.
LEMMA CarriedBind ==
  ASSUME NEW w \in Seq(Closure), NEW v, NEW d \in Desc, BindPosts(w, v, d), NEW O
  PROVE  \A j \in {"run", "dispatch"} : Carried(v, j, O) = Carried(w, j, O)
<1> SUFFICES ASSUME NEW j \in {"run", "dispatch"}, v = Append(w, BindC(d)) PROVE Carried(v, j, O) = Carried(w, j, O)
  BY DEF BindPosts
<1>1. PICK c \in Closure : c = BindC(d) /\ c.k = "bind"
  BY ClosureType
<1> QED BY <1>1, CarriedAppend

\* A descriptor with no closures about it: nothing is on its way.
LEMMA NoneComing ==
  ASSUME MuxInv, NEW d \in Desc, \A i \in DOMAIN Work : Work[i].desc # d
  PROVE  \A f : Coming(d, f) = <<>>
<1>1. Work \in Seq(Closure) /\ Sent(Work, op)
  BY WorkType DEF MuxInv, OpInv
<1>2. DOMAIN Work = 1..Len(Work)
  BY <1>1
<1> SUFFICES ASSUME NEW f PROVE Coming(d, f) = <<>>
  OBVIOUS
<1>3. \A i \in 1..Len(Work) : Work[i].k = "dispatch" => Work[i].op \notin DirOps(d, f)
  BY <1>1, <1>2 DEF Sent, DirOps
<1>4. Carried(Work, "dispatch", DirOps(d, f)) = <<>>
  BY <1>1, <1>3, CarriedEmpty
<1> QED BY <1>4 DEF Coming, ClosureOps, Work

\* A new descriptor: nothing waits for it.
LEMMA NewWaits ==
  ASSUME MuxInv, LineInv, NEW d \in Desc, desc[d].st = "new", Gone(d)
  PROVE  \A f \in Ev : Dropped(d, f) = <<>> /\ Coming(d, f) = <<>> /\ desc[d].q[f] = <<>> /\ Waits(d, f) = <<>>
<1>1. \A f : Coming(d, f) = <<>>
  BY NoneComing DEF Gone
<1>2. \A f \in Ev : Dropped(d, f) = <<>> /\ desc[d].q[f] = <<>>
  BY DEF LineInv, Lined, Gone, Ev
<1>3. (<<>> \o <<>>) \o <<>> = <<>>
  OBVIOUS
<1> QED BY <1>1, <1>2, <1>3 DEF Waits

\* listen(), and bind() of a datagram socket.
LEMMA KeepsOpen ==
  ASSUME MuxInv, LineInv, NEW d \in Desc, NEW s \in Sock, NEW st \in {"listening", "dgram"},
         NEW b \in {<<>>, <<BindC(d)>>}, create(d, s, st, <<>>, 1, b), UNCHANGED <<ops, loopVars, op>>
  PROVE  LineInv' /\ Keeps
<1>0. PICK wq, ref : wq = <<>> /\ ref = 1
  OBVIOUS
<1>1. wq \in Seq(Op) /\ ref \in Nat /\ create(d, s, st, wq, ref, b) /\ st \in {"connecting", "listening", "dgram"}
  BY <1>0
<1>c. Created(d, s, wq, ref, b)
  BY <1>1, Creates
<1>2. /\ Gone(d) /\ desc[d].st = "new" /\ desc'[d].st = "live" /\ handle[s] = Null
      /\ desc'[d].q["read"] = <<>> /\ desc'[d].q["write"] = <<>>
      /\ \A x \in Desc : x # d => desc'[x] = desc[x]
      /\ handle'[s] = d /\ \A y \in Sock : y # s => handle'[y] = handle[y]
      /\ opq' = opq \o b
  BY <1>0, <1>c DEF Created
<1>3. MuxTypes /\ Work \in Seq(Closure)
  BY WorkType DEF MuxInv
<1>4. BindPosts(Work, Work', d)
  BY <1>2, <1>3, PostsBind
<1>5. \A x \in Desc : \A f : DirOps(x, f)' = DirOps(x, f)
  BY DirKeep
<1>6. \A x \in Desc : \A f : Dropped(x, f)' = Dropped(x, f) /\ Coming(x, f)' = Coming(x, f)
  <2>1. \A x \in Desc : \A f : \A j \in {"run", "dispatch"} : Carried(Work', j, DirOps(x, f)) = Carried(Work, j, DirOps(x, f))
    BY <1>3, <1>4, CarriedBind
  <2> QED BY <1>5, <2>1 DEF Dropped, Coming, ClosureOps, Work
<1>7. \A x \in Desc, f \in Ev : desc'[x].q[f] = desc[x].q[f]
  BY <1>2 DEF Gone, Ev
<1>8. LineInv'
  BY <1>2, <1>5, <1>6, <1>7, LineKeep DEF LineInv
<1>9. Pending' = Pending
  BY <1>6, <1>7, PendingKeep DEF Waits
<1>10. Status[d] = "none" /\ Status' = [Status EXCEPT ![d] = "open"]
  BY <1>2, StatusOpen
<1>11. Calls' = Calls
  BY CallsKeep
<1>12. Promise!Open(d)
  BY <1>9, <1>10, <1>11 DEF Promise!Open
<1> QED BY <1>8, <1>12 DEF Keeps, Promise!Next

\* A descriptor is created for an operation that is then the first that waits.
LEMMA KeepsOpenStart ==
  ASSUME MuxInv, LineInv, NEW d \in Desc, NEW s \in Sock, NEW wq, NEW ref, NEW b, Created(d, s, wq, ref, b),
         NEW o, NEW k, StartOp(o, k, d, Null, "none"), EvOf(k) = "write", wq \in {<<>>, <<o>>},
         \A x \in Desc, f \in Ev :
           /\ Carried(Work', "run", DirOps(x, f)') = Carried(Work, "run", DirOps(x, f)')
           /\ Carried(Work', "dispatch", DirOps(x, f)') =
                IF wq = <<>> /\ x = d /\ f = "write" THEN Append(Carried(Work, "dispatch", DirOps(x, f)'), o)
                ELSE Carried(Work, "dispatch", DirOps(x, f)')
  PROVE  LineInv' /\ Keeps
<1>0. PICK e, r : e = "write" /\ r = "none"
  OBVIOUS
<1>1. /\ Gone(d) /\ desc[d].st = "new" /\ desc'[d].st = "live" /\ handle[s] = Null
      /\ desc'[d].q["read"] = <<>> /\ desc'[d].q["write"] = wq
      /\ \A x \in Desc : x # d => desc'[x] = desc[x]
      /\ handle'[s] = d /\ \A y \in Sock : y # s => handle'[y] = handle[y]
  BY DEF Created
<1>2. MuxTypes /\ e \in Ev /\ StartOp(o, k, d, Null, r) /\ EvOf(k) = e /\ d \in Desc \cup {Null}
  BY <1>0 DEF MuxInv, Ev
<1>3. o \in Op /\ ~Started(o) /\ op'[o].calls = 0 /\ \A p \in Op : p # o => op'[p] = op[p]
  BY <1>2, StartFields
<1>4. op[o].desc = Null /\ op[o].calls = 0
  BY <1>3, FreshNowhere
<1>5. \A x \in Desc : \A f : /\ DirOps(x, f)' = IF x = d /\ f = e THEN DirOps(x, f) \cup {o} ELSE DirOps(x, f)
                             /\ \A j : Carried(Work, j, DirOps(x, f)') = ClosureOps(j, x, f)
  <2>1. PICK t : t = Null /\ StartOp(o, k, d, t, r)
    BY <1>2
  <2>2. \A x \in Desc : \A f : /\ DirOps(x, f)' = IF x = d /\ f = EvOf(k) THEN DirOps(x, f) \cup {o} ELSE DirOps(x, f)
                               /\ \A j : Carried(Work, j, DirOps(x, f)') = ClosureOps(j, x, f)
    BY ONLY <1>2, <2>1, MuxInv, DirStart
  <2> QED BY <1>2, <2>2
<1>6. \A x \in Desc, f \in Ev :
        /\ Dropped(x, f)' = Dropped(x, f)
        /\ Coming(x, f)' = IF wq = <<>> /\ x = d /\ f = e THEN Append(Coming(x, f), o) ELSE Coming(x, f)
  <2>1. \A x, f : Dropped(x, f)' = Carried(Work', "run", DirOps(x, f)') /\ Coming(x, f)' = Carried(Work', "dispatch", DirOps(x, f)')
    BY DEF Dropped, Coming, ClosureOps, Work
  <2> QED BY <1>0, <1>5, <2>1 DEF Dropped, Coming
<1>7. \A f \in Ev : Dropped(d, f) = <<>> /\ Coming(d, f) = <<>> /\ desc[d].q[f] = <<>> /\ Waits(d, f) = <<>>
  BY <1>1, NewWaits
<1>8. LineInv'
  <2>1. ASSUME NEW x \in Desc, NEW f \in Ev, x # d \/ f # e PROVE Lined(x, f)'
    <3>1. desc'[x].q[f] = desc[x].q[f] /\ (desc[x].st = "freed" => desc'[x].st = "freed")
      BY <1>0, <1>1, <1>7, <2>1 DEF Ev
    <3> QED BY <1>5, <1>6, <2>1, <3>1, LineKeep DEF LineInv
  <2>2. Lined(d, e)'
    <3>1. wq \in Seq(DirOps(d, e)')
      <4>1. o \in DirOps(d, e)'
        BY <1>5
      <4>2. \A S : o \in S => <<>> \in Seq(S) /\ <<o>> \in Seq(S)
        OBVIOUS
      <4>3. <<>> \in Seq(DirOps(d, e)') /\ <<o>> \in Seq(DirOps(d, e)')
        BY <4>1, <4>2
      <4> QED BY ONLY <4>3, wq \in {<<>>, <<o>>}
    <3> QED BY <1>0, <1>1, <1>2, <1>6, <1>7, <3>1 DEF Lined
  <2> QED BY <2>1, <2>2 DEF LineInv
<1>9. Waits(d, e)' = <<o>>
  <2>1. (<<>> \o <<o>>) \o <<>> = <<o>> /\ (<<>> \o <<>>) \o Append(<<>>, o) = <<o>>
    OBVIOUS
  <2>2. wq # <<>> => wq = <<o>>
    OBVIOUS
  <2> QED BY <1>0, <1>1, <1>2, <1>6, <1>7, <2>1, <2>2 DEF Waits
<1>10. \A x \in Desc, f \in Ev : x # d \/ f # e => Waits(x, f)' = Waits(x, f)
  <2>1. \A x \in Desc, f \in Ev : x # d \/ f # e => desc'[x].q[f] = desc[x].q[f]
    BY <1>0, <1>1, <1>7 DEF Ev
  <2> QED BY <1>6, <2>1 DEF Waits
<1>11. Pending' = [Pending EXCEPT ![d][e] = <<o>>]
  BY <1>2, <1>9, <1>10, PendingChange
<1>12. Status[d] = "none" /\ Status' = [Status EXCEPT ![d] = "open"]
  BY <1>1, StatusOpen
<1>13. Calls' = Calls
  BY <1>3, <1>4, CallsKeep
<1>14. Promise!Idle(o)
  BY <1>2, <1>3, <1>4, IdleFree
<1>15. Promise!OpenStart(d, e, o)
  BY <1>11, <1>12, <1>13, <1>14 DEF Promise!OpenStart
<1> QED BY <1>2, <1>3, <1>8, <1>15 DEF Keeps, Promise!Next

\* connect(): the operation waits in the new descriptor.
LEMMA KeepsConnect ==
  ASSUME MuxInv, LineInv, NEW d \in Desc, NEW s \in Sock, NEW o, NEW b \in {<<>>, <<BindC(d)>>}, connect(d, s, o, b)
  PROVE  LineInv' /\ Keeps
<1>0. PICK wq, ref, st, k : wq = <<o>> /\ ref = 1 /\ st = "connecting" /\ k = "connect"
  OBVIOUS
<1>1. StartOp(o, k, d, Null, "none") /\ create(d, s, st, wq, ref, b) /\ ops' = ops
  BY <1>0 DEF connect
<1>2. o \in Op /\ wq \in Seq(Op) /\ ref \in Nat /\ st \in {"connecting", "listening", "dgram"} /\ EvOf(k) = "write"
  BY <1>0, <1>1 DEF StartOp, Fresh, EvOf
<1>3. Created(d, s, wq, ref, b)
  BY <1>1, <1>2, Creates
<1>4. MuxTypes /\ Work \in Seq(Closure) /\ opq' = opq \o b
  BY <1>3, WorkType DEF MuxInv, Created
<1>5. BindPosts(Work, Work', d)
  BY <1>1, <1>4, PostsBind
<1>6. \A O : \A j \in {"run", "dispatch"} : Carried(Work', j, O) = Carried(Work, j, O)
  BY <1>4, <1>5, CarriedBind
<1>7. wq # <<>> /\ wq \in {<<>>, <<o>>}
  BY <1>0
<1> QED BY <1>1, <1>2, <1>3, <1>6, <1>7, KeepsOpenStart

\* The first datagram written: the operation is on its way.
LEMMA KeepsUdpOpen ==
  ASSUME MuxInv, LineInv, NEW d \in Desc, NEW s \in Sock, NEW o, NEW b \in {<<>>, <<BindC(d)>>}, udp_write_open(d, s, o, b)
  PROVE  LineInv' /\ Keeps
<1>0. PICK wq, ref, st, k, a : wq = <<>> /\ ref = 2 /\ st = "dgram" /\ k = "send" /\ a = b \o <<DispC(d, o)>>
  OBVIOUS
<1>1. StartOp(o, k, d, Null, "none") /\ create(d, s, st, wq, ref, a) /\ ops' = ops
  BY <1>0 DEF udp_write_open
<1>2. o \in Op /\ wq \in Seq(Op) /\ ref \in Nat /\ st \in {"connecting", "listening", "dgram"} /\ EvOf(k) = "write"
  BY <1>0, <1>1 DEF StartOp, Fresh, EvOf
<1>3. Created(d, s, wq, ref, a)
  BY <1>1, <1>2, Creates
<1>4. PICK c \in Closure : c = DispC(d, o) /\ c.k = "dispatch" /\ c.op = o
  BY <1>2, ClosureType
<1>5. MuxTypes /\ Work \in Seq(Closure) /\ opq' = opq \o (b \o <<c>>) /\ \A i \in DOMAIN Work : Work[i].desc # d
  BY <1>0, <1>3, <1>4, WorkType DEF MuxInv, Created, Gone
<1>6. PICK v : BindPosts(Work, v, d) /\ Work' = Append(v, c)
  BY <1>1, <1>4, <1>5, PostsBind
<1>7. v \in Seq(Closure)
  BY <1>5, <1>6, BindAdd
<1>8. \A O : /\ Carried(Work', "run", O) = Carried(Work, "run", O)
             /\ Carried(Work', "dispatch", O) = IF o \in O THEN Append(Carried(Work, "dispatch", O), o) ELSE Carried(Work, "dispatch", O)
  <2> SUFFICES ASSUME NEW O
               PROVE  /\ Carried(Work', "run", O) = Carried(Work, "run", O)
                      /\ Carried(Work', "dispatch", O) = IF o \in O THEN Append(Carried(Work, "dispatch", O), o)
                                                         ELSE Carried(Work, "dispatch", O)
    OBVIOUS
  <2>1. \A j \in {"run", "dispatch"} : Carried(v, j, O) = Carried(Work, j, O)
    BY <1>5, <1>6, CarriedBind
  <2>2. \A j : Carried(Append(v, c), j, O) = IF c.k = j /\ c.op \in O THEN Append(Carried(v, j, O), c.op) ELSE Carried(v, j, O)
    BY <1>7, CarriedAppend
  <2> QED BY <1>4, <1>6, <2>1, <2>2
<1>9. \A x \in Desc : \A f : o \in DirOps(x, f)' <=> x = d /\ f = "write"
  <2>1. PICK r : r = "none" /\ StartOp(o, k, d, Null, r)
    BY <1>1
  <2>2. op'[o].kind = k /\ op'[o].desc = d
    BY <1>5, <2>1, StartFields
  <2> QED BY <1>2, <2>2 DEF DirOps
<1>10. wq = <<>> /\ wq \in {<<>>, <<o>>}
  BY <1>0
<1> QED BY <1>1, <1>2, <1>3, <1>8, <1>9, <1>10, KeepsOpenStart

\* A call.
LEMMA KeepsCalls ==
  ASSUME MuxInv, LineInv
  PROVE  /\ PlainCall => LineInv' /\ Keeps
         /\ \A d \in Desc : \A b \in {<<>>, <<BindC(d)>>} : BindingCall(d, b) => LineInv' /\ Keeps
<1> DEFINE Goal == LineInv' /\ Keeps
<1>1. ASSUME NEW o, execute(o) PROVE Goal
  BY <1>1, KeepsPlain DEF execute
<1>2. ASSUME NEW s, NEW o, NEW k, NEW e, fail_op(s, o, k, e) PROVE Goal
  BY <1>2, KeepsPlain DEF fail_op
<1>3. ASSUME NEW s \in Sock, NEW o, NEW k, NEW to, NEW states, post_io(s, o, k, to, states) PROVE Goal
  BY <1>3, KeepsPostIo
<1>4. ASSUME NEW s \in Sock, unbind(s) PROVE Goal
  BY <1>4, KeepsUnbind
<1>5. ASSUME NEW d \in Desc, NEW b \in {<<>>, <<BindC(d)>>}, BindingCall(d, b) PROVE Goal
  <2>1. ASSUME NEW s \in Sock, NEW st \in {"listening", "dgram"}, create(d, s, st, <<>>, 1, b), UNCHANGED <<ops, loopVars, op>>
        PROVE  Goal
    BY <2>1, KeepsOpen
  <2>2. CASE \E s \in Sock : listen(d, s, b) \/ udp_bind(d, s, b)
    <3>1. PICK s \in Sock, st \in {"listening", "dgram"} : create(d, s, st, <<>>, 1, b) /\ UNCHANGED <<ops, loopVars, op>>
      BY <2>2 DEF listen, udp_bind
    <3> QED BY <2>1, <3>1
  <2>3. CASE \E s \in Sock, o \in Op : connect(d, s, o, b)
    BY <2>3, KeepsConnect
  <2>4. CASE \E s \in Sock, o \in Op : udp_write_open(d, s, o, b)
    BY <2>4, KeepsUdpOpen
  <2> HIDE DEF Goal
  <2> QED BY <1>5, <2>2, <2>3, <2>4 DEF BindingCall
<1> HIDE DEF Goal
<1>6. PlainCall => Goal
  BY <1>1, <1>2, <1>3, <1>4 DEF PlainCall, read, write, accept, udp_read, udp_write
<1>7. \A d \in Desc : \A b \in {<<>>, <<BindC(d)>>} : BindingCall(d, b) => Goal
  BY <1>5
<1> QED BY <1>6, <1>7 DEF Goal

-----------------------------------------------------------------------------
(* Steps of the loop, as the promise sees them. *)

\* Nothing that the promise sees changes.
LEMMA KeepsStill ==
  ASSUME MuxInv, LineInv, Work' = Work, UNCHANGED <<handle, op>>,
         \A x \in Desc : desc'[x].st = desc[x].st /\ desc'[x].q = desc[x].q
  PROVE  LineInv' /\ Keeps
<1>1. \A x, f : DirOps(x, f)' = DirOps(x, f)
  BY DirKeep
<1>2. \A x, f : Dropped(x, f)' = Dropped(x, f) /\ Coming(x, f)' = Coming(x, f)
  BY <1>1 DEF Dropped, Coming, ClosureOps, Work
<1>3. LineInv'
  BY <1>1, <1>2, LineKeep DEF LineInv
<1>4. Pending' = Pending
  BY <1>2, PendingKeep DEF Waits
<1>5. Status' = Status /\ Calls' = Calls
  BY StatusKeep, CallsKeep
<1> QED BY <1>3, <1>4, <1>5 DEF Keeps

\* The first closure of the batch is taken.
LEMMA LineTake ==
  ASSUME MuxInv, ops # <<>>, ops' = Tail(ops), opq' = opq, NEW c, c = Head(ops),
         \A p \in Op : op'[p].kind = op[p].kind /\ op'[p].desc = op[p].desc
  PROVE  \A x, f : /\ DirOps(x, f)' = DirOps(x, f)
                   /\ \A j : /\ ClosureOps(j, x, f)' \in Seq(DirOps(x, f))
                             /\ c.k = j /\ c.op \in DirOps(x, f) => ClosureOps(j, x, f) = <<c.op>> \o ClosureOps(j, x, f)'
                             /\ ~(c.k = j /\ c.op \in DirOps(x, f)) => ClosureOps(j, x, f)' = ClosureOps(j, x, f)
<1>1. Work \in Seq(Closure) /\ Work # <<>> /\ Head(Work) = c /\ Work' = Tail(Work)
  BY Takes, WorkType DEF MuxInv
<1>2. Tail(Work) \in Seq(Closure)
  BY <1>1
<1>3. \A x, f : DirOps(x, f)' = DirOps(x, f)
  BY DirKeep
<1> SUFFICES ASSUME NEW x, NEW f, NEW j
             PROVE  /\ ClosureOps(j, x, f)' \in Seq(DirOps(x, f))
                    /\ c.k = j /\ c.op \in DirOps(x, f) => ClosureOps(j, x, f) = <<c.op>> \o ClosureOps(j, x, f)'
                    /\ ~(c.k = j /\ c.op \in DirOps(x, f)) => ClosureOps(j, x, f)' = ClosureOps(j, x, f)
  BY <1>3
<1>4. PICK O : O = DirOps(x, f)
  OBVIOUS
<1>5. ClosureOps(j, x, f) = Carried(Work, j, O) /\ ClosureOps(j, x, f)' = Carried(Tail(Work), j, O)
  BY <1>1, <1>3, <1>4 DEF ClosureOps, Work
<1>6. Carried(Tail(Work), j, O) \in Seq(O)
  BY <1>2, CarriedType
<1>7. Carried(Work, j, O) = (IF Head(Work).k = j /\ Head(Work).op \in O THEN <<Head(Work).op>> ELSE <<>>)
                              \o Carried(Tail(Work), j, O)
  BY <1>1, CarriedTail
<1>8. <<>> \o Carried(Tail(Work), j, O) = Carried(Tail(Work), j, O)
  BY <1>6, Row
<1> QED BY <1>1, <1>4, <1>5, <1>6, <1>7, <1>8

\* The closure of bind runs.
LEMMA KeepsRunBind ==
  ASSUME MuxInv, LineInv, Next_op("bind"), UNCHANGED <<opq, handle, desc, op>>
  PROVE  LineInv' /\ Keeps
<1>1. PICK c : c = Head(ops) /\ ops # <<>> /\ ops' = Tail(ops) /\ c.k = "bind"
  BY DEF Next_op
<1>2. \A x, f : DirOps(x, f)' = DirOps(x, f) /\ Dropped(x, f)' = Dropped(x, f) /\ Coming(x, f)' = Coming(x, f)
  <2>1. \A p \in Op : op'[p].kind = op[p].kind /\ op'[p].desc = op[p].desc
    OBVIOUS
  <2>3. \A x, f : /\ DirOps(x, f)' = DirOps(x, f)
                  /\ \A j : /\ ClosureOps(j, x, f)' \in Seq(DirOps(x, f))
                            /\ c.k = j /\ c.op \in DirOps(x, f) => ClosureOps(j, x, f) = <<c.op>> \o ClosureOps(j, x, f)'
                            /\ ~(c.k = j /\ c.op \in DirOps(x, f)) => ClosureOps(j, x, f)' = ClosureOps(j, x, f)
    BY <1>1, <2>1, LineTake
  <2>4. c.k # "run" /\ c.k # "dispatch"
    BY <1>1
  <2> QED BY ONLY <2>3, <2>4 DEF Dropped, Coming
<1>3. LineInv'
  BY <1>2, LineKeep DEF LineInv
<1>4. Pending' = Pending
  BY <1>2, PendingKeep DEF Waits
<1>5. Status' = Status /\ Calls' = Calls
  BY StatusKeep, CallsKeep
<1> QED BY <1>3, <1>4, <1>5 DEF Keeps

\* A handler runs: of an operation that never reached a descriptor, or of the
\* first one that waits for a deleted descriptor.
LEMMA KeepsHandler ==
  ASSUME MuxInv, LineInv, op_run_handler
  PROVE  LineInv' /\ Keeps
<1>0. PICK c, o : c = Head(ops) /\ o = c.op
  OBVIOUS
<1>1. /\ ops # <<>> /\ c.k = "run" /\ ops' = Tail(ops) /\ op' = [op EXCEPT ![o].calls = @ + 1]
      /\ UNCHANGED <<opq, handle, desc>>
  BY <1>0 DEF op_run_handler, Next_op
<1>2. Left(Work, Work', c) /\ MuxTypes
  BY <1>0, <1>1, BatchHead DEF MuxInv
<1>3. o \in Op /\ op \in [Op -> OpType]
  BY <1>0, <1>1, <1>2, ClosureFields DEF Left, MuxTypes
<1>4. /\ op'[o].calls = op[o].calls + 1 /\ \A p \in Op : p # o => op'[p] = op[p]
      /\ \A p \in Op : op'[p].kind = op[p].kind /\ op'[p].desc = op[p].desc
  BY ONLY <1>1, <1>3 DEF OpType
<1>5. \A x, f : /\ DirOps(x, f)' = DirOps(x, f) /\ Coming(x, f)' = Coming(x, f)
                /\ Dropped(x, f)' \in Seq(DirOps(x, f))
                /\ o \in DirOps(x, f) => Dropped(x, f) = <<o>> \o Dropped(x, f)'
                /\ o \notin DirOps(x, f) => Dropped(x, f)' = Dropped(x, f)
  BY <1>0, <1>1, <1>4, LineTake DEF Dropped, Coming
<1>6. Status' = Status
  BY <1>1, StatusKeep
<1>7. CASE op[o].desc = Null
  <2>1. \A x \in Desc : \A f : o \notin DirOps(x, f)
    BY <1>7, MuxAssumption DEF DirOps
  <2>2. LineInv'
    BY <1>1, <1>5, <2>1, LineKeep DEF LineInv
  <2>3. Pending' = Pending
    BY <1>1, <1>5, <2>1, PendingKeep DEF Waits
  <2>4. op[o].calls = 0
    <3>1. OpPlace(o)
      BY <1>3 DEF MuxInv, OpInv
    <3>2. op[o].calls + Carry(Work, o) + 0 = One(Started(o))
      BY <1>7, <3>1 DEF OpPlace, Place
    <3>3. Carry(Work, o) = Carry(Work', o) + 1 /\ Carry(Work', o) \in Nat
      BY <1>0, <1>2 DEF Left, Carries, One
    <3> DEFINE a == op[o].calls
               b == Carry(Work', o)
               m == One(Started(o))
    <3>4. a \in Nat /\ b \in Nat /\ a + (b + 1) + 0 = m /\ m \in {0, 1}
      BY <1>2, <1>3, <3>2, <3>3, Numbers, OneNat
    <3> HIDE DEF a, b, m
    <3>5. a = 0
      BY <3>4
    <3> QED BY <3>5 DEF a
  <2>5. Promise!Idle(o)
    BY <1>2, <1>3, <1>7, <2>4, IdleFree
  <2>6. Calls' = [Calls EXCEPT ![o] = 1]
    <3>1. Calls' = [Calls EXCEPT ![o] = @ + 1] /\ Calls[o] = 0
      BY <1>2, <1>3, <1>4, <2>4, CallsOne
    <3> QED BY <3>1
  <2>7. Promise!Answer(o)
    BY <1>6, <2>3, <2>5, <2>6 DEF Promise!Answer
  <2> QED BY <1>3, <2>2, <2>7 DEF Keeps, Promise!Next
<1>8. CASE op[o].desc # Null
  <2>1. PICK d, e : d = op[o].desc /\ e = EvOf(op[o].kind)
    OBVIOUS
  <2>2. d \in Desc /\ e \in Ev /\ o \in DirOps(d, e) /\ \A x \in Desc, f \in Ev : x # d \/ f # e => o \notin DirOps(x, f)
    BY <1>2, <1>3, <1>8, <2>1, Numbers DEF EvOf, Ev, DirOps
  <2>3. PICK S, a, b, g : /\ S = DirOps(d, e) /\ a = Dropped(d, e)' /\ b = desc[d].q[e] /\ g = Coming(d, e)
    OBVIOUS
  <2>4. Lined(d, e) /\ a \in Seq(S) /\ b \in Seq(S) /\ g \in Seq(S) /\ o \in S
    <3>1. Lined(d, e)
      BY <2>2 DEF LineInv
    <3>2. Coming(d, e) \in Seq(DirOps(d, e)) /\ desc[d].q[e] \in Seq(DirOps(d, e))
      BY <1>2, <3>1, WaitsType DEF Lined
    <3> QED BY <1>5, <2>2, <2>3, <3>1, <3>2
  <2>r. a \in Seq(S) /\ b \in Seq(S) /\ g \in Seq(S) /\ o \in S
    BY <2>4
  <2>5. Dropped(d, e) = <<o>> \o a /\ <<o>> \o a # <<>>
    <3>1. Dropped(d, e) = <<o>> \o a
      BY ONLY <1>5, <2>2, <2>3
    <3>2. <<o>> \o a # <<>>
      BY ONLY <2>r, Row
    <3> QED BY <3>1, <3>2
  <2>6. desc[d].st = "freed"
    BY <2>4, <2>5 DEF Lined
  <2>7. LineInv'
    <3>1. ASSUME NEW x \in Desc, NEW f \in Ev, x # d \/ f # e PROVE Lined(x, f)'
      <4>1. DirOps(x, f)' = DirOps(x, f) /\ Dropped(x, f)' = Dropped(x, f) /\ Lined(x, f)
        BY <1>5, <2>2, <3>1 DEF LineInv
      <4> QED BY <1>1, <4>1, LineKeep
    <3>2. Lined(d, e)'
      BY <1>1, <1>5, <2>4, <2>6 DEF Lined
    <3> QED BY <3>1, <3>2 DEF LineInv
  <2>8. Waits(d, e) = ((<<o>> \o a) \o b) \o g /\ Waits(d, e)' = (a \o b) \o g
    BY <1>1, <1>5, <2>3, <2>5 DEF Waits
  <2>9. Waits(d, e) = <<o>> \o Waits(d, e)' /\ Waits(d, e)' \in Seq(S)
    <3>a. <<o>> \in Seq(S)
      BY ONLY <2>r
    <3>0. PICK u \in Seq(S) : u = <<o>>
      BY ONLY <3>a, Zenon
    <3>1. ((u \o a) \o b) \o g = u \o ((a \o b) \o g)
      <4>1. Cat(Cat(Cat(u, a), b), g) = Cat(u, Cat(Cat(a, b), g))
        BY ONLY <2>r, u \in Seq(S), CatFront
      <4> QED BY ONLY <4>1 DEF Cat
    <3>2. (a \o b) \o g \in Seq(S)
      BY ONLY <2>r, Row
    <3> QED BY ONLY <2>8, <3>0, <3>1, <3>2
  <2>10. \A x \in Desc, f \in Ev : x # d \/ f # e => Waits(x, f)' = Waits(x, f)
    BY <1>1, <1>5, <2>2 DEF Waits
  <2>11. Promise!Finish(d, e)
    <3>1. PICK w : w = Waits(d, e)'
      OBVIOUS
    <3>2. w \in Seq(S) /\ o \in S /\ Waits(d, e) = <<o>> \o w /\ Waits(d, e)' = w
      BY <2>4, <2>9, <3>1
    <3> QED BY <1>2, <1>3, <1>4, <2>2, <2>10, <3>2, KeepsFinish
  <2> QED BY <1>6, <2>2, <2>7, <2>11 DEF Keeps, Promise!Next
<1> QED BY <1>7, <1>8

\* The closure of read, write and accept runs: the operation waits in the
\* descriptor now, behind those that did.
LEMMA KeepsEnqueue ==
  ASSUME MuxInv, LineInv, op_run_dispatch
  PROVE  LineInv' /\ Keeps
<1>0. PICK c, o, d, e : c = Head(ops) /\ o = c.op /\ d = c.desc /\ e = EvOf(op[o].kind)
  OBVIOUS
<1>1. /\ ops # <<>> /\ c.k = "dispatch" /\ ops' = Tail(ops) /\ opq' = opq
      /\ desc' = [desc EXCEPT ![d].q[e] = Append(@, o)] /\ UNCHANGED <<handle, op>>
  BY <1>0 DEF op_run_dispatch, Next_op
<1>2. Left(Work, Work', c)
  BY <1>0, <1>1, BatchHead
<1>3. o \in Op /\ d \in Desc /\ e \in Ev /\ op[o].desc = d /\ MuxTypes
  <2>1. Sent(Work, op) /\ o \in Op /\ d \in Desc
    BY <1>0, <1>1, <1>2, ClosureFields DEF MuxInv, OpInv, Left
  <2> QED BY <1>0, <1>1, <1>2, <2>1 DEF Left, EvOf, Ev, MuxInv
<1>4. /\ \A x \in Desc : desc'[x].st = desc[x].st
      /\ desc'[d].q[e] = Append(desc[d].q[e], o)
      /\ \A x \in Desc, f \in Ev : x # d \/ f # e => desc'[x].q[f] = desc[x].q[f]
  <2>1. desc \in [Desc -> DescType] /\ desc[d].q \in [Ev -> Seq(Op)]
    <3>1. desc \in [Desc -> DescType] /\ desc[d] \in DescType
      BY <1>3 DEF MuxTypes
    <3> QED BY <3>1, QueuedNat DEF QType
  <2>2. PICK w : w = Append(desc[d].q[e], o)
    OBVIOUS
  <2>3. desc' = [desc EXCEPT ![d].q[e] = w]
    BY <1>1, <2>2
  <2>4. /\ \A x \in Desc : desc'[x].st = desc[x].st
        /\ desc'[d].q[e] = w
        /\ \A x \in Desc, f \in Ev : x # d \/ f # e => desc'[x].q[f] = desc[x].q[f]
    BY ONLY <1>3, <2>1, <2>3 DEF DescType
  <2> QED BY <2>2, <2>4
<1>5. o \in DirOps(d, e) /\ \A x \in Desc, f \in Ev : x # d \/ f # e => o \notin DirOps(x, f)
  BY <1>0, <1>3 DEF DirOps
<1>6. \A x, f : /\ DirOps(x, f)' = DirOps(x, f)
                /\ \A j : /\ ClosureOps(j, x, f)' \in Seq(DirOps(x, f))
                          /\ c.k = j /\ c.op \in DirOps(x, f) => ClosureOps(j, x, f) = <<c.op>> \o ClosureOps(j, x, f)'
                          /\ ~(c.k = j /\ c.op \in DirOps(x, f)) => ClosureOps(j, x, f)' = ClosureOps(j, x, f)
  <2>1. \A p \in Op : op'[p].kind = op[p].kind /\ op'[p].desc = op[p].desc
    BY <1>1
  <2>2. c = Head(ops) /\ ops # <<>> /\ ops' = Tail(ops) /\ opq' = opq
    BY <1>0, <1>1
  <2> QED BY ONLY <2>1, <2>2, MuxInv, LineTake
<1>7. /\ \A x, f : Dropped(x, f)' = Dropped(x, f) /\ Coming(x, f)' \in Seq(DirOps(x, f))
      /\ Coming(d, e) = <<o>> \o Coming(d, e)'
      /\ \A x \in Desc, f \in Ev : x # d \/ f # e => Coming(x, f)' = Coming(x, f)
  <2>1. c.k # "run" /\ c.k = "dispatch"
    BY <1>1
  <2> QED BY ONLY <1>0, <1>5, <1>6, <2>1 DEF Dropped, Coming
<1>8. PICK S, a, b, g : /\ S = DirOps(d, e) /\ a = Dropped(d, e) /\ b = desc[d].q[e] /\ g = Coming(d, e)'
  OBVIOUS
<1>9. Lined(d, e) /\ a \in Seq(S) /\ b \in Seq(S) /\ g \in Seq(S) /\ o \in S
  <2>1. Lined(d, e)
    BY <1>3 DEF LineInv
  <2>2. Dropped(d, e) \in Seq(DirOps(d, e)) /\ desc[d].q[e] \in Seq(DirOps(d, e))
    BY <1>3, <2>1, WaitsType DEF Lined
  <2> QED BY <1>5, <1>7, <1>8, <2>1, <2>2
<1>10. LineInv'
  <2>1. ASSUME NEW x \in Desc, NEW f \in Ev, x # d \/ f # e PROVE Lined(x, f)'
    <3>1. Lined(x, f) /\ desc'[x].q[f] = desc[x].q[f] /\ desc'[x].st = desc[x].st
      BY <1>4, <2>1 DEF LineInv
    <3> QED BY <1>6, <1>7, <3>1, LineKeep
  <2>2. Lined(d, e)'
    <3>1. Append(b, o) \in Seq(S)
      BY <1>9
    <3>2. desc'[d].q[e] \in Seq(DirOps(d, e)')
      BY <1>4, <1>6, <1>8, <3>1
    <3> QED BY <1>3, <1>4, <1>7, <1>9, <3>2 DEF Lined
  <2> QED BY <2>1, <2>2 DEF LineInv
<1>11. Waits(d, e)' = Waits(d, e)
  <2>1. Waits(d, e) = (a \o b) \o (<<o>> \o g) /\ Waits(d, e)' = (a \o Append(b, o)) \o g
    BY <1>4, <1>7, <1>8 DEF Waits
  <2>2. a \in Seq(S) /\ b \in Seq(S) /\ g \in Seq(S) /\ o \in S
    BY <1>9
  <2>3. <<o>> \in Seq(S) /\ Append(b, o) = b \o <<o>>
    BY ONLY <2>2, AppendIsConcat
  <2>4. PICK u \in Seq(S) : u = <<o>>
    BY ONLY <2>3, Zenon
  <2>5. (a \o (b \o u)) \o g = (a \o b) \o (u \o g)
    <3>1. Cat(Cat(a, Cat(b, u)), g) = Cat(Cat(a, b), Cat(u, g))
      BY ONLY <2>2, u \in Seq(S), CatMiddle
    <3> QED BY ONLY <3>1 DEF Cat
  <2> QED BY ONLY <2>1, <2>3, <2>4, <2>5
<1>12. Pending' = Pending
  <2>1. ASSUME NEW x \in Desc, NEW f \in Ev PROVE Waits(x, f)' = Waits(x, f)
    BY <1>4, <1>7, <1>11 DEF Waits
  <2> QED BY <2>1, PendingKeep
<1>13. Status' = Status /\ Calls' = Calls
  BY <1>1, <1>4, StatusKeep, CallsKeep
<1> QED BY <1>10, <1>12, <1>13 DEF Keeps

\* An operation is popped and its handler runs: it was the first that waited.
LEMMA FinishFront ==
  ASSUME MuxInv, LineInv, NEW d \in Desc, NEW e \in Ev, desc[d].q[e] # <<>>, NEW o, o = Head(desc[d].q[e]), NEW r,
         op' = [op EXCEPT ![o].err = r, ![o].calls = @ + 1], desc'[d].st = desc[d].st, desc'[d].q[e] = Tail(desc[d].q[e]),
         \A x \in Desc, f \in Ev : x # d \/ f # e => desc'[x].q[f] = desc[x].q[f],
         \A x \in Desc : desc[x].st = "freed" => desc'[x].st = "freed",
         \A O : \A j \in {"run", "dispatch"} : Carried(Work', j, O) = Carried(Work, j, O)
  PROVE  LineInv' /\ Promise!Finish(d, e)
<1>1. desc[d].st = "live" /\ o \in Op /\ op[o].desc = d /\ MuxTypes
  <2>1. PICK y : y = [desc[d] EXCEPT !.q[e] = Tail(@)]
    OBVIOUS
  <2>2. desc[d].st = "live" /\ o \in Op /\ op[o].desc = d
    BY <2>1, FrontPlace
  <2> QED BY <2>2 DEF MuxInv
<1>2. op \in [Op -> OpType]
  BY <1>1 DEF MuxTypes
<1>3. /\ op'[o].calls = op[o].calls + 1 /\ \A p \in Op : p # o => op'[p] = op[p]
      /\ \A p \in Op : op'[p].kind = op[p].kind /\ op'[p].desc = op[p].desc
  <2>1. op' = [op EXCEPT ![o].err = r, ![o].calls = @ + 1]
    OBVIOUS
  <2> QED BY ONLY <1>1, <1>2, <2>1 DEF OpType
<1>4. \A x, f : DirOps(x, f)' = DirOps(x, f) /\ Dropped(x, f)' = Dropped(x, f) /\ Coming(x, f)' = Coming(x, f)
  <2>1. \A x, f : DirOps(x, f)' = DirOps(x, f)
    BY <1>3, DirKeep
  <2> QED BY <2>1 DEF Dropped, Coming, ClosureOps, Work
<1>5. PICK S, b, g : S = DirOps(d, e) /\ b = Tail(desc[d].q[e]) /\ g = Coming(d, e)
  OBVIOUS
<1>6. /\ Lined(d, e) /\ desc[d].q[e] \in Seq(S) /\ b \in Seq(S) /\ g \in Seq(S) /\ o \in S
      /\ desc[d].q[e] = <<o>> \o b /\ Dropped(d, e) = <<>>
  <2>1. Lined(d, e)
    BY DEF LineInv
  <2>2. Coming(d, e) \in Seq(DirOps(d, e)) /\ desc[d].q[e] \in Seq(DirOps(d, e)) /\ Dropped(d, e) = <<>>
    BY <1>1, <2>1, WaitsType DEF Lined
  <2>3. \A q \in Seq(S) : q # <<>> => Head(q) \in S /\ Tail(q) \in Seq(S) /\ q = <<Head(q)>> \o Tail(q)
    OBVIOUS
  <2> QED BY <1>5, <2>1, <2>2, <2>3
<1>7. LineInv'
  <2>1. ASSUME NEW x \in Desc, NEW f \in Ev, x # d \/ f # e PROVE Lined(x, f)'
    <3>1. Lined(x, f) /\ desc'[x].q[f] = desc[x].q[f] /\ (desc[x].st = "freed" => desc'[x].st = "freed")
      BY <2>1 DEF LineInv
    <3> QED BY <1>4, <3>1, LineKeep
  <2>2. Lined(d, e)'
    <3>1. desc'[d].q[e] \in Seq(DirOps(d, e)')
      BY <1>4, <1>5, <1>6
    <3> QED BY <1>4, <1>6, <3>1 DEF Lined
  <2> QED BY <2>1, <2>2 DEF LineInv
<1>8. Waits(d, e) = <<o>> \o (b \o g) /\ Waits(d, e)' = b \o g /\ b \o g \in Seq(S)
  <2>1. Waits(d, e) = (<<>> \o (<<o>> \o b)) \o g /\ Waits(d, e)' = (<<>> \o b) \o g
    BY <1>4, <1>5, <1>6 DEF Waits
  <2>2. <<o>> \in Seq(S)
    BY ONLY <1>6
  <2>3. PICK u \in Seq(S) : u = <<o>>
    BY ONLY <2>2, Zenon
  <2>4. b \in Seq(S) /\ g \in Seq(S) /\ b \o g \in Seq(S) /\ u \o b \in Seq(S)
    <3>1. \A p, q \in Seq(S) : p \o q \in Seq(S)
      OBVIOUS
    <3> QED BY ONLY <1>6, u \in Seq(S), <3>1
  <2>5. (u \o b) \o g = u \o (b \o g)
    <3>1. Cat(Cat(u, b), g) = Cat(u, Cat(b, g))
      BY ONLY <2>4, u \in Seq(S), CatAssoc
    <3> QED BY ONLY <3>1 DEF Cat
  <2>6. \A q \in Seq(S) : <<>> \o q = q
    OBVIOUS
  <2>7. <<>> \o (u \o b) = u \o b /\ <<>> \o b = b
    BY ONLY <2>4, <2>6
  <2> QED BY ONLY <2>1, <2>3, <2>4, <2>5, <2>7
<1>9. \A x \in Desc, f \in Ev : x # d \/ f # e => Waits(x, f)' = Waits(x, f)
  BY <1>4 DEF Waits
<1>10. PICK w : w = b \o g
  OBVIOUS
<1>11. w \in Seq(S) /\ o \in S /\ Waits(d, e) = <<o>> \o w /\ Waits(d, e)' = w
  BY <1>6, <1>8, <1>10
<1>12. \A p \in Op : p # o => op'[p].calls = op[p].calls
  BY <1>3
<1>13. Promise!Finish(d, e)
  BY ONLY <1>1, <1>3, <1>9, <1>11, <1>12, d \in Desc, e \in Ev, KeepsFinish
<1> QED BY ONLY <1>7, <1>13

\* The first operation of a queue is done.
LEMMA KeepsDone ==
  ASSUME MuxInv, LineInv, NEW e \in Ev, dispatch_done(e)
  PROVE  LineInv' /\ Keeps
<1>0. PICK d, o, r : d = cur.desc /\ o = Head(desc[d].q[e]) /\ r = post_proc(o, d).err
  OBVIOUS
<1>1. /\ lpc = "dispatch" /\ desc[d].q[e] # <<>> /\ op' = [op EXCEPT ![o].err = r, ![o].calls = @ + 1]
      /\ desc' = [desc EXCEPT ![d].q[e] = Tail(@)]
      /\ UNCHANGED <<opq, ops, handle>>
  BY <1>0 DEF dispatch_done, Dispatching, Finished, FrontOp, Pop, queueVars
<1>2. d \in Desc /\ desc \in [Desc -> DescType] /\ Work' = Work
  BY <1>0, <1>1, AtPlace DEF MuxInv, MuxTypes, Work
<1>3. /\ \A x \in Desc : desc'[x].st = desc[x].st
      /\ desc'[d].q[e] = Tail(desc[d].q[e])
      /\ \A x \in Desc, f \in Ev : x # d \/ f # e => desc'[x].q[f] = desc[x].q[f]
  <2>1. desc[d].q \in [Ev -> Seq(Op)]
    <3>1. desc[d] \in DescType
      BY <1>2
    <3> QED BY <3>1, QueuedNat DEF QType
  <2>2. PICK w : w = Tail(desc[d].q[e])
    OBVIOUS
  <2>3. desc' = [desc EXCEPT ![d].q[e] = w]
    BY <1>1, <2>2
  <2>4. /\ \A x \in Desc : desc'[x].st = desc[x].st
        /\ desc'[d].q[e] = w
        /\ \A x \in Desc, f \in Ev : x # d \/ f # e => desc'[x].q[f] = desc[x].q[f]
    BY ONLY <1>2, <2>1, <2>3, e \in Ev DEF DescType
  <2> QED BY <2>2, <2>4
<1>4. LineInv' /\ Promise!Finish(d, e)
  BY <1>0, <1>1, <1>2, <1>3, FinishFront
<1>5. Status' = Status
  BY <1>1, <1>3, StatusKeep
<1> QED BY <1>2, <1>4, <1>5 DEF Keeps, Promise!Next

\* A connection is accepted: the accept is the first that waited, and the new
\* descriptor is open before its handler runs.
LEMMA KeepsAccepted ==
  ASSUME MuxInv, LineInv, NEW c \in Desc, NEW b \in {<<>>, <<BindC(c)>>}, dispatch_accepted(c, b)
  PROVE  LineInv' /\ Keeps
<1>0. PICK e, d, o, y, r, s, u : /\ e = "read" /\ d = cur.desc /\ o = Head(desc[d].q[e]) /\ r = post_proc(o, d).err
                                 /\ y = [desc[d] EXCEPT !.q[e] = Tail(@)] /\ s = op[o].to
                                 /\ u = [NoDesc EXCEPT !.st = "live", !.fd = TRUE, !.ref = 1]
  OBVIOUS
<1>1. /\ lpc = "dispatch" /\ desc[d].q[e] # <<>> /\ c \in NewDesc /\ op[o].kind = "accept"
      /\ op' = [op EXCEPT ![o].err = r, ![o].calls = @ + 1]
      /\ desc' = [[desc EXCEPT ![d].q[e] = Tail(@)] EXCEPT ![c] = u] /\ handle' = [handle EXCEPT ![s] = c]
      /\ opq' = opq \o b /\ ops' = ops
  BY <1>0 DEF dispatch_accepted, Dispatching, Finished, FrontOp, Pop
<1>2. /\ d \in Desc /\ MuxTypes /\ desc \in [Desc -> DescType] /\ handle \in [Sock -> Desc \cup {Null}]
  BY <1>0, <1>1, AtPlace DEF MuxInv, MuxTypes
<1>e. e \in Ev
  BY <1>0 DEF Ev
<1>3. desc[d].st = "live" /\ o \in Op /\ op[o].calls = 0 /\ y \in DescType /\ y.st = desc[d].st
  <2>1. desc[d].q[e] # <<>> /\ o = Head(desc[d].q[e]) /\ y = [desc[d] EXCEPT !.q[e] = Tail(@)] /\ MuxInv
    BY <1>0, <1>1
  <2> QED BY ONLY <1>2, <1>e, <2>1, FrontPlace
<1>4. desc[c].st = "new" /\ Gone(c) /\ c # d
  BY <1>1, <1>3, NewGone
<1>5. s \in Sock /\ handle[s] = Null
  <2>1. Targets /\ Accepting(o)
    BY <1>1, <1>3 DEF MuxInv, OpInv, Accepting
  <2> QED BY <1>0, <1>3, <2>1 DEF Targets
<1>6. u \in DescType /\ u.st = "live" /\ u.q["read"] = <<>> /\ u.q["write"] = <<>>
  <2>1. NoQ \in QType /\ NoQ["read"] = <<>> /\ NoQ["write"] = <<>>
    BY DEF NoQ, QType, Ev
  <2>2. u = [st |-> "live", fd |-> TRUE, ref |-> 1, q |-> NoQ]
    BY <1>0 DEF NoDesc
  <2> QED BY ONLY <2>1, <2>2 DEF DescType
<1>7. desc'[d] = y /\ desc'[c] = u /\ \A x \in Desc : x # d /\ x # c => desc'[x] = desc[x]
  <2>1. [desc EXCEPT ![d].q[e] = Tail(@)] = [desc EXCEPT ![d] = y]
    BY <1>0, <1>2
  <2>2. desc' = [[desc EXCEPT ![d] = y] EXCEPT ![c] = u]
    BY <1>1, <2>1
  <2> QED BY ONLY <1>2, <1>3, <1>4, <1>6, <2>2
<1>8. y.q[e] = Tail(desc[d].q[e]) /\ \A f \in Ev : f # e => y.q[f] = desc[d].q[f]
  <2>1. desc[d] \in DescType /\ desc[d].q \in [Ev -> Seq(Op)]
    <3>1. desc[d] \in DescType
      BY <1>2
    <3> QED BY <3>1, QueuedNat DEF QType
  <2>2. PICK x \in DescType : x = desc[d] /\ x.q \in [Ev -> Seq(Op)]
    BY <2>1
  <2>3. PICK w : w = Tail(x.q[e])
    OBVIOUS
  <2>4. y = [x EXCEPT !.q[e] = w]
    BY <1>0, <2>2, <2>3
  <2>5. y.q[e] = w /\ \A f \in Ev : f # e => y.q[f] = x.q[f]
    BY ONLY <1>e, <2>2, <2>4 DEF DescType
  <2> QED BY <2>2, <2>3, <2>5
<1>9. /\ desc'[d].st = desc[d].st /\ desc'[d].q[e] = Tail(desc[d].q[e])
      /\ \A x \in Desc, f \in Ev : x # d \/ f # e => desc'[x].q[f] = desc[x].q[f]
      /\ \A x \in Desc : desc[x].st = "freed" => desc'[x].st = "freed"
  <2>1. \A f \in Ev : u.q[f] = <<>> /\ desc[c].q[f] = <<>>
    BY <1>4, <1>6 DEF Gone, Ev
  <2>2. desc[c].st # "freed" /\ desc[d].st # "freed"
    BY <1>3, <1>4
  <2> QED BY <1>3, <1>7, <1>8, <2>1, <2>2
<1>10. BindPosts(Work, Work', c) /\ Work \in Seq(Closure)
  BY <1>1, <1>2, PostsBind, WorkType
<1>11. \A O : \A j \in {"run", "dispatch"} : Carried(Work', j, O) = Carried(Work, j, O)
  BY <1>10, CarriedBind
<1>12. LineInv' /\ Promise!Finish(d, e)
  <2>1. o = Head(desc[d].q[e]) /\ desc[d].q[e] # <<>> /\ op' = [op EXCEPT ![o].err = r, ![o].calls = @ + 1]
    BY <1>0, <1>1
  <2> QED BY ONLY <1>2, <1>e, <1>9, <1>11, <2>1, MuxInv, LineInv, FinishFront
<1>13. Status[c] = "none" /\ Status' = [Status EXCEPT ![c] = "open"]
  <2>1. handle'[s] = c /\ \A x \in Sock : x # s => handle'[x] = handle[x]
    BY <1>1, <1>2, <1>5
  <2>2. desc'[c].st = "live" /\ \A x \in Desc : x # c => desc'[x].st = desc[x].st
    BY <1>3, <1>6, <1>7
  <2> QED BY <1>4, <1>5, <2>1, <2>2, StatusOpen
<1>14. Promise!Next
  BY ONLY <1>2, <1>e, <1>12, <1>13, c \in Desc DEF Promise!Next
<1> QED BY <1>12, <1>14 DEF Keeps

-----------------------------------------------------------------------------
(* A descriptor is deleted, as the promise sees it. *)

\* The closures of the operations that release() aborts.
LEMMA AbortsAre ==
  ASSUME NEW a \in Seq(Op)
  PROVE  /\ Aborts(a) \in Seq(Closure) /\ Len(Aborts(a)) = Len(a)
         /\ \A i \in 1..Len(a) : Aborts(a)[i].k = "run" /\ Aborts(a)[i].op = a[i]
<1> DEFINE n == Len(a)
<1>1. n \in Nat /\ DOMAIN a = 1..n /\ \A i \in 1..n : a[i] \in Op
  OBVIOUS
<1>2. \A i \in 1..n : RunC(a[i]) \in Closure /\ RunC(a[i]).k = "run" /\ RunC(a[i]).op = a[i]
  BY <1>1, ClosureType
<1>3. Aborts(a) = [i \in 1..n |-> RunC(a[i])]
  BY <1>1 DEF Aborts
<1> HIDE DEF n
<1>4. Aborts(a) \in Seq(Closure) /\ Len(Aborts(a)) = n
  BY <1>1, <1>2, <1>3
<1> QED BY <1>2, <1>3, <1>4 DEF n

\* They carry the aborted operations, in their order.
LEMMA CarriedAborts ==
  ASSUME NEW a \in Seq(Op), NEW b \in Seq(Op), NEW O
  PROVE  /\ a \in Seq(O) /\ (\A i \in 1..Len(b) : b[i] \notin O) => Carried(Aborts(a \o b), "run", O) = a
         /\ b \in Seq(O) /\ (\A i \in 1..Len(a) : a[i] \notin O) => Carried(Aborts(a \o b), "run", O) = b
         /\ (\A i \in 1..Len(a) : a[i] \notin O) /\ (\A i \in 1..Len(b) : b[i] \notin O)
              => Carried(Aborts(a \o b), "run", O) = <<>>
         /\ Carried(Aborts(a \o b), "dispatch", O) = <<>>
<1> DEFINE n == Len(a)
           m == Len(b)
           u == Aborts(a)
           v == Aborts(b)
<1>1. /\ u \in Seq(Closure) /\ Len(u) = n /\ \A i \in 1..n : u[i].k = "run" /\ u[i].op = a[i]
      /\ v \in Seq(Closure) /\ Len(v) = m /\ \A i \in 1..m : v[i].k = "run" /\ v[i].op = b[i]
  BY AbortsAre
<1>2. Aborts(a \o b) = u \o v
  <2>1. a \o b \in Seq(Op) /\ Len(a \o b) = n + m /\ n \in Nat /\ m \in Nat /\ DOMAIN (a \o b) = 1..(n + m)
    OBVIOUS
  <2>2. \A i \in 1..(n + m) : (a \o b)[i] = IF i <= n THEN a[i] ELSE b[i - n]
    OBVIOUS
  <2>3. DOMAIN a = 1..n /\ DOMAIN b = 1..m
    OBVIOUS
  <2>4. u = [i \in 1..n |-> RunC(a[i])] /\ v = [i \in 1..m |-> RunC(b[i])]
    BY <2>3 DEF Aborts
  <2>5. Aborts(a \o b) = [i \in 1..(n + m) |-> RunC((a \o b)[i])]
    BY <2>1 DEF Aborts
  <2>6. \A i \in 1..(n + m) : (u \o v)[i] = IF i <= n THEN u[i] ELSE v[i - n]
    <3>1. \A p, q \in Seq(Closure) : \A i \in 1..(Len(p) + Len(q)) :
             (p \o q)[i] = IF i <= Len(p) THEN p[i] ELSE q[i - Len(p)]
      OBVIOUS
    <3> HIDE DEF u, v, n, m
    <3> QED BY ONLY <1>1, <3>1
  <2>7. u \o v \in Seq(Closure) /\ Len(u \o v) = n + m
    <3>1. ASSUME NEW p \in Seq(Closure), NEW q \in Seq(Closure)
          PROVE  p \o q \in Seq(Closure) /\ Len(p \o q) = Len(p) + Len(q)
      BY ONLY <3>1
    <3> HIDE DEF u, v, n, m
    <3> QED BY ONLY <1>1, <3>1
  <2>8. Aborts(a \o b) \in Seq(Closure) /\ Len(Aborts(a \o b)) = n + m
    BY <2>1, AbortsAre
  <2>9. ASSUME NEW i \in 1..(n + m) PROVE Aborts(a \o b)[i] = (u \o v)[i]
    <3> HIDE DEF u, v, n, m
    <3>1. CASE i <= n
      BY <2>1, <2>2, <2>4, <2>5, <2>6, <3>1
    <3>2. CASE ~(i <= n)
      <4>1. i - n \in 1..m
        BY <2>1, <3>2
      <4> QED BY <2>1, <2>2, <2>4, <2>5, <2>6, <3>2, <4>1
    <3> QED BY <3>1, <3>2
  <2> HIDE DEF u, v, n, m
  <2> QED BY <2>7, <2>8, <2>9, SeqEqual
<1> HIDE DEF n, m, u, v
<1>3. \A k : Carried(u \o v, k, O) = Carried(u, k, O) \o Carried(v, k, O)
  BY <1>1, CarriedConcat
<1>4. /\ a \in Seq(O) => Carried(u, "run", O) = a
      /\ b \in Seq(O) => Carried(v, "run", O) = b
  BY <1>1, CarriedAll DEF n, m
<1>5. /\ (\A i \in 1..n : a[i] \notin O) => Carried(u, "run", O) = <<>>
      /\ (\A i \in 1..m : b[i] \notin O) => Carried(v, "run", O) = <<>>
  BY <1>1, CarriedEmpty
<1>6. Carried(u, "dispatch", O) = <<>> /\ Carried(v, "dispatch", O) = <<>>
  <2>1. (\A i \in 1..Len(u) : u[i].k # "dispatch") /\ (\A i \in 1..Len(v) : v[i].k # "dispatch")
    BY <1>1
  <2> QED BY <1>1, <2>1, CarriedEmpty
<1>7. a \o <<>> = a /\ <<>> \o b = b /\ <<>> \o <<>> = <<>>
  OBVIOUS
<1> QED BY <1>2, <1>3, <1>4, <1>5, <1>6, <1>7 DEF n, m

\* The closure of unbind runs: what waits in the deleted descriptor is dropped,
\* and still waits to be answered, in the same order.
LEMMA KeepsRunUnbind ==
  ASSUME MuxInv, LineInv, op_run_unbind
  PROVE  LineInv' /\ Keeps
<1>0. PICK c, d, a, b, z, y, v, r : /\ c = Head(ops) /\ d = c.desc /\ y = [NoDesc EXCEPT !.st = "freed"]
                                    /\ a = desc[d].q["read"] /\ b = desc[d].q["write"] /\ z = Orphans(d)
                                    /\ v = Tail(Work) /\ r = Aborts(z)
  OBVIOUS
<1>z. z = a \o b
  BY <1>0 DEF Orphans
<1>1. /\ lpc = "drain" /\ ops # <<>> /\ c.k = "unbind" /\ ops' = Tail(ops) /\ UNCHANGED handle
      /\ release([desc EXCEPT ![d].fd = FALSE], d, 1)
  BY <1>0 DEF op_run_unbind, Next_op
<1>2. d \in Desc /\ desc[d].st = "live" /\ desc[d].ref = 1 /\ Left(Work, v, c)
  BY <1>0, <1>1, LastReference
<1>3. MuxTypes /\ desc \in [Desc -> DescType] /\ desc[d] \in DescType /\ op \in [Op -> OpType]
  BY <1>2 DEF MuxInv, MuxTypes
<1>4. /\ desc' = [desc EXCEPT ![d] = y] /\ opq' = opq \o r
      /\ op' = [o \in Op |-> IF \E i \in DOMAIN z : z[i] = o THEN [op[o] EXCEPT !.err = "aborted"] ELSE op[o]]
  <2>1. [[desc EXCEPT ![d].fd = FALSE] EXCEPT ![d] = y] = [desc EXCEPT ![d] = y]
    BY <1>2, <1>3
  <2> QED BY <1>0, <1>1, <1>2, <2>1 DEF release, Aborts
<1>5. \A p \in Op : op'[p].kind = op[p].kind /\ op'[p].desc = op[p].desc /\ op'[p].calls = op[p].calls
  BY <1>3, <1>4 DEF OpType
<1>6. y.st = "freed" /\ \A f \in Ev : y.q[f] = <<>>
  <2>1. NoQ["read"] = <<>> /\ NoQ["write"] = <<>>
    BY DEF NoQ, Ev
  <2>2. y = [st |-> "freed", fd |-> FALSE, ref |-> 0, q |-> NoQ]
    BY <1>0 DEF NoDesc
  <2>3. y.st = "freed" /\ y.q = NoQ
    BY <2>2
  <2> QED BY <2>1, <2>3 DEF Ev
<1>7. desc'[d] = y /\ \A x \in Desc : x # d => desc'[x] = desc[x]
  BY ONLY <1>2, <1>3, <1>4
<1>8. a \in Seq(Op) /\ b \in Seq(Op) /\ a \in Seq(DirOps(d, "read")) /\ b \in Seq(DirOps(d, "write"))
  <2>1. desc[d].q["read"] \in Seq(Op) /\ desc[d].q["write"] \in Seq(Op)
    BY <1>3, QueuedNat
  <2> QED BY <1>0, <1>2, <2>1 DEF LineInv, Lined, Ev
<1>9. /\ Work \in Seq(Closure) /\ Work # <<>> /\ Head(Work) = c /\ v \in Seq(Closure)
      /\ r \in Seq(Closure) /\ Work' = v \o r
  <2>1. z \in Seq(Op)
    <3>1. \A p, q \in Seq(Op) : p \o q \in Seq(Op)
      OBVIOUS
    <3> QED BY ONLY <1>z, <1>8, <3>1
  <2>2. r \in Seq(Closure)
    BY <1>0, <2>1, AbortsAre
  <2>3. /\ Work \in Seq(Closure) /\ Work # <<>> /\ Head(Work) = c /\ Work' = v \o r
    BY <1>0, <1>1, <1>3, <1>4, <2>2, Takes, WorkType
  <2> QED BY <1>2, <2>2, <2>3 DEF Left
<1>10. \A x, f : DirOps(x, f)' = DirOps(x, f)
  BY <1>5, DirKeep
<1>11. \A j \in {"run", "dispatch"} : \A x, f :
         ClosureOps(j, x, f)' = ClosureOps(j, x, f) \o Carried(r, j, DirOps(x, f))
  <2> SUFFICES ASSUME NEW j \in {"run", "dispatch"}, NEW x, NEW f
               PROVE  ClosureOps(j, x, f)' = ClosureOps(j, x, f) \o Carried(r, j, DirOps(x, f))
    OBVIOUS
  <2>1. PICK O : O = DirOps(x, f)
    OBVIOUS
  <2>2. ClosureOps(j, x, f) = Carried(Work, j, O) /\ ClosureOps(j, x, f)' = Carried(v \o r, j, O)
    BY <1>9, <1>10, <2>1 DEF ClosureOps, Work
  <2>3. Carried(v \o r, j, O) = Carried(v, j, O) \o Carried(r, j, O)
    BY <1>9, CarriedConcat
  <2>4. Carried(Work, j, O) = (IF Head(Work).k = j /\ Head(Work).op \in O THEN <<Head(Work).op>> ELSE <<>>)
                                \o Carried(Tail(Work), j, O)
    BY <1>9, CarriedTail
  <2>5. Head(Work).k # j
    BY <1>1, <1>9
  <2>6. Carried(v, j, O) \in Seq(O)
    BY <1>9, CarriedType
  <2>7. \A q \in Seq(O) : <<>> \o q = q
    OBVIOUS
  <2>8. Carried(Work, j, O) = Carried(v, j, O)
    BY <1>0, <2>4, <2>5, <2>6, <2>7
  <2> QED BY <2>1, <2>2, <2>3, <2>8
<1>12. /\ \A x \in Desc, f \in Ev : x # d => Carried(r, "run", DirOps(x, f)) = <<>>
       /\ Carried(r, "run", DirOps(d, "read")) = a /\ Carried(r, "run", DirOps(d, "write")) = b
       /\ \A O : Carried(r, "dispatch", O) = <<>>
  <2>1. \A i \in 1..Len(a) : a[i] \in DirOps(d, "read")
    BY <1>8
  <2>2. \A i \in 1..Len(b) : b[i] \in DirOps(d, "write")
    BY <1>8
  <2>3. \A o : /\ o \in DirOps(d, "read") => o \notin DirOps(d, "write")
               /\ \A x, f : x # d /\ o \in DirOps(d, f) => \A g : o \notin DirOps(x, g)
    BY DEF DirOps
  <2>4. r = Aborts(a \o b)
    BY <1>0, <1>z
  <2>5. ASSUME NEW x \in Desc, NEW f \in Ev, x # d PROVE Carried(r, "run", DirOps(x, f)) = <<>>
    <3>1. PICK O : O = DirOps(x, f)
      OBVIOUS
    <3>2. (\A i \in 1..Len(a) : a[i] \notin O) /\ (\A i \in 1..Len(b) : b[i] \notin O)
      BY <2>1, <2>2, <2>3, <2>5, <3>1
    <3> QED BY <1>8, <2>4, <3>1, <3>2, CarriedAborts
  <2>6. Carried(r, "run", DirOps(d, "read")) = a
    <3>1. \A i \in 1..Len(b) : b[i] \notin DirOps(d, "read")
      BY <2>2, <2>3
    <3> QED BY <1>8, <2>4, <3>1, CarriedAborts
  <2>7. Carried(r, "run", DirOps(d, "write")) = b
    <3>1. \A i \in 1..Len(a) : a[i] \notin DirOps(d, "write")
      BY <2>1, <2>3
    <3> QED BY <1>8, <2>4, <3>1, CarriedAborts
  <2>8. \A O : Carried(r, "dispatch", O) = <<>>
    BY <1>8, <2>4, CarriedAborts
  <2> QED BY <2>5, <2>6, <2>7, <2>8
<1>13. \A x \in Desc, f \in Ev : /\ Coming(x, f)' = Coming(x, f)
                                 /\ x # d => Dropped(x, f)' = Dropped(x, f)
                                 /\ Dropped(d, f) = <<>> /\ Dropped(d, f)' = desc[d].q[f]
  <2> SUFFICES ASSUME NEW x \in Desc, NEW f \in Ev
               PROVE  /\ Coming(x, f)' = Coming(x, f)
                      /\ x # d => Dropped(x, f)' = Dropped(x, f)
                      /\ Dropped(d, f) = <<>> /\ Dropped(d, f)' = desc[d].q[f]
    OBVIOUS
  <2>1. \A S : \A q \in Seq(S) : q \o <<>> = q /\ <<>> \o q = q
    OBVIOUS
  <2>2. Coming(x, f) \in Seq(DirOps(x, f)) /\ Dropped(x, f) \in Seq(DirOps(x, f))
    BY <1>3, CarriedOps DEF Coming, Dropped
  <2>3. Coming(x, f)' = Coming(x, f) \o <<>>
    BY <1>11, <1>12 DEF Coming
  <2>4. x # d => Dropped(x, f)' = Dropped(x, f) \o <<>>
    BY <1>11, <1>12 DEF Dropped
  <2>5. Dropped(d, f) = <<>>
    BY <1>2 DEF LineInv, Lined
  <2>6. Dropped(d, f)' = Dropped(d, f) \o desc[d].q[f] /\ desc[d].q[f] \in Seq(DirOps(d, f))
    <3>1. f = "read" \/ f = "write"
      BY DEF Ev
    <3>2. Carried(r, "run", DirOps(d, f)) = desc[d].q[f] /\ desc[d].q[f] \in Seq(DirOps(d, f))
      BY <1>0, <1>8, <1>12, <3>1
    <3>3. Dropped(d, f)' = Dropped(d, f) \o Carried(r, "run", DirOps(d, f))
      BY <1>11 DEF Dropped
    <3> QED BY <3>2, <3>3
  <2>7. Coming(x, f) \o <<>> = Coming(x, f) /\ Dropped(x, f) \o <<>> = Dropped(x, f)
    BY ONLY <2>1, <2>2
  <2>8. <<>> \o desc[d].q[f] = desc[d].q[f]
    BY ONLY <2>1, <2>6
  <2> QED BY ONLY <2>3, <2>4, <2>5, <2>6, <2>7, <2>8
<1>14. LineInv'
  <2>1. ASSUME NEW x \in Desc, NEW f \in Ev, x # d PROVE Lined(x, f)'
    <3>1. Lined(x, f) /\ desc'[x] = desc[x] /\ Dropped(x, f)' = Dropped(x, f)
      BY <1>7, <1>13, <2>1 DEF LineInv
    <3> QED BY <1>10, <3>1, LineKeep
  <2>2. ASSUME NEW f \in Ev PROVE Lined(d, f)'
    <3>1. desc'[d].q[f] = <<>> /\ desc'[d].st = "freed"
      BY <1>6, <1>7
    <3>2. \A S : <<>> \in Seq(S)
      OBVIOUS
    <3> QED BY <3>1, <3>2 DEF Lined
  <2> QED BY <2>1, <2>2 DEF LineInv
<1>15. Pending' = Pending
  <2>1. ASSUME NEW x \in Desc, NEW f \in Ev, x # d PROVE Waits(x, f)' = Waits(x, f)
    <3>1. desc'[x].q[f] = desc[x].q[f] /\ Dropped(x, f)' = Dropped(x, f) /\ Coming(x, f)' = Coming(x, f)
      BY <1>7, <1>13, <2>1
    <3> QED BY <3>1 DEF Waits
  <2>2. ASSUME NEW f \in Ev PROVE Waits(d, f)' = Waits(d, f)
    <3>1. PICK q, g : q = desc[d].q[f] /\ g = Coming(d, f)
      OBVIOUS
    <3>2. Waits(d, f) = (<<>> \o q) \o g /\ Waits(d, f)' = (q \o <<>>) \o g
      BY <1>2, <1>6, <1>7, <1>13, <3>1 DEF Waits
    <3>3. q \in Seq(DirOps(d, f))
      BY <1>2, <3>1 DEF LineInv, Lined
    <3>4. <<>> \o q = q /\ q \o <<>> = q
      BY ONLY <3>3
    <3> QED BY ONLY <3>2, <3>4
  <2>3. \A x \in Desc, f \in Ev : Waits(x, f)' = Waits(x, f)
    BY <2>1, <2>2
  <2> QED BY <2>3, PendingKeep
<1>16. Status' = Status
  <2>1. \A x \in Desc : desc'[x].st = "new" <=> desc[x].st = "new"
    BY <1>2, <1>6, <1>7
  <2> QED BY <1>1, <2>1, StatusKeep
<1>17. Calls' = Calls
  BY <1>5, CallsKeep
<1> QED BY <1>14, <1>15, <1>16, <1>17 DEF Keeps

-----------------------------------------------------------------------------
(* The three multiplexers keep the promise. *)

\* Steps that move neither an operation nor a descriptor: the wait, an event,
\* the next direction, a change of the kernel's or of a list for it.
LEMMA KeepsQuiet ==
  ASSUME MuxInv, LineInv, UNCHANGED <<opq, ops, handle, desc, op>>
  PROVE  LineInv' /\ Keeps
BY KeepsStill DEF Work

\* The steps and calls that poll, kqueue and select share.
LEMMA KeepsShared ==
  ASSUME MuxInv, LineInv
  PROVE  /\ PlainStep \/ KernelStep \/ dispatch_end \/ op_run_unbind => LineInv' /\ Keeps
         /\ \A back \in {"wait", "change"} : run_take(back) \/ run_drained(back) => LineInv' /\ Keeps
         /\ \A r : wait(r) => LineInv' /\ Keeps
         /\ \A d, dirs : run_event(d, dirs) => LineInv' /\ Keeps
         /\ PlainCall => LineInv' /\ Keeps
         /\ \A c \in NewDesc : /\ BindingCall(c, <<>>) \/ BindingCall(c, <<BindC(c)>>) => LineInv' /\ Keeps
                               /\ dispatch_accepted(c, <<>>) \/ dispatch_accepted(c, <<BindC(c)>>) => LineInv' /\ Keeps
<1> DEFINE Goal == LineInv' /\ Keeps
<1>1. ASSUME NEW e, dispatch_next(e) PROVE Goal
  BY <1>1, KeepsQuiet DEF dispatch_next, queueVars
<1>2. ASSUME PlainStep PROVE Goal
  BY <1>1, <1>2, KeepsHandler, KeepsEnqueue, KeepsDone DEF PlainStep
<1>3. ASSUME KernelStep PROVE Goal
  <2>1. PICK d \in Desc : connected(d) \/ arrive(d) \/ drain_tx(d) \/ peer_down(d)
    BY <1>3 DEF KernelStep
  <2>2. UNCHANGED <<opq, ops, handle, desc, op>>
    BY <2>1 DEF connected, arrive, drain_tx, peer_down, Kernel, queueVars
  <2> QED BY <2>2, KeepsQuiet
<1>4. ASSUME dispatch_end PROVE Goal
  <2>1. handle' = handle
    BY <1>4 DEF dispatch_end
  <2>2. Work' = Work /\ op' = op /\ \A x \in Desc : desc'[x].st = desc[x].st /\ desc'[x].q = desc[x].q
    BY <1>4, StepEnd
  <2> QED BY <2>1, <2>2, KeepsStill
<1>5. ASSUME op_run_unbind PROVE Goal
  BY <1>5, KeepsRunUnbind
<1>6. ASSUME NEW back \in {"wait", "change"}, run_take(back) \/ run_drained(back) PROVE Goal
  <2>1. UNCHANGED <<handle, desc, op>>
    BY <1>6 DEF run_take, run_drained
  <2>2. Work' = Work
    BY <1>6, StepTake
  <2> QED BY <2>1, <2>2, KeepsStill
<1>7. ASSUME NEW r, wait(r) PROVE Goal
  BY <1>7, KeepsQuiet DEF wait, queueVars
<1>8. ASSUME NEW d, NEW dirs, run_event(d, dirs) PROVE Goal
  BY <1>8, KeepsQuiet DEF run_event, queueVars
<1>9. ASSUME PlainCall PROVE Goal
  BY <1>9, KeepsCalls
<1>10. ASSUME NEW c \in NewDesc, NEW b \in {<<>>, <<BindC(c)>>} PROVE BindingCall(c, b) \/ dispatch_accepted(c, b) => Goal
  <2>1. c \in Desc
    BY DEF NewDesc
  <2> QED BY <1>10, <2>1, KeepsCalls, KeepsAccepted
<1>11. \A c \in NewDesc : /\ BindingCall(c, <<>>) \/ BindingCall(c, <<BindC(c)>>) => Goal
                          /\ dispatch_accepted(c, <<>>) \/ dispatch_accepted(c, <<BindC(c)>>) => Goal
  <2> HIDE DEF Goal
  <2> QED BY <1>10
<1> QED BY <1>2, <1>3, <1>4, <1>5, <1>6, <1>7, <1>8, <1>9, <1>11

\* poll.
LEMMA KeepsPoll ==
  ASSUME MuxInv, LineInv, PollNext
  PROVE  LineInv' /\ Keeps
<1> DEFINE Goal == LineInv' /\ Keeps
<1>1. ASSUME PollCall PROVE Goal
  BY <1>1, KeepsShared DEF PollCall, poll_bind
<1>2. ASSUME poll_run PROVE Goal
  <2>1. PICK r : wait(r)
    BY <1>2 DEF poll_run
  <2> QED BY <2>1, KeepsShared
<1>3. ASSUME NEW d, poll_event(d) PROVE Goal
  <2>1. PICK dirs : run_event(d, dirs)
    BY <1>3 DEF poll_event
  <2> QED BY <2>1, KeepsShared
<1>4. ASSUME poll_take \/ poll_drained PROVE Goal
  <2>1. PICK back \in {"wait", "change"} : back = "wait"
    OBVIOUS
  <2>2. run_take(back) \/ run_drained(back)
    BY <1>4, <2>1 DEF poll_take, poll_drained
  <2> QED BY <2>2, KeepsShared
<1>5. ASSUME poll_op_bind PROVE Goal
  BY <1>5, KeepsRunBind DEF poll_op_bind
<1>6. ASSUME poll_unbind PROVE Goal
  BY <1>6, KeepsShared DEF poll_unbind
<1>7. ASSUME poll_accepted PROVE Goal
  BY <1>7, KeepsShared DEF poll_accepted, poll_bind
<1>8. ASSUME poll_dispatch_end PROVE Goal
  BY <1>8, KeepsShared DEF poll_dispatch_end
<1>9. ASSUME PlainStep \/ KernelStep PROVE Goal
  BY <1>9, KeepsShared
<1> HIDE DEF Goal
<1>10. Goal
  BY <1>1, <1>2, <1>3, <1>4, <1>5, <1>6, <1>7, <1>8, <1>9 DEF PollNext, PollStep
<1> QED BY <1>10 DEF Goal

\* kqueue.
LEMMA KeepsKqueue ==
  ASSUME MuxInv, LineInv, KqNext
  PROVE  LineInv' /\ Keeps
<1> DEFINE Goal == LineInv' /\ Keeps
<1>1. ASSUME KqCall PROVE Goal
  BY <1>1, KeepsShared DEF KqCall
<1>2. ASSUME kq_run PROVE Goal
  <2>1. PICK r : wait(r)
    BY <1>2 DEF kq_run
  <2> QED BY <2>1, KeepsShared
<1>3. ASSUME NEW d, NEW e, kq_event(d, e) PROVE Goal
  <2>1. PICK dirs : run_event(d, dirs)
    BY <1>3 DEF kq_event
  <2> QED BY <2>1, KeepsShared
<1>4. ASSUME kq_take \/ kq_drained PROVE Goal
  <2>1. PICK back \in {"wait", "change"} : back = "change"
    OBVIOUS
  <2>2. run_take(back) \/ run_drained(back)
    BY <1>4, <2>1 DEF kq_take, kq_drained
  <2> QED BY <2>2, KeepsShared
<1>5. ASSUME run_change \/ kq_timeout PROVE Goal
  <2>1. UNCHANGED <<opq, ops, handle, desc, op>>
    BY <1>5 DEF run_change, kq_timeout, queueVars
  <2> QED BY <2>1, KeepsQuiet
<1>6. ASSUME kq_unbind PROVE Goal
  BY <1>6, KeepsShared DEF kq_unbind
<1>7. ASSUME kq_accepted PROVE Goal
  BY <1>7, KeepsShared DEF kq_accepted
<1>8. ASSUME kq_dispatch_end PROVE Goal
  BY <1>8, KeepsShared DEF kq_dispatch_end
<1>9. ASSUME PlainStep \/ KernelStep PROVE Goal
  BY <1>9, KeepsShared
<1> HIDE DEF Goal
<1>10. Goal
  BY <1>1, <1>2, <1>3, <1>4, <1>5, <1>6, <1>7, <1>8, <1>9 DEF KqNext, KqStep
<1> QED BY <1>10 DEF Goal

\* select.
LEMMA KeepsSelect ==
  ASSUME MuxInv, LineInv, SelNext
  PROVE  LineInv' /\ Keeps
<1> DEFINE Goal == LineInv' /\ Keeps
<1>1. ASSUME SelCall PROVE Goal
  BY <1>1, KeepsShared DEF SelCall, sel_bind
<1>2. ASSUME select_run PROVE Goal
  <2>1. UNCHANGED <<opq, ops, handle, desc, op>>
    BY <1>2 DEF select_run, queueVars
  <2> QED BY <2>1, KeepsQuiet
<1>3. ASSUME NEW d, NEW e, sel_event(d, e) PROVE Goal
  <2>1. PICK dirs : run_event(d, dirs)
    BY <1>3 DEF sel_event
  <2> QED BY <2>1, KeepsShared
<1>4. ASSUME sel_take \/ sel_drained PROVE Goal
  <2>1. PICK back \in {"wait", "change"} : back = "wait"
    OBVIOUS
  <2>2. run_take(back) \/ run_drained(back)
    BY <1>4, <2>1 DEF sel_take, sel_drained
  <2> QED BY <2>2, KeepsShared
<1>5. ASSUME sel_op_bind PROVE Goal
  BY <1>5, KeepsRunBind DEF sel_op_bind
<1>6. ASSUME sel_unbind PROVE Goal
  BY <1>6, KeepsShared DEF sel_unbind
<1>7. ASSUME sel_accepted PROVE Goal
  BY <1>7, KeepsShared DEF sel_accepted, sel_bind
<1>8. ASSUME sel_dispatch_end PROVE Goal
  BY <1>8, KeepsShared DEF sel_dispatch_end
<1>9. ASSUME PlainStep \/ KernelStep PROVE Goal
  BY <1>9, KeepsShared
<1> HIDE DEF Goal
<1>10. Goal
  BY <1>1, <1>2, <1>3, <1>4, <1>5, <1>6, <1>7, <1>8, <1>9 DEF SelNext, SelStep
<1> QED BY <1>10 DEF Goal

\* At first nothing waits, and nothing is open.
LEMMA InitKeeps ==
  ASSUME Init
  PROVE  LineInv /\ Promise!Init
<1>1. MuxInit
  BY DEF Init, PollInit, KqInit, SelInit
<1>2. /\ opq = <<>> /\ ops = <<>> /\ \A d \in Desc : desc[d] = NoDesc
      /\ \A o \in Op : op[o].calls = 0
  BY <1>1 DEF MuxInit
<1>3. ops \o opq = <<>>
  BY <1>2
<1>4. \A k, d, e : ClosureOps(k, d, e) = <<>>
  BY <1>3, CarriedNone DEF ClosureOps
<1>5. \A d \in Desc : desc[d].st = "new" /\ \A e \in Ev : desc[d].q[e] = <<>>
  BY <1>2 DEF NoDesc, NoQ
<1>6. LineInv
  <2>1. \A S : <<>> \in Seq(S)
    OBVIOUS
  <2> QED BY <1>4, <1>5, <2>1 DEF LineInv, Lined, Dropped
<1>7. (<<>> \o <<>>) \o <<>> = <<>>
  OBVIOUS
<1>8. Pending = [d \in Desc |-> [e \in Ev |-> <<>>]]
  <2>1. \A d \in Desc, e \in Ev : (ClosureOps("run", d, e) \o desc[d].q[e]) \o ClosureOps("dispatch", d, e) = <<>>
    BY <1>4, <1>5, <1>7
  <2> QED BY <2>1 DEF Pending
<1>9. Status = [d \in Desc |-> "none"]
  BY <1>5 DEF Status
<1>10. Calls = [o \in Op |-> 0]
  BY <1>2 DEF Calls
<1> QED BY <1>6, <1>8, <1>9, <1>10 DEF Promise!Init

\* A step of the build's multiplexer is one that the promise allows.
LEMMA NextKeeps ==
  ASSUME MuxInv, LineInv, [Next]_vars
  PROVE  LineInv' /\ Keeps
<1>1. CASE UNCHANGED vars
  <2>1. UNCHANGED <<opq, ops, handle, desc, op>>
    BY <1>1 DEF vars, muxVars, queueVars
  <2> QED BY <2>1, KeepsQuiet
<1>2. CASE Next
  BY <1>2, KeepsPoll, KeepsKqueue, KeepsSelect DEF Next
<1> QED BY <1>1, <1>2

\* poll, kqueue and select implement module Completion: every operation is
\* answered in its turn and once, also when its socket is closed or deleted,
\* for any number of sockets, descriptors and operations and any application.
THEOREM PromiseIsKept == Spec => KeepsPromise
<1>1. Init => LineInv /\ Promise!Init
  BY InitKeeps
<1>2. MuxInv /\ LineInv /\ [Next]_vars => LineInv' /\ [Promise!Next]_(Promise!vars)
  BY NextKeeps DEF Keeps, Promise!vars
<1>3. Spec => []MuxInv
  BY MuxInvariant, PTL
<1>4. Spec => []LineInv
  BY <1>1, <1>2, <1>3, PTL DEF Spec
<1> QED BY <1>1, <1>2, <1>3, <1>4, PTL DEF Spec, KeepsPromise, Promise!Spec
=============================================================================
